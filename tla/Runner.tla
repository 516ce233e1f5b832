-------------------------------- MODULE Runner --------------------------------
(***************************************************************************)
(* The lifecycle of the runs of internal/runner/runner.go: registration,   *)
(* the semaphore, the sandbox, the command with its process group, the     *)
(* deferred clean-up, the verdict, eviction and shutdown.                  *)
(*                                                                         *)
(* What the test binary does is the environment's choice; how its output   *)
(* becomes an exit class is the business of the accumulator.               *)
(***************************************************************************)
EXTENDS Integers, FiniteSets

CONSTANTS
  Runs,        \* run ids that may ever be issued
  MaxParallel, \* slots of the semaphore
  Harness      \* faults the harness itself may meet: subset of Faults

Faults == {"workspace", "start", "panic"}

ASSUME RunnerAssumption ==
  /\ IsFiniteSet(Runs)
  /\ MaxParallel \in Nat \ {0}
  /\ Harness \subseteq Faults

VARIABLES
  phase,      \* where the run's goroutine is
  cause,      \* why its context was canceled: "none", "user" or "shutdown"
  hard,       \* the hard deadline passed while the command ran
  exit,       \* how the command ended: an exit class, "killed" or "none"
  fault,      \* a harness fault happened to this run
  verdict,    \* the Outcome execute returned, or "none"
  registered, \* runs in the map r.runs
  stale,      \* finished longer ago than retainFinished
  slots,      \* runs holding a slot of r.sem
  sandboxes,  \* runs whose temporary directory exists
  processes,  \* runs whose command, go test, is alive, and its process group with it
  strays,     \* runs whose command is gone while a process it started lives on
  server      \* "serving", "drained", "canceled" or "down"

control == <<phase, cause, hard, exit, fault, verdict>>
vars == <<phase, cause, hard, exit, fault, verdict, registered, stale, slots, sandboxes,
          processes, strays, server>>

Natural == {"passed", "failed", "build_failed", "timeout"}

Outcomes == {"passed", "failed", "build_failed", "timeout", "canceled", "error"}

Phases == {"new", "registered", "queued", "building", "launching", "running", "exited",
           "returned", "cleaned", "released", "finished"}

\* Mutant: wg.Done is never called.
Counted_NeverDone(r) == phase[r] \notin {"new", "registered"}

\* The run is counted by r.wg.
Counted(r) == phase[r] \notin {"new", "registered", "finished"}

Goto(r, p) == phase' = [phase EXCEPT ![r] = p]

\* execute returns this outcome, leaving the deferred calls to run.
Return(r, outcome, p) ==
  /\ verdict' = [verdict EXCEPT ![r] = outcome]
  /\ Goto(r, p)

Init ==
  /\ phase = [r \in Runs |-> "new"]
  /\ cause = [r \in Runs |-> "none"]
  /\ hard = [r \in Runs |-> FALSE]
  /\ exit = [r \in Runs |-> "none"]
  /\ fault = [r \in Runs |-> FALSE]
  /\ verdict = [r \in Runs |-> "none"]
  /\ registered = {} /\ stale = {}
  /\ slots = {} /\ sandboxes = {} /\ processes = {} /\ strays = {}
  /\ server = "serving"

------------------------------------------------------------------------------
(* The caller's side. *)

\* Mutant: eviction does not ask whether the run has finished long ago.
Register_EvictAll(r) ==
  /\ server = "serving"
  /\ phase[r] = "new"
  /\ registered' = {r}
  /\ Goto(r, "registered")
  /\ UNCHANGED <<cause, hard, exit, fault, verdict, stale, slots, sandboxes, processes, strays, server>>

\* Start, under r.mu: evict what finished long ago, enter the run in the map.
Register(r) ==
  /\ server = "serving"
  /\ phase[r] = "new"
  /\ registered' = (registered \ stale) \cup {r}
  /\ Goto(r, "registered")
  /\ UNCHANGED <<cause, hard, exit, fault, verdict, stale, slots, sandboxes, processes, strays, server>>

\* Start, after the unlock: r.wg.Add(1) and the goroutine.
Spawn(r) ==
  /\ phase[r] = "registered"
  /\ Goto(r, "queued")
  /\ UNCHANGED <<cause, hard, exit, fault, verdict, registered, stale, slots, sandboxes,
                 processes, strays, server>>

\* Run.Cancel through the API: the first cause of a cancellation stays.
Cancel(r) ==
  /\ r \in registered
  /\ phase[r] # "finished"
  /\ cause[r] = "none"
  /\ cause' = [cause EXCEPT ![r] = "user"]
  /\ UNCHANGED <<phase, hard, exit, fault, verdict, registered, stale, slots, sandboxes,
                 processes, strays, server>>

\* More than retainFinished passes after a verdict.
GrowStale(r) ==
  /\ phase[r] = "finished"
  /\ r \notin stale
  /\ stale' = stale \cup {r}
  /\ UNCHANGED <<control, registered, slots, sandboxes, processes, strays, server>>

------------------------------------------------------------------------------
(* execute. *)

\* The select on the semaphore and the context: a coin toss when both are ready.
Acquire(r) ==
  /\ phase[r] = "queued"
  /\ Cardinality(slots) < MaxParallel
  /\ slots' = slots \cup {r}
  /\ Goto(r, "building")
  /\ UNCHANGED <<cause, hard, exit, fault, verdict, registered, stale, sandboxes, processes, strays, server>>

GiveUpQueueing(r) ==
  /\ phase[r] = "queued"
  /\ cause[r] # "none"
  /\ Return(r, "canceled", "released")
  /\ UNCHANGED <<cause, hard, exit, fault, registered, stale, slots, sandboxes, processes, strays, server>>

BuildSandbox(r) ==
  /\ phase[r] = "building"
  /\ sandboxes' = sandboxes \cup {r}
  /\ Goto(r, "launching")
  /\ UNCHANGED <<cause, hard, exit, fault, verdict, registered, stale, slots, processes, strays, server>>

\* newWorkspace removes what it created before it returns an error.
BuildFails(r) ==
  /\ "workspace" \in Harness
  /\ phase[r] = "building"
  /\ fault' = [fault EXCEPT ![r] = TRUE]
  /\ Return(r, "error", "cleaned")
  /\ UNCHANGED <<cause, hard, exit, registered, stale, slots, sandboxes, processes, strays, server>>

Launch(r) ==
  /\ phase[r] = "launching"
  /\ cause[r] = "none"
  /\ processes' = processes \cup {r}
  /\ Goto(r, "running")
  /\ UNCHANGED <<cause, hard, exit, fault, verdict, registered, stale, slots, sandboxes, strays, server>>

LaunchFails(r) ==
  /\ "start" \in Harness
  /\ phase[r] = "launching"
  /\ fault' = [fault EXCEPT ![r] = TRUE]
  /\ Return(r, "error", "returned")
  /\ UNCHANGED <<cause, hard, exit, registered, stale, slots, sandboxes, processes, strays, server>>

\* cmd.Start refuses a context that is already done; the code reports whatever
\* error Start returns as a harness error.
LaunchRefused(r) ==
  /\ phase[r] = "launching"
  /\ cause[r] # "none"
  /\ Return(r, "error", "returned")
  /\ UNCHANGED <<cause, hard, exit, fault, registered, stale, slots, sandboxes, processes, strays, server>>

\* The command ends by itself (go test's own -timeout included).  Nothing kills its
\* group then: a background process that holds neither pipe may live on.
ProcessExits(r) ==
  /\ phase[r] = "running"
  /\ \E class \in Natural : exit' = [exit EXCEPT ![r] = class]
  /\ processes' = processes \ {r}
  /\ strays' \in {strays, strays \cup {r}}
  /\ Goto(r, "exited")
  /\ UNCHANGED <<cause, hard, fault, verdict, registered, stale, slots, sandboxes, server>>

HardDeadline(r) ==
  /\ phase[r] \in {"running", "exited"}
  /\ ~hard[r]
  /\ hard' = [hard EXCEPT ![r] = TRUE]
  /\ UNCHANGED <<phase, cause, exit, fault, verdict, registered, stale, slots, sandboxes,
                 processes, strays, server>>

\* cmd.Cancel: SIGKILL to the whole process group.
KillGroup(r) ==
  /\ phase[r] = "running"
  /\ cause[r] # "none" \/ hard[r]
  /\ exit' = [exit EXCEPT ![r] = "killed"]
  /\ processes' = processes \ {r}
  /\ Goto(r, "exited")
  /\ UNCHANGED <<cause, hard, fault, verdict, registered, stale, slots, sandboxes, strays, server>>

\* The context is watched until Wait is done: until then a late cancellation or
\* deadline still kills what is left of the group.
KillStrays(r) ==
  /\ phase[r] = "exited" /\ r \in strays
  /\ cause[r] # "none" \/ hard[r]
  /\ strays' = strays \ {r}
  /\ UNCHANGED <<control, registered, stale, slots, sandboxes, processes, server>>

\* Mutant: only the deadline is checked, a killed command reads as red.
Classify_KilledIsRed(r) ==
  IF hard[r] THEN "timeout" ELSE IF exit[r] = "killed" THEN "failed" ELSE exit[r]

\* accumulator.result: the cancellation first, then the deadline, then what the
\* command reported.
Classify(r) ==
  IF cause[r] # "none" THEN "canceled"
  ELSE IF hard[r] THEN "timeout"
  ELSE exit[r]

\* The readers saw the end of both pipes, Wait returned.
Collect(r) ==
  /\ phase[r] = "exited"
  /\ Return(r, Classify(r), "returned")
  /\ UNCHANGED <<cause, hard, exit, fault, registered, stale, slots, sandboxes, processes, strays, server>>

\* Mutant: the clean-up is not deferred.
Panic_NotDeferred(r) ==
  /\ "panic" \in Harness
  /\ phase[r] \in {"launching", "exited"}
  /\ fault' = [fault EXCEPT ![r] = TRUE]
  /\ Return(r, "error", "released")
  /\ UNCHANGED <<cause, hard, exit, registered, stale, slots, sandboxes, processes, strays, server>>

\* guard: a panic in execute becomes an error verdict; the deferred calls run.
Panic(r) ==
  /\ "panic" \in Harness
  /\ phase[r] \in {"launching", "exited"}
  /\ fault' = [fault EXCEPT ![r] = TRUE]
  /\ Return(r, "error", "returned")
  /\ UNCHANGED <<cause, hard, exit, registered, stale, slots, sandboxes, processes, strays, server>>

\* Mutant: the slot is given back before the sandbox is removed.
Cleanup_SlotFirst(r) ==
  /\ phase[r] = "returned"
  /\ slots' = slots \ {r}
  /\ Goto(r, "cleaned")
  /\ UNCHANGED <<cause, hard, exit, fault, verdict, registered, stale, sandboxes, processes, strays, server>>

\* The deferred calls, last in first out: the sandbox, then the slot.
Cleanup(r) ==
  /\ phase[r] = "returned"
  /\ sandboxes' = sandboxes \ {r}
  /\ Goto(r, "cleaned")
  /\ UNCHANGED <<cause, hard, exit, fault, verdict, registered, stale, slots, processes, strays, server>>

\* Mutant: an error path keeps its slot.
Release_LeakOnError(r) ==
  /\ phase[r] = "cleaned"
  /\ slots' = IF verdict[r] = "error" THEN slots ELSE slots \ {r}
  /\ Goto(r, "released")
  /\ UNCHANGED <<cause, hard, exit, fault, verdict, registered, stale, sandboxes, processes, strays, server>>

Release(r) ==
  /\ phase[r] = "cleaned"
  /\ slots' = slots \ {r}
  /\ Goto(r, "released")
  /\ UNCHANGED <<cause, hard, exit, fault, verdict, registered, stale, sandboxes, processes, strays, server>>

\* run.finish and r.wg.Done.
Finish(r) ==
  /\ phase[r] = "released"
  /\ Goto(r, "finished")
  /\ UNCHANGED <<cause, hard, exit, fault, verdict, registered, stale, slots, sandboxes,
                 processes, strays, server>>

------------------------------------------------------------------------------
(* Shutdown, called once the HTTP server has drained its handlers. *)

DrainServer ==
  /\ server = "serving"
  /\ \A r \in Runs : phase[r] # "registered"
  /\ server' = "drained"
  /\ UNCHANGED <<control, registered, stale, slots, sandboxes, processes, strays>>

CancelAll ==
  /\ server = "drained"
  /\ cause' = [r \in Runs |-> IF r \in registered /\ phase[r] # "finished" /\ cause[r] = "none"
                                THEN "shutdown" ELSE cause[r]]
  /\ server' = "canceled"
  /\ UNCHANGED <<phase, hard, exit, fault, verdict, registered, stale, slots, sandboxes, processes, strays>>

WaitGroupDone ==
  /\ server = "canceled"
  /\ \A r \in Runs : ~Counted(r)
  /\ server' = "down"
  /\ UNCHANGED <<control, registered, stale, slots, sandboxes, processes, strays>>

------------------------------------------------------------------------------

Execute(r) ==
  \/ GiveUpQueueing(r) \/ BuildSandbox(r) \/ BuildFails(r)
  \/ Launch(r) \/ LaunchFails(r) \/ LaunchRefused(r)
  \/ Collect(r) \/ Panic(r) \/ Cleanup(r) \/ Release(r) \/ Finish(r)

Next ==
  \/ \E r \in Runs :
       \/ Register(r) \/ Spawn(r) \/ Cancel(r) \/ GrowStale(r)
       \/ Acquire(r) \/ Execute(r)
       \/ ProcessExits(r) \/ HardDeadline(r) \/ KillGroup(r) \/ KillStrays(r)
  \/ DrainServer \/ CancelAll \/ WaitGroupDone

Spec == Init /\ [][Next]_vars

\* Goroutines run, the deadline timer fires and SIGKILL works.  The command owes
\* nothing: it may loop for ever.  A semaphore slot is won by some waiter, and
\* every waiter asks once.
FairSpec ==
  /\ Spec
  /\ \A r \in Runs : /\ WF_vars(Spawn(r))
                     /\ WF_vars(Acquire(r))
                     /\ WF_vars(Execute(r))
                     /\ WF_vars(HardDeadline(r))
                     /\ WF_vars(KillGroup(r))
  /\ WF_vars(CancelAll)
  /\ WF_vars(WaitGroupDone)

------------------------------------------------------------------------------
(* Properties. *)

TypeOK ==
  /\ phase \in [Runs -> Phases]
  /\ cause \in [Runs -> {"none", "user", "shutdown"}]
  /\ hard \in [Runs -> BOOLEAN]
  /\ exit \in [Runs -> Natural \cup {"killed", "none"}]
  /\ fault \in [Runs -> BOOLEAN]
  /\ verdict \in [Runs -> Outcomes \cup {"none"}]
  /\ registered \subseteq Runs /\ stale \subseteq Runs
  /\ slots \subseteq Runs /\ sandboxes \subseteq Runs /\ processes \subseteq Runs
  /\ strays \subseteq Runs
  /\ server \in {"serving", "drained", "canceled", "down"}

\* However runs are canceled, time out or fail, no more than MaxParallel
\* commands and sandboxes exist at once, and each belongs to a run with a slot.
\* (What a command leaves behind when it ends by itself is not counted.)
ParallelismBounded ==
  /\ processes \subseteq sandboxes
  /\ sandboxes \subseteq slots
  /\ Cardinality(slots) <= MaxParallel

\* A verdict is published only after the sandbox is gone, the slot is free and
\* the command is dead - on every path, panics included.  With a command that was
\* killed its process group is dead too; only one that ended by itself can have left
\* a background process.
FinishedIsClean ==
  \A r \in Runs : phase[r] = "finished" =>
    /\ verdict[r] # "none"
    /\ r \notin slots \cup sandboxes \cup processes
    /\ r \in strays => exit[r] \in Natural

\* A green or red verdict is what the command itself reported; a run that was
\* canceled or killed on the deadline never looks like the user's mistake.
VerdictIsTruthful ==
  \A r \in Runs :
    /\ verdict[r] \in {"passed", "failed", "build_failed"} => exit[r] = verdict[r] /\ ~hard[r]
    /\ verdict[r] = "timeout" => hard[r] \/ exit[r] = "timeout"
    /\ verdict[r] = "canceled" => cause[r] # "none"

\* A run that has not reported yet stays addressable: eviction only takes what
\* finished long ago, so a browser can always reconnect or cancel.
LiveRunsAddressable ==
  \A r \in Runs : phase[r] # "new" /\ r \notin stale => r \in registered

\* "error" means that the harness itself broke.
ErrorMeansHarnessBroke ==
  \A r \in Runs : verdict[r] = "error" => fault[r]

\* When Shutdown returns because the wait group is empty, nothing is left: no
\* run is on its way, no sandbox, no command, no slot.
ShutdownLeavesNothing ==
  server = "down" => /\ \A r \in Runs : phase[r] \in {"new", "finished"}
                     /\ slots \cup sandboxes \cup processes = {}

\* To its callers a run is absent, going, or has reported its one verdict; and
\* every run that is started reports, though its test may loop for ever.
LifeState == [r \in Runs |-> IF phase[r] = "new" THEN "absent"
                             ELSE IF phase[r] = "finished" THEN verdict[r] ELSE "going"]

Life == INSTANCE RunLife WITH state <- LifeState

ImplementsLife == Life!Spec

\* Shutdown, once begun, comes to an end, and what it leaves is nothing.
ShutdownCompletes == []ShutdownLeavesNothing /\ (server = "drained" ~> server = "down")
==============================================================================
