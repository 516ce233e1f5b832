----------------------------- MODULE RunnerProofs -----------------------------
(***************************************************************************)
(* Proofs about Runner, for any number of runs, any number of slots and    *)
(* any subset of the harness faults, and about Verdict, for any commands   *)
(* that keep the promises of the toolchain and pipes of any size.          *)
(***************************************************************************)
EXTENDS Runner, Verdict, FiniteSetTheorems, SequenceTheorems, TLAPS

------------------------------------------------------------------------------
(* The inductive invariant: the resources a run holds are those of its     *)
(* phase, and its verdict and exit class are what its history allows.      *)

HoldsSlot == {"building", "launching", "running", "exited", "returned", "cleaned"}

HoldsSandbox == {"launching", "running", "exited", "returned"}

HasVerdict == {"returned", "cleaned", "released", "finished"}

\* What a run holds is determined by how far it is.
ResourcesFollowPhase(r) ==
  /\ r \in slots <=> phase[r] \in HoldsSlot
  /\ r \in sandboxes <=> phase[r] \in HoldsSandbox
  /\ r \in processes <=> phase[r] = "running"

\* A command is killed for a reason only, and it has ended when it is classified; what
\* it leaves behind it leaves when it ends by itself.
ExitExplained(r) ==
  /\ exit[r] = "killed" => cause[r] # "none" \/ hard[r]
  /\ phase[r] = "exited" => exit[r] # "none"
  /\ exit[r] # "none" => phase[r] = "exited" \/ phase[r] \in HasVerdict
  /\ r \in strays => exit[r] \in Natural

Truthful(r) ==
  /\ verdict[r] \in {"passed", "failed", "build_failed"} => exit[r] = verdict[r] /\ ~hard[r]
  /\ verdict[r] = "timeout" => hard[r] \/ exit[r] = "timeout"
  /\ verdict[r] = "canceled" => cause[r] # "none"
  /\ verdict[r] # "none" <=> phase[r] \in HasVerdict

RunInv(r) == ResourcesFollowPhase(r) /\ ExitExplained(r) /\ Truthful(r)

\* Once the server has drained nobody is between the map and the wait group.
Drained == server # "serving" => \A r \in Runs : phase[r] # "registered"

IInv ==
  /\ TypeOK
  /\ \A r \in Runs : RunInv(r)
  /\ Cardinality(slots) <= MaxParallel
  /\ LiveRunsAddressable
  /\ Drained
  /\ ShutdownLeavesNothing

\* The invariant holds of a runner without runs.
LEMMA InitInv == Init => IInv
<1> SUFFICES ASSUME Init PROVE IInv
  OBVIOUS
<1>1. TypeOK
  BY DEF Init, TypeOK, Phases
<1>2. \A r \in Runs : RunInv(r)
  BY DEF Init, RunInv, ResourcesFollowPhase, ExitExplained, Truthful, HoldsSlot, HoldsSandbox,
         HasVerdict
<1>3. Cardinality(slots) <= MaxParallel
  BY FS_EmptySet, RunnerAssumption DEF Init
<1> QED
  BY <1>1, <1>2, <1>3 DEF Init, IInv, LiveRunsAddressable, Drained, ShutdownLeavesNothing

------------------------------------------------------------------------------
(* Type correctness, action by action. *)

\* A command that has ended is given an outcome.
LEMMA OutcomeType ==
  ASSUME TypeOK, NEW r \in Runs, RunInv(r), phase[r] = "exited"
  PROVE  Classify(r) \in Outcomes
BY DEF TypeOK, RunInv, ExitExplained, Classify, Outcomes, Natural

\* Every step keeps the types.
LEMMA TypeStep ==
  ASSUME IInv, [Next]_vars
  PROVE  TypeOK'
<1> USE DEF IInv, TypeOK, Goto, Phases
<1>1. CASE UNCHANGED vars
  BY <1>1 DEF vars
<1>2. ASSUME NEW r \in Runs, Register(r) \/ Spawn(r) \/ Cancel(r) \/ GrowStale(r)
      PROVE  TypeOK'
  BY <1>2 DEF Register, Spawn, Cancel, GrowStale, control
<1>3. ASSUME NEW r \in Runs, Acquire(r) \/ GiveUpQueueing(r) \/ BuildSandbox(r) \/ BuildFails(r)
      PROVE  TypeOK'
  BY <1>3 DEF Acquire, GiveUpQueueing, BuildSandbox, BuildFails, Return, Outcomes
<1>4. ASSUME NEW r \in Runs, Launch(r) \/ LaunchFails(r) \/ LaunchRefused(r) \/ Panic(r)
      PROVE  TypeOK'
  BY <1>4 DEF Launch, LaunchFails, LaunchRefused, Panic, Return, Outcomes
<1>5. ASSUME NEW r \in Runs, ProcessExits(r) \/ HardDeadline(r) \/ KillGroup(r) \/ KillStrays(r)
      PROVE  TypeOK'
  <2>1. CASE ProcessExits(r)
    <3>1. PICK class \in Natural : exit' = [exit EXCEPT ![r] = class]
      BY <2>1 DEF ProcessExits
    <3> QED BY <2>1, <3>1 DEF ProcessExits
  <2>2. CASE HardDeadline(r)
    BY <2>2 DEF HardDeadline
  <2>3. CASE KillGroup(r)
    BY <2>3 DEF KillGroup
  <2>4. CASE KillStrays(r)
    BY <2>4 DEF KillStrays, control
  <2> QED BY <1>5, <2>1, <2>2, <2>3, <2>4
<1>6. ASSUME NEW r \in Runs, Collect(r)
      PROVE  TypeOK'
  BY <1>6, OutcomeType DEF Collect, Return
<1>7. ASSUME NEW r \in Runs, Cleanup(r) \/ Release(r) \/ Finish(r)
      PROVE  TypeOK'
  BY <1>7 DEF Cleanup, Release, Finish
<1>8. CASE DrainServer \/ CancelAll \/ WaitGroupDone
  BY <1>8 DEF DrainServer, CancelAll, WaitGroupDone, control
<1> QED
  BY <1>1, <1>2, <1>3, <1>4, <1>5, <1>6, <1>7, <1>8 DEF Next, Execute

------------------------------------------------------------------------------
(* What each run holds, and what may be said of its verdict. *)

\* Every step, of whatever run, keeps what holds of a run.
LEMMA RunStep ==
  ASSUME IInv, [Next]_vars, NEW q \in Runs
  PROVE  RunInv(q)'
<1> USE DEF IInv, TypeOK, Goto, RunInv, ResourcesFollowPhase, ExitExplained, Truthful,
            HoldsSlot, HoldsSandbox, HasVerdict
<1>1. CASE UNCHANGED vars
  BY <1>1 DEF vars
<1>2. ASSUME NEW r \in Runs, Register(r) \/ Spawn(r) \/ Cancel(r) \/ GrowStale(r)
      PROVE  RunInv(q)'
  BY <1>2 DEF Register, Spawn, Cancel, GrowStale, control
<1>3. ASSUME NEW r \in Runs, Acquire(r) \/ GiveUpQueueing(r) \/ BuildSandbox(r) \/ BuildFails(r)
      PROVE  RunInv(q)'
  BY <1>3 DEF Acquire, GiveUpQueueing, BuildSandbox, BuildFails, Return
<1>4. ASSUME NEW r \in Runs, Launch(r) \/ LaunchFails(r) \/ LaunchRefused(r) \/ Panic(r)
      PROVE  RunInv(q)'
  BY <1>4 DEF Launch, LaunchFails, LaunchRefused, Panic, Return
<1>5. ASSUME NEW r \in Runs, ProcessExits(r) \/ HardDeadline(r) \/ KillGroup(r) \/ KillStrays(r)
      PROVE  RunInv(q)'
  <2>1. CASE ProcessExits(r)
    <3>1. PICK class \in Natural : exit' = [exit EXCEPT ![r] = class]
      BY <2>1 DEF ProcessExits
    <3>2. class \in Natural /\ class # "killed" /\ class # "none"
      BY <3>1 DEF Natural
    <3> QED BY <2>1, <3>1, <3>2 DEF ProcessExits
  <2>2. CASE HardDeadline(r)
    BY <2>2 DEF HardDeadline
  <2>3. CASE KillGroup(r)
    <3>1. exit[r] = "none" /\ r \notin strays
      BY <2>3 DEF KillGroup, Natural
    <3> QED BY <2>3, <3>1 DEF KillGroup
  <2>4. CASE KillStrays(r)
    BY <2>4 DEF KillStrays, control
  <2> QED BY <1>5, <2>1, <2>2, <2>3, <2>4
<1>6. ASSUME NEW r \in Runs, Collect(r)
      PROVE  RunInv(q)'
  <2>1. /\ phase[r] = "exited" /\ phase' = [phase EXCEPT ![r] = "returned"]
        /\ verdict' = [verdict EXCEPT ![r] = Classify(r)]
        /\ UNCHANGED <<cause, hard, exit, slots, sandboxes, processes, strays>>
    BY <1>6 DEF Collect, Return
  <2>2. Classify(r) \in Outcomes
    BY <2>1, OutcomeType
  <2>3. CASE q # r
    BY <2>1, <2>3
  <2>4. CASE q = r
    <3>1. verdict'[r] = Classify(r) /\ Classify(r) # "none"
      BY <2>1, <2>2 DEF Outcomes
    <3>2. Truthful(r)'
      BY <2>1, <3>1 DEF Classify, Natural
    <3> QED BY <2>1, <2>4, <3>2
  <2> QED BY <2>3, <2>4
<1>7. ASSUME NEW r \in Runs, Cleanup(r) \/ Release(r) \/ Finish(r)
      PROVE  RunInv(q)'
  BY <1>7 DEF Cleanup, Release, Finish
<1>8. CASE DrainServer \/ CancelAll \/ WaitGroupDone
  BY <1>8 DEF DrainServer, CancelAll, WaitGroupDone, control
<1> QED
  BY <1>1, <1>2, <1>3, <1>4, <1>5, <1>6, <1>7, <1>8 DEF Next, Execute

\* Only Acquire takes a slot, and only a free one.
LEMMA SlotsStep ==
  ASSUME IInv, [Next]_vars
  PROVE  Cardinality(slots') <= MaxParallel
<1>1. IsFiniteSet(slots) /\ Cardinality(slots) \in Nat /\ Cardinality(slots) <= MaxParallel
  BY RunnerAssumption, FS_Subset, FS_CardinalityType DEF IInv, TypeOK
<1>2. ASSUME NEW r \in Runs, Acquire(r)
      PROVE  Cardinality(slots') <= MaxParallel
  <2>1. slots' = slots \cup {r} /\ Cardinality(slots) < MaxParallel
    BY <1>2 DEF Acquire
  <2>2. Cardinality(slots') \in Nat /\ Cardinality(slots') <= Cardinality(slots) + 1
    <3>1. /\ IsFiniteSet(slots \cup {r})
          /\ Cardinality(slots \cup {r}) = IF r \in slots THEN Cardinality(slots)
                                            ELSE Cardinality(slots) + 1
      BY <1>1, FS_AddElement
    <3> QED BY <1>1, <2>1, <3>1
  <2> QED BY <1>1, <2>1, <2>2, RunnerAssumption
<1>3. CASE \A r \in Runs : ~Acquire(r)
  <2>1. slots' \subseteq slots
    BY <1>3
       DEF Next, Execute, vars, control, Register, Spawn, Cancel, GrowStale, GiveUpQueueing,
           BuildSandbox, BuildFails, Launch, LaunchFails, LaunchRefused, ProcessExits,
           HardDeadline, KillGroup, KillStrays, Collect, Panic, Cleanup, Release, Finish,
           DrainServer, CancelAll, WaitGroupDone
  <2>2. Cardinality(slots') <= Cardinality(slots) /\ Cardinality(slots') \in Nat
    BY <1>1, <2>1, FS_Subset, FS_CardinalityType
  <2> QED BY <1>1, <2>2, RunnerAssumption
<1> QED BY <1>2, <1>3

\* Which steps touch the map, the age of the runs and the server.
LEMMA MapStep ==
  ASSUME IInv, [Next]_vars
  PROVE  LiveRunsAddressable' /\ Drained'
<1> USE DEF IInv, TypeOK, Goto, LiveRunsAddressable, Drained
<1>1. CASE UNCHANGED vars
  BY <1>1 DEF vars
<1>2. ASSUME NEW r \in Runs, Register(r)
      PROVE  LiveRunsAddressable' /\ Drained'
  BY <1>2 DEF Register
<1>3. ASSUME NEW r \in Runs, Spawn(r) \/ Cancel(r) \/ GrowStale(r)
      PROVE  LiveRunsAddressable' /\ Drained'
  BY <1>3 DEF Spawn, Cancel, GrowStale, control
<1>4. ASSUME NEW r \in Runs, Acquire(r) \/ Execute(r)
      PROVE  LiveRunsAddressable' /\ Drained'
  BY <1>4
     DEF Execute, Acquire, GiveUpQueueing, BuildSandbox, BuildFails, Launch, LaunchFails,
         LaunchRefused, Collect, Panic, Cleanup, Release, Finish, Return
<1>5. ASSUME NEW r \in Runs, ProcessExits(r) \/ HardDeadline(r) \/ KillGroup(r) \/ KillStrays(r)
      PROVE  LiveRunsAddressable' /\ Drained'
  BY <1>5 DEF ProcessExits, HardDeadline, KillGroup, KillStrays, control
<1>6. CASE DrainServer \/ CancelAll \/ WaitGroupDone
  BY <1>6 DEF DrainServer, CancelAll, WaitGroupDone, control
<1> QED
  BY <1>1, <1>2, <1>3, <1>4, <1>5, <1>6 DEF Next

\* The wait group is empty, so is everything else; and nothing starts any more.
LEMMA DownStep ==
  ASSUME IInv, [Next]_vars
  PROVE  ShutdownLeavesNothing'
<1> SUFFICES ASSUME server' = "down"
             PROVE  /\ \A r \in Runs : phase'[r] \in {"new", "finished"}
                    /\ (slots \cup sandboxes \cup processes)' = {}
  BY DEF ShutdownLeavesNothing
<1>1. \A r \in Runs : phase'[r] \in {"new", "finished"}
  <2>1. CASE WaitGroupDone
    BY <2>1 DEF WaitGroupDone, Counted, IInv, TypeOK, Drained, control, Phases
  <2>2. CASE ~WaitGroupDone
    <3>1. server = "down"
      BY <2>2
         DEF Next, Execute, vars, control, Register, Spawn, Cancel, GrowStale, Acquire,
             GiveUpQueueing, BuildSandbox, BuildFails, Launch, LaunchFails, LaunchRefused,
             ProcessExits, HardDeadline, KillGroup, KillStrays, Collect, Panic, Cleanup, Release, Finish,
             DrainServer, CancelAll
    <3>2. \A r \in Runs : phase[r] \in {"new", "finished"}
      BY <3>1 DEF IInv, ShutdownLeavesNothing
    <3>3. phase' = phase
      BY <3>1, <3>2
         DEF Next, Execute, vars, control, Register, Spawn, Cancel, GrowStale, Acquire,
             GiveUpQueueing, BuildSandbox, BuildFails, Launch, LaunchFails, LaunchRefused,
             ProcessExits, HardDeadline, KillGroup, KillStrays, Collect, Panic, Cleanup, Release, Finish,
             DrainServer, CancelAll, WaitGroupDone
    <3> QED BY <3>2, <3>3
  <2> QED BY <2>1, <2>2
<1>2. \A r \in Runs : ResourcesFollowPhase(r)'
  BY RunStep DEF RunInv
<1>3. TypeOK'
  BY TypeStep
<1> QED
  BY <1>1, <1>2, <1>3 DEF ResourcesFollowPhase, HoldsSlot, HoldsSandbox, TypeOK

------------------------------------------------------------------------------
(* Theorems. *)

\* Every step keeps the invariant.
LEMMA NextInv == IInv /\ [Next]_vars => IInv'
<1> SUFFICES ASSUME IInv, [Next]_vars
             PROVE  IInv'
  OBVIOUS
<1> QED BY TypeStep, RunStep, SlotsStep, MapStep, DownStep DEF IInv

\* Every reachable state satisfies the inductive invariant.
THEOREM Invariance == Spec => []IInv
BY InitInv, NextInv, PTL DEF Spec

\* The variables have their types.
THEOREM TypeCorrect == Spec => []TypeOK
<1>1. IInv => TypeOK
  BY DEF IInv
<1> QED BY <1>1, Invariance, PTL

\* However runs are canceled, time out, panic or fail: commands, sandboxes and
\* slots nest, and there are never more of them than the semaphore has slots.
THEOREM BoundedParallelism == Spec => []ParallelismBounded
<1>1. IInv => ParallelismBounded
  BY DEF IInv, RunInv, ResourcesFollowPhase, HoldsSlot, HoldsSandbox, ParallelismBounded, TypeOK
<1> QED BY <1>1, Invariance, PTL

\* A published verdict comes after the whole clean-up, on every path; what a command
\* leaves behind it leaves when it ends by itself, never when it is killed.
THEOREM CleanFinish == Spec => []FinishedIsClean
<1>1. IInv => FinishedIsClean
  BY DEF IInv, RunInv, ResourcesFollowPhase, ExitExplained, Truthful, HoldsSlot, HoldsSandbox, HasVerdict,
         FinishedIsClean
<1> QED BY <1>1, Invariance, PTL

\* Red and green are what the command reported, and a cancellation or a deadline
\* is never taken for either.
THEOREM TruthfulVerdict == Spec => []VerdictIsTruthful
<1>1. IInv => VerdictIsTruthful
  BY DEF IInv, RunInv, Truthful, VerdictIsTruthful
<1> QED BY <1>1, Invariance, PTL

\* Eviction never makes a run unreachable that has not reported long ago.
THEOREM Addressable == Spec => []LiveRunsAddressable
<1>1. IInv => LiveRunsAddressable
  BY DEF IInv
<1> QED BY <1>1, Invariance, PTL

\* The safety half of ShutdownCompletes: a Shutdown that came to its end has left
\* no run on its way, no slot, no sandbox and no process.
THEOREM NothingLeft == Spec => []ShutdownLeavesNothing
<1>1. IInv => ShutdownLeavesNothing
  BY DEF IInv
<1> QED BY <1>1, Invariance, PTL

------------------------------------------------------------------------------
(* Runner does what RunLife promises to the handlers. *)

\* Seen from outside most steps change nothing, a registration begins the life of
\* a run and its end reports the verdict.
LEMMA LifeStep ==
  ASSUME IInv, IInv', [Next]_vars
  PROVE  [Life!Next]_LifeState
<1> USE DEF TypeOK, Goto
<1>1. TypeOK /\ TypeOK'
  BY DEF IInv
<1>2. ASSUME NEW r \in Runs, Register(r)
      PROVE  Life!Begin(r)
  BY <1>1, <1>2 DEF Register, Life!Begin, LifeState
<1>3. ASSUME NEW r \in Runs, Finish(r)
      PROVE  \E outcome \in Life!Outcomes : Life!Report(r, outcome)
  <2>1. verdict[r] \in Life!Outcomes
    BY <1>1, <1>3 DEF Finish, IInv, RunInv, Truthful, HasVerdict, Outcomes, Life!Outcomes
  <2>2. LifeState[r] = "going" /\ LifeState' = [LifeState EXCEPT ![r] = verdict[r]]
    BY <1>1, <1>3 DEF Finish, LifeState
  <2> QED BY <2>1, <2>2 DEF Life!Report
<1>4. CASE \A r \in Runs : ~Register(r) /\ ~Finish(r)
  <2>1. \A r \in Runs : /\ phase[r] = "new" <=> phase'[r] = "new"
                        /\ phase[r] = "finished" <=> phase'[r] = "finished"
                        /\ phase[r] = "finished" => verdict'[r] = verdict[r]
    BY <1>1, <1>4
       DEF Next, Execute, vars, control, Spawn, Cancel, GrowStale, Acquire, GiveUpQueueing,
           BuildSandbox, BuildFails, Launch, LaunchFails, LaunchRefused, ProcessExits,
           HardDeadline, KillGroup, KillStrays, Collect, Panic, Cleanup, Release, Return,
           DrainServer, CancelAll, WaitGroupDone
  <2>2. LifeState' = LifeState
    <3>1. \A r \in Runs : (IF phase[r] = "new" THEN "absent"
                          ELSE IF phase[r] = "finished" THEN verdict[r] ELSE "going")'
                       = (IF phase[r] = "new" THEN "absent"
                          ELSE IF phase[r] = "finished" THEN verdict[r] ELSE "going")
      BY <2>1
    <3> QED BY <3>1 DEF LifeState
  <2> QED BY <2>2
<1> QED BY <1>2, <1>3, <1>4 DEF Life!Next

\* RunLife's specification without its fairness.
LifeSafety == Life!Init /\ [][Life!Next]_LifeState

\* The runner implements what the handlers are promised of it: a run is known from
\* its start, reports one verdict and keeps it.  ImplementsLife adds that it does
\* report, which TLC checks.
THEOREM ImplementsLifeSafety == Spec => LifeSafety
<1>1. Init => Life!Init
  BY DEF Init, Life!Init, LifeState
<1>2. IInv /\ IInv' /\ [Next]_vars => [Life!Next]_LifeState
  BY LifeStep
<1> QED BY <1>1, <1>2, Invariance, PTL DEF Spec, LifeSafety

------------------------------------------------------------------------------
(* The verdict: everything the readers took off the pipes is in the accumulator, *)
(* and when both have finished that is the whole output of the command.          *)

\* Lines of a stream that went through its pipe.
Taken(s) == printed[s] - Len(pipe[s])

Accumulator ==
  [passed : Nat, failed : Nat, skipped : Nat, failedTests : Seq({"", "T", "U", "T/s"}),
   buildFailed : BOOLEAN, buildOutput : Seq(Texts), raw : Seq(Texts),
   sawTestTimeout : BOOLEAN, sawPanic : BOOLEAN, sawTests : BOOLEAN]

\* What an accumulator counted of the first k lines of stdout.
Tallied(a, k) ==
  /\ a.passed = Cardinality(Reports(script, "pass") \cap (1 .. k))
  /\ a.failed = Cardinality(Reports(script, "fail") \cap (1 .. k))
  /\ a.skipped = Cardinality(Reports(script, "skip") \cap (1 .. k))

\* What it saw in the first k lines of stdout and the first l lines of stderr.
Saw(a, k, l) ==
  /\ a.sawTestTimeout <=> Shows(script, "testTimeout") \cap (1 .. k) # {}
  /\ a.sawPanic <=> Shows(script, "panic") \cap (1 .. k) # {}
  /\ a.sawTests <=> Tests(script) \cap (1 .. k) # {}
  /\ a.buildFailed <=>
       \/ (Acts(script, "build-fail") \cup BuildLines(script)
             \cup RawBuildLines(script, "stdout")) \cap (1 .. k) # {}
       \/ RawBuildLines(script, "stderr") \cap (1 .. l) # {}

\* It quotes the compiler once it read what the compiler said, and until then it
\* quotes no more than what surrounds that.
QuotesCompiler(a, k, l) ==
  \/ \E i \in 1 .. Len(a.buildOutput) : a.buildOutput[i] = "compile"
  \/ /\ Acts(script, "build-output") \cap Shows(script, "compile") \cap (1 .. k) = {}
     /\ (BuildLines(script) \cup RawBuildLines(script, "stdout")) \cap (1 .. k) = {}
     /\ RawBuildLines(script, "stderr") \cap (1 .. l) = {}
     /\ Len(a.buildOutput)
          <= Cardinality((Acts(script, "build-output") \ Shows(script, "compile")) \cap (1 .. k))

Heard(a, k, l) == a \in Accumulator /\ Tallied(a, k) /\ Saw(a, k, l) /\ QuotesCompiler(a, k, l)

\* A pipe holds, in order, the lines printed last.
PipesInOrder ==
  \A s \in Streams :
    /\ printed[s] \in 0 .. Len(script.says[s])
    /\ Len(pipe[s]) <= printed[s]
    /\ \A k \in 1 .. Len(pipe[s]) : pipe[s][k] = script.says[s][Taken(s) + k]

\* A command that ended by itself printed everything, a killed one was killed for a
\* reason.
EndsAsWritten ==
  /\ process \in {"zero", "nonzero"} =>
       process = script.ends /\ \A s \in Streams : printed[s] = Len(script.says[s])
  /\ process = "killed" => canceled \/ overdue

\* A reader is done when nothing can come any more.
ReadersFinish ==
  \A s \in Streams :
    /\ reader[s] = "done" => process # "alive" /\ pipe[s] = << >>
    /\ reader[s] = "stopped" => HasLongLine

\* A result is final: everything it was drawn from stays as it was.
ResultStands ==
  result # NoResult =>
    /\ result = ResultOf(acc) /\ process # "alive"
    /\ \A s \in Streams : reader[s] # "reading"

ReadingInv ==
  /\ script \in Scripts
  /\ printed \in [Streams -> Nat]
  /\ pipe \in [Streams -> Seq(Line)]
  /\ reader \in [Streams -> {"reading", "done", "stopped"}]
  /\ process \in {"alive", "zero", "nonzero", "killed"}
  /\ canceled \in BOOLEAN /\ overdue \in BOOLEAN
  /\ PipesInOrder /\ EndsAsWritten /\ ReadersFinish /\ ResultStands
  /\ HasLongLine \/ Heard(acc, Taken("stdout"), Taken("stderr"))

\* What is counted and found in one more line.
LEMMA OneMoreLine ==
  ASSUME NEW Q, NEW k \in Nat
  PROVE  /\ Cardinality(Q \cap (1 .. k)) \in Nat
         /\ Cardinality(Q \cap (1 .. k + 1)) = Cardinality(Q \cap (1 .. k)) + IF k + 1 \in Q THEN 1 ELSE 0
         /\ Q \cap (1 .. k + 1) # {} <=> Q \cap (1 .. k) # {} \/ k + 1 \in Q
<1>1. 1 .. k + 1 = (1 .. k) \cup {k + 1} /\ k + 1 \notin 1 .. k
  OBVIOUS
<1>2. IsFiniteSet(1 .. k)
  BY FS_Interval
<1> DEFINE P == Q \cap (1 .. k)
<1>3. IsFiniteSet(P) /\ Cardinality(P) \in Nat
  BY <1>2, FS_Subset, FS_CardinalityType
<1>4. Q \cap (1 .. k + 1) = IF k + 1 \in Q THEN P \cup {k + 1} ELSE P
  BY <1>1
<1>5. k + 1 \notin P
  BY <1>1
<1>6. Q \cap (1 .. k + 1) # {} <=> P # {} \/ k + 1 \in Q
  BY <1>4
<1> HIDE DEF P
<1>7. Cardinality(P \cup {k + 1}) = Cardinality(P) + 1
  BY <1>3, <1>5, FS_AddElement
<1>8. Cardinality(Q \cap (1 .. k + 1)) = Cardinality(P) + IF k + 1 \in Q THEN 1 ELSE 0
  <2>1. k + 1 \in Q => Cardinality(Q \cap (1 .. k + 1)) = Cardinality(P) + 1
    BY <1>4, <1>7
  <2>2. k + 1 \notin Q => Cardinality(Q \cap (1 .. k + 1)) = Cardinality(P)
    BY <1>4
  <2> DEFINE c == Cardinality(P)
             d == Cardinality(Q \cap (1 .. k + 1))
  <2>3. c \in Nat /\ (k + 1 \in Q => d = c + 1) /\ (k + 1 \notin Q => d = c)
    BY <1>3, <2>1, <2>2
  <2> HIDE DEF c, d
  <2>4. d = c + IF k + 1 \in Q THEN 1 ELSE 0
    BY <2>3
  <2> QED BY <2>4 DEF c, d
<1> QED BY <1>3, <1>6, <1>8 DEF P

\* Where the lines of stdout stand among those a script is told by.
LEMMA KindsOfLines ==
  ASSUME NEW n \in DOMAIN script.says["stdout"], NEW line, line = script.says["stdout"][n]
  PROVE  /\ \A action : n \in Reports(script, action) <=> line.json /\ Counts(line, action)
         /\ \A action : n \in Acts(script, action) <=> line.json /\ line.action = action
         /\ \A what : n \in Shows(script, what) <=> line.json /\ line.text = what
         /\ n \in Tests(script) <=> line.json /\ line.test # ""
         /\ n \in BuildLines(script) <=> line.json /\ line.text = "compile" /\ line.test = ""
         /\ n \in RawBuildLines(script, "stdout") <=> ~line.json /\ line.text = "compile"
<1>1. \A action : n \in Reports(script, action) <=> line.json /\ Counts(line, action)
  BY DEF Reports
<1>2. \A action : n \in Acts(script, action) <=> line.json /\ line.action = action
  BY DEF Acts
<1>3. \A what : n \in Shows(script, what) <=> line.json /\ line.text = what
  BY DEF Shows
<1>4. n \in Tests(script) <=> line.json /\ line.test # ""
  BY DEF Tests
<1>5. n \in BuildLines(script) <=> line.json /\ line.text = "compile" /\ line.test = ""
  BY <1>3, <1>4 DEF BuildLines
<1>6. n \in RawBuildLines(script, "stdout") <=> ~line.json /\ line.text = "compile"
  BY DEF RawBuildLines
<1> QED BY <1>1, <1>2, <1>3, <1>4, <1>5, <1>6

\* Appending to what is quoted: a phrase of the compiler finds room.
LEMMA CappedAppend ==
  ASSUME NEW quoted \in Seq(Texts), NEW what \in Texts, MaxLines \in Nat
  PROVE  /\ AppendCapped(quoted, what) \in Seq(Texts)
         /\ Len(AppendCapped(quoted, what)) <= Len(quoted) + 1
         /\ \A i \in 1 .. Len(quoted) : /\ i \in 1 .. Len(AppendCapped(quoted, what))
                                       /\ AppendCapped(quoted, what)[i] = quoted[i]
         /\ what = "compile" /\ Len(quoted) < MaxLines =>
              \E i \in 1 .. Len(AppendCapped(quoted, what)) :
                AppendCapped(quoted, what)[i] = "compile"
<1>1. Len(quoted) \in Nat
  BY LenProperties
<1> DEFINE longer == Append(quoted, what)
<1>2. /\ longer \in Seq(Texts) /\ Len(longer) = Len(quoted) + 1
      /\ \A i \in 1 .. Len(quoted) : longer[i] = quoted[i]
      /\ longer[Len(quoted) + 1] = what
  BY AppendProperties
<1>3. AppendCapped(quoted, what)
        = IF what \in {"none", "blank"} \/ Len(quoted) = MaxLines THEN quoted ELSE longer
  BY DEF AppendCapped
<1> HIDE DEF longer
<1>4. CASE what \in {"none", "blank"} \/ Len(quoted) = MaxLines
  <2>1. AppendCapped(quoted, what) = quoted
    BY <1>3, <1>4
  <2>2. ~(what = "compile" /\ Len(quoted) < MaxLines)
    BY <1>1, <1>4
  <2> QED BY <1>1, <2>1, <2>2
<1>5. CASE ~(what \in {"none", "blank"} \/ Len(quoted) = MaxLines)
  <2>1. AppendCapped(quoted, what) = longer
    BY <1>3, <1>5
  <2>2. Len(quoted) + 1 \in 1 .. Len(longer) /\ \A i \in 1 .. Len(quoted) : i \in 1 .. Len(longer)
    BY <1>1, <1>2
  <2> QED BY <1>1, <1>2, <2>1, <2>2
<1> QED BY <1>4, <1>5

\* What a script is.
LEMMA ScriptIsTyped ==
  ASSUME script \in Scripts
  PROVE  /\ \A s \in Streams : /\ script.says[s] \in Seq(Line)
                                       /\ Len(script.says[s]) \in Nat
                                       /\ DOMAIN script.says[s] = 1 .. Len(script.says[s])
                                       /\ \A n \in 1 .. Len(script.says[s]) : script.says[s][n] \in Line
         /\ script.ends \in {"zero", "nonzero", "never"}
         /\ MaxLines \in Nat
<1>1. script \in Script /\ MaxLines \in Nat
  BY VerdictAssumption DEF VerdictAssumption
<1>2. script.says \in [Streams -> Seq(Line)] /\ script.ends \in {"zero", "nonzero", "never"}
  BY <1>1 DEF Script
<1>3. \A s \in Streams : script.says[s] \in Seq(Line)
  BY <1>2
<1>4. \A q \in Seq(Line) : /\ Len(q) \in Nat /\ DOMAIN q = 1 .. Len(q)
                                   /\ \A n \in 1 .. Len(q) : q[n] \in Line
  BY LenProperties
<1> QED BY <1>1, <1>2, <1>3, <1>4

\* What surrounds the compiler's phrases leaves room for one.
LEMMA RoomForCompiler ==
  ASSUME script \in Scripts, NEW k \in Nat
  PROVE  Cardinality((Acts(script, "build-output") \ Shows(script, "compile")) \cap (1 .. k))
           < MaxLines
<1> DEFINE C == Acts(script, "build-output") \ Shows(script, "compile")
<1>1. Cardinality(C) < MaxLines
  BY ToolchainAssumption, Zenon DEF ToolchainAssumption, KeepsPromises
<1>2. C \in SUBSET DOMAIN script.says["stdout"]
  BY DEF Acts
<1>3. PICK n \in Nat : DOMAIN script.says["stdout"] = 1 .. n
  BY ScriptIsTyped DEF Streams
<1>4. IsFiniteSet(1 .. n)
  BY FS_Interval
<1> HIDE DEF C
<1>5. IsFiniteSet(C)
  BY <1>2, <1>3, <1>4, FS_Subset
<1>6. C \cap (1 .. k) \in SUBSET C
  OBVIOUS
<1>7. IsFiniteSet(C \cap (1 .. k)) /\ Cardinality(C \cap (1 .. k)) <= Cardinality(C)
  BY <1>5, <1>6, FS_Subset
<1>8. Cardinality(C \cap (1 .. k)) \in Nat /\ Cardinality(C) \in Nat /\ MaxLines \in Nat
  BY <1>5, <1>7, FS_CardinalityType, ScriptIsTyped
<1> DEFINE c == Cardinality(C \cap (1 .. k))
           d == Cardinality(C)
<1>9. c \in Nat /\ d \in Nat /\ MaxLines \in Nat /\ c <= d /\ d < MaxLines
  BY <1>1, <1>7, <1>8
<1> HIDE DEF c, d
<1>10. c < MaxLines
  BY <1>9
<1> QED BY <1>10 DEF c, C

\* One more event of stdout is heard.
LEMMA HearsEvent ==
  ASSUME script \in Scripts,
         NEW k \in Nat, NEW l \in Nat, NEW line, k + 1 \in 1 .. Len(script.says["stdout"]),
         line = script.says["stdout"][k + 1], line.json, NEW a, Heard(a, k, l)
  PROVE  Heard(Note(a, line), k + 1, l)
<1> DEFINE b == Note(a, line)
<1>1. line \in Line /\ k + 1 \in DOMAIN script.says["stdout"] /\ MaxLines \in Nat
  BY ScriptIsTyped DEF Streams
<1>2. a \in Accumulator /\ Tallied(a, k) /\ Saw(a, k, l) /\ QuotesCompiler(a, k, l)
  BY DEF Heard
<1>3. /\ \A action : k + 1 \in Reports(script, action) <=> Counts(line, action)
      /\ \A action : k + 1 \in Acts(script, action) <=> line.action = action
      /\ \A what : k + 1 \in Shows(script, what) <=> line.text = what
      /\ k + 1 \in Tests(script) <=> line.test # ""
      /\ k + 1 \in BuildLines(script) <=> line.text = "compile" /\ line.test = ""
      /\ k + 1 \notin RawBuildLines(script, "stdout")
  <2> DEFINE n == k + 1
  <2>1. n \in DOMAIN script.says["stdout"] /\ line = script.says["stdout"][n]
    BY <1>1
  <2> HIDE DEF n
  <2>2. /\ \A action : n \in Reports(script, action) <=> line.json /\ Counts(line, action)
        /\ \A action : n \in Acts(script, action) <=> line.json /\ line.action = action
        /\ \A what : n \in Shows(script, what) <=> line.json /\ line.text = what
        /\ n \in Tests(script) <=> line.json /\ line.test # ""
        /\ n \in BuildLines(script) <=> line.json /\ line.text = "compile" /\ line.test = ""
        /\ n \in RawBuildLines(script, "stdout") <=> ~line.json /\ line.text = "compile"
    BY <2>1, KindsOfLines, Zenon
  <2> QED BY <2>2, Zenon DEF n
<1>4. /\ line.test \in {"", "T", "U", "T/s"} /\ line.text \in Texts /\ line.json \in BOOLEAN
  BY <1>1 DEF Line
<1>5. /\ b.passed = a.passed + One(Counts(line, "pass"))
      /\ b.failed = a.failed + One(Counts(line, "fail"))
      /\ b.skipped = a.skipped + One(Counts(line, "skip"))
      /\ b.buildFailed = (a.buildFailed \/ line.action = "build-fail" \/ BuildLine(line))
      /\ b.buildOutput = Quoted(a.buildOutput, line)
      /\ b.sawTestTimeout = (a.sawTestTimeout \/ line.text = "testTimeout")
      /\ b.sawPanic = (a.sawPanic \/ line.text = "panic")
      /\ b.sawTests = (a.sawTests \/ line.test # "")
  BY DEF Note
<1> DEFINE first == IF line.action = "build-output" THEN AppendCapped(a.buildOutput, line.text)
                    ELSE a.buildOutput
<1>6. /\ first \in Seq(Texts)
      /\ Len(first) <= Len(a.buildOutput) + IF line.action = "build-output" THEN 1 ELSE 0
      /\ \A i \in 1 .. Len(a.buildOutput) : i \in 1 .. Len(first) /\ first[i] = a.buildOutput[i]
      /\ line.action = "build-output" /\ line.text = "compile" /\ Len(a.buildOutput) < MaxLines =>
           \E i \in 1 .. Len(first) : first[i] = "compile"
  <2>1. a.buildOutput \in Seq(Texts) /\ Len(a.buildOutput) \in Nat
    BY <1>2, LenProperties DEF Accumulator
  <2>2. CASE line.action = "build-output"
    BY <1>1, <1>4, <2>1, <2>2, CappedAppend
  <2>3. CASE line.action # "build-output"
    BY <2>1, <2>3
  <2> QED BY <2>2, <2>3
<1>7. b.buildOutput = IF BuildLine(line) THEN AppendCapped(first, line.text) ELSE first
  BY <1>5 DEF Quoted
<1> HIDE DEF first
<1>8. b \in Accumulator
  <2>1. /\ a.passed \in Nat /\ a.failed \in Nat /\ a.skipped \in Nat
        /\ a.failedTests \in Seq({"", "T", "U", "T/s"}) /\ a.buildFailed \in BOOLEAN
        /\ a.raw \in Seq(Texts) /\ a.sawTestTimeout \in BOOLEAN /\ a.sawPanic \in BOOLEAN
        /\ a.sawTests \in BOOLEAN
    BY <1>2 DEF Accumulator
  <2>2. \A c : One(c) \in Nat
    BY DEF One
  <2>3. /\ One(Counts(line, "pass")) \in Nat
        /\ One(Counts(line, "fail")) \in Nat
        /\ One(Counts(line, "skip")) \in Nat
    BY <2>2, Zenon
  <2>4. Append(a.failedTests, line.test) \in Seq({"", "T", "U", "T/s"})
    BY <1>4, <2>1, AppendProperties
  <2>5. Quoted(a.buildOutput, line) \in Seq(Texts)
    <3>1. AppendCapped(first, line.text) \in Seq(Texts)
      BY <1>1, <1>4, <1>6, CappedAppend
    <3> QED BY <1>5, <1>6, <1>7, <3>1
  <2>6. BuildLine(line) \in BOOLEAN
    BY DEF BuildLine
  <2>7. /\ a.passed + One(Counts(line, "pass")) \in Nat
        /\ a.failed + One(Counts(line, "fail")) \in Nat
        /\ a.skipped + One(Counts(line, "skip")) \in Nat
    <3>1. \A x, y \in Nat : x + y \in Nat
      OBVIOUS
    <3> QED BY <2>1, <2>3, <3>1, Zenon
  <2> QED BY <2>1, <2>4, <2>5, <2>6, <2>7 DEF Note, Accumulator
<1> HIDE DEF b
<1>9. Tallied(b, k + 1)
  <2>1. \A action : One(Counts(line, action))
                      = IF k + 1 \in Reports(script, action) THEN 1 ELSE 0
    BY <1>3 DEF One
  <2>2. \A action : Cardinality(Reports(script, action) \cap (1 .. k + 1))
                      = Cardinality(Reports(script, action) \cap (1 .. k))
                          + One(Counts(line, action))
    <3> TAKE action
    <3> DEFINE R == Reports(script, action)
    <3>1. One(Counts(line, action)) = IF k + 1 \in R THEN 1 ELSE 0
      BY <2>1
    <3> HIDE DEF R
    <3>2. Cardinality(R \cap (1 .. k + 1)) = Cardinality(R \cap (1 .. k)) + IF k + 1 \in R THEN 1 ELSE 0
      BY OneMoreLine
    <3> QED BY <3>1, <3>2 DEF R
  <2>3. /\ a.passed = Cardinality(Reports(script, "pass") \cap (1 .. k))
        /\ a.failed = Cardinality(Reports(script, "fail") \cap (1 .. k))
        /\ a.skipped = Cardinality(Reports(script, "skip") \cap (1 .. k))
    BY <1>2 DEF Tallied
  <2> QED BY <1>5, <2>2, <2>3 DEF Tallied
<1>10. Saw(b, k + 1, l)
  <2>1. /\ k + 1 \in Shows(script, "testTimeout") <=> line.text = "testTimeout"
        /\ k + 1 \in Shows(script, "panic") <=> line.text = "panic"
        /\ k + 1 \in Tests(script) <=> line.test # ""
    BY <1>3, Zenon
  <2> DEFINE F == Acts(script, "build-fail") \cup BuildLines(script)
                    \cup RawBuildLines(script, "stdout")
  <2>2. k + 1 \in F <=> line.action = "build-fail" \/ BuildLine(line)
    BY <1>3, Zenon DEF BuildLine
  <2>3. F \cap (1 .. k + 1) # {} <=> F \cap (1 .. k) # {} \/ k + 1 \in F
    <3> HIDE DEF F
    <3> QED BY OneMoreLine
  <2>4. /\ b.sawTestTimeout <=> Shows(script, "testTimeout") \cap (1 .. k + 1) # {}
        /\ b.sawPanic <=> Shows(script, "panic") \cap (1 .. k + 1) # {}
        /\ b.sawTests <=> Tests(script) \cap (1 .. k + 1) # {}
    BY <1>2, <1>5, <2>1, OneMoreLine DEF Saw
  <2>5. b.buildFailed <=> \/ F \cap (1 .. k + 1) # {}
                          \/ RawBuildLines(script, "stderr") \cap (1 .. l) # {}
    BY <1>2, <1>5, <2>2, <2>3 DEF Saw
  <2> QED BY <2>4, <2>5 DEF Saw
<1>11. QuotesCompiler(b, k + 1, l)
  <2>1. Len(a.buildOutput) \in Nat /\ Len(first) \in Nat
    BY <1>2, <1>6, LenProperties DEF Accumulator
  <2>2. \A i \in 1 .. Len(first) : i \in 1 .. Len(b.buildOutput) /\ b.buildOutput[i] = first[i]
    <3>1. CASE BuildLine(line)
      <4>1. b.buildOutput = AppendCapped(first, line.text)
        BY <1>7, <3>1
      <4>2. \A i \in 1 .. Len(first) : /\ i \in 1 .. Len(AppendCapped(first, line.text))
                                       /\ AppendCapped(first, line.text)[i] = first[i]
        BY <1>1, <1>4, <1>6, CappedAppend
      <4> QED BY <4>1, <4>2
    <3>2. CASE ~BuildLine(line)
      <4>1. b.buildOutput = first
        BY <1>7, <3>2
      <4> QED BY <4>1
    <3> QED BY <3>1, <3>2
  <2>3. CASE \E i \in 1 .. Len(a.buildOutput) : a.buildOutput[i] = "compile"
    BY <1>6, <2>2, <2>3 DEF QuotesCompiler
  <2>4. CASE ~\E i \in 1 .. Len(a.buildOutput) : a.buildOutput[i] = "compile"
    <3> DEFINE C == Acts(script, "build-output") \ Shows(script, "compile")
               D == Acts(script, "build-output") \cap Shows(script, "compile")
               E == BuildLines(script) \cup RawBuildLines(script, "stdout")
    <3>1. /\ D \cap (1 .. k) = {} /\ E \cap (1 .. k) = {}
          /\ RawBuildLines(script, "stderr") \cap (1 .. l) = {}
          /\ Len(a.buildOutput) <= Cardinality(C \cap (1 .. k))
      BY <1>2, <2>4 DEF QuotesCompiler
    <3>2. Cardinality(C \cap (1 .. k)) < MaxLines
      BY RoomForCompiler
    <3>3. /\ k + 1 \in C <=> line.action = "build-output" /\ line.text # "compile"
          /\ k + 1 \in D <=> line.action = "build-output" /\ line.text = "compile"
          /\ k + 1 \in E <=> BuildLine(line)
      BY <1>3, Zenon DEF BuildLine
    <3> HIDE DEF C, D, E
    <3>4. Cardinality(C \cap (1 .. k)) \in Nat
      BY OneMoreLine
    <3>5. Len(a.buildOutput) < MaxLines
      BY <1>1, <2>1, <3>1, <3>2, <3>4
    <3>6. CASE line.action = "build-output" /\ line.text = "compile"
      BY <1>6, <2>2, <3>5, <3>6 DEF QuotesCompiler
    <3>7. CASE ~(line.action = "build-output" /\ line.text = "compile") /\ BuildLine(line)
      <4>1. line.text = "compile" /\ line.action # "build-output"
        BY <3>7 DEF BuildLine
      <4>2. Len(first) < MaxLines
        BY <1>6, <2>1, <3>5, <4>1
      <4>3. b.buildOutput = AppendCapped(first, line.text)
        BY <1>7, <3>7
      <4>4. \E i \in 1 .. Len(AppendCapped(first, line.text)) :
              AppendCapped(first, line.text)[i] = "compile"
        BY <1>1, <1>4, <1>6, <4>1, <4>2, CappedAppend
      <4> QED BY <4>3, <4>4 DEF QuotesCompiler
    <3>8. CASE ~(line.action = "build-output" /\ line.text = "compile") /\ ~BuildLine(line)
      <4>1. b.buildOutput = first
        BY <1>7, <3>8
      <4>2. D \cap (1 .. k + 1) = {} /\ E \cap (1 .. k + 1) = {}
        BY <3>1, <3>3, <3>8, OneMoreLine
      <4>3. Len(first) <= Cardinality(C \cap (1 .. k + 1))
        <5>1. Cardinality(C \cap (1 .. k + 1)) = Cardinality(C \cap (1 .. k)) + IF k + 1 \in C THEN 1 ELSE 0
          BY OneMoreLine
        <5>2. k + 1 \in C <=> line.action = "build-output"
          BY <3>3, <3>8
        <5> DEFINE c == Cardinality(C \cap (1 .. k))
                   d == Cardinality(C \cap (1 .. k + 1))
                   m == Len(a.buildOutput)
                   n == Len(first)
        <5>3. c \in Nat /\ m \in Nat /\ n \in Nat /\ m <= c
          BY <2>1, <3>1, <3>4
        <5>4. CASE line.action = "build-output"
          <6>1. d = c + 1 /\ n <= m + 1
            BY <1>6, <5>1, <5>2, <5>4
          <6> HIDE DEF c, d, m, n
          <6>2. n <= d
            BY <5>3, <6>1
          <6> QED BY <6>2 DEF d, n
        <5>5. CASE line.action # "build-output"
          <6>1. d = c + 0 /\ n <= m + 0
            BY <1>6, <5>1, <5>2, <5>5
          <6> HIDE DEF c, d, m, n
          <6>2. n <= d
            BY <5>3, <6>1
          <6> QED BY <6>2 DEF d, n
        <5> QED BY <5>4, <5>5
      <4> QED BY <3>1, <4>1, <4>2, <4>3 DEF QuotesCompiler, C, D, E
    <3> QED BY <3>6, <3>7, <3>8
  <2> QED BY <2>3, <2>4
<1> QED BY <1>8, <1>9, <1>10, <1>11 DEF Heard, b

\* What a raw line changes in the accumulator.
LEMMA NotesRaw ==
  ASSUME NEW a \in Accumulator, NEW line \in Line, MaxLines \in Nat
  PROVE  /\ NoteRaw(a, line) \in Accumulator
         /\ NoteRaw(a, line).passed = a.passed /\ NoteRaw(a, line).failed = a.failed
         /\ NoteRaw(a, line).skipped = a.skipped
         /\ NoteRaw(a, line).sawTestTimeout = a.sawTestTimeout
         /\ NoteRaw(a, line).sawPanic = a.sawPanic
         /\ NoteRaw(a, line).sawTests = a.sawTests
         /\ NoteRaw(a, line).buildFailed = (a.buildFailed \/ line.text = "compile")
         /\ NoteRaw(a, line).buildOutput
              = IF line.text = "compile" THEN AppendCapped(a.buildOutput, line.text) ELSE a.buildOutput
<1> DEFINE b == NoteRaw(a, line)
<1>1. /\ a.passed \in Nat /\ a.failed \in Nat /\ a.skipped \in Nat
      /\ a.failedTests \in Seq({"", "T", "U", "T/s"}) /\ a.buildFailed \in BOOLEAN
      /\ a.buildOutput \in Seq(Texts) /\ a.raw \in Seq(Texts)
      /\ a.sawTestTimeout \in BOOLEAN /\ a.sawPanic \in BOOLEAN /\ a.sawTests \in BOOLEAN
  BY DEF Accumulator
<1>2. line.text \in Texts
  BY DEF Line
<1>3. /\ AppendCapped(a.buildOutput, line.text) \in Seq(Texts)
      /\ AppendCapped(a.raw, line.text) \in Seq(Texts)
  BY <1>1, <1>2, CappedAppend
<1> DEFINE raw == AppendCapped(a.raw, line.text)
           build == a.buildFailed \/ line.text = "compile"
           quoted == IF line.text = "compile" THEN AppendCapped(a.buildOutput, line.text)
                     ELSE a.buildOutput
<1>4. raw \in Seq(Texts) /\ build \in BOOLEAN /\ quoted \in Seq(Texts)
  BY <1>1, <1>3
<1>5. b = [a EXCEPT !.raw = raw, !.buildFailed = build, !.buildOutput = quoted]
  BY DEF NoteRaw, Accumulator
<1> HIDE DEF raw, build, quoted, b
<1>6. b \in Accumulator
  BY <1>1, <1>4, <1>5 DEF Accumulator
<1>7. /\ b.passed = a.passed /\ b.failed = a.failed /\ b.skipped = a.skipped
      /\ b.sawTestTimeout = a.sawTestTimeout /\ b.sawPanic = a.sawPanic /\ b.sawTests = a.sawTests
      /\ b.buildFailed = build /\ b.buildOutput = quoted
  BY <1>5 DEF Accumulator
<1> QED BY <1>6, <1>7 DEF b, build, quoted

\* A raw line loses nothing of what is quoted, and a phrase of the compiler is quoted.
LEMMA QuotesRaw ==
  ASSUME script \in Scripts,
         NEW k \in Nat, NEW l \in Nat, NEW line \in Line, NEW a, Heard(a, k, l)
  PROVE  /\ (\E i \in 1 .. Len(a.buildOutput) : a.buildOutput[i] = "compile") \/ line.text = "compile" =>
              \E i \in 1 .. Len(NoteRaw(a, line).buildOutput) :
                NoteRaw(a, line).buildOutput[i] = "compile"
         /\ line.text # "compile" => NoteRaw(a, line).buildOutput = a.buildOutput
<1> DEFINE C == Acts(script, "build-output") \ Shows(script, "compile")
<1>1. a \in Accumulator /\ QuotesCompiler(a, k, l) /\ MaxLines \in Nat
  BY ScriptIsTyped DEF Heard
<1>2. a.buildOutput \in Seq(Texts) /\ Len(a.buildOutput) \in Nat /\ line.text \in Texts
  BY <1>1, LenProperties DEF Accumulator, Line
<1>3. NoteRaw(a, line).buildOutput
        = IF line.text = "compile" THEN AppendCapped(a.buildOutput, line.text) ELSE a.buildOutput
  BY <1>1, NotesRaw
<1>4. CASE line.text # "compile"
  BY <1>3, <1>4
<1>5. CASE line.text = "compile"
  <2> DEFINE longer == AppendCapped(a.buildOutput, line.text)
  <2>1. /\ \A i \in 1 .. Len(a.buildOutput) : i \in 1 .. Len(longer) /\ longer[i] = a.buildOutput[i]
        /\ Len(a.buildOutput) < MaxLines => \E i \in 1 .. Len(longer) : longer[i] = "compile"
    BY <1>1, <1>2, <1>5, CappedAppend
  <2>2. NoteRaw(a, line).buildOutput = longer
    BY <1>3, <1>5
  <2> HIDE DEF longer
  <2>3. CASE \E i \in 1 .. Len(a.buildOutput) : a.buildOutput[i] = "compile"
    BY <1>5, <2>1, <2>2, <2>3
  <2>4. CASE ~\E i \in 1 .. Len(a.buildOutput) : a.buildOutput[i] = "compile"
    <3>1. Len(a.buildOutput) <= Cardinality(C \cap (1 .. k))
      BY <1>1, <2>4 DEF QuotesCompiler
    <3>2. Cardinality(C \cap (1 .. k)) < MaxLines
      BY RoomForCompiler
    <3> HIDE DEF C
    <3>3. Cardinality(C \cap (1 .. k)) \in Nat
      BY OneMoreLine
    <3>4. Len(a.buildOutput) < MaxLines
      BY <1>1, <1>2, <3>1, <3>2, <3>3
    <3> QED BY <1>5, <2>1, <2>2, <3>4
  <2> QED BY <2>3, <2>4
<1> QED BY <1>4, <1>5

\* One more raw line of stdout is heard.
LEMMA HearsRawOut ==
  ASSUME script \in Scripts,
         NEW k \in Nat, NEW l \in Nat, NEW line, k + 1 \in 1 .. Len(script.says["stdout"]),
         line = script.says["stdout"][k + 1], ~line.json, NEW a, Heard(a, k, l)
  PROVE  Heard(NoteRaw(a, line), k + 1, l)
<1> DEFINE b == NoteRaw(a, line)
<1>1. line \in Line /\ k + 1 \in DOMAIN script.says["stdout"] /\ MaxLines \in Nat
  BY ScriptIsTyped DEF Streams
<1>2. a \in Accumulator /\ Tallied(a, k) /\ Saw(a, k, l) /\ QuotesCompiler(a, k, l)
  BY DEF Heard
<1>3. /\ \A action : k + 1 \notin Reports(script, action)
      /\ \A action : k + 1 \notin Acts(script, action)
      /\ \A what : k + 1 \notin Shows(script, what)
      /\ k + 1 \notin Tests(script)
      /\ k + 1 \notin BuildLines(script)
      /\ k + 1 \in RawBuildLines(script, "stdout") <=> line.text = "compile"
  <2> DEFINE n == k + 1
  <2>1. n \in DOMAIN script.says["stdout"] /\ line = script.says["stdout"][n]
    BY <1>1
  <2> HIDE DEF n
  <2>2. /\ \A action : n \in Reports(script, action) <=> line.json /\ Counts(line, action)
        /\ \A action : n \in Acts(script, action) <=> line.json /\ line.action = action
        /\ \A what : n \in Shows(script, what) <=> line.json /\ line.text = what
        /\ n \in Tests(script) <=> line.json /\ line.test # ""
        /\ n \in BuildLines(script) <=> line.json /\ line.text = "compile" /\ line.test = ""
        /\ n \in RawBuildLines(script, "stdout") <=> ~line.json /\ line.text = "compile"
    BY <2>1, KindsOfLines, Zenon
  <2> QED BY <2>2, Zenon DEF n
<1>4. /\ b \in Accumulator
      /\ b.passed = a.passed /\ b.failed = a.failed /\ b.skipped = a.skipped
      /\ b.sawTestTimeout = a.sawTestTimeout /\ b.sawPanic = a.sawPanic /\ b.sawTests = a.sawTests
      /\ b.buildFailed = (a.buildFailed \/ line.text = "compile")
  BY <1>1, <1>2, NotesRaw
<1>5. /\ (\E i \in 1 .. Len(a.buildOutput) : a.buildOutput[i] = "compile") \/ line.text = "compile" =>
           \E i \in 1 .. Len(b.buildOutput) : b.buildOutput[i] = "compile"
      /\ line.text # "compile" => b.buildOutput = a.buildOutput
  <2>1. line \in Line
    BY <1>1
  <2>2. (\E i \in 1 .. Len(a.buildOutput) : a.buildOutput[i] = "compile") \/ line.text = "compile" =>
          \E i \in 1 .. Len(b.buildOutput) : b.buildOutput[i] = "compile"
    BY <2>1, QuotesRaw, SMT
  <2>3. line.text # "compile" => b.buildOutput = a.buildOutput
    BY <2>1, QuotesRaw, SMT
  <2> QED BY <2>2, <2>3
<1> HIDE DEF b
<1>6. \A Q : k + 1 \notin Q => Q \cap (1 .. k + 1) = Q \cap (1 .. k)
  BY 1 .. k + 1 = (1 .. k) \cup {k + 1}
<1>7. /\ \A action : Reports(script, action) \cap (1 .. k + 1)
                     = Reports(script, action) \cap (1 .. k)
      /\ \A what : Shows(script, what) \cap (1 .. k + 1) = Shows(script, what) \cap (1 .. k)
      /\ Tests(script) \cap (1 .. k + 1) = Tests(script) \cap (1 .. k)
  BY <1>3, <1>6, Zenon
<1>8. Tallied(b, k + 1)
  BY <1>2, <1>4, <1>7, Zenon DEF Tallied
<1>9. Saw(b, k + 1, l)
  <2> DEFINE F == Acts(script, "build-fail") \cup BuildLines(script)
                    \cup RawBuildLines(script, "stdout")
  <2>1. k + 1 \in F <=> line.text = "compile"
    BY <1>3, Zenon
  <2>2. F \cap (1 .. k + 1) # {} <=> F \cap (1 .. k) # {} \/ k + 1 \in F
    <3> HIDE DEF F
    <3> QED BY OneMoreLine
  <2>3. b.buildFailed <=> \/ F \cap (1 .. k + 1) # {}
                          \/ RawBuildLines(script, "stderr") \cap (1 .. l) # {}
    BY <1>2, <1>4, <2>1, <2>2 DEF Saw
  <2>4. /\ b.sawTestTimeout <=> Shows(script, "testTimeout") \cap (1 .. k + 1) # {}
        /\ b.sawPanic <=> Shows(script, "panic") \cap (1 .. k + 1) # {}
        /\ b.sawTests <=> Tests(script) \cap (1 .. k + 1) # {}
    BY <1>2, <1>4, <1>7, Zenon DEF Saw
  <2> QED BY <2>3, <2>4 DEF Saw
<1>10. QuotesCompiler(b, k + 1, l)
  <2>1. CASE (\E i \in 1 .. Len(a.buildOutput) : a.buildOutput[i] = "compile") \/ line.text = "compile"
    BY <1>5, <2>1 DEF QuotesCompiler
  <2>2. CASE ~((\E i \in 1 .. Len(a.buildOutput) : a.buildOutput[i] = "compile") \/ line.text = "compile")
    <3> DEFINE C == Acts(script, "build-output") \ Shows(script, "compile")
               D == Acts(script, "build-output") \cap Shows(script, "compile")
               E == BuildLines(script) \cup RawBuildLines(script, "stdout")
    <3>1. k + 1 \notin C /\ k + 1 \notin D /\ k + 1 \notin E
      BY <1>3, <2>2, Zenon
    <3>2. /\ D \cap (1 .. k) = {} /\ E \cap (1 .. k) = {}
          /\ RawBuildLines(script, "stderr") \cap (1 .. l) = {}
          /\ Len(a.buildOutput) <= Cardinality(C \cap (1 .. k))
      BY <1>2, <2>2 DEF QuotesCompiler
    <3> HIDE DEF C, D, E
    <3>3. /\ C \cap (1 .. k + 1) = C \cap (1 .. k) /\ D \cap (1 .. k + 1) = D \cap (1 .. k)
          /\ E \cap (1 .. k + 1) = E \cap (1 .. k)
      BY <1>6, <3>1, Zenon
    <3>4. b.buildOutput = a.buildOutput
      BY <1>5, <2>2
    <3>5. /\ D \cap (1 .. k + 1) = {} /\ E \cap (1 .. k + 1) = {}
          /\ RawBuildLines(script, "stderr") \cap (1 .. l) = {}
          /\ Len(b.buildOutput) <= Cardinality(C \cap (1 .. k + 1))
      BY <3>2, <3>3, <3>4, Zenon
    <3> QED BY <3>5 DEF QuotesCompiler, C, D, E
  <2> QED BY <2>1, <2>2
<1> QED BY <1>4, <1>8, <1>9, <1>10 DEF Heard, b

\* One more line of stderr is heard.
LEMMA HearsRawErr ==
  ASSUME script \in Scripts,
         NEW k \in Nat, NEW l \in Nat, NEW line, l + 1 \in 1 .. Len(script.says["stderr"]),
         line = script.says["stderr"][l + 1], NEW a, Heard(a, k, l)
  PROVE  Heard(NoteRaw(a, line), k, l + 1)
<1> DEFINE b == NoteRaw(a, line)
           G == RawBuildLines(script, "stderr")
<1>1. line \in Line /\ l + 1 \in DOMAIN script.says["stderr"] /\ MaxLines \in Nat
  BY ScriptIsTyped DEF Streams
<1>2. a \in Accumulator /\ Tallied(a, k) /\ Saw(a, k, l) /\ QuotesCompiler(a, k, l)
  BY DEF Heard
<1>3. l + 1 \in G <=> line.text = "compile"
  <2> DEFINE n == l + 1
  <2>1. n \in DOMAIN script.says["stderr"] /\ line = script.says["stderr"][n]
    BY <1>1
  <2> HIDE DEF n
  <2>2. n \in G <=> line.text = "compile"
    BY <2>1 DEF RawBuildLines
  <2> QED BY <2>2, Zenon DEF n
<1>4. /\ b \in Accumulator
      /\ b.passed = a.passed /\ b.failed = a.failed /\ b.skipped = a.skipped
      /\ b.sawTestTimeout = a.sawTestTimeout /\ b.sawPanic = a.sawPanic /\ b.sawTests = a.sawTests
      /\ b.buildFailed = (a.buildFailed \/ line.text = "compile")
  BY <1>1, <1>2, NotesRaw
<1>5. /\ (\E i \in 1 .. Len(a.buildOutput) : a.buildOutput[i] = "compile") \/ line.text = "compile" =>
           \E i \in 1 .. Len(b.buildOutput) : b.buildOutput[i] = "compile"
      /\ line.text # "compile" => b.buildOutput = a.buildOutput
  <2>1. line \in Line
    BY <1>1
  <2>2. (\E i \in 1 .. Len(a.buildOutput) : a.buildOutput[i] = "compile") \/ line.text = "compile" =>
          \E i \in 1 .. Len(b.buildOutput) : b.buildOutput[i] = "compile"
    BY <2>1, QuotesRaw, SMT
  <2>3. line.text # "compile" => b.buildOutput = a.buildOutput
    BY <2>1, QuotesRaw, SMT
  <2> QED BY <2>2, <2>3
<1> HIDE DEF b, G
<1>6. G \cap (1 .. l + 1) # {} <=> G \cap (1 .. l) # {} \/ l + 1 \in G
  BY OneMoreLine
<1>7. Tallied(b, k)
  BY <1>2, <1>4, Zenon DEF Tallied
<1>8. Saw(b, k, l + 1)
  BY <1>2, <1>3, <1>4, <1>6 DEF Saw, G
<1>9. QuotesCompiler(b, k, l + 1)
  <2>1. CASE (\E i \in 1 .. Len(a.buildOutput) : a.buildOutput[i] = "compile") \/ line.text = "compile"
    BY <1>5, <2>1 DEF QuotesCompiler
  <2>2. CASE ~((\E i \in 1 .. Len(a.buildOutput) : a.buildOutput[i] = "compile") \/ line.text = "compile")
    <3>1. b.buildOutput = a.buildOutput
      BY <1>5, <2>2
    <3>2. G \cap (1 .. l + 1) = {}
      BY <1>2, <1>3, <1>6, <2>2 DEF QuotesCompiler, G
    <3> QED BY <1>2, <2>2, <3>1, <3>2, Zenon DEF QuotesCompiler, G
  <2> QED BY <2>1, <2>2
<1> QED BY <1>4, <1>7, <1>8, <1>9 DEF Heard, b

\* At the start nothing was heard.
LEMMA ReadingStarts ==
  ASSUME VerdictInit
  PROVE  ReadingInv
<1>1. \A s \in Streams : printed[s] = 0 /\ pipe[s] = << >> /\ reader[s] = "reading"
  BY DEF VerdictInit
<1>2. \A s \in Streams : Len(pipe[s]) = 0 /\ Taken(s) = 0
  BY <1>1 DEF Taken
<1>3. PipesInOrder
  <2>1. \A s \in Streams : Len(script.says[s]) \in Nat
    BY ScriptIsTyped DEF VerdictInit
  <2> QED BY <1>1, <1>2, <2>1 DEF PipesInOrder
<1>4. \A Q : Q \cap (1 .. 0) = {}
  OBVIOUS
<1>5. Cardinality({}) = 0
  BY FS_EmptySet
<1>6. acc = Empty
  BY DEF VerdictInit
<1>7. acc \in Accumulator
  BY <1>6 DEF Accumulator, Empty
<1>8. Tallied(acc, 0)
  BY <1>4, <1>5, <1>6 DEF Tallied, Empty
<1>9. Saw(acc, 0, 0)
  BY <1>4, <1>6, Zenon DEF Saw, Empty
<1>10. QuotesCompiler(acc, 0, 0)
  BY <1>4, <1>5, <1>6 DEF QuotesCompiler, Empty
<1>11. Heard(acc, Taken("stdout"), Taken("stderr"))
  BY <1>2, <1>7, <1>8, <1>9, <1>10 DEF Heard, Streams
<1>12. EndsAsWritten /\ ReadersFinish /\ ResultStands
  BY <1>1 DEF EndsAsWritten, ReadersFinish, ResultStands, VerdictInit
<1>13. /\ printed \in [Streams -> Nat] /\ pipe \in [Streams -> Seq(Line)]
       /\ reader \in [Streams -> {"reading", "done", "stopped"}]
  <2>1. << >> \in Seq(Line)
    OBVIOUS
  <2> QED BY <2>1 DEF VerdictInit
<1> QED BY <1>3, <1>11, <1>12, <1>13 DEF ReadingInv, VerdictInit

\* What was heard of the same script stays heard.
LEMMA StillHeard ==
  ASSUME script' = script, NEW k, NEW l, Taken("stdout")' = k, Taken("stderr")' = l, Heard(acc', k, l)
  PROVE  Heard(acc, Taken("stdout"), Taken("stderr"))'
BY Zenon DEF Heard, Tallied, Saw, QuotesCompiler

\* A step that takes nothing from a pipe and no line in.
LEMMA NothingHeard ==
  ASSUME script' = script, acc' = acc, Taken("stdout")' = Taken("stdout"), Taken("stderr")' = Taken("stderr"),
         HasLongLine \/ Heard(acc, Taken("stdout"), Taken("stderr"))
  PROVE  (HasLongLine \/ Heard(acc, Taken("stdout"), Taken("stderr")))'
<1>1. CASE HasLongLine
  BY <1>1 DEF HasLongLine
<1>2. CASE Heard(acc, Taken("stdout"), Taken("stderr"))
  <2>1. Heard(acc', Taken("stdout"), Taken("stderr"))
    BY <1>2
  <2> QED BY <2>1, StillHeard, Zenon
<1> QED BY <1>1, <1>2

\* A write puts the next line at the end of its pipe.
LEMMA WriteReads ==
  ASSUME ReadingInv, NEW s \in Streams, Write(s)
  PROVE  ReadingInv'
<1> DEFINE said == script.says[s]
           line == said[printed[s] + 1]
<1>1. /\ script' = script /\ reader' = reader /\ process' = process /\ canceled' = canceled
      /\ overdue' = overdue /\ acc' = acc /\ result' = result
      /\ process = "alive" /\ printed[s] < Len(said)
      /\ pipe' = [pipe EXCEPT ![s] = Append(pipe[s], line)]
      /\ printed' = [printed EXCEPT ![s] = printed[s] + 1]
  BY DEF Write
<1>2. script \in Scripts /\ printed \in [Streams -> Nat] /\ pipe \in [Streams -> Seq(Line)]
  BY DEF ReadingInv
<1>3. /\ Len(said) \in Nat /\ \A n \in 1 .. Len(said) : said[n] \in Line
  BY <1>2, ScriptIsTyped
<1>4. \A t \in Streams :
        /\ printed[t] \in Nat /\ printed[t] \in 0 .. Len(script.says[t])
        /\ pipe[t] \in Seq(Line) /\ Len(pipe[t]) \in Nat /\ Len(pipe[t]) <= printed[t]
        /\ \A k \in 1 .. Len(pipe[t]) : pipe[t][k] = script.says[t][Taken(t) + k]
  BY <1>2, LenProperties DEF ReadingInv, PipesInOrder
<1>5. line \in Line
  BY <1>1, <1>3, <1>4
<1> HIDE DEF line
<1>6. /\ printed' \in [Streams -> Nat] /\ pipe' \in [Streams -> Seq(Line)]
      /\ printed'[s] = printed[s] + 1 /\ pipe'[s] = Append(pipe[s], line)
      /\ \A t \in Streams \ {s} : printed'[t] = printed[t] /\ pipe'[t] = pipe[t]
  <2>1. Append(pipe[s], line) \in Seq(Line)
    BY <1>4, <1>5, AppendProperties
  <2> QED BY <1>1, <1>2, <1>4, <2>1
<1>7. /\ pipe'[s] \in Seq(Line) /\ Len(pipe'[s]) = Len(pipe[s]) + 1
      /\ \A k \in 1 .. Len(pipe[s]) : pipe'[s][k] = pipe[s][k]
      /\ pipe'[s][Len(pipe[s]) + 1] = line
  BY <1>4, <1>5, <1>6, AppendProperties
<1>8. \A t \in Streams : Taken(t)' = Taken(t)
  <2>1. \A t \in Streams \ {s} : Taken(t)' = Taken(t)
    BY <1>6 DEF Taken
  <2>2. Taken(s)' = Taken(s)
    BY <1>4, <1>6, <1>7 DEF Taken
  <2> QED BY <2>1, <2>2
<1>9. PipesInOrder'
  <2>1. ASSUME NEW k \in 1 .. Len(pipe'[s])
        PROVE  pipe'[s][k] = script.says[s][Taken(s) + k]
    <3>1. CASE k \in 1 .. Len(pipe[s])
      BY <1>4, <1>7, <3>1
    <3>2. CASE k = Len(pipe[s]) + 1
      <4>1. printed[s] \in Nat /\ Len(pipe[s]) \in Nat
        BY <1>4
      <4>2. Taken(s) + k = printed[s] + 1
        BY <3>2, <4>1 DEF Taken
      <4> QED BY <1>7, <3>2, <4>2 DEF line
    <3> QED BY <1>4, <1>7, <3>1, <3>2
  <2>2. /\ printed'[s] \in 0 .. Len(script.says[s]) /\ Len(pipe'[s]) <= printed'[s]
    BY <1>1, <1>3, <1>4, <1>6, <1>7
  <2>3. /\ printed'[s] \in 0 .. Len(script'.says[s])
        /\ pipe'[s] \in Seq(Line) /\ Len(pipe'[s]) <= printed'[s]
        /\ \A k \in 1 .. Len(pipe'[s]) : pipe'[s][k] = script'.says[s][Taken(s)' + k]
    BY <1>1, <1>7, <1>8, <2>1, <2>2
  <2>4. \A t \in Streams \ {s} :
          /\ printed'[t] \in 0 .. Len(script'.says[t])
          /\ pipe'[t] \in Seq(Line) /\ Len(pipe'[t]) <= printed'[t]
          /\ \A k \in 1 .. Len(pipe'[t]) : pipe'[t][k] = script'.says[t][Taken(t)' + k]
    BY <1>1, <1>4, <1>6, <1>8
  <2> QED BY <2>3, <2>4 DEF PipesInOrder
<1>10. EndsAsWritten' /\ ReadersFinish' /\ ResultStands'
  BY <1>1 DEF EndsAsWritten, ReadersFinish, ResultStands, ReadingInv, HasLongLine, NoResult
<1>11. (HasLongLine \/ Heard(acc, Taken("stdout"), Taken("stderr")))'
  BY <1>1, <1>8, NothingHeard DEF ReadingInv, Streams
<1> QED BY <1>1, <1>6, <1>9, <1>10, <1>11 DEF ReadingInv

\* The steps that leave the pipes as they are.
LEMMA PipesStay ==
  ASSUME ReadingInv, UNCHANGED <<script, printed, pipe, acc>>
  PROVE  /\ script' \in Scripts /\ printed' \in [Streams -> Nat]
         /\ pipe' \in [Streams -> Seq(Line)]
         /\ PipesInOrder' /\ (HasLongLine' <=> HasLongLine)
         /\ (HasLongLine \/ Heard(acc, Taken("stdout"), Taken("stderr")))'
<1>1. \A t : Taken(t)' = Taken(t)
  BY DEF Taken
<1>2. (HasLongLine \/ Heard(acc, Taken("stdout"), Taken("stderr")))'
  BY <1>1, NothingHeard DEF ReadingInv
<1> QED BY <1>1, <1>2 DEF ReadingInv, PipesInOrder, HasLongLine

\* The ends of the command, and what is done to it.
LEMMA EndReads ==
  ASSUME ReadingInv,
         Exit \/ Kill \/ CancelRun \/ PassDeadline
  PROVE  ReadingInv'
<1>1. UNCHANGED <<script, printed, pipe, acc>> /\ reader' = reader /\ result' = result
  BY DEF Exit, Kill, CancelRun, PassDeadline
<1>2. /\ process' \in {"alive", "zero", "nonzero", "killed"}
      /\ canceled' \in BOOLEAN /\ overdue' \in BOOLEAN
      /\ process # "alive" => process' # "alive"
  <2>1. CASE Exit
    <3>1. script.ends \in {"zero", "nonzero", "never"}
      BY ScriptIsTyped DEF ReadingInv
    <3> QED BY <2>1, <3>1 DEF Exit, ReadingInv
  <2>2. CASE Kill \/ CancelRun \/ PassDeadline
    BY <2>2 DEF Kill, CancelRun, PassDeadline, ReadingInv
  <2> QED BY <2>1, <2>2
<1>3. EndsAsWritten'
  <2>1. CASE Exit
    <3>1. script.ends \in {"zero", "nonzero", "never"}
      BY ScriptIsTyped DEF ReadingInv
    <3>2. process' = script.ends /\ \A s \in Streams : printed[s] = Len(script.says[s])
      BY <2>1 DEF Exit
    <3>3. script.ends # "killed"
      BY <3>1
    <3> QED BY <1>1, <3>2, <3>3, Zenon DEF EndsAsWritten
  <2>2. CASE Kill
    BY <1>1, <2>2 DEF Kill, EndsAsWritten
  <2>3. CASE CancelRun \/ PassDeadline
    BY <1>1, <2>3 DEF CancelRun, PassDeadline, EndsAsWritten, ReadingInv
  <2> QED BY <2>1, <2>2, <2>3
<1>4. ReadersFinish'
  <2>1. HasLongLine' <=> HasLongLine
    BY <1>1, PipesStay
  <2>2. reader' = reader /\ pipe' = pipe /\ (process # "alive" => process' # "alive")
    BY <1>1, <1>2
  <2> QED BY <2>1, <2>2, Zenon DEF ReadersFinish, ReadingInv
<1>5. ResultStands'
  <2>1. result' = NoResult
    BY <1>1 DEF ResultStands, ReadingInv, Exit, Kill, CancelRun, PassDeadline
  <2> QED BY <2>1 DEF ResultStands, NoResult
<1> QED BY <1>1, <1>2, <1>3, <1>4, <1>5, PipesStay DEF ReadingInv

\* A reader that finds the end, and the result.
LEMMA FinishReads ==
  ASSUME ReadingInv, Conclude \/ \E s \in Streams : ReadEnd(s)
  PROVE  ReadingInv'
<1>1. UNCHANGED <<script, printed, pipe, acc, process, canceled, overdue>>
  BY DEF Conclude, ReadEnd
<1>2. EndsAsWritten'
  BY <1>1 DEF EndsAsWritten, ReadingInv
<1>3. CASE Conclude
  <2>1. reader' = reader /\ result' = ResultOf(acc) /\ process # "alive"
        /\ \A s \in Streams : reader[s] # "reading"
    BY <1>3 DEF Conclude
  <2>2. ReadersFinish'
    BY <1>1, <2>1, PipesStay DEF ReadersFinish, ReadingInv
  <2>3. ResultOf(acc)' = ResultOf(acc)
    BY <1>1 DEF ResultOf, Outcome, Diagnostic
  <2>4. ResultStands'
    BY <1>1, <2>1, <2>3 DEF ResultStands
  <2> QED BY <1>1, <1>2, <2>1, <2>2, <2>4, PipesStay DEF ReadingInv
<1>4. ASSUME NEW s \in Streams, ReadEnd(s) PROVE ReadingInv'
  <2>1. /\ reader' = [reader EXCEPT ![s] = "done"] /\ result' = result
        /\ reader[s] = "reading" /\ pipe[s] = << >> /\ process # "alive"
    BY <1>4 DEF ReadEnd
  <2>2. /\ reader \in [Streams -> {"reading", "done", "stopped"}]
        /\ ReadersFinish /\ ResultStands
    BY DEF ReadingInv
  <2>3. /\ reader' \in [Streams -> {"reading", "done", "stopped"}] /\ reader'[s] = "done"
        /\ \A t \in Streams \ {s} : reader'[t] = reader[t]
    BY <2>1, <2>2
  <2>4. ReadersFinish'
    BY <1>1, <2>1, <2>2, <2>3, PipesStay DEF ReadersFinish
  <2>5. ResultStands'
    BY <2>1, <2>2 DEF ResultStands, NoResult
  <2> QED BY <1>1, <1>2, <2>3, <2>4, <2>5, PipesStay DEF ReadingInv
<1> QED BY <1>3, <1>4

\* The first line of a pipe is the next of the script, and what is behind it moves up.
LEMMA NextLine ==
  ASSUME ReadingInv, NEW s \in Streams, pipe[s] # << >>,
         script' = script, printed' = printed, pipe' = [pipe EXCEPT ![s] = Tail(pipe[s])]
  PROVE  /\ Taken(s) \in Nat /\ Taken(s) + 1 \in 1 .. Len(script.says[s])
         /\ Head(pipe[s]) = script.says[s][Taken(s) + 1]
         /\ Taken(s)' = Taken(s) + 1
         /\ \A t \in Streams \ {s} : Taken(t)' = Taken(t) /\ pipe'[t] = pipe[t]
         /\ pipe' \in [Streams -> Seq(Line)]
         /\ PipesInOrder'
<1>1. script \in Scripts /\ printed \in [Streams -> Nat] /\ pipe \in [Streams -> Seq(Line)]
  BY DEF ReadingInv
<1>2. \A t \in Streams :
        /\ printed[t] \in Nat /\ printed[t] \in 0 .. Len(script.says[t]) /\ Len(script.says[t]) \in Nat
        /\ pipe[t] \in Seq(Line) /\ Len(pipe[t]) \in Nat /\ Len(pipe[t]) <= printed[t]
        /\ \A k \in 1 .. Len(pipe[t]) : pipe[t][k] = script.says[t][Taken(t) + k]
  BY <1>1, ScriptIsTyped, LenProperties DEF ReadingInv, PipesInOrder
<1>3. /\ Len(pipe[s]) > 0 /\ Head(pipe[s]) = pipe[s][1]
      /\ Tail(pipe[s]) \in Seq(Line) /\ Len(Tail(pipe[s])) = Len(pipe[s]) - 1
      /\ \A k \in 1 .. Len(pipe[s]) - 1 : Tail(pipe[s])[k] = pipe[s][k + 1]
  <2>1. pipe[s] \in Seq(Line) /\ Len(pipe[s]) \in Nat
    BY <1>2
  <2>2. Len(pipe[s]) # 0
    BY <2>1, EmptySeq
  <2> QED BY <2>1, <2>2, HeadTailProperties
<1>4. /\ pipe' \in [Streams -> Seq(Line)] /\ pipe'[s] = Tail(pipe[s])
      /\ \A t \in Streams \ {s} : pipe'[t] = pipe[t]
  BY <1>1
<1>5. /\ Taken(s) \in Nat /\ Taken(s) + 1 \in 1 .. Len(script.says[s])
      /\ Head(pipe[s]) = script.says[s][Taken(s) + 1]
  BY <1>2, <1>3 DEF Taken
<1>6. Taken(s)' = Taken(s) + 1 /\ \A t \in Streams \ {s} : Taken(t)' = Taken(t)
  BY <1>2, <1>3, <1>4 DEF Taken
<1>7. /\ printed'[s] \in 0 .. Len(script'.says[s])
      /\ pipe'[s] \in Seq(Line) /\ Len(pipe'[s]) <= printed'[s]
  BY <1>2, <1>3, <1>4
<1>8. ASSUME NEW k \in 1 .. Len(pipe'[s])
      PROVE  pipe'[s][k] = script'.says[s][Taken(s)' + k]
  <2>1. k \in 1 .. Len(pipe[s]) - 1 /\ k + 1 \in 1 .. Len(pipe[s])
    BY <1>2, <1>3, <1>4
  <2>2. pipe'[s][k] = pipe[s][k + 1]
    BY <1>3, <1>4, <2>1
  <2>3. pipe[s][k + 1] = script.says[s][Taken(s) + (k + 1)]
    BY <1>2, <2>1
  <2>4. Taken(s) + (k + 1) = Taken(s)' + k
    BY <1>5, <1>6, <2>1
  <2> QED BY <2>2, <2>3, <2>4
<1>9. \A t \in Streams \ {s} :
        /\ printed'[t] \in 0 .. Len(script'.says[t])
        /\ pipe'[t] \in Seq(Line) /\ Len(pipe'[t]) <= printed'[t]
        /\ \A k \in 1 .. Len(pipe'[t]) : pipe'[t][k] = script'.says[t][Taken(t)' + k]
  BY <1>2, <1>4, <1>6
<1>10. PipesInOrder'
  BY <1>7, <1>8, <1>9 DEF PipesInOrder
<1> QED BY <1>4, <1>5, <1>6, <1>10

\* A line that was read is heard.
LEMMA LineReads ==
  ASSUME ReadingInv,
         NEW s \in Streams, Read(s)
  PROVE  ReadingInv'
<1> DEFINE line == Head(pipe[s])
<1>1. /\ reader[s] = "reading" /\ pipe[s] # << >>
      /\ acc' = Noted(s, line) /\ pipe' = [pipe EXCEPT ![s] = Tail(pipe[s])]
      /\ script' = script /\ printed' = printed /\ reader' = reader /\ process' = process
      /\ canceled' = canceled /\ overdue' = overdue /\ result' = result
  BY DEF Read
<1>2. /\ Taken(s) \in Nat /\ Taken(s) + 1 \in 1 .. Len(script.says[s])
      /\ line = script.says[s][Taken(s) + 1]
      /\ Taken(s)' = Taken(s) + 1
      /\ \A t \in Streams \ {s} : Taken(t)' = Taken(t) /\ pipe'[t] = pipe[t]
      /\ pipe' \in [Streams -> Seq(Line)] /\ PipesInOrder'
  BY <1>1, NextLine
<1> HIDE DEF line
<1>3. script \in Scripts /\ \A t \in Streams : Taken(t) \in Nat
  <2>1. \A t \in Streams : printed[t] \in Nat /\ Len(pipe[t]) \in Nat /\ Len(pipe[t]) <= printed[t]
    BY LenProperties DEF ReadingInv, PipesInOrder
  <2> QED BY <2>1 DEF ReadingInv, Taken
<1>4. HasLongLine' <=> HasLongLine
  BY <1>1 DEF HasLongLine
<1>5. (HasLongLine \/ Heard(acc, Taken("stdout"), Taken("stderr")))'
  <2>1. CASE HasLongLine
    BY <1>4, <2>1
  <2>2. CASE Heard(acc, Taken("stdout"), Taken("stderr"))
    <3> DEFINE k == Taken("stdout")
               l == Taken("stderr")
    <3>1. k \in Nat /\ l \in Nat /\ Heard(acc, k, l)
      BY <1>3, <2>2 DEF Streams
    <3>2. CASE s = "stdout"
      <4>1. /\ k + 1 \in 1 .. Len(script.says["stdout"]) /\ line = script.says["stdout"][k + 1]
            /\ Taken("stdout")' = k + 1 /\ Taken("stderr")' = l
        BY <1>2, <3>2 DEF Streams
      <4> HIDE DEF k, l
      <4>2. Heard(acc', k + 1, l)
        <5>1. CASE line.json
          <6>1. acc' = Note(acc, line)
            BY <1>1, <3>2, <5>1 DEF Noted
          <6>2. Heard(Note(acc, line), k + 1, l)
            BY <1>3, <3>1, <4>1, <5>1, HearsEvent
          <6> QED BY <6>1, <6>2
        <5>2. CASE ~line.json
          <6>1. acc' = NoteRaw(acc, line)
            BY <1>1, <5>2 DEF Noted
          <6>2. Heard(NoteRaw(acc, line), k + 1, l)
            BY <1>3, <3>1, <4>1, <5>2, HearsRawOut
          <6> QED BY <6>1, <6>2
        <5> QED BY <5>1, <5>2
      <4>3. Heard(acc, Taken("stdout"), Taken("stderr"))'
        BY <1>1, <4>1, <4>2, StillHeard, Zenon
      <4> QED BY <4>3
    <3>3. CASE s = "stderr"
      <4>1. /\ l + 1 \in 1 .. Len(script.says["stderr"]) /\ line = script.says["stderr"][l + 1]
            /\ Taken("stdout")' = k /\ Taken("stderr")' = l + 1
        BY <1>2, <3>3 DEF Streams
      <4> HIDE DEF k, l
      <4>2. Heard(acc', k, l + 1)
        <5>1. acc' = NoteRaw(acc, line)
          BY <1>1, <3>3 DEF Noted
        <5>2. Heard(NoteRaw(acc, line), k, l + 1)
          BY <1>3, <3>1, <4>1, HearsRawErr
        <5> QED BY <5>1, <5>2
      <4>3. Heard(acc, Taken("stdout"), Taken("stderr"))'
        BY <1>1, <4>1, <4>2, StillHeard, Zenon
      <4> QED BY <4>3
    <3> QED BY <3>2, <3>3 DEF Streams
  <2> QED BY <2>1, <2>2 DEF ReadingInv
<1>6. EndsAsWritten'
  BY <1>1 DEF EndsAsWritten, ReadingInv
<1>7. ReadersFinish'
  BY <1>1, <1>2, <1>4 DEF ReadersFinish, ReadingInv
<1>8. ResultStands'
  BY <1>1 DEF ResultStands, ReadingInv, NoResult
<1> QED BY <1>1, <1>2, <1>5, <1>6, <1>7, <1>8 DEF ReadingInv

\* A line that fits no buffer stops its reader: the script has it.
LEMMA LongLineReads ==
  ASSUME ReadingInv, NEW s \in Streams, ReadTooLong(s)
  PROVE  ReadingInv'
<1>1. /\ reader[s] = "reading" /\ pipe[s] # << >> /\ Head(pipe[s]).text = "long"
      /\ reader' = [reader EXCEPT ![s] = "stopped"]
      /\ script' = script /\ printed' = printed /\ process' = process /\ acc' = acc
      /\ canceled' = canceled /\ overdue' = overdue /\ result' = result
      /\ \E left \in {pipe[s], Tail(pipe[s])} : pipe' = [pipe EXCEPT ![s] = left]
  BY DEF ReadTooLong
<1>2. /\ script \in Scripts /\ printed \in [Streams -> Nat]
      /\ pipe \in [Streams -> Seq(Line)] /\ PipesInOrder
      /\ reader \in [Streams -> {"reading", "done", "stopped"}]
  BY DEF ReadingInv
<1>3. HasLongLine
  <2>1. \A t \in Streams :
          /\ printed[t] \in 0 .. Len(script.says[t]) /\ Len(script.says[t]) \in Nat
          /\ Len(pipe[t]) \in Nat /\ Len(pipe[t]) <= printed[t]
          /\ \A k \in 1 .. Len(pipe[t]) : pipe[t][k] = script.says[t][Taken(t) + k]
          /\ DOMAIN script.says[t] = 1 .. Len(script.says[t])
    BY <1>2, ScriptIsTyped, LenProperties DEF PipesInOrder
  <2>2. Len(pipe[s]) > 0 /\ Head(pipe[s]) = pipe[s][1]
    <3>1. Len(pipe[s]) # 0
      BY <1>1, <1>2, EmptySeq
    <3> QED BY <1>2, <2>1, <3>1, HeadTailProperties
  <2>3. pipe[s][1] = script.says[s][Taken(s) + 1]
    BY <2>1, <2>2
  <2>4. Taken(s) + 1 \in DOMAIN script.says[s]
    BY <2>1, <2>2 DEF Taken
  <2>5. script.says[s][Taken(s) + 1].text = "long"
    BY <1>1, <2>2, <2>3, Zenon
  <2> QED BY <2>4, <2>5 DEF HasLongLine
<1>4. HasLongLine'
  BY <1>1, <1>3 DEF HasLongLine
<1>5. pipe' \in [Streams -> Seq(Line)] /\ PipesInOrder'
  <2>1. CASE pipe' = [pipe EXCEPT ![s] = pipe[s]]
    <3>1. pipe' = pipe
      BY <1>2, <2>1
    <3> QED BY <1>1, <1>2, <3>1 DEF PipesInOrder, Taken
  <2>2. CASE pipe' = [pipe EXCEPT ![s] = Tail(pipe[s])]
    BY <1>1, <2>2, NextLine
  <2> QED BY <1>1, <2>1, <2>2
<1>6. /\ reader' \in [Streams -> {"reading", "done", "stopped"}] /\ reader'[s] = "stopped"
      /\ \A t \in Streams \ {s} : reader'[t] = reader[t] /\ pipe'[t] = pipe[t]
  BY <1>1, <1>2
<1>7. ReadersFinish'
  BY <1>1, <1>4, <1>6 DEF ReadersFinish, ReadingInv
<1>8. EndsAsWritten'
  BY <1>1 DEF EndsAsWritten, ReadingInv
<1>9. ResultStands'
  BY <1>1 DEF ResultStands, ReadingInv, NoResult
<1> QED BY <1>1, <1>2, <1>4, <1>5, <1>6, <1>7, <1>8, <1>9 DEF ReadingInv

\* Every step of reading keeps the invariant.
LEMMA ReadingInvariant == VerdictSpec => []ReadingInv
<1>1. VerdictInit => ReadingInv
  BY ReadingStarts
<1>2. ReadingInv /\ [VerdictNext]_verdictVars => ReadingInv'
  <2> SUFFICES ASSUME ReadingInv, [VerdictNext]_verdictVars
               PROVE  ReadingInv'
    OBVIOUS
  <2>1. CASE Command
    BY <2>1, EndReads, WriteReads DEF Command
  <2>2. CASE Kill \/ CancelRun \/ PassDeadline
    BY <2>2, EndReads
  <2>3. ASSUME NEW s \in Streams, Reader(s)
        PROVE  ReadingInv'
    BY <2>3, LineReads, LongLineReads, FinishReads DEF Reader
  <2>4. CASE Conclude
    BY <2>4, FinishReads
  <2>5. CASE UNCHANGED verdictVars
    <3>1. UNCHANGED <<script, printed, pipe, acc>> /\ reader' = reader /\ process' = process
          /\ canceled' = canceled /\ overdue' = overdue /\ result' = result
      BY <2>5 DEF verdictVars
    <3>2. ResultOf(acc)' = ResultOf(acc)
      BY <3>1 DEF ResultOf, Outcome, Diagnostic
    <3>3. EndsAsWritten' /\ ReadersFinish' /\ ResultStands'
      BY <3>1, <3>2, PipesStay DEF EndsAsWritten, ReadersFinish, ResultStands, ReadingInv, NoResult
    <3> QED BY <3>1, <3>3, PipesStay DEF ReadingInv
  <2> QED BY <2>1, <2>2, <2>3, <2>4, <2>5 DEF VerdictNext
<1> QED BY <1>1, <1>2, PTL DEF VerdictSpec

\* When both readers of a command that ended by itself are through, and none gave up,
\* all of its output was heard.
LEMMA HeardToTheEnd ==
  ASSUME ReadingInv, process \in {"zero", "nonzero"}, ~HasLongLine,
         \A s \in Streams : reader[s] # "reading"
  PROVE  Heard(acc, Len(script.says["stdout"]), Len(script.says["stderr"]))
<1>1. \A s \in Streams : reader[s] = "done"
  BY DEF ReadingInv, ReadersFinish
<1>2. \A s \in Streams : pipe[s] = << >>
  BY <1>1 DEF ReadingInv, ReadersFinish
<1>3. \A s \in Streams : printed[s] = Len(script.says[s])
  BY DEF ReadingInv, EndsAsWritten
<1>4. \A s \in Streams : Len(script.says[s]) \in Nat
  BY ScriptIsTyped DEF ReadingInv
<1>5. \A s \in Streams : Taken(s) = Len(script.says[s])
  BY <1>2, <1>3, <1>4 DEF Taken
<1>6. Heard(acc, Taken("stdout"), Taken("stderr"))
  BY DEF ReadingInv
<1> QED BY <1>5, <1>6 DEF Streams

\* So it was when a result is there.
LEMMA AllHeard ==
  ASSUME ReadingInv, result # NoResult,
         process \in {"zero", "nonzero"}, ~HasLongLine
  PROVE  /\ process = script.ends /\ result = ResultOf(acc)
         /\ Heard(acc, Len(script.says["stdout"]), Len(script.says["stderr"]))
<1>1. result = ResultOf(acc) /\ \A s \in Streams : reader[s] # "reading"
  BY DEF ReadingInv, ResultStands
<1>2. process = script.ends
  BY DEF ReadingInv, EndsAsWritten
<1> QED BY <1>1, <1>2, HeardToTheEnd

\* What was heard of a whole script is what the script says.
LEMMA HeardWhole ==
  ASSUME script \in Scripts,
         Heard(acc, Len(script.says["stdout"]), Len(script.says["stderr"]))
  PROVE  /\ acc \in Accumulator
         /\ acc.passed = script.passed /\ acc.failed = script.failed /\ acc.skipped = script.skipped
         /\ acc.sawTestTimeout <=> Shows(script, "testTimeout") # {}
         /\ acc.sawPanic <=> Shows(script, "panic") # {}
         /\ acc.sawTests <=> Tests(script) # {}
         /\ acc.buildFailed <=> SaysBuildFailed(script)
         /\ acc.buildFailed => \E i \in 1 .. Len(acc.buildOutput) : acc.buildOutput[i] = "compile"
<1> DEFINE k == Len(script.says["stdout"])
           l == Len(script.says["stderr"])
<1>1. acc \in Accumulator /\ Tallied(acc, k) /\ Saw(acc, k, l) /\ QuotesCompiler(acc, k, l)
  BY DEF Heard
<1>2. DOMAIN script.says["stdout"] = 1 .. k /\ DOMAIN script.says["stderr"] = 1 .. l
  BY ScriptIsTyped DEF Streams
<1> HIDE DEF k, l
<1>3. \A Q : Q \in SUBSET (1 .. k) => Q \cap (1 .. k) = Q
  OBVIOUS
<1>4. /\ \A action : /\ Reports(script, action) \in SUBSET (1 .. k)
                     /\ Acts(script, action) \in SUBSET (1 .. k)
      /\ \A what : Shows(script, what) \in SUBSET (1 .. k)
      /\ Tests(script) \in SUBSET (1 .. k)
      /\ RawBuildLines(script, "stdout") \in SUBSET (1 .. k)
      /\ RawBuildLines(script, "stderr") \in SUBSET (1 .. l)
  BY <1>2 DEF Reports, Acts, Shows, Tests, RawBuildLines
<1>5. BuildLines(script) \in SUBSET (1 .. k)
  BY <1>4 DEF BuildLines
<1>6. /\ \A action : Reports(script, action) \cap (1 .. k) = Reports(script, action)
      /\ \A what : Shows(script, what) \cap (1 .. k) = Shows(script, what)
      /\ Tests(script) \cap (1 .. k) = Tests(script)
      /\ RawBuildLines(script, "stderr") \cap (1 .. l) = RawBuildLines(script, "stderr")
  BY <1>4
<1>7. acc.passed = script.passed /\ acc.failed = script.failed /\ acc.skipped = script.skipped
  <2>1. /\ script.passed = Cardinality(Reports(script, "pass"))
        /\ script.failed = Cardinality(Reports(script, "fail"))
        /\ script.skipped = Cardinality(Reports(script, "skip"))
    BY ToolchainAssumption, Zenon DEF ToolchainAssumption, KeepsPromises
  <2>2. /\ acc.passed = Cardinality(Reports(script, "pass"))
        /\ acc.failed = Cardinality(Reports(script, "fail"))
        /\ acc.skipped = Cardinality(Reports(script, "skip"))
    BY <1>1, <1>6, Zenon DEF Tallied
  <2> QED BY <2>1, <2>2, Zenon
<1>8. /\ acc.sawTestTimeout <=> Shows(script, "testTimeout") # {}
      /\ acc.sawPanic <=> Shows(script, "panic") # {}
      /\ acc.sawTests <=> Tests(script) # {}
  BY <1>1, <1>6, Zenon DEF Saw
<1>9. acc.buildFailed <=> SaysBuildFailed(script)
  <2> DEFINE F == Acts(script, "build-fail") \cup BuildLines(script)
                    \cup RawBuildLines(script, "stdout")
             G == RawBuildLines(script, "stderr")
  <2>1. F \in SUBSET (1 .. k)
    BY <1>4, <1>5
  <2>2. acc.buildFailed <=> F \cap (1 .. k) # {} \/ G \cap (1 .. l) # {}
    BY <1>1, Zenon DEF Saw
  <2>3. SaysBuildFailed(script) <=> F \cup G # {}
    BY DEF SaysBuildFailed
  <2>4. G \cap (1 .. l) = G
    BY <1>6
  <2> HIDE DEF F, G
  <2> QED BY <2>1, <2>2, <2>3, <2>4
<1>10. ASSUME acc.buildFailed
       PROVE  \E i \in 1 .. Len(acc.buildOutput) : acc.buildOutput[i] = "compile"
  <2> DEFINE D == Acts(script, "build-output") \cap Shows(script, "compile")
             B == BuildLines(script)
             R == RawBuildLines(script, "stdout")
             G == RawBuildLines(script, "stderr")
             A == Acts(script, "build-fail")
  <2>1. A # {} => D \cup B \cup R \cup G # {}
    BY ToolchainAssumption, Zenon DEF ToolchainAssumption, KeepsPromises
  <2>2. A \cup B \cup R \cup G # {}
    BY <1>9, <1>10 DEF SaysBuildFailed
  <2>3. D \in SUBSET (1 .. k) /\ B \in SUBSET (1 .. k) /\ R \in SUBSET (1 .. k) /\ G \in SUBSET (1 .. l)
    BY <1>4, <1>5
  <2>4. \/ \E i \in 1 .. Len(acc.buildOutput) : acc.buildOutput[i] = "compile"
        \/ D \cap (1 .. k) = {} /\ (B \cup R) \cap (1 .. k) = {} /\ G \cap (1 .. l) = {}
    BY <1>1, Zenon DEF QuotesCompiler
  <2> HIDE DEF A, B, D, G, R
  <2>5. D \cup B \cup R \cup G # {}
    BY <2>1, <2>2
  <2>6. ~(D \cap (1 .. k) = {} /\ (B \cup R) \cap (1 .. k) = {} /\ G \cap (1 .. l) = {})
    BY <2>3, <2>5
  <2> QED BY <2>4, <2>6
<1> QED BY <1>1, <1>7, <1>8, <1>9, <1>10

\* What a script is promised to be, promise by promise.
LEMMA PromisesKept ==
  ASSUME script \in Scripts
  PROVE  /\ script.ends = "zero" => script.verdict = "passed" /\ script.failed = 0
         /\ script.ends = "nonzero" /\ Shows(script, "testTimeout") = {}
              /\ ~SaysBuildFailed(script) =>
              script.verdict = IF Tests(script) \cup Shows(script, "panic") = {}
                               THEN "build_failed" ELSE "failed"
         /\ Acts(script, "build-fail") \cup RawBuildLines(script, "stderr") # {} =>
              script.verdict = "build_failed"
         /\ \A n \in DOMAIN script.says["stdout"] :
              ~script.says["stdout"][n].json => script.says["stdout"][n].test = ""
BY ToolchainAssumption, Zenon DEF ToolchainAssumption, KeepsPromises

\* The verdict is "passed" only if the command passed: it ended by itself, with status
\* zero, and all its tests did, as they were counted.  Of `accumulator.result` and
\* `execute`, for every script that keeps the promises of the toolchain.
THEOREM GreenIsTrue == VerdictSpec => []NoFalseGreen
<1>1. ReadingInv => NoFalseGreen
  <2> SUFFICES ASSUME ReadingInv, result.outcome = "passed"
               PROVE  /\ script.verdict = "passed"
                      /\ process = "zero" /\ ~canceled /\ ~overdue
                      /\ HasLongLine \/ (result.failed = 0 /\ result.passed = script.passed)
    BY DEF NoFalseGreen
  <2>1. result # NoResult
    BY DEF NoResult
  <2>2. result = ResultOf(acc) /\ script \in Scripts
    BY <2>1 DEF ReadingInv, ResultStands
  <2>3. /\ result.outcome = Outcome(acc)
        /\ result.passed = acc.passed /\ result.failed = acc.failed
    BY <2>2 DEF ResultOf
  <2>4. process = "zero" /\ ~canceled /\ ~overdue
    BY <2>3 DEF Outcome
  <2>5. script.ends = "zero"
    BY <2>4 DEF ReadingInv, EndsAsWritten
  <2>6. script.verdict = "passed" /\ script.failed = 0
    BY <2>2, <2>5, PromisesKept
  <2>7. ASSUME ~HasLongLine PROVE result.failed = 0 /\ result.passed = script.passed
    <3>1. Heard(acc, Len(script.says["stdout"]), Len(script.says["stderr"]))
      BY <2>1, <2>4, <2>7, AllHeard
    <3>2. acc.passed = script.passed /\ acc.failed = script.failed
      BY <2>2, <3>1, HeardWhole
    <3> QED BY <2>3, <2>6, <3>2
  <2> QED BY <2>4, <2>6, <2>7
<1> QED BY <1>1, ReadingInvariant, PTL

\* What is said of a command whose output misleads nobody.
LEMMA NotMisled ==
  ASSUME script \in Scripts, ~Misleads
  PROVE  /\ Shows(script, "testTimeout") # {} => script.verdict = "timeout"
         /\ SaysBuildFailed(script) => script.verdict = "build_failed"
<1>1. \A n \in DOMAIN script.says["stdout"] :
        /\ script.says["stdout"][n].text = "compile" /\ script.says["stdout"][n].test = "" =>
             script.verdict = "build_failed"
        /\ script.says["stdout"][n].text = "testTimeout" => script.verdict = "timeout"
  BY DEF Misleads
<1>2. Shows(script, "testTimeout") # {} => script.verdict = "timeout"
  BY <1>1 DEF Shows
<1>3. BuildLines(script) # {} => script.verdict = "build_failed"
  BY <1>1 DEF BuildLines, Shows, Tests
<1>4. RawBuildLines(script, "stdout") # {} => script.verdict = "build_failed"
  <2>1. \A n \in DOMAIN script.says["stdout"] :
          ~script.says["stdout"][n].json => script.says["stdout"][n].test = ""
    BY PromisesKept
  <2>2. \A n \in RawBuildLines(script, "stdout") :
          /\ n \in DOMAIN script.says["stdout"]
          /\ script.says["stdout"][n].text = "compile" /\ ~script.says["stdout"][n].json
    BY DEF RawBuildLines
  <2> QED BY <1>1, <2>1, <2>2
<1>5. Acts(script, "build-fail") \cup RawBuildLines(script, "stderr") # {} =>
        script.verdict = "build_failed"
  BY PromisesKept
<1> QED BY <1>2, <1>3, <1>4, <1>5 DEF SaysBuildFailed

\* A command that nobody interfered with gets the verdict and the counts it deserves,
\* and a failed build is reported with what the compiler said.
THEOREM VerdictIsTrue == VerdictSpec => []TrueVerdict
<1>1. ReadingInv => TrueVerdict
  <2> SUFFICES ASSUME ReadingInv, result # NoResult, ~canceled, ~overdue,
                      ~HasLongLine, ~Misleads
               PROVE  /\ result.outcome = script.verdict
                      /\ <<result.passed, result.failed, result.skipped>>
                           = <<script.passed, script.failed, script.skipped>>
                      /\ acc.buildFailed /\ result.outcome = "build_failed" =>
                           Contains(result.quotes, "compile")
    BY DEF TrueVerdict
  <2>1. script \in Scripts /\ process \in {"zero", "nonzero"}
    BY DEF ReadingInv, EndsAsWritten, ResultStands
  <2>2. /\ process = script.ends /\ result = ResultOf(acc)
        /\ Heard(acc, Len(script.says["stdout"]), Len(script.says["stderr"]))
    BY <2>1, AllHeard
  <2>3. /\ acc \in Accumulator
        /\ acc.passed = script.passed /\ acc.failed = script.failed /\ acc.skipped = script.skipped
        /\ acc.sawTestTimeout <=> Shows(script, "testTimeout") # {}
        /\ acc.sawPanic <=> Shows(script, "panic") # {}
        /\ acc.sawTests <=> Tests(script) # {}
        /\ acc.buildFailed <=> SaysBuildFailed(script)
        /\ acc.buildFailed => \E i \in 1 .. Len(acc.buildOutput) : acc.buildOutput[i] = "compile"
    BY <2>1, <2>2, HeardWhole
  <2>4. /\ result.outcome = Outcome(acc) /\ result.passed = acc.passed
        /\ result.failed = acc.failed /\ result.skipped = acc.skipped
        /\ result.outcome = "build_failed" => result.quotes = Diagnostic(acc)
    BY <2>2 DEF ResultOf
  <2>5. Outcome(acc) = script.verdict
    <3>1. CASE acc.sawTestTimeout
      <4>1. script.verdict = "timeout"
        BY <2>1, <2>3, <3>1, NotMisled
      <4> QED BY <3>1, <4>1 DEF Outcome
    <3>2. CASE ~acc.sawTestTimeout /\ acc.buildFailed
      <4>1. script.verdict = "build_failed"
        BY <2>1, <2>3, <3>2, NotMisled
      <4> QED BY <3>2, <4>1 DEF Outcome
    <3>3. CASE ~acc.sawTestTimeout /\ ~acc.buildFailed /\ process = "zero"
      <4>1. script.verdict = "passed"
        BY <2>1, <2>2, <3>3, PromisesKept
      <4> QED BY <3>3, <4>1 DEF Outcome
    <3>4. CASE ~acc.sawTestTimeout /\ ~acc.buildFailed /\ process = "nonzero"
      <4>1. script.verdict = IF Tests(script) \cup Shows(script, "panic") = {}
                             THEN "build_failed" ELSE "failed"
        BY <2>1, <2>2, <2>3, <3>4, PromisesKept
      <4>2. Tests(script) \cup Shows(script, "panic") = {} <=>
              ~acc.sawTests /\ ~acc.sawPanic
        BY <2>3
      <4> QED BY <3>4, <4>1, <4>2 DEF Outcome
    <3> QED BY <2>1, <3>1, <3>2, <3>3, <3>4
  <2>6. ASSUME acc.buildFailed, result.outcome = "build_failed"
        PROVE  Contains(result.quotes, "compile")
    <3>1. PICK i \in 1 .. Len(acc.buildOutput) : acc.buildOutput[i] = "compile"
      BY <2>3, <2>6
    <3>2. acc.buildOutput # << >>
      BY <3>1
    <3>3. result.quotes = acc.buildOutput
      BY <2>4, <2>6, <3>2 DEF Diagnostic
    <3> QED BY <3>1, <3>3 DEF Contains
  <2> QED BY <2>3, <2>4, <2>5, <2>6
<1> QED BY <1>1, ReadingInvariant, PTL

\* While no result is there, something can go on by itself: a reader that has a line or
\* the end of its stream, the run's goroutine after both readers, the command with room
\* in a pipe, or a command that has said everything and had it read, and ends or loops
\* until its deadline.
NobodyBlocks ==
  ~HasLongLine /\ result = NoResult =>
    \/ \E s \in Streams : reader[s] = "reading" /\ (pipe[s] # << >> \/ process # "alive")
    \/ process # "alive" /\ \A s \in Streams : reader[s] # "reading"
    \/ process = "alive" /\ \E s \in Streams : /\ printed[s] < Len(script.says[s])
                                               /\ Len(pipe[s]) < PipeSize
    \/ process = "alive" /\ \A s \in Streams : printed[s] = Len(script.says[s]) /\ pipe[s] = << >>

\* The command and its readers never wait for each other (runner.go's execute reads the
\* two pipes in goroutines of their own and waits for both before cmd.Wait), with pipes
\* of any size: the safety half of EveryRunReports.  Of commands without a line too long
\* for a reader, after which only the kill helps.
THEOREM NobodyWaitsInACircle == VerdictSpec => []NobodyBlocks
<1>1. ReadingInv => NobodyBlocks
  <2> SUFFICES ASSUME ReadingInv, ~HasLongLine, result = NoResult, process = "alive",
                      \A s \in Streams : ~(reader[s] = "reading" /\ pipe[s] # << >>)
               PROVE  \/ \E s \in Streams : /\ printed[s] < Len(script.says[s])
                                            /\ Len(pipe[s]) < PipeSize
                      \/ \A s \in Streams : printed[s] = Len(script.says[s]) /\ pipe[s] = << >>
    BY DEF NobodyBlocks
  <2>1. ASSUME NEW s \in Streams
        PROVE  /\ pipe[s] = << >> /\ Len(pipe[s]) < PipeSize
               /\ printed[s] < Len(script.says[s]) \/ printed[s] = Len(script.says[s])
    <3>1. reader[s] = "reading"
      BY DEF ReadingInv, ReadersFinish
    <3>2. pipe[s] = << >>
      BY <3>1
    <3>3. Len(pipe[s]) < PipeSize
      BY <3>2, VerdictAssumption
    <3>4. script.says[s] \in Seq(Line) /\ printed[s] \in 0 .. Len(script.says[s])
      BY ScriptIsTyped DEF ReadingInv, PipesInOrder
    <3>5. printed[s] < Len(script.says[s]) \/ printed[s] = Len(script.says[s])
      BY <3>4
    <3> QED BY <3>2, <3>3, <3>5
  <2> QED BY <2>1
<1> QED BY <1>1, ReadingInvariant, PTL

------------------------------------------------------------------------------
(* The verdict is the step `Collect` of a run: a command that is read is a run *)
(* of Runner from its launch to its return.                                    *)

\* What a command reported, by all it printed and its exit status.
ClassOf(s, status) ==
  IF Shows(s, "testTimeout") # {} THEN "timeout"
  ELSE IF SaysBuildFailed(s) THEN "build_failed"
  ELSE IF status = "zero" THEN "passed"
  ELSE IF Tests(s) = {} /\ Shows(s, "panic") = {} THEN "build_failed"
  ELSE "failed"

\* One run and one slot; whoever canceled it is called the user.
TheRun == {"run"}

Collecting == INSTANCE Runner WITH
  Runs <- TheRun, MaxParallel <- 1, Harness <- {},
  phase <- [r \in TheRun |-> IF result # NoResult THEN "returned"
                             ELSE IF process = "alive" THEN "running" ELSE "exited"],
  cause <- [r \in TheRun |-> IF canceled THEN "user" ELSE "none"],
  hard <- [r \in TheRun |-> overdue],
  exit <- [r \in TheRun |-> IF process = "alive" THEN "none"
                            ELSE IF process = "killed" THEN "killed" ELSE ClassOf(script, process)],
  fault <- [r \in TheRun |-> FALSE],
  verdict <- [r \in TheRun |-> result.outcome],
  registered <- TheRun, stale <- {}, slots <- TheRun, sandboxes <- TheRun,
  processes <- IF process = "alive" THEN TheRun ELSE {}, strays <- {},
  server <- "serving"

\* What a function over the one run is, and what it is after an assignment.
LEMMA OfTheRun ==
  ASSUME NEW x, NEW y
  PROVE  /\ [r \in TheRun |-> x]["run"] = x
         /\ [[r \in TheRun |-> x] EXCEPT !["run"] = y] = [r \in TheRun |-> y]
BY DEF TheRun

\* A command that nobody interfered with is classified by all it printed.
LEMMA ClassOfWhole ==
  ASSUME script \in Scripts,
         process \in {"zero", "nonzero"}, ~canceled, ~overdue,
         Heard(acc, Len(script.says["stdout"]), Len(script.says["stderr"]))
  PROVE  Outcome(acc) = ClassOf(script, process)
<1>1. /\ acc.sawTestTimeout <=> Shows(script, "testTimeout") # {}
      /\ acc.sawPanic <=> Shows(script, "panic") # {}
      /\ acc.sawTests <=> Tests(script) # {}
      /\ acc.buildFailed <=> SaysBuildFailed(script)
  BY HeardWhole
<1> QED BY <1>1 DEF Outcome, ClassOf

\* Writing and reading are inside the step of Runner in which a command runs, or the
\* one in which its outcome is collected.
LEMMA ReadingStutters ==
  ASSUME UNCHANGED <<script, process, canceled, overdue, result>>
  PROVE  UNCHANGED Collecting!vars
BY DEF Collecting!vars, ClassOf

\* An exit is the choice of an exit class.
LEMMA ExitIsChosen ==
  ASSUME ReadingInv, Exit
  PROVE  Collecting!ProcessExits("run")
<1>1. /\ process = "alive" /\ process' = script.ends /\ script.ends # "never"
      /\ script' = script /\ canceled' = canceled /\ overdue' = overdue /\ result' = result
  BY DEF Exit
<1>2. process' \in {"zero", "nonzero"}
  BY <1>1, ScriptIsTyped DEF ReadingInv
<1>3. result = NoResult
  BY <1>1 DEF ReadingInv, ResultStands
<1> DEFINE class == ClassOf(script, process')
<1>4. class \in Collecting!Natural
  BY DEF ClassOf, Collecting!Natural
<1>5. ClassOf(script, process)' = class
  BY <1>1
<1> HIDE DEF class
<1> QED BY <1>1, <1>2, <1>3, <1>4, <1>5, OfTheRun DEF Collecting!ProcessExits, Collecting!Goto, TheRun

\* So are a kill, a cancellation and the passing of the deadline the steps of those names.
LEMMA InterferenceIsSeen ==
  ASSUME ReadingInv
  PROVE  /\ Kill => Collecting!KillGroup("run")
         /\ CancelRun => Collecting!Cancel("run")
         /\ PassDeadline => Collecting!HardDeadline("run")
<1>1. ASSUME Kill PROVE Collecting!KillGroup("run")
  <2>1. /\ process = "alive" /\ process' = "killed" /\ (canceled \/ overdue)
        /\ script' = script /\ canceled' = canceled /\ overdue' = overdue /\ result' = result
    BY <1>1 DEF Kill
  <2>2. result = NoResult
    BY <2>1 DEF ReadingInv, ResultStands
  <2> QED BY <2>1, <2>2, OfTheRun DEF Collecting!KillGroup, Collecting!Goto, TheRun
<1>2. ASSUME CancelRun PROVE Collecting!Cancel("run")
  <2>1. /\ result = NoResult /\ canceled = FALSE /\ canceled' = TRUE
        /\ script' = script /\ process' = process /\ overdue' = overdue /\ result' = result
    BY <1>2 DEF CancelRun, ReadingInv
  <2>2. ClassOf(script, process)' = ClassOf(script, process)
    BY <2>1
  <2> QED BY <2>1, <2>2, OfTheRun DEF Collecting!Cancel, TheRun
<1>3. ASSUME PassDeadline PROVE Collecting!HardDeadline("run")
  <2>1. /\ result = NoResult /\ overdue = FALSE /\ overdue' = TRUE
        /\ script' = script /\ process' = process /\ canceled' = canceled /\ result' = result
    BY <1>3 DEF PassDeadline, ReadingInv
  <2>2. ClassOf(script, process)' = ClassOf(script, process)
    BY <2>1
  <2> QED BY <2>1, <2>2, OfTheRun DEF Collecting!HardDeadline, TheRun
<1> QED BY <1>1, <1>2, <1>3

\* The result is the outcome that is collected.
LEMMA ConcludeIsCollect ==
  ASSUME ReadingInv, ReadingInv',
         Conclude, ~HasLongLine
  PROVE  Collecting!Collect("run")
<1>1. /\ result = NoResult /\ result' = ResultOf(acc) /\ process # "alive"
      /\ \A s \in Streams : reader[s] # "reading"
      /\ script' = script /\ process' = process /\ canceled' = canceled /\ overdue' = overdue
  BY DEF Conclude
<1>2. result'.outcome = Outcome(acc)
  BY <1>1 DEF ResultOf
<1>3. result' # NoResult
  <2>1. Outcome(acc) # "none"
    BY DEF Outcome
  <2> QED BY <1>2, <2>1 DEF NoResult
<1>4. process \in {"zero", "nonzero", "killed"} /\ (process = "killed" => canceled \/ overdue)
  BY <1>1 DEF ReadingInv, EndsAsWritten
<1> DEFINE class == IF process = "alive" THEN "none"
                    ELSE IF process = "killed" THEN "killed" ELSE ClassOf(script, process)
<1>5. Outcome(acc) = IF canceled THEN "canceled" ELSE IF overdue THEN "timeout" ELSE class
  <2>1. CASE canceled \/ overdue
    BY <2>1 DEF Outcome
  <2>2. CASE ~canceled /\ ~overdue
    <3>1. process \in {"zero", "nonzero"}
      BY <1>4, <2>2
    <3>2. Heard(acc, Len(script.says["stdout"]), Len(script.says["stderr"]))
      BY <1>1, <3>1, HeardToTheEnd
    <3>3. Outcome(acc) = ClassOf(script, process)
      BY <2>2, <3>1, <3>2, ClassOfWhole DEF ReadingInv
    <3> QED BY <2>2, <3>1, <3>3
  <2> QED BY <2>1, <2>2
<1>6. class' = class
  BY <1>1
<1> HIDE DEF class
<1>7. Collecting!Classify("run") = Outcome(acc)
  BY <1>5, OfTheRun DEF Collecting!Classify, TheRun, class
<1>8. Collecting!Return("run", Outcome(acc), "returned")
  BY <1>1, <1>2, <1>3, OfTheRun DEF Collecting!Return, Collecting!Goto, TheRun
<1> QED BY <1>1, <1>3, <1>6, <1>7, <1>8, OfTheRun DEF Collecting!Collect, TheRun, class

\* Reading the output of a command implements the run of Runner it stands in, from the
\* launch to the return: every step of the pipes, the readers and the accumulator is a
\* step of that run or none it speaks of, and the class of the exit that Runner leaves
\* open is a function of all the command printed.  Of commands without a line too long
\* for a reader.
THEOREM ReadingImplementsCollect == VerdictSpec /\ []~HasLongLine => [][Collecting!Next]_(Collecting!vars)
<1>1. ReadingInv /\ ReadingInv' /\ ~HasLongLine /\ [VerdictNext]_verdictVars
        => [Collecting!Next]_(Collecting!vars)
  <2> SUFFICES ASSUME ReadingInv, ReadingInv', ~HasLongLine, [VerdictNext]_verdictVars
               PROVE  Collecting!Next \/ UNCHANGED Collecting!vars
    OBVIOUS
  <2>1. "run" \in TheRun
    BY DEF TheRun
  <2>2. CASE Exit
    BY <2>1, <2>2, ExitIsChosen DEF Collecting!Next
  <2>3. CASE Kill \/ CancelRun \/ PassDeadline
    BY <2>1, <2>3, InterferenceIsSeen DEF Collecting!Next
  <2>4. CASE Conclude
    BY <2>1, <2>4, ConcludeIsCollect DEF Collecting!Next, Collecting!Execute
  <2>5. ASSUME NEW s \in Streams, Write(s) \/ Reader(s)
        PROVE  UNCHANGED Collecting!vars
    BY <2>5, ReadingStutters
       DEF Write, Reader, Read, ReadTooLong, ReadEnd
  <2>6. CASE UNCHANGED verdictVars
    BY <2>6, ReadingStutters DEF verdictVars
  <2> QED BY <2>2, <2>3, <2>4, <2>5, <2>6 DEF VerdictNext, Command
<1> QED BY <1>1, ReadingInvariant, PTL DEF VerdictSpec
===============================================================================
