-------------------------------- MODULE Process --------------------------------
(***************************************************************************)
(* The life of a drill process: the start-up chain and the shutdown of     *)
(* cmd/drill/main.go, the migrations of internal/store/store.go, the self- *)
(* check of the runner, and what they do to requests and commands.  The    *)
(* user may start it twice, with an older or a newer binary, signal it,    *)
(* and kill it at any step.                                                *)
(*                                                                         *)
(* A request is a handler that may start a run, or an event stream.  How a *)
(* run ends is Runner's subject, how it is booked Trainer's.               *)
(***************************************************************************)
EXTENDS Integers, FiniteSets, FiniteSetsExt

CONSTANTS
  Procs,    \* processes that may exist at the same time
  Requests, \* requests that may ever be made
  Binaries, \* per binary, the versions of the migrations embedded in it
  MaxStarts \* bound on the number of starts

ASSUME ProcessAssumption ==
  /\ IsFiniteSet(Procs) /\ IsFiniteSet(Requests)
  /\ Procs \cap Requests = {} /\ "none" \notin Procs
  /\ \A known \in Binaries : known \subseteq Nat /\ IsFiniteSet(known)
  /\ MaxStarts \in Nat

VARIABLES
  recorded, \* versions in schema_migrations
  effects,  \* how often each migration's script was applied
  binary,   \* migrations the process knows
  pc,       \* how far the process is
  todo,     \* migrations it found missing when it opened the database
  signaled, \* its signal context is done
  watcher,  \* the goroutine of watcher.Run: "off", "running" or "done"
  expired,  \* the grace period is over
  failed,   \* shutdown has collected an error
  exit,     \* what run returned: "none", "ok", "error", or "killed"
  request,  \* per request: its process, its kind and its phase
  commands, \* go test commands alive: of requests, and of self-checks
  orphans,  \* commands alive whose process is gone
  starts

db == <<recorded, effects>>
control == <<binary, todo, signaled, watcher, expired, failed, starts>>
vars == <<recorded, effects, binary, pc, todo, signaled, watcher, expired, failed, exit,
          request, commands, orphans, starts>>

Versions == UNION Binaries

StartingUp == {"migrating", "checking", "loading", "binding"}

Listening == {"serving", "closing"}

ShuttingDown == {"closing", "draining", "canceling", "waiting", "joining"}

Goto(p, label) == pc' = [pc EXCEPT ![p] = label]

Of(p) == {q \in Requests : request[q].owner = p}

ActiveOf(p) == {q \in Of(p) : request[q].phase \in {"active", "started"}}

\* Commands of p: its runs, and its self-check under its own name.
CommandsOf(p) == commands \cap (Of(p) \cup {p})

Over(r) == [phase |-> "over", owner |-> r.owner, kind |-> "none"]

\* The process ends and its memory is gone; what it started and did not stop goes
\* on without it.
Leave(p, how) ==
  /\ Goto(p, "down")
  /\ exit' = [exit EXCEPT ![p] = how]
  /\ request' = [q \in Requests |->
       IF q \in Of(p) THEN [phase |-> "over", owner |-> "none", kind |-> "none"] ELSE request[q]]
  /\ commands' = commands \ CommandsOf(p)
  /\ orphans' = orphans \cup CommandsOf(p)
  /\ binary' = [binary EXCEPT ![p] = {}]
  /\ todo' = [todo EXCEPT ![p] = {}]
  /\ signaled' = [signaled EXCEPT ![p] = FALSE]
  /\ watcher' = [watcher EXCEPT ![p] = "off"]
  /\ expired' = [expired EXCEPT ![p] = FALSE]
  /\ failed' = [failed EXCEPT ![p] = FALSE]
  /\ UNCHANGED <<db, starts>>

Init ==
  /\ recorded = {} /\ effects = [v \in Versions |-> 0]
  /\ binary = [p \in Procs |-> {}]
  /\ pc = [p \in Procs |-> "down"]
  /\ todo = [p \in Procs |-> {}]
  /\ signaled = [p \in Procs |-> FALSE]
  /\ watcher = [p \in Procs |-> "off"]
  /\ expired = [p \in Procs |-> FALSE]
  /\ failed = [p \in Procs |-> FALSE]
  /\ exit = [p \in Procs |-> "none"]
  /\ request = [q \in Requests |-> [phase |-> "new", owner |-> "none", kind |-> "none"]]
  /\ commands = {} /\ orphans = {}
  /\ starts = 0

------------------------------------------------------------------------------
(* Start-up. *)

\* Mutant: versions up to the newest recorded one count as applied.
Missing_AfterNewest(known) == {v \in known : \A w \in recorded : v > w}

\* Migrations of this binary that are not in the table.
Missing(known) == known \ recorded

\* store.Open up to the point where migrate knows what to apply.
Start(p) ==
  /\ pc[p] = "down" /\ starts < MaxStarts
  /\ p \notin orphans
  /\ \E known \in Binaries : /\ binary' = [binary EXCEPT ![p] = known]
                             /\ todo' = [todo EXCEPT ![p] = Missing(known)]
  /\ Goto(p, "migrating")
  /\ exit' = [exit EXCEPT ![p] = "none"]
  /\ starts' = starts + 1
  /\ UNCHANGED <<db, signaled, watcher, expired, failed, request, commands, orphans>>

\* Mutant: the script runs outside the transaction that records it.
ApplyMigration_TwoSteps(p) ==
  /\ pc[p] = "migrating" /\ todo[p] # {}
  /\ LET v == Min(todo[p])
     IN  /\ v \notin recorded
         /\ effects' = [effects EXCEPT ![v] = @ + 1]
         /\ \/ recorded' = recorded \cup {v} /\ todo' = [todo EXCEPT ![p] = @ \ {v}]
            \/ UNCHANGED <<recorded, todo>>
  /\ UNCHANGED <<binary, pc, signaled, watcher, expired, failed, exit, request, commands,
                 orphans, starts>>

\* One migration, in order: its script and its row in one transaction.
ApplyMigration(p) ==
  /\ pc[p] = "migrating" /\ todo[p] # {}
  /\ LET v == Min(todo[p])
     IN  /\ v \notin recorded
         /\ effects' = [effects EXCEPT ![v] = @ + 1]
         /\ recorded' = recorded \cup {v}
         /\ todo' = [todo EXCEPT ![p] = @ \ {v}]
  /\ UNCHANGED <<binary, pc, signaled, watcher, expired, failed, exit, request, commands,
                 orphans, starts>>

MigrationsDone(p) ==
  /\ pc[p] = "migrating" /\ todo[p] = {}
  /\ Goto(p, "checking")
  /\ UNCHANGED <<db, control, exit, request, commands, orphans>>

LaunchSelfCheck(p) ==
  /\ pc[p] = "checking" /\ p \notin commands
  /\ commands' = commands \cup {p}
  /\ UNCHANGED <<db, control, pc, exit, request, orphans>>

SelfCheckPasses(p) ==
  /\ pc[p] = "checking" /\ p \in commands
  /\ commands' = commands \ {p}
  /\ Goto(p, "loading")
  /\ UNCHANGED <<db, control, exit, request, orphans>>

SkipSelfCheck(p) ==
  /\ pc[p] = "checking" /\ p \notin commands
  /\ Goto(p, "loading")
  /\ UNCHANGED <<db, control, exit, request, commands, orphans>>

\* The first scan is synchronous.
LoadTasks(p) ==
  /\ pc[p] = "loading"
  /\ Goto(p, "binding")
  /\ UNCHANGED <<db, control, exit, request, commands, orphans>>

\* net.Listen, and the goroutines of the watcher and the server.
Listen(p) ==
  /\ pc[p] = "binding"
  /\ \A other \in Procs : pc[other] \notin Listening
  /\ Goto(p, "serving")
  /\ watcher' = [watcher EXCEPT ![p] = "running"]
  /\ UNCHANGED <<db, binary, todo, signaled, expired, failed, starts, exit, request, commands, orphans>>

\* Any step of the chain may fail - a migration another process has just applied
\* always does - and run returns at once.  An interrupted self-check leaves its
\* command going.
StartupFails(p) ==
  /\ pc[p] \in StartingUp
  /\ Leave(p, "error")

------------------------------------------------------------------------------
(* Serving. *)

Accept(q, p) ==
  /\ pc[p] \in Listening
  /\ request[q].phase = "new"
  /\ \E kind \in {"handler", "stream"} :
       request' = [request EXCEPT ![q] = [phase |-> "active", owner |-> p, kind |-> kind]]
  /\ UNCHANGED <<db, control, pc, exit, commands, orphans>>

\* handleStartRun: the run outlives the request.
StartRun(q) ==
  /\ request[q].phase = "active" /\ request[q].kind = "handler"
  /\ commands' = commands \cup {q}
  /\ request' = [request EXCEPT ![q].phase = "started"]
  /\ UNCHANGED <<db, control, pc, exit, orphans>>

\* A handler that has started its run only has to answer.
Respond(q) ==
  /\ request[q].phase \in {"active", "started"} /\ request[q].kind = "handler"
  /\ request' = [request EXCEPT ![q] = Over(@)]
  /\ UNCHANGED <<db, control, pc, exit, commands, orphans>>

\* The browser hangs up or the run is over.
StreamCloses(q) ==
  /\ request[q].phase = "active" /\ request[q].kind = "stream"
  /\ request' = [request EXCEPT ![q] = Over(@)]
  /\ UNCHANGED <<db, control, pc, exit, commands, orphans>>

\* Mutant: the stream does not watch the shutdown channel.
StreamReleased_Never(q) == FALSE /\ UNCHANGED vars

\* api.Shutdown has closed the channel every stream watches.
StreamReleased(q) ==
  /\ request[q].phase = "active" /\ request[q].kind = "stream"
  /\ pc[request[q].owner] \in ShuttingDown
  /\ request' = [request EXCEPT ![q] = Over(@)]
  /\ UNCHANGED <<db, control, pc, exit, commands, orphans>>

CommandEnds(q) ==
  /\ q \in commands \cap Requests
  /\ commands' = commands \ {q}
  /\ UNCHANGED <<db, control, pc, exit, request, orphans>>

\* go test's own -timeout ends what nobody waits for.
OrphanEnds(c) ==
  /\ c \in orphans
  /\ orphans' = orphans \ {c}
  /\ UNCHANGED <<db, control, pc, exit, request, commands>>

Signal(p) ==
  /\ pc[p] \notin {"down"} \cup ShuttingDown /\ ~signaled[p]
  /\ signaled' = [signaled EXCEPT ![p] = TRUE]
  /\ UNCHANGED <<db, binary, todo, watcher, expired, failed, starts, pc, exit, request, commands, orphans>>

WatcherStops(p) ==
  /\ watcher[p] = "running" /\ signaled[p] /\ pc[p] # "down"
  /\ watcher' = [watcher EXCEPT ![p] = "done"]
  /\ UNCHANGED <<db, binary, todo, signaled, expired, failed, starts, pc, exit, request, commands, orphans>>

\* srv.Serve gives up: run returns the error and shuts nothing down.
ServeFails(p) ==
  /\ pc[p] = "serving"
  /\ Leave(p, "error")

Kill(p) ==
  /\ pc[p] # "down"
  /\ Leave(p, "killed")

------------------------------------------------------------------------------
(* shutdown. *)

\* api.Shutdown: from here every stream is told to end.
CloseStreams(p) ==
  /\ pc[p] = "serving" /\ signaled[p]
  /\ Goto(p, "closing")
  /\ UNCHANGED <<db, control, exit, request, commands, orphans>>

\* srv.Shutdown closes the listener first.
CloseListener(p) ==
  /\ pc[p] = "closing"
  /\ Goto(p, "draining")
  /\ UNCHANGED <<db, control, exit, request, commands, orphans>>

\* Mutant: the server is closed without waiting for its handlers.
HttpDrained_NotWaiting(p) ==
  /\ pc[p] = "draining"
  /\ Goto(p, "canceling")
  /\ UNCHANGED <<db, control, exit, request, commands, orphans>>

HttpDrained(p) ==
  /\ pc[p] = "draining" /\ ActiveOf(p) = {}
  /\ Goto(p, "canceling")
  /\ UNCHANGED <<db, control, exit, request, commands, orphans>>

\* testRunner.Shutdown cancels every run there is and then waits for all.
CancelRuns(p) ==
  /\ pc[p] = "canceling"
  /\ Goto(p, "waiting")
  /\ UNCHANGED <<db, control, exit, request, commands, orphans>>

RunsDone(p) ==
  /\ pc[p] = "waiting" /\ CommandsOf(p) = {}
  /\ Goto(p, "joining")
  /\ UNCHANGED <<db, control, exit, request, commands, orphans>>

\* <-watcherDone, and run returns what was collected.
WatcherJoined(p) ==
  /\ pc[p] = "joining" /\ watcher[p] = "done"
  /\ Leave(p, IF failed[p] THEN "error" ELSE "ok")

\* One grace period for the three waits.
Expire(p) ==
  /\ pc[p] \in ShuttingDown /\ ~expired[p]
  /\ expired' = [expired EXCEPT ![p] = TRUE]
  /\ UNCHANGED <<db, binary, todo, signaled, watcher, failed, starts, pc, exit, request, commands, orphans>>

\* Mutant: a wait that timed out is not an error.
GiveUp_Silent(p) ==
  /\ expired[p]
  /\ \/ /\ pc[p] \in {"draining", "waiting"}
        /\ Goto(p, IF pc[p] = "draining" THEN "canceling" ELSE "joining")
        /\ UNCHANGED <<db, binary, todo, signaled, watcher, expired, failed, starts, exit,
                       request, commands, orphans>>
     \/ /\ pc[p] = "joining"
        /\ Leave(p, IF failed[p] THEN "error" ELSE "ok")

\* A wait ends with an error; what comes after it is still tried.
GiveUp(p) ==
  /\ expired[p]
  /\ \/ /\ pc[p] \in {"draining", "waiting"}
        /\ Goto(p, IF pc[p] = "draining" THEN "canceling" ELSE "joining")
        /\ failed' = [failed EXCEPT ![p] = TRUE]
        /\ UNCHANGED <<db, binary, todo, signaled, watcher, expired, starts, exit,
                       request, commands, orphans>>
     \/ /\ pc[p] = "joining"
        /\ Leave(p, "error")

------------------------------------------------------------------------------

StartUp(p) ==
  \/ ApplyMigration(p) \/ MigrationsDone(p)
  \/ LaunchSelfCheck(p) \/ SelfCheckPasses(p) \/ SkipSelfCheck(p)
  \/ LoadTasks(p) \/ Listen(p)

Shutdown(p) ==
  \/ CloseStreams(p) \/ CloseListener(p) \/ HttpDrained(p)
  \/ CancelRuns(p) \/ RunsDone(p) \/ WatcherJoined(p) \/ GiveUp(p)

Next ==
  \/ \E p \in Procs :
       \/ Start(p) \/ StartUp(p) \/ StartupFails(p)
       \/ Signal(p) \/ WatcherStops(p) \/ ServeFails(p) \/ Kill(p)
       \/ Shutdown(p) \/ Expire(p)
  \/ \E q \in Requests :
       \/ \E p \in Procs : Accept(q, p)
       \/ StartRun(q) \/ Respond(q) \/ StreamCloses(q) \/ StreamReleased(q)
       \/ CommandEnds(q)
  \/ \E c \in Procs \cup Requests : OrphanEnds(c)

Spec == Init /\ [][Next]_vars

\* A canceled run ends (Runner!ShutdownCompletes); a command nobody canceled may not.
Killed(q) == CommandEnds(q) /\ pc[request[q].owner] = "waiting"

\* Goroutines run, handlers answer, a canceled command dies.  Nothing is assumed
\* of the user, of the browser, or of the grace period's timer.
FairSpec ==
  /\ Spec
  /\ \A p \in Procs : WF_vars(Shutdown(p)) /\ WF_vars(WatcherStops(p))
  /\ \A q \in Requests : WF_vars(Respond(q)) /\ WF_vars(StreamReleased(q)) /\ WF_vars(Killed(q))

------------------------------------------------------------------------------
(* Properties. *)

TypeOK ==
  /\ recorded \subseteq Versions
  /\ effects \in [Versions -> Nat]
  /\ binary \in [Procs -> SUBSET Versions]
  /\ pc \in [Procs -> {"down", "serving"} \cup StartingUp \cup ShuttingDown]
  /\ todo \in [Procs -> SUBSET Versions]
  /\ signaled \in [Procs -> BOOLEAN]
  /\ watcher \in [Procs -> {"off", "running", "done"}]
  /\ expired \in [Procs -> BOOLEAN] /\ failed \in [Procs -> BOOLEAN]
  /\ exit \in [Procs -> {"none", "ok", "error", "killed"}]
  /\ request \in [Requests -> [phase : {"new", "active", "started", "over"},
                               owner : Procs \cup {"none"},
                               kind : {"none", "handler", "stream"}]]
  /\ commands \subseteq Procs \cup Requests /\ orphans \subseteq Procs \cup Requests
  /\ starts \in 0 .. MaxStarts

\* The schema is what schema_migrations says: each recorded script ran exactly
\* once and no other ran, through crashes, failed starts, two processes that
\* open the database at once and older or newer binaries; and a process that
\* serves finds every migration it knows applied.
SchemaIsWhole ==
  /\ \A v \in Versions : effects[v] = IF v \in recorded THEN 1 ELSE 0
  /\ \A p \in Procs : pc[p] \in {"serving"} \cup ShuttingDown => binary[p] \subseteq recorded

\* A shutdown that reports no error left nothing behind: no handler was cut off,
\* no command goes on without its process, and the watcher had stopped.
CleanExit ==
  [][\A p \in Procs : pc[p] # "down" /\ pc'[p] = "down" /\ exit'[p] = "ok" =>
       ActiveOf(p) = {} /\ CommandsOf(p) = {} /\ watcher[p] = "done"]_vars

\* A stopped server goes down without spending its grace period on a stream, a
\* run or a scan: as long as handlers answer, the timer is not needed.
StopsWithoutTimer ==
  \A p \in Procs : pc[p] = "serving" /\ signaled[p] ~> pc[p] = "down"
==============================================================================
