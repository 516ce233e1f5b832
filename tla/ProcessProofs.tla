----------------------------- MODULE ProcessProofs -----------------------------
(***************************************************************************)
(* Proofs about Process, for any number of processes and requests, any set *)
(* of binaries with any migrations in them, and any number of starts.      *)
(***************************************************************************)
EXTENDS Process, WellFoundedInduction, TLAPS

------------------------------------------------------------------------------
(* The inductive invariant. *)

\* Each recorded script ran once, and no other ran.
AppliedOnce == \A v \in Versions : effects[v] = IF v \in recorded THEN 1 ELSE 0

\* What a process knows is recorded, or still on its list while it migrates.
Migrated(p) ==
  /\ pc[p] = "migrating" => binary[p] \subseteq recorded \cup todo[p]
  /\ pc[p] \notin {"down", "migrating"} => binary[p] \subseteq recorded

\* What the waits of a shutdown have seen, if none of them timed out.
WoundDown(p) ==
  /\ pc[p] \in {"canceling", "waiting", "joining"} /\ ~failed[p] => ActiveOf(p) = {}
  /\ pc[p] = "joining" /\ ~failed[p] => CommandsOf(p) = {}

IInv ==
  /\ TypeOK
  /\ AppliedOnce
  /\ \A p \in Procs : Migrated(p) /\ WoundDown(p)

------------------------------------------------------------------------------
(* The migrations that are missing are applied from the smallest up. *)

\* The smallest migration of a list is on it.
LEMMA SmallestExists ==
  ASSUME NEW S \in SUBSET Nat, S # {}
  PROVE  Min(S) \in S /\ \A v \in S : Min(S) <= v
<1>1. PICK m \in S : \A v \in S : ~(<<v, m>> \in OpToRel(<, Nat))
  BY NatLessThanWellFounded, WFMin
<1>2. \A v \in S : ~(v < m)
  BY <1>1 DEF OpToRel
<1>3. \A v \in S : m <= v
  BY <1>2
<1> QED BY <1>3 DEF Min

\* The numbers of the migrations are numbers.
LEMMA VersionsType == Versions \subseteq Nat
BY ProcessAssumption DEF Versions

\* The invariant holds before anything is started.
LEMMA InitInv == Init => IInv
BY ProcessAssumption, VersionsType
   DEF Init, IInv, TypeOK, AppliedOnce, Migrated, WoundDown, StartingUp, ShuttingDown

------------------------------------------------------------------------------
(* The end of a process. *)

\* The end of a process frees its slot and touches no other process.
LEMMA LeaveStep ==
  ASSUME TypeOK, NEW p \in Procs, NEW how \in {"ok", "error", "killed"}, Leave(p, how)
  PROVE  /\ TypeOK'
         /\ pc'[p] = "down"
         /\ \A other \in Procs \ {p} :
              /\ pc'[other] = pc[other] /\ binary'[other] = binary[other]
              /\ todo'[other] = todo[other] /\ failed'[other] = failed[other]
              /\ ActiveOf(other)' = ActiveOf(other)
              /\ CommandsOf(other)' \subseteq CommandsOf(other)
<1> USE DEF TypeOK, Leave, Goto
<1>1. request' \in [Requests -> [phase : {"new", "active", "started", "over"},
                                 owner : Procs \cup {"none"},
                                 kind : {"none", "handler", "stream"}]]
  BY DEF Of
<1>2. CommandsOf(p) \subseteq commands
  BY DEF CommandsOf
<1>3. TypeOK'
  BY <1>1, <1>2 DEF db
<1>4. ASSUME NEW other \in Procs \ {p}
      PROVE  ActiveOf(other)' = ActiveOf(other) /\ Of(other)' = Of(other)
  <2>1. \A q \in Requests : request'[q].owner = other <=> request[q].owner = other
    BY ProcessAssumption DEF Of
  <2>2. \A q \in Requests : request[q].owner = other => request'[q] = request[q]
    BY DEF Of
  <2> QED BY <2>1, <2>2 DEF ActiveOf, Of
<1>5. ASSUME NEW other \in Procs \ {p}
      PROVE  CommandsOf(other)' \subseteq CommandsOf(other)
  BY <1>4 DEF CommandsOf
<1> QED BY <1>3, <1>4, <1>5

\* Whoever is left has seen what it had seen.
LEMMA LeaveInv ==
  ASSUME IInv, NEW p \in Procs, NEW how \in {"ok", "error", "killed"}, Leave(p, how)
  PROVE  IInv'
<1>1. TypeOK
  BY DEF IInv
<1>2. TypeOK' /\ UNCHANGED db
  BY <1>1, LeaveStep DEF Leave
<1>3. \A other \in Procs \ {p} : (Migrated(other) /\ WoundDown(other))'
  BY <1>1, <1>2, LeaveStep DEF IInv, Migrated, WoundDown, db
<1>4. (Migrated(p) /\ WoundDown(p))'
  BY <1>1, LeaveStep DEF Migrated, WoundDown
<1> QED BY <1>2, <1>3, <1>4 DEF IInv, AppliedOnce, db

\* A request that is over keeps its process.
LEMMA OverStep ==
  ASSUME TypeOK, NEW q \in Requests, request' = [request EXCEPT ![q] = Over(@)]
  PROVE  /\ request'[q] = [phase |-> "over", owner |-> request[q].owner, kind |-> "none"]
         /\ \A other \in Requests \ {q} : request'[other] = request[other]
         /\ request' \in [Requests -> [phase : {"new", "active", "started", "over"},
                                       owner : Procs \cup {"none"},
                                       kind : {"none", "handler", "stream"}]]
<1> DEFINE r == request[q]
<1>1. r \in [phase : {"new", "active", "started", "over"}, owner : Procs \cup {"none"},
             kind : {"none", "handler", "stream"}]
  BY DEF TypeOK
<1> HIDE DEF r
<1>2. Over(r) = [phase |-> "over", owner |-> r.owner, kind |-> "none"]
  BY <1>1 DEF Over
<1>3. request'[q] = Over(r) /\ \A other \in Requests \ {q} : request'[other] = request[other]
  BY DEF TypeOK, r
<1>4. Over(r) \in [phase : {"new", "active", "started", "over"}, owner : Procs \cup {"none"},
                   kind : {"none", "handler", "stream"}]
  BY <1>1, <1>2
<1>5. request' = [request EXCEPT ![q] = Over(r)]
  BY DEF r
<1>6. request' \in [Requests -> [phase : {"new", "active", "started", "over"},
                                 owner : Procs \cup {"none"},
                                 kind : {"none", "handler", "stream"}]]
  BY <1>4, <1>5 DEF TypeOK
<1> QED BY <1>2, <1>3, <1>6 DEF r

------------------------------------------------------------------------------
(* The other steps: they leave the exit codes and all but one process alone. *)

\* Every step keeps the types.
LEMMA TypeStep ==
  ASSUME IInv, [Next]_vars
  PROVE  TypeOK'
<1> USE DEF IInv, TypeOK, Goto, StartingUp, ShuttingDown
<1>1. CASE UNCHANGED vars
  BY <1>1 DEF vars, db
<1>2. ASSUME NEW p \in Procs, Start(p)
      PROVE  TypeOK'
  <2>1. PICK known \in Binaries : binary' = [binary EXCEPT ![p] = known] /\ todo' = [todo EXCEPT ![p] = Missing(known)]
    BY <1>2 DEF Start
  <2>2. known \subseteq Versions /\ Missing(known) \subseteq Versions
    BY <2>1 DEF Versions, Missing
  <2> QED BY <1>2, <2>1, <2>2, ProcessAssumption DEF Start, db
<1>3. ASSUME NEW p \in Procs, ApplyMigration(p)
      PROVE  TypeOK'
  <2>1. Min(todo[p]) \in Versions
    BY <1>3, VersionsType, SmallestExists DEF ApplyMigration
  <2> QED BY <1>3, <2>1 DEF ApplyMigration
<1>4. ASSUME NEW p \in Procs, MigrationsDone(p) \/ LaunchSelfCheck(p) \/ SelfCheckPasses(p) \/ SkipSelfCheck(p)
      PROVE  TypeOK'
  BY <1>4 DEF MigrationsDone, LaunchSelfCheck, SelfCheckPasses, SkipSelfCheck, db, control
<1>5. ASSUME NEW p \in Procs, LoadTasks(p) \/ Listen(p) \/ Signal(p) \/ WatcherStops(p) \/ Expire(p)
      PROVE  TypeOK'
  BY <1>5 DEF LoadTasks, Listen, Signal, WatcherStops, Expire, db, control
<1>6. ASSUME NEW p \in Procs, StartupFails(p) \/ ServeFails(p) \/ Kill(p) \/ WatcherJoined(p)
      PROVE  TypeOK'
  <2>1. PICK how \in {"ok", "error", "killed"} : Leave(p, how)
    BY <1>6 DEF StartupFails, ServeFails, Kill, WatcherJoined
  <2> QED BY <2>1, LeaveStep
<1>7. ASSUME NEW p \in Procs, GiveUp(p)
      PROVE  TypeOK'
  <2>1. CASE Leave(p, "error")
    BY <2>1, LeaveStep
  <2>2. CASE ~Leave(p, "error")
    BY <1>7, <2>2 DEF GiveUp, db
  <2> QED BY <2>1, <2>2
<1>8. ASSUME NEW p \in Procs, CloseStreams(p) \/ CloseListener(p) \/ HttpDrained(p) \/ CancelRuns(p) \/ RunsDone(p)
      PROVE  TypeOK'
  BY <1>8 DEF CloseStreams, CloseListener, HttpDrained, CancelRuns, RunsDone, db, control
<1>9. ASSUME NEW q \in Requests, NEW p \in Procs, Accept(q, p)
      PROVE  TypeOK'
  BY <1>9 DEF Accept, db, control
<1>10. ASSUME NEW q \in Requests, StartRun(q) \/ Respond(q) \/ StreamCloses(q) \/ StreamReleased(q)
       PROVE  TypeOK'
  <2>1. CASE StartRun(q)
    BY <2>1 DEF StartRun, db, control
  <2>2. CASE Respond(q) \/ StreamCloses(q) \/ StreamReleased(q)
    <3>1. request' = [request EXCEPT ![q] = Over(@)]
      BY <2>2 DEF Respond, StreamCloses, StreamReleased
    <3>2. request' \in [Requests -> [phase : {"new", "active", "started", "over"},
                                     owner : Procs \cup {"none"},
                                     kind : {"none", "handler", "stream"}]]
      BY <3>1, OverStep
    <3> QED BY <2>2, <3>2 DEF Respond, StreamCloses, StreamReleased, db, control
  <2> QED BY <1>10, <2>1, <2>2
<1>11. ASSUME NEW c \in Procs \cup Requests, CommandEnds(c) \/ OrphanEnds(c)
       PROVE  TypeOK'
  BY <1>11 DEF CommandEnds, OrphanEnds, db, control
<1> QED
  BY <1>1, <1>2, <1>3, <1>4, <1>5, <1>6, <1>7, <1>8, <1>9, <1>10, <1>11
     DEF Next, StartUp, Shutdown

\* A script and its row are one transaction.
LEMMA AppliedStep ==
  ASSUME IInv, [Next]_vars
  PROVE  AppliedOnce'
<1>1. ASSUME NEW p \in Procs, ApplyMigration(p)
      PROVE  AppliedOnce'
  BY <1>1 DEF ApplyMigration, AppliedOnce, IInv, TypeOK
<1>2. CASE UNCHANGED db
  BY <1>2 DEF AppliedOnce, db, IInv
<1>3. UNCHANGED db \/ \E p \in Procs : ApplyMigration(p)
  <2>1. CASE UNCHANGED vars
    BY <2>1 DEF vars, db
  <2>2. ASSUME NEW p \in Procs, StartUp(p)
        PROVE  UNCHANGED db \/ ApplyMigration(p)
    BY <2>2 DEF StartUp, MigrationsDone, LaunchSelfCheck, SelfCheckPasses, SkipSelfCheck, LoadTasks,
                Listen, db
  <2>3. ASSUME NEW p \in Procs, Shutdown(p)
        PROVE  UNCHANGED db
    BY <2>3 DEF Shutdown, CloseStreams, CloseListener, HttpDrained, CancelRuns, RunsDone,
                WatcherJoined, GiveUp, Leave, db
  <2>4. ASSUME NEW p \in Procs, Start(p) \/ StartupFails(p) \/ Signal(p) \/ WatcherStops(p)
                                  \/ ServeFails(p) \/ Kill(p) \/ Expire(p)
        PROVE  UNCHANGED db
    BY <2>4 DEF Start, StartupFails, Signal, WatcherStops, ServeFails, Kill, Expire, Leave, db
  <2>5. ASSUME NEW q \in Requests,
               (\E p \in Procs : Accept(q, p)) \/ StartRun(q) \/ Respond(q) \/ StreamCloses(q)
                 \/ StreamReleased(q) \/ CommandEnds(q)
        PROVE  UNCHANGED db
    BY <2>5 DEF Accept, StartRun, Respond, StreamCloses, StreamReleased, CommandEnds, db
  <2>6. ASSUME NEW c \in Procs \cup Requests, OrphanEnds(c)
        PROVE  UNCHANGED db
    BY <2>6 DEF OrphanEnds, db
  <2> QED BY <2>1, <2>2, <2>3, <2>4, <2>5, <2>6 DEF Next
<1> QED BY <1>1, <1>2, <1>3

\* Nothing a step adds to what a process waits for: requests are only accepted by
\* one that listens, commands only launched by one that checks itself or has
\* handlers.
OthersAlone(p) ==
  /\ pc'[p] = pc[p] /\ binary'[p] = binary[p] /\ todo'[p] = todo[p] /\ failed'[p] = failed[p]
  /\ recorded \subseteq recorded'
  /\ ActiveOf(p)' \subseteq ActiveOf(p)
  /\ CommandsOf(p)' \subseteq CommandsOf(p)

\* A process that no step is about keeps what it knows and waits for.
LEMMA AloneInv ==
  ASSUME NEW p \in Procs, Migrated(p), WoundDown(p), OthersAlone(p)
  PROVE  (Migrated(p) /\ WoundDown(p))'
BY DEF Migrated, WoundDown, OthersAlone

\* The start-up: a list shrinks only by what is recorded, nobody waits yet.
LEMMA MigratingStep ==
  ASSUME IInv, NEW p \in Procs,
         Start(p) \/ ApplyMigration(p) \/ MigrationsDone(p) \/ LaunchSelfCheck(p)
           \/ SelfCheckPasses(p) \/ SkipSelfCheck(p) \/ LoadTasks(p) \/ Listen(p)
  PROVE  \A other \in Procs : (Migrated(other) /\ WoundDown(other))'
<1> USE DEF IInv, TypeOK, Goto
<1>1. (Migrated(p) /\ WoundDown(p))'
  <2>1. CASE Start(p)
    <3>1. PICK known \in Binaries : /\ binary' = [binary EXCEPT ![p] = known]
                                    /\ todo' = [todo EXCEPT ![p] = known \ recorded]
      BY <2>1 DEF Start, Missing
    <3> QED BY <2>1, <3>1 DEF Start, Migrated, WoundDown, db
  <2>2. CASE ApplyMigration(p)
    BY <2>2 DEF ApplyMigration, Migrated, WoundDown
  <2>3. CASE MigrationsDone(p)
    BY <2>3 DEF MigrationsDone, Migrated, WoundDown, db, control
  <2>4. CASE LaunchSelfCheck(p) \/ SelfCheckPasses(p) \/ SkipSelfCheck(p) \/ LoadTasks(p) \/ Listen(p)
    BY <2>4
       DEF LaunchSelfCheck, SelfCheckPasses, SkipSelfCheck, LoadTasks, Listen, Migrated,
           WoundDown, db, control
  <2> QED BY <2>1, <2>2, <2>3, <2>4
<1>2. ASSUME NEW other \in Procs \ {p}
      PROVE  OthersAlone(other)
  <2>1. request' = request
    BY DEF Start, ApplyMigration, MigrationsDone, LaunchSelfCheck, SelfCheckPasses, SkipSelfCheck,
           LoadTasks, Listen
  <2>2. Of(other)' = Of(other) /\ ActiveOf(other)' = ActiveOf(other)
    BY <2>1 DEF Of, ActiveOf
  <2>3. commands' \subseteq commands \cup {p}
    BY DEF Start, ApplyMigration, MigrationsDone, LaunchSelfCheck, SelfCheckPasses, SkipSelfCheck,
           LoadTasks, Listen
  <2>4. CommandsOf(other)' \subseteq CommandsOf(other)
    BY <2>2, <2>3, ProcessAssumption DEF CommandsOf, Of
  <2>5. recorded \subseteq recorded'
    BY DEF Start, ApplyMigration, MigrationsDone, LaunchSelfCheck, SelfCheckPasses, SkipSelfCheck,
           LoadTasks, Listen, db
  <2>6. /\ pc'[other] = pc[other] /\ binary'[other] = binary[other]
        /\ todo'[other] = todo[other] /\ failed'[other] = failed[other]
    BY DEF Start, ApplyMigration, MigrationsDone, LaunchSelfCheck, SelfCheckPasses, SkipSelfCheck,
           LoadTasks, Listen, control
  <2> QED BY <2>2, <2>4, <2>5, <2>6 DEF OthersAlone
<1> QED BY <1>1, <1>2, AloneInv

\* A wait of the shutdown ends when what it waits for is gone, or by a timeout.
LEMMA ShutdownStep ==
  ASSUME IInv, NEW p \in Procs,
         CloseStreams(p) \/ CloseListener(p) \/ HttpDrained(p) \/ CancelRuns(p) \/ RunsDone(p)
           \/ (GiveUp(p) /\ pc[p] # "joining") \/ Signal(p) \/ WatcherStops(p) \/ Expire(p)
  PROVE  \A other \in Procs : (Migrated(other) /\ WoundDown(other))'
<1> USE DEF IInv, TypeOK, Goto, CloseStreams, CloseListener, HttpDrained, CancelRuns, RunsDone,
            GiveUp, Signal, WatcherStops, Expire
<1>1. request' = request /\ commands' = commands /\ recorded' = recorded
  BY DEF db
<1>2. \A other \in Procs : /\ ActiveOf(other)' = ActiveOf(other)
                           /\ CommandsOf(other)' = CommandsOf(other)
  BY <1>1 DEF ActiveOf, CommandsOf, Of
<1>3. (Migrated(p) /\ WoundDown(p))'
  <2>1. Migrated(p)'
    BY <1>1 DEF Migrated, control
  <2>2. WoundDown(p)'
    BY <1>2 DEF WoundDown, control
  <2> QED BY <2>1, <2>2
<1>4. ASSUME NEW other \in Procs \ {p}
      PROVE  OthersAlone(other)
  BY <1>1, <1>2 DEF OthersAlone, control
<1> QED BY <1>3, <1>4, AloneInv

\* Handlers and their commands: nothing new for a process that has closed its listener.
LEMMA RequestStep ==
  ASSUME IInv, NEW q \in Requests,
         (\E p \in Procs : Accept(q, p)) \/ StartRun(q) \/ Respond(q) \/ StreamCloses(q)
           \/ StreamReleased(q) \/ CommandEnds(q)
  PROVE  \A other \in Procs : (Migrated(other) /\ WoundDown(other))'
<1> SUFFICES ASSUME NEW other \in Procs
             PROVE  (Migrated(other) /\ WoundDown(other))'
  OBVIOUS
<1> TypeOK /\ Migrated(other) /\ WoundDown(other)
  BY DEF IInv
<1>1. UNCHANGED <<pc, binary, todo, failed, recorded>>
  BY DEF Accept, StartRun, Respond, StreamCloses, StreamReleased, CommandEnds, db, control
<1>2. Migrated(other)'
  BY <1>1 DEF Migrated
<1>3. ASSUME NEW p \in Procs, Accept(q, p)
      PROVE  WoundDown(other)'
  <2>1. CASE other = p
    BY <1>1, <1>3, <2>1 DEF Accept, WoundDown, Listening
  <2>2. CASE other # p
    <3>1. ActiveOf(other)' \subseteq ActiveOf(other) /\ Of(other)' \subseteq Of(other)
      BY <1>3, <2>2 DEF Accept, ActiveOf, Of, TypeOK
    <3>2. CommandsOf(other)' \subseteq CommandsOf(other)
      BY <1>3, <3>1 DEF Accept, CommandsOf
    <3> QED BY <1>1, <3>1, <3>2 DEF WoundDown
  <2> QED BY <2>1, <2>2
<1>4. CASE StartRun(q)
  <2>1. \A x \in Requests : request'[x].owner = request[x].owner
    BY <1>4 DEF StartRun, TypeOK
  <2>2. \A x \in Requests \ {q} : request'[x] = request[x]
    BY <1>4 DEF StartRun, TypeOK
  <2>3. request[q].phase = "active"
    BY <1>4 DEF StartRun
  <2>4. Of(other)' = Of(other)
    BY <2>1 DEF Of
  <2>5. ActiveOf(other)' \subseteq ActiveOf(other)
    BY <2>2, <2>3, <2>4 DEF ActiveOf, Of
  <2>6. CASE request[q].owner = other
    <3>1. ActiveOf(other) # {}
      BY <2>3, <2>6 DEF ActiveOf, Of
    <3> QED BY <1>1, <1>2, <3>1 DEF WoundDown
  <2>7. CASE request[q].owner # other
    <3>1. commands' = commands \cup {q} /\ q \notin Of(other) /\ q # other
      BY <1>4, <2>7, ProcessAssumption DEF StartRun, Of
    <3>2. CommandsOf(other)' \subseteq CommandsOf(other)
      BY <2>4, <3>1 DEF CommandsOf
    <3> QED BY <1>1, <1>2, <2>5, <3>2 DEF WoundDown
  <2> QED BY <2>6, <2>7
<1>5. CASE Respond(q) \/ StreamCloses(q) \/ StreamReleased(q)
  <2>1. request' = [request EXCEPT ![q] = Over(@)]
    BY <1>5 DEF Respond, StreamCloses, StreamReleased
  <2>2. /\ request'[q] = [phase |-> "over", owner |-> request[q].owner, kind |-> "none"]
        /\ \A x \in Requests \ {q} : request'[x] = request[x]
    BY <2>1, OverStep
  <2>3. request'[q].owner = request[q].owner /\ request'[q].phase = "over"
    BY <2>2
  <2>4. Of(other)' = Of(other)
    BY <2>2, <2>3 DEF Of
  <2>5. ActiveOf(other)' \subseteq ActiveOf(other)
    BY <2>2, <2>3, <2>4 DEF ActiveOf, Of
  <2>6. CommandsOf(other)' = CommandsOf(other)
    BY <1>5, <2>4 DEF Respond, StreamCloses, StreamReleased, CommandsOf
  <2> QED BY <1>1, <1>2, <2>5, <2>6 DEF WoundDown
<1>6. CASE CommandEnds(q)
  <2>1. Of(other)' = Of(other) /\ ActiveOf(other)' = ActiveOf(other)
    BY <1>6 DEF CommandEnds, Of, ActiveOf
  <2>2. CommandsOf(other)' \subseteq CommandsOf(other)
    BY <1>6, <2>1 DEF CommandEnds, CommandsOf
  <2> QED BY <1>1, <1>2, <2>1, <2>2 DEF WoundDown
<1> QED BY <1>2, <1>3, <1>4, <1>5, <1>6

\* What ends on its own, or nothing at all, is nobody's step.
LEMMA IdleStep ==
  ASSUME IInv, UNCHANGED vars \/ \E c \in Procs \cup Requests : OrphanEnds(c)
  PROVE  \A other \in Procs : (Migrated(other) /\ WoundDown(other))'
<1>1. UNCHANGED <<db, control, pc, exit, request, commands>>
  BY DEF vars, OrphanEnds, db, control
<1>2. \A other \in Procs : Migrated(other) /\ WoundDown(other)
  BY DEF IInv
<1> QED BY <1>1, <1>2 DEF db, control, Migrated, WoundDown, ActiveOf, CommandsOf, Of

\* Every step keeps the invariant.
LEMMA NextInv == IInv /\ [Next]_vars => IInv'
<1> SUFFICES ASSUME IInv, [Next]_vars PROVE IInv'
  OBVIOUS
<1>1. TypeOK' /\ AppliedOnce'
  BY TypeStep, AppliedStep
<1>2. ASSUME NEW p \in Procs, StartupFails(p) \/ ServeFails(p) \/ Kill(p) \/ WatcherJoined(p)
                                \/ (GiveUp(p) /\ pc[p] = "joining")
      PROVE  IInv'
  <2>1. PICK how \in {"ok", "error", "killed"} : Leave(p, how)
    BY <1>2 DEF StartupFails, ServeFails, Kill, WatcherJoined, GiveUp
  <2> QED BY <2>1, LeaveInv
<1>3. ASSUME NEW p \in Procs, Start(p) \/ StartUp(p)
      PROVE  IInv'
  BY <1>1, <1>3, MigratingStep DEF StartUp, IInv
<1>4. ASSUME NEW p \in Procs,
             CloseStreams(p) \/ CloseListener(p) \/ HttpDrained(p) \/ CancelRuns(p) \/ RunsDone(p)
               \/ (GiveUp(p) /\ pc[p] # "joining") \/ Signal(p) \/ WatcherStops(p) \/ Expire(p)
      PROVE  IInv'
  BY <1>1, <1>4, ShutdownStep DEF IInv
<1>5. ASSUME NEW q \in Requests,
             (\E p \in Procs : Accept(q, p)) \/ StartRun(q) \/ Respond(q) \/ StreamCloses(q)
               \/ StreamReleased(q) \/ CommandEnds(q)
      PROVE  IInv'
  BY <1>1, <1>5, RequestStep DEF IInv
<1>6. CASE UNCHANGED vars \/ \E c \in Procs \cup Requests : OrphanEnds(c)
  BY <1>1, <1>6, IdleStep DEF IInv
<1> QED BY <1>2, <1>3, <1>4, <1>5, <1>6 DEF Next, Shutdown

------------------------------------------------------------------------------
(* The theorems. *)

\* The inductive invariant holds in every reachable state.
THEOREM Invariance == Spec => []IInv
<1>1. Init => IInv
  BY InitInv
<1>2. IInv /\ [Next]_vars => IInv'
  BY NextInv
<1> QED BY <1>1, <1>2, PTL DEF Spec

\* The schema is what schema_migrations says (store.migrate, store.apply): every
\* recorded script ran exactly once and no other ran, and a process that serves
\* finds every migration it knows applied, whatever binaries are started, however
\* often, two at once, and wherever they fail or are killed.
THEOREM WholeSchema == Spec => []SchemaIsWhole
<1>1. IInv => SchemaIsWhole
  BY DEF IInv, SchemaIsWhole, AppliedOnce, Migrated, ShuttingDown
<1> QED BY <1>1, Invariance, PTL

\* The body of CleanExit.
CleanDown ==
  \A p \in Procs : pc[p] # "down" /\ pc'[p] = "down" /\ exit'[p] = "ok" =>
    ActiveOf(p) = {} /\ CommandsOf(p) = {} /\ watcher[p] = "done"

\* Only the join of the watcher at the end of a shutdown without an error makes
\* run return nil.
LEMMA OkStep ==
  ASSUME TypeOK, Next, NEW p \in Procs, pc[p] # "down", pc'[p] = "down", exit'[p] = "ok"
  PROVE  WatcherJoined(p) /\ ~failed[p]
<1> USE DEF TypeOK, Goto
<1>1. ASSUME NEW other \in Procs, NEW how \in {"ok", "error", "killed"}, Leave(other, how)
      PROVE  other = p /\ how = "ok"
  BY <1>1 DEF Leave
<1>2. ASSUME NEW other \in Procs, StartupFails(other) \/ ServeFails(other) \/ Kill(other)
                                    \/ (GiveUp(other) /\ pc[other] = "joining")
      PROVE  FALSE
  <2>1. Leave(other, "error") \/ Leave(other, "killed")
    BY <1>2 DEF StartupFails, ServeFails, Kill, GiveUp
  <2> QED BY <1>1, <2>1
<1>3. ASSUME NEW other \in Procs, WatcherJoined(other)
      PROVE  WatcherJoined(p) /\ ~failed[p]
  BY <1>1, <1>3 DEF WatcherJoined
<1>4. ASSUME NEW other \in Procs, Start(other) \/ StartUp(other)
      PROVE  pc'[p] # "down"
  BY <1>4 DEF Start, StartUp, ApplyMigration, MigrationsDone, LaunchSelfCheck, SelfCheckPasses,
              SkipSelfCheck, LoadTasks, Listen
<1>5. ASSUME NEW other \in Procs,
             CloseStreams(other) \/ CloseListener(other) \/ HttpDrained(other) \/ CancelRuns(other)
               \/ RunsDone(other) \/ (GiveUp(other) /\ pc[other] # "joining")
               \/ Signal(other) \/ WatcherStops(other) \/ Expire(other)
      PROVE  pc'[p] # "down"
  BY <1>5 DEF CloseStreams, CloseListener, HttpDrained, CancelRuns, RunsDone, GiveUp, Signal,
              WatcherStops, Expire
<1>6. ASSUME NEW q \in Requests,
             (\E other \in Procs : Accept(q, other)) \/ StartRun(q) \/ Respond(q) \/ StreamCloses(q)
               \/ StreamReleased(q) \/ CommandEnds(q)
      PROVE  pc' = pc
  BY <1>6 DEF Accept, StartRun, Respond, StreamCloses, StreamReleased, CommandEnds
<1>7. ASSUME NEW c \in Procs \cup Requests, OrphanEnds(c)
      PROVE  pc' = pc
  BY <1>7 DEF OrphanEnds
<1> QED BY <1>2, <1>3, <1>4, <1>5, <1>6, <1>7 DEF Next, Shutdown

\* A shutdown that reports no error has left nothing behind (main.shutdown): no
\* handler was cut off, no command goes on without its process, the watcher had
\* stopped - for any number of requests and processes.
THEOREM NothingCutOff == Spec => CleanExit
<1>1. IInv /\ [Next]_vars => [CleanDown]_vars
  <2> SUFFICES ASSUME IInv, Next, NEW p \in Procs,
                      pc[p] # "down", pc'[p] = "down", exit'[p] = "ok"
               PROVE  ActiveOf(p) = {} /\ CommandsOf(p) = {} /\ watcher[p] = "done"
    BY DEF CleanDown
  <2>1. WatcherJoined(p) /\ ~failed[p]
    BY OkStep DEF IInv
  <2> QED BY <2>1 DEF IInv, WoundDown, WatcherJoined
<1> QED BY <1>1, Invariance, PTL DEF Spec, CleanExit, CleanDown

\* Every variable keeps its type and every counter its bound.
THEOREM TypeCorrect == Spec => []TypeOK
BY Invariance, PTL DEF IInv

------------------------------------------------------------------------------
(* What a shutdown waits for. *)

\* A stream starts no run, a process that is past its self-check runs none, and one
\* that shuts down has its watcher told to stop.
Dismissed(p) ==
  /\ \A q \in ActiveOf(p) : \/ request[q].kind = "handler"
                            \/ request[q].kind = "stream" /\ request[q].phase = "active"
  /\ pc[p] \in {"loading", "binding", "serving"} \cup ShuttingDown => p \notin commands
  /\ pc[p] \in {"serving"} \cup ShuttingDown => watcher[p] # "off"
  /\ pc[p] \in ShuttingDown => signaled[p]

\* Each wait of a shutdown is for what ends without the timer: for handlers, which
\* answer, and streams, which the closed channel releases; for commands of runs,
\* which it has canceled; for a watcher whose context is done.
WaitsForWhatEnds ==
  \A p \in Procs :
    /\ pc[p] = "draining" =>
         \A q \in ActiveOf(p) : \/ request[q].kind = "handler"
                                \/ request[q].kind = "stream" /\ request[q].phase = "active"
    /\ pc[p] = "waiting" => CommandsOf(p) \subseteq Requests
    /\ pc[p] = "joining" => watcher[p] = "done" \/ (watcher[p] = "running" /\ signaled[p])

\* The end of a process dismisses nobody else.
LEMMA LeaveDismisses ==
  ASSUME TypeOK, NEW p \in Procs, NEW how \in {"ok", "error", "killed"}, Leave(p, how),
         \A other \in Procs : Dismissed(other)
  PROVE  \A other \in Procs : Dismissed(other)'
<1>1. ASSUME NEW other \in Procs \ {p}
      PROVE  Dismissed(other)'
  <2>1. pc'[other] = pc[other] /\ watcher'[other] = watcher[other] /\ signaled'[other] = signaled[other]
    BY DEF Leave, Goto, TypeOK
  <2>2. commands' \subseteq commands
    BY DEF Leave
  <2>3. ActiveOf(other)' = ActiveOf(other)
    BY LeaveStep
  <2>4. ASSUME NEW q \in ActiveOf(other)
        PROVE  request'[q] = request[q]
    BY DEF ActiveOf, Of, Leave
  <2> QED BY <2>1, <2>2, <2>3, <2>4 DEF Dismissed
<1>2. Dismissed(p)'
  <2>1. pc'[p] = "down"
    BY LeaveStep
  <2>2. ActiveOf(p)' = {}
    <3>1. \A q \in Requests : request'[q].owner # p
      BY ProcessAssumption DEF Leave, Of
    <3> QED BY <3>1 DEF ActiveOf, Of
  <2> QED BY <2>1, <2>2 DEF Dismissed, ShuttingDown
<1> QED BY <1>1, <1>2

\* Nor does anything that happens to its requests.
LEMMA RequestDismisses ==
  ASSUME TypeOK, \A other \in Procs : Dismissed(other), NEW q \in Requests,
         (\E p \in Procs : Accept(q, p)) \/ StartRun(q) \/ Respond(q) \/ StreamCloses(q)
           \/ StreamReleased(q) \/ CommandEnds(q)
  PROVE  \A other \in Procs : Dismissed(other)'
<1> SUFFICES ASSUME NEW other \in Procs
             PROVE  Dismissed(other)'
  OBVIOUS
<1>1. UNCHANGED <<pc, watcher, signaled>>
  BY DEF Accept, StartRun, Respond, StreamCloses, StreamReleased, CommandEnds, control
<1>2. commands' \subseteq commands \cup {q} /\ other # q
  BY ProcessAssumption DEF Accept, StartRun, Respond, StreamCloses, StreamReleased, CommandEnds
<1>3. ASSUME NEW x \in Requests, x # q
      PROVE  request'[x] = request[x]
  <2>1. CASE Respond(q) \/ StreamCloses(q) \/ StreamReleased(q)
    <3>1. request' = [request EXCEPT ![q] = Over(@)]
      BY <2>1 DEF Respond, StreamCloses, StreamReleased
    <3> QED BY <1>3, <3>1, OverStep
  <2> QED BY <1>3, <2>1 DEF Accept, StartRun, CommandEnds, TypeOK
<1>4. ASSUME q \in ActiveOf(other)'
      PROVE  \/ request'[q].kind = "handler"
             \/ request'[q].kind = "stream" /\ request'[q].phase = "active"
  <2>1. CASE Respond(q) \/ StreamCloses(q) \/ StreamReleased(q)
    <3>1. request' = [request EXCEPT ![q] = Over(@)]
      BY <2>1 DEF Respond, StreamCloses, StreamReleased
    <3>2. request'[q] = [phase |-> "over", owner |-> request[q].owner, kind |-> "none"]
      BY <3>1, OverStep
    <3>3. request'[q].phase = "over"
      BY <3>2
    <3> QED BY <1>4, <3>3 DEF ActiveOf
  <2>2. ASSUME NEW p \in Procs, Accept(q, p)
        PROVE  request'[q].kind \in {"handler", "stream"} /\ request'[q].phase = "active"
    BY <2>2 DEF Accept, TypeOK
  <2>3. CASE StartRun(q)
    BY <2>3 DEF StartRun, TypeOK
  <2>4. CASE CommandEnds(q)
    <3>1. request' = request
      BY <2>4 DEF CommandEnds
    <3> QED BY <1>4, <3>1 DEF Dismissed, ActiveOf, Of
  <2> QED BY <2>1, <2>2, <2>3, <2>4
<1>5. ASSUME NEW x \in ActiveOf(other)', x # q
      PROVE  x \in ActiveOf(other) /\ request'[x] = request[x]
  BY <1>3, <1>5 DEF ActiveOf, Of
<1>6. Dismissed(other)
  OBVIOUS
<1> QED BY <1>1, <1>2, <1>4, <1>5, <1>6 DEF Dismissed

\* Every step keeps it.
LEMMA NextDismisses ==
  ASSUME TypeOK, \A other \in Procs : Dismissed(other), [Next]_vars
  PROVE  \A other \in Procs : Dismissed(other)'
<1>1. ASSUME NEW p \in Procs, StartupFails(p) \/ ServeFails(p) \/ Kill(p) \/ WatcherJoined(p)
                                \/ (GiveUp(p) /\ pc[p] = "joining")
      PROVE  \A other \in Procs : Dismissed(other)'
  <2>1. PICK how \in {"ok", "error", "killed"} : Leave(p, how)
    BY <1>1 DEF StartupFails, ServeFails, Kill, WatcherJoined, GiveUp
  <2> QED BY <2>1, LeaveDismisses
<1>2. ASSUME NEW p \in Procs, Start(p) \/ StartUp(p)
      PROVE  \A other \in Procs : Dismissed(other)'
  <2>1. request' = request
    BY <1>2 DEF Start, StartUp, ApplyMigration, MigrationsDone, LaunchSelfCheck, SelfCheckPasses,
                SkipSelfCheck, LoadTasks, Listen
  <2>2. ASSUME NEW other \in Procs
        PROVE  ActiveOf(other)' = ActiveOf(other)
    BY <2>1 DEF ActiveOf, Of
  <2>3. ASSUME NEW other \in Procs \ {p}
        PROVE  /\ pc'[other] = pc[other] /\ watcher'[other] = watcher[other]
               /\ signaled'[other] = signaled[other] /\ (other \in commands' => other \in commands)
    BY <1>2 DEF Start, StartUp, ApplyMigration, MigrationsDone, LaunchSelfCheck, SelfCheckPasses,
                SkipSelfCheck, LoadTasks, Listen, Goto, TypeOK, control
  <2>4. \A other \in Procs \ {p} : Dismissed(other)'
    BY <2>1, <2>2, <2>3 DEF Dismissed
  <2>5. Dismissed(p)
    OBVIOUS
  <2>6. CASE Start(p) \/ ApplyMigration(p) \/ MigrationsDone(p) \/ LaunchSelfCheck(p)
    <3>1. pc'[p] \in {"migrating", "checking"}
      BY <2>6 DEF Start, ApplyMigration, MigrationsDone, LaunchSelfCheck, Goto, TypeOK
    <3> QED BY <2>1, <2>2, <2>4, <2>5, <3>1 DEF Dismissed, ShuttingDown
  <2>7. CASE SelfCheckPasses(p) \/ SkipSelfCheck(p) \/ LoadTasks(p)
    <3>1. pc'[p] \in {"loading", "binding"} /\ p \notin commands'
      BY <2>5, <2>7 DEF SelfCheckPasses, SkipSelfCheck, LoadTasks, Goto, TypeOK, Dismissed
    <3> QED BY <2>1, <2>2, <2>4, <2>5, <3>1 DEF Dismissed, ShuttingDown
  <2>8. CASE Listen(p)
    <3>1. pc'[p] = "serving" /\ watcher'[p] = "running" /\ p \notin commands'
      BY <2>5, <2>8 DEF Listen, Goto, TypeOK, Dismissed
    <3> QED BY <2>1, <2>2, <2>4, <2>5, <3>1 DEF Dismissed, ShuttingDown
  <2> QED BY <1>2, <2>6, <2>7, <2>8 DEF StartUp
<1>3. ASSUME NEW p \in Procs,
             CloseStreams(p) \/ CloseListener(p) \/ HttpDrained(p) \/ CancelRuns(p) \/ RunsDone(p)
               \/ (GiveUp(p) /\ pc[p] # "joining") \/ Signal(p) \/ WatcherStops(p) \/ Expire(p)
      PROVE  \A other \in Procs : Dismissed(other)'
  <2> USE DEF CloseStreams, CloseListener, HttpDrained, CancelRuns, RunsDone, GiveUp, Signal,
              WatcherStops, Expire, Goto, TypeOK
  <2>1. request' = request /\ commands' = commands
    BY <1>3
  <2>2. ASSUME NEW other \in Procs
        PROVE  ActiveOf(other)' = ActiveOf(other)
    BY <2>1 DEF ActiveOf, Of
  <2>3. ASSUME NEW other \in Procs
        PROVE  /\ watcher'[other] = "off" => watcher[other] = "off"
               /\ signaled[other] => signaled'[other]
    BY <1>3 DEF control
  <2>4. ASSUME NEW other \in Procs
        PROVE  \/ pc'[other] = pc[other]
               \/ /\ pc[other] \in {"serving"} \cup ShuttingDown
                  /\ pc'[other] \in ShuttingDown
                  /\ pc[other] = "serving" => signaled[other]
    BY <1>3 DEF control, ShuttingDown
  <2> HIDE DEF CloseStreams, CloseListener, HttpDrained, CancelRuns, RunsDone, GiveUp, Signal,
               WatcherStops, Expire, Goto, TypeOK
  <2> QED BY <2>1, <2>2, <2>3, <2>4 DEF Dismissed
<1>4. ASSUME NEW q \in Requests,
             (\E p \in Procs : Accept(q, p)) \/ StartRun(q) \/ Respond(q) \/ StreamCloses(q)
               \/ StreamReleased(q) \/ CommandEnds(q)
      PROVE  \A other \in Procs : Dismissed(other)'
  BY <1>4, RequestDismisses
<1>5. CASE UNCHANGED vars \/ \E c \in Procs \cup Requests : OrphanEnds(c)
  <2>1. UNCHANGED <<pc, watcher, signaled, request, commands>>
    BY <1>5 DEF vars, OrphanEnds, control
  <2> QED BY <2>1 DEF Dismissed, ActiveOf, Of
<1> QED BY <1>1, <1>2, <1>3, <1>4, <1>5 DEF Next, Shutdown

\* A shutdown waits for nothing that would need its timer: the safety half of
\* StopsWithoutTimer.  A stream has no run, the self-check is over before anything is
\* served, and the watcher shares the context whose end began the shutdown.
THEOREM NothingHoldsUp == Spec => []WaitsForWhatEnds
<1>1. Init => \A p \in Procs : Dismissed(p)
  BY ProcessAssumption DEF Init, Dismissed, ActiveOf, Of, ShuttingDown
<1>2. TypeOK /\ (\A p \in Procs : Dismissed(p)) /\ [Next]_vars => (\A p \in Procs : Dismissed(p))'
  BY NextDismisses
<1>3. TypeOK /\ (\A p \in Procs : Dismissed(p)) => WaitsForWhatEnds
  <2> SUFFICES ASSUME TypeOK, NEW p \in Procs, Dismissed(p)
               PROVE  /\ pc[p] = "draining" =>
                           \A q \in ActiveOf(p) : \/ request[q].kind = "handler"
                                                  \/ request[q].kind = "stream" /\ request[q].phase = "active"
                      /\ pc[p] = "waiting" => CommandsOf(p) \subseteq Requests
                      /\ pc[p] = "joining" => watcher[p] = "done" \/ (watcher[p] = "running" /\ signaled[p])
    BY DEF WaitsForWhatEnds
  <2>1. pc[p] = "waiting" => p \notin commands
    BY DEF Dismissed, ShuttingDown
  <2>2. CommandsOf(p) \subseteq Requests \cup {p} /\ CommandsOf(p) \subseteq commands
    BY DEF CommandsOf, Of
  <2>3. pc[p] = "joining" => watcher[p] # "off" /\ signaled[p]
    BY DEF Dismissed, ShuttingDown
  <2>4. watcher[p] \in {"off", "running", "done"}
    BY DEF TypeOK
  <2> QED BY <2>1, <2>2, <2>3, <2>4 DEF Dismissed
<1> QED BY <1>1, <1>2, <1>3, TypeCorrect, PTL DEF Spec
================================================================================
