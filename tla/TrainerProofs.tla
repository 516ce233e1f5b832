---------------------------- MODULE TrainerProofs ----------------------------
(***************************************************************************)
(* Proofs about Trainer, for any tasks, files, clock, runs, crashes and    *)
(* bounds.  What the store guarantees on its own (StoreProofs) carries     *)
(* over to the handlers, because they implement Store.                     *)
(***************************************************************************)
EXTENDS Trainer, FiniteSetTheorems, TLAPS

Tables == INSTANCE StoreProofs

------------------------------------------------------------------------------
(* Trainer's view of the store is the one the proofs about it are for. *)

\* The constants are those of a store.
LEMMA StoreAssumed == Tables!StoreAssumption
BY TrainerAssumption DEF Tables!StoreAssumption

\* Both instances of the store mean the same: its tables, its types, its steps.
LEMMA SameRows ==
  /\ Db!Ids = Tables!Ids /\ Db!vars = Tables!vars
  /\ \A t \in Tasks : Db!OpenOf(t) = Tables!OpenOf(t)
  /\ Db!Init <=> Tables!Init
BY DEF Db!Ids, Tables!Ids, Db!vars, Tables!vars, Db!OpenOf, Tables!OpenOf, Db!Init, Tables!Init,
       Db!NoReview, Tables!NoReview, Db!NoTime, Tables!NoTime

\* The types of the tables.
LEMMA SameType == Db!TypeOK <=> Tables!TypeOK
BY DEF Db!TypeOK, Tables!TypeOK, Db!Attempt, Tables!Attempt, Db!Review, Tables!Review,
       Db!Statuses, Tables!Statuses, Db!NoTime, Tables!NoTime, Db!TopRung, Tables!TopRung,
       Db!Ladder, Tables!Ladder

\* The transactions, apart from the solves.
LEMMA SameSteps ==
  /\ Db!AdvanceClock <=> Tables!AdvanceClock
  /\ \A t : Db!StartAttempt(t) <=> Tables!StartAttempt(t)
  /\ \A t : Db!AbandonOpen(t) <=> Tables!AbandonOpen(t)
  /\ \A i : Db!AbandonAttempt(i) <=> Tables!AbandonAttempt(i)
  /\ \A i, d : Db!AddActive(i, d) <=> Tables!AddActive(i, d)
  /\ \A i, passed : Db!RecordRun(i, passed) <=> Tables!RecordRun(i, passed)
<1> USE DEF Db!Ids, Tables!Ids, Db!OpenOf, Tables!OpenOf, Db!Closed, Tables!Closed,
            Db!NewAttempt, Tables!NewAttempt, Db!DayOf, Tables!DayOf, Db!NoTime, Tables!NoTime,
            Db!vars, Tables!vars, Db!Resumable, Tables!Resumable
<1>1. Db!AdvanceClock <=> Tables!AdvanceClock
  BY DEF Db!AdvanceClock, Tables!AdvanceClock
<1>2. \A t : Db!StartAttempt(t) <=> Tables!StartAttempt(t)
  BY DEF Db!StartAttempt, Tables!StartAttempt, Db!ResumeAttempt, Tables!ResumeAttempt,
         Db!InsertAttempt, Tables!InsertAttempt
<1>3. \A t : Db!AbandonOpen(t) <=> Tables!AbandonOpen(t)
  BY DEF Db!AbandonOpen, Tables!AbandonOpen
<1>4. \A i : Db!AbandonAttempt(i) <=> Tables!AbandonAttempt(i)
  BY DEF Db!AbandonAttempt, Tables!AbandonAttempt
<1>5. \A i, d : Db!AddActive(i, d) <=> Tables!AddActive(i, d)
  BY DEF Db!AddActive, Tables!AddActive
<1>6. \A i, passed : Db!RecordRun(i, passed) <=> Tables!RecordRun(i, passed)
  BY DEF Db!RecordRun, Tables!RecordRun
<1> QED BY <1>1, <1>2, <1>3, <1>4, <1>5, <1>6

\* The solves.
LEMMA SameSolves ==
  \A i, files : Db!PassAttempt(i, files) <=> Tables!PassAttempt(i, files)
BY DEF Db!PassAttempt, Tables!PassAttempt, Db!PassAgain, Tables!PassAgain, Db!PassFirst,
       Tables!PassFirst, Db!vars, Tables!vars, Db!Solved, Tables!Solved, Db!Elapsed, Tables!Elapsed,
       Db!NextReview, Tables!NextReview, Db!Advance, Tables!Advance, Db!DayOf, Tables!DayOf,
       Db!Clamp, Tables!Clamp, Db!IntervalDays, Tables!IntervalDays, Db!Ladder, Tables!Ladder,
       Db!TopRung, Tables!TopRung

\* So a step of one is a step of the other.
LEMMA SameNext == Db!Next <=> Tables!Next
BY SameRows, SameSteps, SameSolves DEF Db!Next, Tables!Next

------------------------------------------------------------------------------
(* The inductive invariant. *)

\* The attempt of a run is in the table.
Submitted(r) ==
  run[r].attempt # NoAttempt => run[r].attempt \in DOMAIN attempts /\ run[r].files \in Files

\* How far a recorder is says what the run reported.
Recorded(r) ==
  /\ recorder[r] # "none" => run[r].attempt # NoAttempt
  /\ recorder[r] \in {"counted", "half"} => life[r] = "passed"
  /\ recorder[r] = "booked" => life[r] \in Life!Outcomes

IsCounted(r) == recorder[r] \in {"counted", "booked", "half"}

Counted(i) == {r \in RunsOf(i) : IsCounted(r)}

Red(i) == {r \in Counted(i) : life[r] # "passed"}

CountersMatch(i) ==
  attempts[i].runs = Cardinality(Counted(i)) /\ attempts[i].fails = Cardinality(Red(i))

\* The run that solved an attempt is booked.
SolvedBy(i, r) ==
  recorder[r] = "booked" /\ life[r] = "passed" /\ snapshots[i] = run[r].files

Booked(i) == attempts[i].status = "passed" => \E r \in RunsOf(i) : SolvedBy(i, r)

Sound ==
  /\ \A r \in Runs : Submitted(r) /\ Recorded(r)
  /\ \A i \in DOMAIN attempts : CountersMatch(i) /\ Booked(i)

IInv == TypeOK /\ Sound

------------------------------------------------------------------------------
(* Steps that only the tables, or only the runs, take part in. *)

\* The ids of attempts, none of which stands for "no attempt".
LEMMA AttemptIds ==
  ASSUME Db!TypeOK
  PROVE  /\ DOMAIN attempts = 1 .. Len(attempts) /\ Len(attempts) \in Nat
         /\ DOMAIN attempts \subseteq 1 .. MaxAttempts
         /\ NoAttempt \notin DOMAIN attempts
BY TrainerAssumption DEF Db!TypeOK

\* The tables change, no run is counted and no solve is booked.
LEMMA TablesMove ==
  ASSUME IInv, Tables!KeepsRows, Tables!QuietStep, Tables!CountsNothing,
         UNCHANGED <<run, life, recorder>>
  PROVE  Sound'
<1>1. /\ DOMAIN attempts \subseteq DOMAIN attempts'
      /\ snapshots' = snapshots
      /\ \A i \in DOMAIN attempts : /\ attempts'[i].status = "passed" <=> attempts[i].status = "passed"
                                    /\ attempts'[i].runs = attempts[i].runs
                                    /\ attempts'[i].fails = attempts[i].fails
      /\ \A i \in DOMAIN attempts' \ DOMAIN attempts :
           /\ attempts'[i].status # "passed" /\ attempts'[i].runs = 0 /\ attempts'[i].fails = 0
  BY DEF Tables!KeepsRows, Tables!QuietStep, Tables!CountsNothing, Tables!Ids
<1>2. \A r \in Runs : Submitted(r)' /\ Recorded(r)'
  BY <1>1 DEF IInv, Sound, Submitted, Recorded
<1>3. \A i : Counted(i)' = Counted(i) /\ Red(i)' = Red(i) /\ RunsOf(i)' = RunsOf(i)
  <2>1. \A i : RunsOf(i)' = RunsOf(i)
    BY DEF RunsOf
  <2>2. \A i : Counted(i)' = Counted(i)
    BY <2>1 DEF Counted, IsCounted
  <2>3. \A i : Red(i)' = Red(i)
    BY <2>2 DEF Red
  <2> QED BY <2>1, <2>2, <2>3
<1>4. ASSUME NEW i \in DOMAIN attempts
      PROVE  CountersMatch(i)' /\ Booked(i)'
  <2>1. CountersMatch(i)'
    BY <1>1, <1>3 DEF IInv, Sound, CountersMatch
  <2>2. Booked(i)'
    BY <1>1, <1>3 DEF IInv, Sound, Booked, SolvedBy
  <2> QED BY <2>1, <2>2
<1>5. ASSUME NEW i \in DOMAIN attempts', i \notin DOMAIN attempts
      PROVE  CountersMatch(i)' /\ Booked(i)'
  <2>1. \A r \in Runs : IsCounted(r) => run[r].attempt \in DOMAIN attempts
    BY DEF IInv, Sound, Submitted, Recorded, IsCounted
  <2>2. Counted(i) = {} /\ Red(i) = {}
    BY <1>5, <2>1 DEF Counted, Red, RunsOf
  <2>3. Cardinality({}) = 0
    BY FS_EmptySet
  <2> QED BY <1>1, <1>3, <1>5, <2>2, <2>3 DEF CountersMatch, Booked
<1> QED BY <1>2, <1>4, <1>5 DEF Sound

\* The tables are left alone, and no recorder counts or books.
LEMMA RunsMove ==
  ASSUME IInv, UNCHANGED tables, \A r \in Runs : Submitted(r)' /\ Recorded(r)',
         \A r \in Runs : /\ IsCounted(r)' <=> IsCounted(r)
                         /\ IsCounted(r) => run'[r] = run[r] /\ life'[r] = life[r]
                         /\ recorder[r] = "booked" => recorder'[r] = "booked"
  PROVE  Sound'
<1>1. attempts' = attempts /\ snapshots' = snapshots
  BY DEF tables
<1>2. \A i : Counted(i)' = Counted(i)
  BY DEF Counted, RunsOf
<1>3. \A i : Red(i)' = Red(i)
  <2>1. \A i : \A r \in Counted(i) : life'[r] = life[r]
    BY DEF Counted, RunsOf
  <2> QED BY <1>2, <2>1 DEF Red
<1>4. \A i \in DOMAIN attempts : CountersMatch(i)'
  BY <1>1, <1>2, <1>3 DEF IInv, Sound, CountersMatch
<1>5. \A i \in DOMAIN attempts : Booked(i)'
  <2>1. ASSUME NEW i \in DOMAIN attempts, attempts[i].status = "passed"
        PROVE  \E r \in RunsOf(i)' : SolvedBy(i, r)'
    <3>1. PICK r \in RunsOf(i) : SolvedBy(i, r)
      BY <2>1 DEF IInv, Sound, Booked
    <3>2. r \in Runs /\ IsCounted(r) /\ recorder[r] = "booked"
      BY <3>1 DEF SolvedBy, IsCounted, RunsOf
    <3>3. run'[r] = run[r] /\ life'[r] = life[r] /\ recorder'[r] = "booked"
      BY <3>2
    <3>4. r \in RunsOf(i)' /\ SolvedBy(i, r)'
      BY <1>1, <3>1, <3>3 DEF RunsOf, SolvedBy
    <3> QED BY <3>4
  <2> QED BY <1>1, <2>1 DEF Booked
<1> QED BY <1>1, <1>4, <1>5 DEF Sound

------------------------------------------------------------------------------
(* Steps of the handlers. *)

\* What a run remembers of its submission.
LEMMA RunsType ==
  ASSUME TypeOK, NEW r \in Runs
  PROVE  /\ run[r].attempt \in 1 .. MaxAttempts \cup {NoAttempt}
         /\ run[r].files \in Files \cup {NoFiles}
BY DEF TypeOK

\* A handler of one store call, that neither counts a run nor books a solve.
LEMMA StoreCall ==
  ASSUME IInv, Tables!TypeOK', Tables!KeepsRows, Tables!QuietStep, Tables!CountsNothing,
         UNCHANGED <<drafts, run, life, recorder, crashes>>,
         restart' \in [Tasks -> {"idle", "abandoned", "cleared"}]
  PROVE  IInv'
<1>1. Sound'
  BY TablesMove
<1>2. Db!TypeOK'
  BY SameType, PTL
<1>3. TypeOK'
  BY <1>2 DEF IInv, TypeOK
<1> QED BY <1>1, <1>3 DEF IInv

\* Start, restart, abandon, heartbeat: the store allows each of their calls.
LEMMA HandlerStep ==
  ASSUME IInv,
         \/ AdvanceClock
         \/ \E t \in Tasks : HandleStart(t) \/ RestartAbandons(t) \/ RestartStarts(t)
         \/ \E i \in DOMAIN attempts : \/ HandleAbandon(i)
                                      \/ \E d \in Beats : HandleHeartbeat(i, d)
  PROVE  IInv' /\ Db!Next
<1>1. Tables!TypeOK /\ Tables!StoreAssumption /\ DOMAIN attempts = Tables!Ids
  BY SameType, StoreAssumed DEF IInv, TypeOK, Tables!Ids
<1>2. UNCHANGED <<drafts, run, life, recorder, crashes>>
  BY DEF AdvanceClock, HandleStart, RestartAbandons, RestartStarts, HandleAbandon, HandleHeartbeat
<1>3. restart' \in [Tasks -> {"idle", "abandoned", "cleared"}]
  BY DEF IInv, TypeOK, AdvanceClock, HandleStart, RestartAbandons, RestartStarts, HandleAbandon,
         HandleHeartbeat
<1>4. CASE AdvanceClock
  <2>1. Tables!AdvanceClock /\ Db!Next
    BY <1>4, SameSteps DEF AdvanceClock, Db!Next
  <2>2. Tables!CountsNothing
    BY <1>1, <2>1, Tables!CounterCases
  <2>3. Tables!IdleStep
    BY <2>1 DEF Tables!AdvanceClock, Tables!IdleStep
  <2>4. Tables!TypeOK' /\ Tables!KeepsRows /\ Tables!QuietStep
    BY <1>1, <2>3, Tables!IdleIsQuiet
  <2> QED BY <1>2, <1>3, <2>1, <2>2, <2>4, StoreCall
<1>5. ASSUME NEW t \in Tasks, HandleStart(t) \/ RestartAbandons(t) \/ RestartStarts(t)
      PROVE  IInv' /\ Db!Next
  <2>1. (Tables!StartAttempt(t) \/ Tables!AbandonOpen(t)) /\ Db!Next
    BY <1>5, SameSteps DEF HandleStart, RestartAbandons, RestartStarts, Db!Next
  <2>2. Tables!CountsNothing
    BY <1>1, <2>1, Tables!CounterCases
  <2>3. Tables!TypeOK' /\ Tables!KeepsRows /\ Tables!QuietStep
    <3>1. CASE Tables!AbandonOpen(t)
      BY <1>1, <3>1, Tables!AbandonOpenStep
    <3>2. CASE Tables!InsertAttempt(t)
      BY <1>1, <3>2, Tables!InsertStep
    <3>3. CASE Tables!ResumeAttempt(t)
      <4>1. Tables!IdleStep
        BY <1>1, <3>3 DEF Tables!IdleStep, Tables!ResumeAttempt, Tables!vars, Tables!TypeOK
      <4> QED BY <1>1, <4>1, Tables!IdleIsQuiet
    <3> QED BY <2>1, <3>1, <3>2, <3>3 DEF Tables!StartAttempt
  <2> QED BY <1>2, <1>3, <2>1, <2>2, <2>3, StoreCall
<1>6. ASSUME NEW i \in DOMAIN attempts, HandleAbandon(i)
      PROVE  IInv' /\ Db!Next
  <2>1. Tables!AbandonAttempt(i) /\ Db!Next /\ i \in Tables!Ids
    BY <1>1, <1>6, SameRows, SameSteps DEF HandleAbandon, Db!Next
  <2>2. Tables!CountsNothing
    BY <1>1, <2>1, Tables!CounterCases
  <2>3. Tables!TypeOK' /\ Tables!KeepsRows /\ Tables!QuietStep
    BY <1>1, <2>1, Tables!AbandonStep
  <2> QED BY <1>2, <1>3, <2>1, <2>2, <2>3, StoreCall
<1>7. ASSUME NEW i \in DOMAIN attempts, NEW d \in Beats, HandleHeartbeat(i, d)
      PROVE  IInv' /\ Db!Next
  <2>1. Tables!AddActive(i, d) /\ Db!Next /\ i \in Tables!Ids
    BY <1>1, <1>7, SameRows, SameSteps DEF HandleHeartbeat, Db!Next
  <2>2. Tables!CountsNothing
    BY <1>1, <2>1, Tables!CounterCases
  <2>3. Tables!TypeOK' /\ Tables!KeepsRows /\ Tables!QuietStep
    BY <1>1, <2>1, Tables!AddActiveStep
  <2> QED BY <1>2, <1>3, <2>1, <2>2, <2>3, StoreCall
<1> QED BY <1>4, <1>5, <1>6, <1>7

\* What leaves the tables alone and is no matter for the recorders.
LEMMA RunHandlerStep ==
  ASSUME IInv, NEW r \in Runs,
         \/ \E i \in DOMAIN attempts, files \in Files : SubmitRun(r, i, files)
         \/ StartRun(r) \/ ReportRun(r) \/ SkipCanceled(r) \/ GiveUp(r)
  PROVE  IInv' /\ UNCHANGED tables
<1> USE DEF Life!Outcomes
<1>1. UNCHANGED tables /\ UNCHANGED crashes /\ UNCHANGED restart
  BY DEF SubmitRun, StartRun, ReportRun, SkipCanceled, GiveUp, tables
<1>2. TypeOK /\ Sound /\ Db!TypeOK'
  <2>1. UNCHANGED tables => (Db!TypeOK <=> Db!TypeOK')
    BY DEF Db!TypeOK, tables
  <2> QED BY <1>1, <2>1 DEF IInv, TypeOK
<1>3. Submitted(r) /\ Recorded(r)
  BY <1>2 DEF Sound
<1>4. CASE \E i \in DOMAIN attempts, files \in Files : SubmitRun(r, i, files)
  <2>1. PICK i \in DOMAIN attempts, files \in Files : SubmitRun(r, i, files)
    BY <1>4
  <2> DEFINE new == [attempt |-> i, files |-> files]
  <2>2. /\ run[r].attempt = NoAttempt /\ run' = [run EXCEPT ![r] = new]
        /\ UNCHANGED <<life, recorder>>
        /\ drafts' = [drafts EXCEPT ![attempts[i].task] = files]
    BY <2>1 DEF SubmitRun
  <2>3. i \in 1 .. MaxAttempts
    BY <1>2, AttemptIds DEF TypeOK
  <2>4. /\ new \in [attempt : 1 .. MaxAttempts \cup {NoAttempt}, files : Files \cup {NoFiles}]
        /\ new.attempt = i /\ new.files = files
    BY <2>3
  <2> HIDE DEF new
  <2>5. /\ run' \in [Runs -> [attempt : 1 .. MaxAttempts \cup {NoAttempt}, files : Files \cup {NoFiles}]]
        /\ run'[r] = new /\ \A q \in Runs \ {r} : run'[q] = run[q]
    BY <1>2, <2>2, <2>4 DEF TypeOK
  <2>6. drafts' \in [Tasks -> Files \cup {NoFiles}]
    BY <1>2, <2>2 DEF TypeOK
  <2>7. TypeOK'
    BY <1>1, <1>2, <2>2, <2>5, <2>6 DEF TypeOK
  <2>8. recorder[r] = "none"
    BY <1>3, <2>2 DEF Recorded
  <2>9. ASSUME NEW q \in Runs
        PROVE  Submitted(q)' /\ Recorded(q)'
    <3>1. CASE q = r
      BY <1>1, <2>2, <2>4, <2>5, <2>8, <3>1 DEF Submitted, Recorded, tables
    <3>2. CASE q # r
      BY <1>1, <1>2, <2>2, <2>5, <3>2 DEF Sound, Submitted, Recorded, tables
    <3> QED BY <3>1, <3>2
  <2>10. Sound'
    <3>1. \A q \in Runs : IsCounted(q)' <=> IsCounted(q)
      BY <2>2 DEF IsCounted
    <3>2. \A q \in Runs : IsCounted(q) => q # r
      BY <2>8 DEF IsCounted
    <3> QED BY <1>1, <2>2, <2>5, <2>9, <3>1, <3>2, RunsMove
  <2> QED BY <1>1, <2>7, <2>10 DEF IInv
<1>5. CASE StartRun(r)
  <2>1. /\ run[r].attempt # NoAttempt /\ recorder[r] = "none" /\ life[r] = "absent"
        /\ recorder' = [recorder EXCEPT ![r] = "waiting"] /\ life' = [life EXCEPT ![r] = "going"]
        /\ UNCHANGED <<run, drafts>>
    BY <1>5 DEF StartRun, Life!Begin
  <2>2. /\ recorder' \in [Runs -> RecorderStates] /\ recorder'[r] = "waiting"
        /\ life' \in [Runs -> Life!Outcomes \cup {"absent", "going"}]
        /\ \A q \in Runs \ {r} : recorder'[q] = recorder[q] /\ life'[q] = life[q]
    BY <1>2, <2>1 DEF TypeOK, RecorderStates
  <2>3. TypeOK'
    BY <1>1, <1>2, <2>1, <2>2 DEF TypeOK
  <2>4. \A q \in Runs : Submitted(q)' /\ Recorded(q)'
    BY <1>1, <1>2, <2>1, <2>2 DEF Sound, Submitted, Recorded, tables
  <2>5. \A q \in Runs : /\ IsCounted(q)' <=> IsCounted(q)
                        /\ IsCounted(q) => q # r
    BY <2>1, <2>2 DEF IsCounted
  <2>6. Sound'
    BY <1>1, <2>1, <2>2, <2>4, <2>5, RunsMove
  <2> QED BY <1>1, <2>3, <2>6 DEF IInv
<1>6. CASE ReportRun(r)
  <2>1. PICK outcome \in Life!Outcomes :
          /\ life[r] = "going" /\ life' = [life EXCEPT ![r] = outcome]
          /\ recorder[r] \in {"waiting", "lost"} /\ UNCHANGED <<run, drafts, recorder>>
    BY <1>6 DEF ReportRun, Life!Report
  <2>2. /\ life' \in [Runs -> Life!Outcomes \cup {"absent", "going"}]
        /\ \A q \in Runs \ {r} : life'[q] = life[q]
    BY <1>2, <2>1 DEF TypeOK
  <2>3. TypeOK'
    BY <1>1, <1>2, <2>1, <2>2 DEF TypeOK
  <2>4. \A q \in Runs : Submitted(q)' /\ Recorded(q)'
    BY <1>1, <1>2, <2>1, <2>2 DEF Sound, Submitted, Recorded, tables
  <2>5. \A q \in Runs : /\ IsCounted(q)' <=> IsCounted(q)
                        /\ IsCounted(q) => q # r
    BY <2>1, <2>2 DEF IsCounted
  <2>6. Sound'
    BY <1>1, <2>1, <2>2, <2>4, <2>5, RunsMove
  <2> QED BY <1>1, <2>3, <2>6 DEF IInv
<1>7. CASE SkipCanceled(r)
  <2>1. /\ recorder[r] = "waiting" /\ UNCHANGED <<run, drafts, life>>
        /\ recorder' = [recorder EXCEPT ![r] = "skipped"]
    BY <1>7 DEF SkipCanceled
  <2>2. /\ recorder' \in [Runs -> RecorderStates] /\ recorder'[r] = "skipped"
        /\ \A q \in Runs \ {r} : recorder'[q] = recorder[q]
    BY <1>2, <2>1 DEF TypeOK, RecorderStates
  <2>3. TypeOK'
    BY <1>1, <1>2, <2>1, <2>2 DEF TypeOK
  <2>4. \A q \in Runs : Submitted(q)' /\ Recorded(q)'
    BY <1>1, <1>2, <1>3, <2>1, <2>2 DEF Sound, Submitted, Recorded, tables
  <2>5. \A q \in Runs : /\ IsCounted(q)' <=> IsCounted(q)
                        /\ IsCounted(q) => q # r
    BY <2>1, <2>2 DEF IsCounted
  <2>6. Sound'
    BY <1>1, <2>1, <2>2, <2>4, <2>5, RunsMove
  <2> QED BY <1>1, <2>3, <2>6 DEF IInv
<1>8. CASE GiveUp(r)
  <2>1. /\ UNCHANGED <<run, drafts, life>>
        /\ recorder' = [recorder EXCEPT ![r] = Dropped(r)] /\ Dropped(r) # recorder[r]
    BY <1>8 DEF GiveUp
  <2>2. /\ recorder[r] \in {"waiting", "none"} => Dropped(r) = "lost"
        /\ recorder[r] = "counted" => Dropped(r) = "half"
        /\ recorder[r] = "none" => run[r].attempt # NoAttempt
        /\ recorder[r] \in {"none", "waiting", "counted"}
    BY <2>1 DEF Dropped
  <2>3. /\ recorder' \in [Runs -> RecorderStates] /\ recorder'[r] = Dropped(r)
        /\ \A q \in Runs \ {r} : recorder'[q] = recorder[q]
    BY <1>2, <2>1, <2>2 DEF TypeOK, RecorderStates
  <2>4. TypeOK'
    BY <1>1, <1>2, <2>1, <2>3 DEF TypeOK
  <2>5. Submitted(r)' /\ Recorded(r)'
    BY <1>1, <1>3, <2>1, <2>2, <2>3 DEF Submitted, Recorded, tables
  <2>6. \A q \in Runs \ {r} : Submitted(q)' /\ Recorded(q)'
    BY <1>1, <1>2, <2>1, <2>3 DEF Sound, Submitted, Recorded, tables
  <2>7. \A q \in Runs : IsCounted(q)' <=> IsCounted(q)
    BY <2>2, <2>3 DEF IsCounted
  <2>8. \A q \in Runs : recorder'[q] = "booked" <=> recorder[q] = "booked"
    BY <2>2, <2>3
  <2>9. Sound'
    BY <1>1, <2>1, <2>5, <2>6, <2>7, <2>8, RunsMove
  <2> QED BY <1>1, <2>4, <2>9 DEF IInv
<1> QED BY <1>4, <1>5, <1>6, <1>7, <1>8

\* Drafts are no matter for the tables, and neither is where a restart is.
LEMMA DraftStep ==
  ASSUME IInv,
         \/ \E t \in Tasks : RestartClears(t) \/ RestartFails(t)
         \/ \E i \in DOMAIN attempts, files \in Files : HandleSaveDraft(i, files)
  PROVE  IInv' /\ UNCHANGED tables
<1>1. UNCHANGED tables /\ UNCHANGED <<run, life, recorder, crashes>>
  BY DEF RestartClears, RestartFails, HandleSaveDraft, tables
<1>2. TypeOK'
  <2>1. UNCHANGED tables => (Db!TypeOK <=> Db!TypeOK')
    BY DEF Db!TypeOK, tables
  <2> QED BY <1>1, <2>1 DEF IInv, TypeOK, RestartClears, RestartFails, HandleSaveDraft
<1>3. \A q \in Runs : Submitted(q)' /\ Recorded(q)' /\ (IsCounted(q)' <=> IsCounted(q))
  BY <1>1 DEF IInv, Sound, Submitted, Recorded, IsCounted, tables
<1>4. Sound'
  BY <1>1, <1>3, RunsMove
<1> QED BY <1>1, <1>2, <1>4 DEF IInv

\* A crash loses the runs and the recorders, and what they had counted is in
\* the tables.
LEMMA CrashStep == ASSUME IInv, Crash PROVE IInv' /\ UNCHANGED tables
<1> USE DEF Life!Outcomes
<1>1. UNCHANGED tables /\ UNCHANGED <<run, drafts>>
  BY DEF Crash, tables
<1>2. /\ recorder' = [r \in Runs |-> Dropped(r)]
      /\ life' = [r \in Runs |-> IF life[r] = "going" THEN "error" ELSE life[r]]
      /\ restart' = [t \in Tasks |-> "idle"] /\ crashes' = crashes + 1 /\ crashes < MaxCrashes
  BY DEF Crash
<1>3. ASSUME NEW r \in Runs
      PROVE  /\ recorder[r] \in RecorderStates
             /\ recorder'[r] = Dropped(r) /\ recorder'[r] \in RecorderStates
             /\ IsCounted(r)' <=> IsCounted(r)
             /\ recorder[r] = "booked" => recorder'[r] = "booked"
             /\ recorder'[r] = "booked" => recorder[r] = "booked"
             /\ recorder'[r] \in {"counted", "half"} => recorder[r] \in {"counted", "half"}
             /\ recorder'[r] # "none" => recorder[r] # "none" \/ run[r].attempt # NoAttempt
  BY <1>2 DEF IInv, TypeOK, RecorderStates, Dropped, IsCounted
<1>4. \A r \in Runs : /\ life'[r] \in Life!Outcomes \cup {"absent", "going"}
                      /\ life[r] \in Life!Outcomes => life'[r] = life[r]
  BY <1>2 DEF IInv, TypeOK
<1>5. TypeOK'
  <2>1. UNCHANGED tables => (Db!TypeOK <=> Db!TypeOK')
    BY DEF Db!TypeOK, tables
  <2>2. crashes' \in 0 .. MaxCrashes
    BY <1>2, TrainerAssumption DEF IInv, TypeOK
  <2>3. recorder' \in [Runs -> RecorderStates] /\ life' \in [Runs -> Life!Outcomes \cup {"absent", "going"}]
    BY <1>2, <1>3, <1>4
  <2> QED BY <1>1, <1>2, <2>1, <2>2, <2>3 DEF IInv, TypeOK
<1>6. ASSUME NEW r \in Runs
      PROVE  Submitted(r)' /\ Recorded(r)' /\ (IsCounted(r) => life'[r] = life[r])
  <2>1. Submitted(r) /\ Recorded(r)
    BY DEF IInv, Sound
  <2>2. Submitted(r)'
    BY <1>1, <2>1 DEF Submitted, tables
  <2>3. IsCounted(r) => life[r] \in Life!Outcomes
    BY <2>1 DEF Recorded, IsCounted
  <2>4. Recorded(r)'
    BY <1>1, <1>3, <1>4, <2>1, <2>3 DEF Recorded, IsCounted
  <2> QED BY <1>4, <2>2, <2>3, <2>4
<1>7. Sound'
  BY <1>1, <1>3, <1>6, RunsMove
<1> QED BY <1>1, <1>5, <1>7 DEF IInv

------------------------------------------------------------------------------
(* Steps of a recorder. *)

\* Counting a run changes the counters only.
LEMMA CountedRow ==
  ASSUME NEW a \in Tables!Attempt, NEW m \in Nat, NEW n \in Nat
  PROVE  LET b == [a EXCEPT !.runs = m, !.fails = n]
         IN  b.runs = m /\ b.fails = n /\ a.runs \in Nat /\ a.fails \in Nat
BY DEF Tables!Attempt

\* An attempt has finitely many counted runs.
LEMMA CountedFinite == \A i : IsFiniteSet(Counted(i)) /\ IsFiniteSet(Red(i))
<1>1. \A i : Counted(i) \subseteq Runs /\ Red(i) \subseteq Runs
  BY DEF Counted, Red, RunsOf
<1> QED BY <1>1, TrainerAssumption, FS_Subset

\* What is known of a run that is being recorded.
LEMMA RecordedRun ==
  ASSUME IInv, NEW r \in Runs, recorder[r] # "none"
  PROVE  /\ run[r].attempt \in DOMAIN attempts /\ run[r].attempt \in Tables!Ids
         /\ run[r].files \in Files
         /\ Tables!TypeOK /\ Tables!StoreAssumption
BY SameType, StoreAssumed DEF IInv, TypeOK, Sound, Submitted, Recorded, Tables!Ids

\* recordWhenDone counts the run that has reported.
LEMMA CountStep ==
  ASSUME IInv, NEW r \in Runs, CountRun(r)
  PROVE  IInv' /\ Db!Next
<1>0. PICK i, passed : i = run[r].attempt /\ passed = (life[r] = "passed")
  OBVIOUS
<1>1. /\ recorder[r] = "waiting" /\ life[r] \in Life!Outcomes
      /\ Tables!RecordRun(i, passed) /\ Db!RecordRun(i, passed)
      /\ recorder' = [recorder EXCEPT ![r] = IF passed THEN "counted" ELSE "booked"]
      /\ UNCHANGED <<drafts, life, run, restart, crashes>>
  BY <1>0, SameSteps DEF CountRun, Reported
<1>2. /\ i \in DOMAIN attempts /\ i \in Tables!Ids /\ Tables!TypeOK /\ Tables!StoreAssumption
      /\ passed \in BOOLEAN
  BY <1>0, <1>1, RecordedRun
<1>3. Db!Next
  BY <1>1, <1>2, SameRows DEF Db!Next
<1>4. /\ Tables!TypeOK' /\ Tables!KeepsRows /\ Tables!QuietStep /\ Tables!Ids' = Tables!Ids
      /\ attempts'[i] = [attempts[i] EXCEPT !.runs = @ + 1, !.fails = IF passed THEN @ ELSE @ + 1]
      /\ \A j \in Tables!Ids \ {i} : attempts'[j] = attempts[j]
  BY <1>1, <1>2, Tables!RecordRunStep
<1>5. /\ attempts'[i].runs = attempts[i].runs + 1
      /\ attempts'[i].fails = IF passed THEN attempts[i].fails ELSE attempts[i].fails + 1
  <2> DEFINE a == attempts[i]
             m == attempts[i].runs + 1
             n == IF passed THEN attempts[i].fails ELSE attempts[i].fails + 1
             b == [a EXCEPT !.runs = m, !.fails = n]
  <2>1. a \in Tables!Attempt
    BY <1>2, Tables!RowType
  <2>2. m \in Nat /\ n \in Nat
    BY <2>1 DEF Tables!Attempt
  <2>3. attempts'[i] = b
    BY <1>4
  <2> HIDE DEF a, m, n
  <2>4. b.runs = m /\ b.fails = n
    BY <2>1, <2>2, CountedRow
  <2> HIDE DEF b
  <2> QED BY <2>3, <2>4 DEF m, n
<1>6. DOMAIN attempts' = DOMAIN attempts /\ snapshots' = snapshots
  BY <1>4 DEF Tables!Ids, Tables!QuietStep
<1>7. /\ recorder' \in [Runs -> RecorderStates] /\ recorder'[r] \in {"counted", "booked"}
      /\ recorder'[r] = "counted" <=> passed
      /\ \A q \in Runs \ {r} : recorder'[q] = recorder[q]
  BY <1>1 DEF IInv, TypeOK, RecorderStates
<1>8. TypeOK'
  <2>1. Db!TypeOK'
    BY <1>4, SameType, PTL
  <2> QED BY <1>1, <1>7, <2>1 DEF IInv, TypeOK
<1>9. ASSUME NEW q \in Runs
      PROVE  Submitted(q)' /\ Recorded(q)'
  <2>1. Submitted(q) /\ Recorded(q)
    BY DEF IInv, Sound
  <2>2. Submitted(q)'
    BY <1>1, <1>6, <2>1 DEF Submitted
  <2>3. Recorded(q)'
    BY <1>0, <1>1, <1>7, <2>1 DEF Recorded
  <2> QED BY <2>2, <2>3
<1>10. ~IsCounted(r) /\ IsCounted(r)' /\ \A q \in Runs \ {r} : IsCounted(q)' <=> IsCounted(q)
  BY <1>1, <1>7 DEF IsCounted
<1>11. /\ r \in RunsOf(i) /\ \A j : RunsOf(j)' = RunsOf(j)
       /\ \A j : j # i => r \notin RunsOf(j)
       /\ \A j : RunsOf(j) \subseteq Runs
  BY <1>0, <1>1 DEF RunsOf
<1>12. /\ Counted(i)' = Counted(i) \cup {r} /\ r \notin Counted(i)
       /\ Red(i)' = IF passed THEN Red(i) ELSE Red(i) \cup {r}
       /\ r \notin Red(i)
  <2>1. Counted(i)' = Counted(i) \cup {r} /\ r \notin Counted(i)
    BY <1>10, <1>11 DEF Counted
  <2>2. Red(i)' = IF passed THEN Red(i) ELSE Red(i) \cup {r}
    BY <1>0, <1>1, <2>1 DEF Red
  <2> QED BY <2>1, <2>2 DEF Red
<1>13. \A j : j # i => Counted(j)' = Counted(j) /\ Red(j)' = Red(j)
  <2>1. \A j : j # i => Counted(j)' = Counted(j)
    BY <1>10, <1>11 DEF Counted
  <2> QED BY <1>1, <2>1 DEF Red
<1>14. \A j \in DOMAIN attempts : CountersMatch(j)'
  <2>1. CountersMatch(i)
    BY <1>2 DEF IInv, Sound
  <2>2. /\ Cardinality(Counted(i) \cup {r}) = Cardinality(Counted(i)) + 1
        /\ Cardinality(Red(i) \cup {r}) = Cardinality(Red(i)) + 1
    BY <1>12, CountedFinite, FS_AddElement
  <2>3. attempts'[i].runs = Cardinality(Counted(i)') /\ attempts'[i].fails = Cardinality(Red(i)')
    BY <1>5, <1>12, <2>1, <2>2 DEF CountersMatch
  <2>4. ASSUME NEW j \in DOMAIN attempts, j # i
        PROVE  attempts'[j].runs = Cardinality(Counted(j)') /\ attempts'[j].fails = Cardinality(Red(j)')
    <3>1. CountersMatch(j) /\ attempts'[j] = attempts[j]
      BY <1>4, <2>4 DEF IInv, Sound, Tables!Ids
    <3> QED BY <1>13, <2>4, <3>1 DEF CountersMatch
  <2> QED BY <2>3, <2>4 DEF CountersMatch
<1>15. ASSUME NEW j \in DOMAIN attempts, attempts'[j].status = "passed"
       PROVE  \E q \in RunsOf(j)' : SolvedBy(j, q)'
  <2>1. attempts[j].status = "passed"
    BY <1>4, <1>15 DEF Tables!QuietStep, Tables!Ids
  <2>2. PICK q \in RunsOf(j) : SolvedBy(j, q)
    BY <2>1 DEF IInv, Sound, Booked
  <2>3. q \in Runs /\ q # r
    BY <1>1, <2>2 DEF RunsOf, SolvedBy
  <2>4. SolvedBy(j, q)'
    BY <1>1, <1>6, <1>7, <2>2, <2>3 DEF SolvedBy
  <2> QED BY <1>11, <2>2, <2>4
<1>16. Sound'
  BY <1>6, <1>9, <1>14, <1>15 DEF Sound, Booked
<1> QED BY <1>3, <1>8, <1>16 DEF IInv

\* recordWhenDone books the solve of a green run it has counted.
LEMMA BookStep ==
  ASSUME IInv, NEW r \in Runs, BookSolve(r)
  PROVE  IInv' /\ Db!Next
<1>0. PICK i, files : i = run[r].attempt /\ files = run[r].files
  OBVIOUS
<1>1. /\ recorder[r] = "counted" /\ recorder' = [recorder EXCEPT ![r] = "booked"]
      /\ Tables!PassAttempt(i, files) /\ Db!PassAttempt(i, files)
      /\ UNCHANGED <<drafts, life, run, restart, crashes>>
  BY <1>0, SameSolves DEF BookSolve
<1>2. /\ i \in DOMAIN attempts /\ i \in Tables!Ids /\ files \in Files
      /\ Tables!TypeOK /\ Tables!StoreAssumption
  BY <1>0, <1>1, RecordedRun
<1>3. life[r] = "passed" /\ life[r] \in Life!Outcomes /\ r \in RunsOf(i)
  BY <1>0, <1>1 DEF IInv, Sound, Recorded, RunsOf, Life!Outcomes
<1>4. Db!Next
  BY <1>1, <1>2, SameRows DEF Db!Next
<1>5. /\ recorder' \in [Runs -> RecorderStates] /\ recorder'[r] = "booked"
      /\ \A q \in Runs \ {r} : recorder'[q] = recorder[q]
  BY <1>1 DEF IInv, TypeOK, RecorderStates
<1>6. \A q \in Runs : /\ IsCounted(q)' <=> IsCounted(q)
                      /\ recorder[q] = "booked" => recorder'[q] = "booked"
  BY <1>1, <1>5 DEF IsCounted
<1>7. CASE Tables!PassAgain(i)
  <2>1. UNCHANGED tables
    BY <1>7 DEF Tables!PassAgain, Tables!vars, tables
  <2>2. TypeOK'
    <3>1. UNCHANGED tables => (Db!TypeOK <=> Db!TypeOK')
      BY DEF Db!TypeOK, tables
    <3> QED BY <1>1, <1>5, <2>1, <3>1 DEF IInv, TypeOK
  <2>3. \A q \in Runs : Submitted(q)' /\ Recorded(q)'
    BY <1>1, <1>3, <1>5, <2>1 DEF IInv, Sound, Submitted, Recorded, tables
  <2>4. Sound'
    BY <1>1, <1>6, <2>1, <2>3, RunsMove
  <2> QED BY <1>4, <2>2, <2>4 DEF IInv
<1>8. CASE Tables!PassFirst(i, files)
  <2>1. /\ Tables!TypeOK' /\ Tables!KeepsRows /\ Tables!Ids' = Tables!Ids
        /\ attempts'[i].status = "passed"
        /\ \A j \in Tables!Ids \ {i} : attempts'[j] = attempts[j]
        /\ snapshots'[i] = files
        /\ \A j \in 1 .. MaxAttempts : j # i => snapshots'[j] = snapshots[j]
    BY <1>2, <1>8, Tables!PassStep
  <2>2. Tables!CountsNothing
    BY <1>1, <1>2, Tables!CounterCases
  <2>3. DOMAIN attempts' = DOMAIN attempts /\ DOMAIN attempts \subseteq 1 .. MaxAttempts
    BY <2>1, AttemptIds DEF Tables!Ids, IInv, TypeOK
  <2>4. TypeOK'
    <3>1. Db!TypeOK'
      BY <2>1, SameType, PTL
    <3> QED BY <1>1, <1>5, <3>1 DEF IInv, TypeOK
  <2>5. \A q \in Runs : Submitted(q)' /\ Recorded(q)'
    BY <1>1, <1>3, <1>5, <2>3 DEF IInv, Sound, Submitted, Recorded
  <2>6. \A j : Counted(j)' = Counted(j) /\ RunsOf(j)' = RunsOf(j)
    BY <1>1, <1>6 DEF Counted, RunsOf
  <2>7. \A j : Red(j)' = Red(j)
    BY <1>1, <2>6 DEF Red
  <2>8. \A j \in DOMAIN attempts : CountersMatch(j)'
    BY <2>2, <2>6, <2>7 DEF IInv, Sound, CountersMatch, Tables!CountsNothing, Tables!Ids
  <2>9. ASSUME NEW j \in DOMAIN attempts, attempts'[j].status = "passed"
        PROVE  \E q \in RunsOf(j)' : SolvedBy(j, q)'
    <3>1. CASE j = i
      <4>1. SolvedBy(i, r)'
        BY <1>0, <1>1, <1>3, <1>5, <2>1 DEF SolvedBy
      <4> QED BY <1>3, <2>6, <3>1, <4>1
    <3>2. CASE j # i
      <4>1. attempts[j].status = "passed" /\ snapshots'[j] = snapshots[j]
        BY <2>1, <2>3, <2>9, <3>2 DEF Tables!Ids
      <4>2. PICK q \in RunsOf(j) : SolvedBy(j, q)
        BY <4>1 DEF IInv, Sound, Booked
      <4>3. q \in Runs /\ recorder'[q] = "booked"
        BY <1>6, <4>2 DEF RunsOf, SolvedBy
      <4>4. SolvedBy(j, q)'
        BY <1>1, <4>1, <4>2, <4>3 DEF SolvedBy
      <4> QED BY <2>6, <4>2, <4>4
    <3> QED BY <3>1, <3>2
  <2>10. Sound'
    BY <2>3, <2>5, <2>8, <2>9 DEF Sound, Booked
  <2> QED BY <1>4, <2>4, <2>10 DEF IInv
<1> QED BY <1>1, <1>7, <1>8 DEF Tables!PassAttempt

------------------------------------------------------------------------------
(* Every step. *)

\* The invariant holds of empty tables.
LEMMA InitInv == Init => IInv
<1> SUFFICES ASSUME Init PROVE IInv
  OBVIOUS
<1>1. Db!TypeOK
  BY SameRows, TrainerAssumption
     DEF Init, Db!Init, Db!TypeOK, Db!NoReview, Db!Review, Db!NoTime, Db!TopRung, Db!Ladder
<1>2. /\ attempts = << >> /\ DOMAIN attempts = {}
      /\ \A r \in Runs : run[r].attempt = NoAttempt /\ recorder[r] = "none"
  BY DEF Init, Db!Init
<1>3. TypeOK
  BY <1>1, TrainerAssumption DEF Init, TypeOK, Life!Init, Life!Outcomes, RecorderStates
<1>4. Sound
  BY <1>2 DEF Sound, Submitted, Recorded
<1> QED BY <1>3, <1>4 DEF IInv

\* Every step keeps the invariant and is a step of the store, or leaves its tables
\* alone.
LEMMA NextStep == ASSUME IInv, [Next]_vars PROVE IInv' /\ [Db!Next]_tables
<1>1. CASE UNCHANGED vars
  <2>1. UNCHANGED vars => (Db!TypeOK <=> Db!TypeOK')
    BY DEF Db!TypeOK, vars
  <2>2. TypeOK'
    BY <1>1, <2>1 DEF IInv, TypeOK, vars
  <2>3. UNCHANGED <<run, life, recorder>> /\ UNCHANGED tables
    BY <1>1 DEF vars, tables
  <2>4. \A r \in Runs : Submitted(r)' /\ Recorded(r)' /\ (IsCounted(r)' <=> IsCounted(r))
    BY <2>3 DEF IInv, Sound, Submitted, Recorded, IsCounted, tables
  <2>5. Sound'
    BY <2>3, <2>4, RunsMove
  <2> QED BY <2>2, <2>3, <2>5 DEF IInv
<1>2. CASE AdvanceClock
  BY <1>2, HandlerStep
<1>3. CASE Crash
  BY <1>3, CrashStep
<1>4. ASSUME NEW t \in Tasks,
             \/ HandleStart(t) \/ RestartAbandons(t) \/ RestartClears(t) \/ RestartStarts(t)
             \/ RestartFails(t)
      PROVE  IInv' /\ [Db!Next]_tables
  BY <1>4, HandlerStep, DraftStep
<1>5. ASSUME NEW i \in DOMAIN attempts,
             \/ HandleAbandon(i)
             \/ \E d \in Beats : HandleHeartbeat(i, d)
             \/ \E files \in Files : HandleSaveDraft(i, files)
             \/ \E r \in Runs, files \in Files : SubmitRun(r, i, files)
      PROVE  IInv' /\ [Db!Next]_tables
  BY <1>5, HandlerStep, DraftStep, RunHandlerStep
<1>6. ASSUME NEW r \in Runs, StartRun(r) \/ ReportRun(r) \/ RecorderStep(r) \/ GiveUp(r)
      PROVE  IInv' /\ [Db!Next]_tables
  BY <1>6, RunHandlerStep, CountStep, BookStep DEF RecorderStep
<1> QED BY <1>1, <1>2, <1>3, <1>4, <1>5, <1>6 DEF Next

\* The attempts, the runs and their recorders stay consistent with each other,
\* crashes included (internal/httpapi, recordWhenDone).
THEOREM Invariance == Spec => []IInv
<1>1. IInv /\ [Next]_vars => IInv'
  BY NextStep
<1> QED BY <1>1, InitInv, PTL DEF Spec

\* Every variable keeps its type and every counter its bound.
THEOREM TypeCorrect == Spec => []TypeOK
<1>1. IInv => TypeOK
  BY DEF IInv
<1> QED BY <1>1, Invariance, PTL

------------------------------------------------------------------------------
(* What it means for the attempts. *)

\* A task is only solved by a green run of that very attempt, whose files are the
\* snapshot, and that run was counted (handleRun, recordWhenDone).
THEOREM SolvedByGreen == Spec => []SolvedByItsRun
<1>1. IInv => SolvedByItsRun
  <2> SUFFICES ASSUME IInv, NEW i \in DOMAIN attempts, attempts[i].status = "passed"
               PROVE  /\ \E r \in RunsOf(i) : life[r] = "passed" /\ snapshots[i] = run[r].files
                      /\ attempts[i].runs > attempts[i].fails
    BY DEF SolvedByItsRun
  <2>1. PICK r \in RunsOf(i) : SolvedBy(i, r)
    BY DEF IInv, Sound, Booked
  <2>2. r \in Counted(i) \ Red(i) /\ Red(i) \subseteq Counted(i)
    BY <2>1 DEF SolvedBy, Counted, Red, IsCounted
  <2>3. /\ IsFiniteSet(Counted(i)) /\ IsFiniteSet(Red(i))
        /\ Cardinality(Counted(i)) \in Nat /\ Cardinality(Red(i)) \in Nat
    BY CountedFinite, FS_CardinalityType
  <2>4. Cardinality(Red(i)) < Cardinality(Counted(i))
    BY <2>2, <2>3, FS_Subset
  <2>5. attempts[i].runs > attempts[i].fails
    BY <2>3, <2>4 DEF IInv, Sound, CountersMatch
  <2> QED BY <2>1, <2>5 DEF SolvedBy
<1> QED BY <1>1, Invariance, PTL

\* The counters of an attempt count each reported run once, the canceled and the
\* lost ones not at all (RecordRun, called by recordWhenDone).
THEOREM CountedOnce == Spec => []RunsCountedOnce
<1>1. IInv => RunsCountedOnce
  BY DEF IInv, Sound, CountersMatch, Counted, Red, IsCounted, RunsCountedOnce
<1> QED BY <1>1, Invariance, PTL

\* The handlers only do to the tables what the store allows, crashes included.
THEOREM StoreIsImplemented == Spec => ImplementsStore
<1>1. Init => Db!Init
  BY DEF Init
<1>2. IInv /\ [Next]_vars => [Db!Next]_(Db!vars)
  BY NextStep DEF tables, Db!vars
<1> QED BY <1>1, <1>2, Invariance, PTL DEF Spec, ImplementsStore, Db!Spec

\* So everything that is proved of the store holds of the handlers: one open
\* attempt per task, a schedule that counts the solves and follows the ladder,
\* and a snapshot for each solve that nothing rewrites.
THEOREM StoreHolds ==
  Spec => /\ [](Db!OneOpenAttempt /\ Db!ReviewCountsSolves /\ Db!ScheduleFollowsLadder
                  /\ Db!SnapshotIffSolved)
          /\ Db!SolveIsFrozen
<1>1. Tables!Init <=> Db!Init
  BY SameRows
<1>2. [Db!Next]_(Db!vars) <=> [Tables!Next]_(Tables!vars)
  BY SameNext, SameRows DEF Db!vars, Tables!vars
<1>3. Spec => Tables!Spec
  BY <1>1, <1>2, StoreIsImplemented, PTL DEF ImplementsStore, Db!Spec, Tables!Spec
<1>4. Tables!OneOpenAttempt <=> Db!OneOpenAttempt
  BY DEF Tables!OneOpenAttempt, Db!OneOpenAttempt, Tables!Ids, Db!Ids
<1>5. Tables!ReviewCountsSolves <=> Db!ReviewCountsSolves
  BY DEF Tables!ReviewCountsSolves, Db!ReviewCountsSolves, Tables!PassedOf, Db!PassedOf,
         Tables!Ids, Db!Ids, Tables!Cardinality, Db!Cardinality
<1>6. Tables!SnapshotIffSolved <=> Db!SnapshotIffSolved
  BY DEF Tables!SnapshotIffSolved, Db!SnapshotIffSolved, Tables!Ids, Db!Ids
<1>0. Tables!ScheduleFollowsLadder <=> Db!ScheduleFollowsLadder
  BY DEF Tables!ScheduleFollowsLadder, Db!ScheduleFollowsLadder, Tables!Clamp, Db!Clamp, Tables!DayOf,
         Db!DayOf, Tables!IntervalDays, Db!IntervalDays, Tables!TopRung, Db!TopRung, Tables!Ladder, Db!Ladder
<1>7. Tables!Spec => /\ []Tables!OneOpenAttempt /\ []Tables!ReviewCountsSolves
                     /\ []Tables!ScheduleFollowsLadder /\ []Tables!SnapshotIffSolved
  BY StoreAssumed, Tables!OneOpen, Tables!SolvesAreCounted, Tables!LadderFollowed, Tables!SnapshotsMatch
<1>8. Tables!Spec => Tables!SolveIsFrozen
  BY StoreAssumed, Tables!SolvesAreFinal
<1>9. [\A i \in Tables!Ids : attempts[i].status = "passed" => Tables!SameSolve(i)]_(Tables!vars)
      <=> [\A i \in Db!Ids : attempts[i].status = "passed" => Db!SameSolve(i)]_(Db!vars)
  BY SameRows DEF Tables!SameSolve, Db!SameSolve, Tables!vars, Db!vars
<1> QED BY <1>0, <1>3, <1>4, <1>5, <1>6, <1>7, <1>8, <1>9, PTL DEF Tables!SolveIsFrozen, Db!SolveIsFrozen

------------------------------------------------------------------------------
(* What is owed to a green run. *)

\* A recorder that has nothing to do has a reason, and what it booked is in the table.
Settled(r) ==
  /\ recorder[r] = "none" => life[r] = "absent"
  /\ recorder[r] = "skipped" => life[r] = "canceled"
  /\ recorder[r] = "booked" /\ life[r] = "passed" => attempts[run[r].attempt].status = "passed"

\* A green run has solved its attempt, or its recorder has a call left to make, unless
\* the recorder died or gave up.
GreenIsOwed ==
  \A r \in Runs : life[r] = "passed" =>
    \/ recorder[r] = "booked" /\ attempts[run[r].attempt].status = "passed"
    \/ recorder[r] \in {"waiting", "counted"}
    \/ recorder[r] \in {"lost", "half"}

\* No handler takes a solve back.
LEMMA SolvedStays ==
  ASSUME IInv, [Next]_vars, NEW i \in DOMAIN attempts, attempts[i].status = "passed"
  PROVE  attempts'[i].status = "passed"
<1>1. [Tables!Next]_(Tables!vars)
  <2>1. [Db!Next]_tables
    BY NextStep
  <2>2. CASE Db!Next
    BY <2>2, SameNext
  <2>3. CASE UNCHANGED tables
    BY <2>3 DEF tables, Tables!vars
  <2> QED BY <2>1, <2>2, <2>3
<1>2. Tables!TypeOK /\ Tables!StoreAssumption /\ i \in Tables!Ids
  BY SameType, StoreAssumed DEF IInv, TypeOK, Tables!Ids
<1>3. [Tables!FrozenStep]_(Tables!vars)
  BY <1>1, <1>2, Tables!SolveStep
<1> QED BY <1>2, <1>3 DEF Tables!FrozenStep, Tables!SameSolve, Tables!vars

\* A recorder that books finds, or makes, its attempt solved.
LEMMA BookingSolves ==
  ASSUME IInv, NEW r \in Runs, BookSolve(r)
  PROVE  attempts'[run[r].attempt].status = "passed"
<1>0. PICK i, files : i = run[r].attempt /\ files = run[r].files
  OBVIOUS
<1>1. recorder[r] = "counted" /\ Tables!PassAttempt(i, files)
  BY <1>0, SameSolves DEF BookSolve
<1>2. i \in Tables!Ids /\ files \in Files /\ Tables!TypeOK /\ Tables!StoreAssumption
  BY <1>0, <1>1, RecordedRun
<1>3. CASE Tables!PassAgain(i)
  BY <1>0, <1>3 DEF Tables!PassAgain, Tables!vars
<1>4. CASE Tables!PassFirst(i, files)
  BY <1>0, <1>2, <1>4, Tables!PassStep
<1> QED BY <1>1, <1>3, <1>4 DEF Tables!PassAttempt

\* Steps that are not about a run leave it as settled as it was.
LEMMA StaysSettled ==
  ASSUME IInv, [Next]_vars, NEW q \in Runs, Settled(q),
         recorder'[q] = recorder[q], life'[q] = life[q],
         recorder[q] # "none" => run'[q] = run[q]
  PROVE  Settled(q)'
<1>1. recorder[q] # "none" => run[q].attempt \in DOMAIN attempts
  BY RecordedRun
<1> QED BY <1>1, SolvedStays DEF Settled

\* Every step leaves every run settled.
LEMMA SettledStep ==
  ASSUME IInv, [Next]_vars, \A q \in Runs : Settled(q)
  PROVE  \A q \in Runs : Settled(q)'
<1>1. /\ run \in [Runs -> [attempt : 1 .. MaxAttempts \cup {NoAttempt}, files : Files \cup {NoFiles}]]
      /\ recorder \in [Runs -> RecorderStates]
      /\ life \in [Runs -> Life!Outcomes \cup {"absent", "going"}]
  BY DEF IInv, TypeOK
<1>2. CASE UNCHANGED <<run, life, recorder>>
  <2>1. ASSUME NEW q \in Runs
        PROVE  Settled(q)'
    <3>1. Settled(q) /\ recorder'[q] = recorder[q] /\ life'[q] = life[q] /\ run'[q] = run[q]
      BY <1>2
    <3> QED BY <3>1, StaysSettled
  <2> QED BY <2>1
<1>3. CASE Crash
  <2> SUFFICES ASSUME NEW q \in Runs
               PROVE  Settled(q)'
    OBVIOUS
  <2>1. /\ recorder'[q] = Dropped(q) /\ run' = run /\ attempts' = attempts
        /\ life'[q] = IF life[q] = "going" THEN "error" ELSE life[q]
    BY <1>3 DEF Crash
  <2>2. Settled(q)
    OBVIOUS
  <2> QED BY <2>1, <2>2 DEF Settled, Dropped
<1>4. ASSUME NEW r \in Runs, NEW i \in DOMAIN attempts, NEW files \in Files, SubmitRun(r, i, files)
      PROVE  \A q \in Runs : Settled(q)'
  <2>1. Submitted(r) /\ Recorded(r)
    BY DEF IInv, Sound
  <2>2. recorder[r] = "none" /\ UNCHANGED <<life, recorder>>
    BY <1>4, <2>1 DEF SubmitRun, Recorded
  <2>3. \A q \in Runs \ {r} : run'[q] = run[q]
    BY <1>1, <1>4 DEF SubmitRun
  <2>4. ASSUME NEW q \in Runs
        PROVE  Settled(q)'
    <3>1. Settled(q) /\ recorder'[q] = recorder[q] /\ life'[q] = life[q]
      BY <2>2
    <3>2. recorder[q] # "none" => run'[q] = run[q]
      BY <2>2, <2>3
    <3> QED BY <3>1, <3>2, StaysSettled
  <2> QED BY <2>4
<1>5. ASSUME NEW r \in Runs, StartRun(r) \/ ReportRun(r) \/ RecorderStep(r) \/ GiveUp(r)
      PROVE  \A q \in Runs : Settled(q)'
  <2>1. /\ run' = run
        /\ \A q \in Runs \ {r} : recorder'[q] = recorder[q] /\ life'[q] = life[q]
    BY <1>1, <1>5
       DEF StartRun, ReportRun, RecorderStep, GiveUp, SkipCanceled, CountRun, BookSolve, Life!Begin,
           Life!Report
  <2>2. ASSUME NEW q \in Runs \ {r}
        PROVE  Settled(q)'
    <3>1. Settled(q) /\ recorder'[q] = recorder[q] /\ life'[q] = life[q] /\ run'[q] = run[q]
      BY <2>1
    <3> QED BY <3>1, StaysSettled
  <2>3. ASSUME StartRun(r) PROVE Settled(r)'
    <3>1. recorder'[r] = "waiting"
      BY <1>1, <2>3 DEF StartRun
    <3> QED BY <3>1 DEF Settled
  <2>4. ASSUME ReportRun(r) PROVE Settled(r)'
    <3>1. recorder'[r] \in {"waiting", "lost"}
      BY <2>4 DEF ReportRun
    <3> QED BY <3>1 DEF Settled
  <2>5. ASSUME SkipCanceled(r) \/ GiveUp(r) PROVE Settled(r)'
    <3>1. CASE SkipCanceled(r)
      BY <1>1, <3>1 DEF SkipCanceled, Settled
    <3>2. CASE GiveUp(r)
      <4>1. recorder'[r] = Dropped(r) /\ recorder[r] # Dropped(r)
        BY <1>1, <3>2 DEF GiveUp
      <4>2. recorder'[r] \in {"lost", "half"}
        BY <4>1 DEF Dropped
      <4> QED BY <4>2 DEF Settled
    <3> QED BY <2>5, <3>1, <3>2
  <2>6. ASSUME CountRun(r) PROVE Settled(r)'
    <3>1. life'[r] = life[r] /\ recorder'[r] = IF life[r] = "passed" THEN "counted" ELSE "booked"
      BY <1>1, <2>6 DEF CountRun
    <3>2. recorder'[r] \in {"counted", "booked"} /\ ~(recorder'[r] = "booked" /\ life'[r] = "passed")
      BY <3>1
    <3> QED BY <3>2 DEF Settled
  <2>7. ASSUME BookSolve(r) PROVE Settled(r)'
    <3>1. recorder'[r] = "booked"
      BY <1>1, <2>7 DEF BookSolve
    <3>2. attempts'[run'[r].attempt].status = "passed"
      BY <2>1, <2>7, BookingSolves
    <3> QED BY <3>1, <3>2 DEF Settled
  <2>8. Settled(r)'
    BY <1>5, <2>3, <2>4, <2>5, <2>6, <2>7 DEF RecorderStep
  <2> QED BY <2>2, <2>8
<1>6. ASSUME NEW t \in Tasks,
             \/ HandleStart(t) \/ RestartAbandons(t) \/ RestartClears(t) \/ RestartStarts(t)
             \/ RestartFails(t)
      PROVE  UNCHANGED <<run, life, recorder>>
  BY <1>6 DEF HandleStart, RestartAbandons, RestartClears, RestartStarts, RestartFails
<1>7. ASSUME NEW i \in DOMAIN attempts,
             \/ HandleAbandon(i)
             \/ \E d \in Beats : HandleHeartbeat(i, d)
             \/ \E files \in Files : HandleSaveDraft(i, files)
      PROVE  UNCHANGED <<run, life, recorder>>
  BY <1>7 DEF HandleAbandon, HandleHeartbeat, HandleSaveDraft
<1>8. AdvanceClock \/ UNCHANGED vars => UNCHANGED <<run, life, recorder>>
  BY DEF AdvanceClock, vars
<1> QED BY <1>2, <1>3, <1>4, <1>5, <1>6, <1>7, <1>8 DEF Next

\* A green run is booked, or its recorder still has a call to make, or the recorder died
\* or gave up (recordWhenDone): the safety half of GreenIsBooked.  A booked run's attempt
\* stays solved, whatever is abandoned, restarted or run later.
THEOREM GreenIsNotForgotten == Spec => []GreenIsOwed
<1>1. Init => \A r \in Runs : Settled(r)
  BY DEF Init, Life!Init, Settled
<1>2. IInv /\ (\A r \in Runs : Settled(r)) /\ [Next]_vars => (\A r \in Runs : Settled(r))'
  BY SettledStep
<1>3. IInv /\ (\A r \in Runs : Settled(r)) => GreenIsOwed
  BY DEF IInv, TypeOK, RecorderStates, Settled, GreenIsOwed
<1> QED BY <1>1, <1>2, <1>3, Invariance, PTL DEF Spec
==============================================================================
