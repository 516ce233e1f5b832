----------------------------- MODULE StoreProofs -----------------------------
(***************************************************************************)
(* Proofs about Store, for every set of tasks and contents, every clock    *)
(* and every bound.                                                        *)
(***************************************************************************)
EXTENDS Store, FiniteSetTheorems, TLAPS

------------------------------------------------------------------------------
(* Rows. *)

\* The ladder: a clamped stage is a rung, and every gap is a positive number of days.
LEMMA LadderType ==
  \A stage \in Int : Clamp(stage) \in 0 .. TopRung /\ IntervalDays(stage) \in Nat \ {0}
BY DEF Clamp, TopRung, IntervalDays, Ladder

\* A day is a number.
LEMMA DayType == \A t \in Nat : DayOf(t) \in Nat
BY StoreAssumption DEF DayOf

\* The rows the operations build are rows of the table.
LEMMA RowTypes ==
  ASSUME TypeOK
  PROVE  /\ now \in Nat
         /\ \A t \in Tasks : NewAttempt(t) \in Attempt
         /\ \A a \in Attempt : Closed(a) \in Attempt /\ Solved(a) \in Attempt
<1>1. now \in Nat
  BY StoreAssumption DEF TypeOK
<1>2. \A t \in Tasks : NewAttempt(t) \in Attempt
  BY <1>1, DayType DEF NewAttempt, Attempt, Statuses
<1>3. \A a \in Attempt : Closed(a) \in Attempt
  BY <1>1 DEF Closed, Attempt, Statuses
<1>4. \A a \in Attempt : Elapsed(a) \in Nat
  BY <1>1 DEF Elapsed, Attempt
<1>5. \A a \in Attempt : Solved(a) \in Attempt
  BY <1>1, <1>4 DEF Solved, Attempt, Statuses
<1> QED BY <1>1, <1>2, <1>3, <1>5

\* The next review row is a review row, one solve further on.
LEMMA ReviewType ==
  ASSUME TypeOK, NEW r \in Review
  PROVE  /\ NextReview(r) \in Review
         /\ NextReview(r).exists
         /\ NextReview(r).passCount = r.passCount + 1
         /\ NextReview(r).lastPassed = now
         /\ NextReview(r).stage = Clamp(Clamp(r.stage) + 1)
         /\ NextReview(r).due = DayOf(now) + IntervalDays(r.stage)
<1>1. now \in Nat /\ DayOf(now) \in Nat
  BY RowTypes, DayType
<1>2. r.stage \in Int /\ r.passCount \in Nat
  BY DEF Review
<1>3. Clamp(r.stage) \in Int
  BY <1>2, LadderType
<1>4. Clamp(Clamp(r.stage) + 1) \in 0 .. TopRung /\ IntervalDays(r.stage) \in Nat
  BY <1>2, <1>3, LadderType
<1>5. NextReview(r) = [exists |-> TRUE, stage |-> Clamp(Clamp(r.stage) + 1),
                       due |-> DayOf(now) + IntervalDays(r.stage),
                       lastPassed |-> now, passCount |-> r.passCount + 1]
  BY DEF NextReview, Advance
<1> QED BY <1>1, <1>2, <1>4, <1>5 DEF Review

------------------------------------------------------------------------------
(* What an operation does to the attempts table: the rows that were there are *)
(* still there, and at most one row is added.                                 *)

\* A table with one row rewritten.
LEMMA SetRow ==
  ASSUME NEW s \in Seq(Attempt), NEW i \in DOMAIN s, NEW a \in Attempt
  PROVE  LET u == [s EXCEPT ![i] = a]
         IN  /\ u \in Seq(Attempt)
             /\ DOMAIN u = DOMAIN s
             /\ Len(u) = Len(s)
             /\ u[i] = a
             /\ \A j \in DOMAIN s \ {i} : u[j] = s[j]
OBVIOUS

\* A table with the open rows of a task closed.
LEMMA CloseOpen ==
  ASSUME TypeOK, NEW t \in Tasks
  PROVE  LET u == [i \in Ids |-> IF i \in OpenOf(t) THEN Closed(attempts[i]) ELSE attempts[i]]
         IN  /\ u \in Seq(Attempt)
             /\ DOMAIN u = Ids
             /\ Len(u) = Len(attempts)
<1> DEFINE u == [i \in Ids |-> IF i \in OpenOf(t) THEN Closed(attempts[i]) ELSE attempts[i]]
<1>1. attempts \in Seq(Attempt) /\ Ids = 1 .. Len(attempts) /\ Len(attempts) \in Nat
  BY DEF TypeOK, Ids
<1>2. \A i \in 1 .. Len(attempts) : u[i] \in Attempt
  BY <1>1, RowTypes DEF Ids
<1>3. u \in [1 .. Len(attempts) -> Attempt]
  BY <1>1, <1>2
<1> QED BY <1>1, <1>3

------------------------------------------------------------------------------
(* Steps.  A quiet step books no solve: the passed attempts stay the same and *)
(* the schedule and the snapshots are left alone.                             *)

KeepsRows ==
  /\ Ids \subseteq Ids'
  /\ \A i \in Ids : attempts'[i].task = attempts[i].task

QuietStep ==
  /\ reviews' = reviews
  /\ snapshots' = snapshots
  /\ \A i \in Ids : attempts'[i].status = "passed" <=> attempts[i].status = "passed"
  /\ \A i \in Ids' \ Ids : attempts'[i].status # "passed"

\* A new attempt closes the stale ones of its task and changes no other row.
LEMMA InsertStep ==
  ASSUME TypeOK, NEW t \in Tasks, InsertAttempt(t)
  PROVE  /\ TypeOK' /\ KeepsRows /\ QuietStep
         /\ Ids' = Ids \cup {Len(attempts) + 1}
         /\ Len(attempts) + 1 \notin Ids
         /\ \A i \in Ids : attempts'[i] = IF i \in OpenOf(t) THEN Closed(attempts[i])
                                           ELSE attempts[i]
         /\ attempts'[Len(attempts) + 1] = NewAttempt(t)
<1> DEFINE u == [i \in Ids |-> IF i \in OpenOf(t) THEN Closed(attempts[i]) ELSE attempts[i]]
           n == Len(attempts)
<1>1. u \in Seq(Attempt) /\ DOMAIN u = Ids /\ Len(u) = n
  BY CloseOpen
<1>2. n \in Nat /\ Ids = 1 .. n /\ attempts \in Seq(Attempt)
  BY DEF TypeOK, Ids
<1>3. NewAttempt(t) \in Attempt
  BY RowTypes
<1>4. attempts' = Append(u, NewAttempt(t)) /\ n < MaxAttempts
  BY DEF InsertAttempt
<1>5. /\ attempts' \in Seq(Attempt)
      /\ Len(attempts') = n + 1
      /\ \A i \in 1 .. n : attempts'[i] = u[i]
      /\ attempts'[n + 1] = NewAttempt(t)
  <2> HIDE DEF u
  <2> QED BY <1>1, <1>2, <1>3, <1>4
<1>6. Ids' = 1 .. (n + 1)
  BY <1>2, <1>5 DEF Ids
<1>7. TypeOK'
  BY <1>2, <1>4, <1>5, StoreAssumption DEF TypeOK, InsertAttempt
<1>8. \A i \in Ids : attempts'[i] = IF i \in OpenOf(t) THEN Closed(attempts[i]) ELSE attempts[i]
  BY <1>2, <1>5
<1>9. \A i \in Ids : attempts[i] \in Attempt
  BY <1>2
<1>10. \A i \in Ids : /\ attempts'[i].task = attempts[i].task
                      /\ attempts'[i].status = "passed" <=> attempts[i].status = "passed"
  BY <1>8, <1>9 DEF Closed, OpenOf, Attempt
<1>11. NewAttempt(t).status # "passed"
  BY DEF NewAttempt
<1>12. Ids' = Ids \cup {n + 1} /\ n + 1 \notin Ids
  BY <1>2, <1>6
<1>13. KeepsRows
  BY <1>10, <1>12 DEF KeepsRows
<1>14. QuietStep
  BY <1>5, <1>10, <1>11, <1>12 DEF QuietStep, InsertAttempt
<1> QED BY <1>5, <1>7, <1>8, <1>12, <1>13, <1>14

\* AbandonOpenAttempts rewrites open rows only.
LEMMA AbandonOpenStep ==
  ASSUME TypeOK, NEW t \in Tasks, AbandonOpen(t)
  PROVE  TypeOK' /\ KeepsRows /\ QuietStep /\ Ids' = Ids
<1>1. attempts' \in Seq(Attempt) /\ DOMAIN attempts' = Ids /\ Len(attempts') = Len(attempts)
  BY CloseOpen DEF AbandonOpen
<1>2. Ids' = Ids
  BY <1>1 DEF Ids
<1>3. TypeOK'
  BY <1>1 DEF TypeOK, AbandonOpen
<1>4. \A i \in Ids : attempts[i] \in Attempt
  BY DEF TypeOK, Ids
<1>5. \A i \in Ids : /\ attempts'[i].task = attempts[i].task
                     /\ attempts'[i].status = "passed" <=> attempts[i].status = "passed"
  BY <1>4 DEF AbandonOpen, Closed, OpenOf, Attempt
<1> QED BY <1>2, <1>3, <1>5 DEF KeepsRows, QuietStep, AbandonOpen

\* The shape shared by the operations that rewrite one row.
LEMMA RowStep ==
  ASSUME TypeOK, NEW i \in Ids, NEW a \in Attempt, a.task = attempts[i].task,
         attempts' = [attempts EXCEPT ![i] = a], now' = now
  PROVE  /\ Ids' = Ids
         /\ attempts' \in Seq(Attempt) /\ Len(attempts') <= MaxAttempts
         /\ KeepsRows
         /\ attempts'[i] = a
         /\ \A j \in Ids \ {i} : attempts'[j] = attempts[j]
<1>1. attempts \in Seq(Attempt) /\ Ids = DOMAIN attempts
  BY DEF TypeOK, Ids
<1>2. /\ attempts' \in Seq(Attempt)
      /\ DOMAIN attempts' = DOMAIN attempts
      /\ Len(attempts') = Len(attempts)
      /\ attempts'[i] = a
      /\ \A j \in DOMAIN attempts \ {i} : attempts'[j] = attempts[j]
  BY <1>1, SetRow
<1>3. Ids' = Ids
  BY <1>2 DEF Ids
<1>4. KeepsRows
  BY <1>1, <1>2, <1>3 DEF KeepsRows
<1> QED BY <1>1, <1>2, <1>3, <1>4 DEF TypeOK

\* ... and is quiet when it neither enters nor leaves "passed".
LEMMA QuietRowStep ==
  ASSUME TypeOK, NEW i \in Ids, NEW a \in Attempt, a.task = attempts[i].task,
         a.status = "passed" <=> attempts[i].status = "passed",
         attempts' = [attempts EXCEPT ![i] = a], UNCHANGED <<now, snapshots, reviews>>
  PROVE  /\ TypeOK' /\ KeepsRows /\ QuietStep /\ Ids' = Ids
         /\ attempts'[i] = a
         /\ \A j \in Ids \ {i} : attempts'[j] = attempts[j]
<1>1. /\ Ids' = Ids
      /\ attempts' \in Seq(Attempt) /\ Len(attempts') <= MaxAttempts
      /\ KeepsRows
      /\ attempts'[i] = a
      /\ \A j \in Ids \ {i} : attempts'[j] = attempts[j]
  BY RowStep
<1>2. TypeOK'
  BY <1>1 DEF TypeOK
<1>3. QuietStep
  BY <1>1 DEF QuietStep
<1> QED BY <1>1, <1>2, <1>3

\* A row of the table is a row.
LEMMA RowType == TypeOK => \A i \in Ids : attempts[i] \in Attempt
BY DEF TypeOK, Ids

\* AbandonAttempt rewrites one row.
LEMMA AbandonStep ==
  ASSUME TypeOK, NEW i \in Ids, AbandonAttempt(i)
  PROVE  /\ TypeOK' /\ KeepsRows /\ QuietStep /\ Ids' = Ids
         /\ attempts'[i] = Closed(attempts[i])
         /\ \A j \in Ids \ {i} : attempts'[j] = attempts[j]
<1> DEFINE a == Closed(attempts[i])
<1>1. attempts[i] \in Attempt /\ a \in Attempt
  BY RowType, RowTypes
<1>2. a.task = attempts[i].task /\ a.status = "abandoned"
  BY <1>1 DEF Closed, Attempt
<1>3. a.status = "passed" <=> attempts[i].status = "passed"
  BY <1>2 DEF AbandonAttempt
<1>4. attempts' = [attempts EXCEPT ![i] = a] /\ UNCHANGED <<now, snapshots, reviews>>
  BY DEF AbandonAttempt
<1> HIDE DEF a
<1>5. /\ TypeOK' /\ KeepsRows /\ QuietStep /\ Ids' = Ids
      /\ attempts'[i] = a
      /\ \A j \in Ids \ {i} : attempts'[j] = attempts[j]
  BY <1>1, <1>2, <1>3, <1>4, QuietRowStep
<1> QED BY <1>5 DEF a

\* AddActiveSeconds adds to one row.
LEMMA AddActiveStep ==
  ASSUME TypeOK, NEW i \in Ids, NEW d \in Beats, AddActive(i, d)
  PROVE  /\ TypeOK' /\ KeepsRows /\ QuietStep /\ Ids' = Ids
         /\ attempts'[i] = [attempts[i] EXCEPT !.active = @ + d]
         /\ \A j \in Ids \ {i} : attempts'[j] = attempts[j]
<1> DEFINE a == [attempts[i] EXCEPT !.active = @ + d]
<1>1. attempts[i] \in Attempt /\ d \in Nat
  BY RowType, StoreAssumption
<1>2. a \in Attempt /\ a.task = attempts[i].task /\ a.status = attempts[i].status
  BY <1>1 DEF Attempt
<1>3. attempts' = [attempts EXCEPT ![i] = a] /\ UNCHANGED <<now, snapshots, reviews>>
  BY DEF AddActive
<1> HIDE DEF a
<1>4. /\ TypeOK' /\ KeepsRows /\ QuietStep /\ Ids' = Ids
      /\ attempts'[i] = a
      /\ \A j \in Ids \ {i} : attempts'[j] = attempts[j]
  BY <1>2, <1>3, QuietRowStep
<1> QED BY <1>4 DEF a

\* Counting a run changes the counters only.
LEMMA CountedRow ==
  ASSUME NEW a \in Attempt, NEW m \in Nat, NEW n \in Nat
  PROVE  LET b == [a EXCEPT !.runs = m, !.fails = n]
         IN  b \in Attempt /\ b.task = a.task /\ b.status = a.status
BY DEF Attempt

\* RecordRun counts in one row.
LEMMA RecordRunStep ==
  ASSUME TypeOK, NEW i \in Ids, NEW passed \in BOOLEAN, RecordRun(i, passed)
  PROVE  /\ TypeOK' /\ KeepsRows /\ QuietStep /\ Ids' = Ids
         /\ attempts'[i] = [attempts[i] EXCEPT !.runs = @ + 1,
                                               !.fails = IF passed THEN @ ELSE @ + 1]
         /\ \A j \in Ids \ {i} : attempts'[j] = attempts[j]
<1> DEFINE m == attempts[i].runs + 1
           n == IF passed THEN attempts[i].fails ELSE attempts[i].fails + 1
           a == [attempts[i] EXCEPT !.runs = m, !.fails = n]
<1>1. attempts[i] \in Attempt
  BY RowType
<1>2. m \in Nat /\ n \in Nat
  BY <1>1 DEF Attempt
<1>3. attempts' = [attempts EXCEPT ![i] = a] /\ UNCHANGED <<now, snapshots, reviews>>
  BY DEF RecordRun
<1>4. a = [attempts[i] EXCEPT !.runs = @ + 1, !.fails = IF passed THEN @ ELSE @ + 1]
  OBVIOUS
<1> HIDE DEF m, n
<1>5. a \in Attempt /\ a.task = attempts[i].task /\ a.status = attempts[i].status
  BY <1>1, <1>2, CountedRow
<1> HIDE DEF a
<1>6. /\ TypeOK' /\ KeepsRows /\ QuietStep /\ Ids' = Ids
      /\ attempts'[i] = a
      /\ \A j \in Ids \ {i} : attempts'[j] = attempts[j]
  BY <1>3, <1>5, QuietRowStep
<1> QED BY <1>4, <1>6

\* The one step that books a solve.
LEMMA PassStep ==
  ASSUME TypeOK, NEW i \in Ids, NEW files \in Files, PassFirst(i, files)
  PROVE  /\ TypeOK' /\ KeepsRows /\ Ids' = Ids
         /\ attempts[i].task \in Tasks
         /\ attempts[i].status # "passed"
         /\ attempts'[i].status = "passed"
         /\ \A j \in Ids \ {i} : attempts'[j] = attempts[j]
         /\ snapshots'[i] = files
         /\ \A j \in 1 .. MaxAttempts : j # i => snapshots'[j] = snapshots[j]
         /\ reviews'[attempts[i].task] = NextReview(reviews[attempts[i].task])
         /\ \A t \in Tasks : t # attempts[i].task => reviews'[t] = reviews[t]
<1> DEFINE a == Solved(attempts[i])
           t0 == attempts[i].task
<1>1. attempts[i] \in Attempt /\ a \in Attempt /\ t0 \in Tasks
  BY RowType, RowTypes DEF Attempt
<1>2. a.task = t0 /\ a.status = "passed"
  BY <1>1 DEF Solved, Attempt
<1>3. attempts' = [attempts EXCEPT ![i] = a] /\ now' = now
  BY DEF PassFirst
<1> HIDE DEF a
<1>4. /\ Ids' = Ids
      /\ attempts' \in Seq(Attempt) /\ Len(attempts') <= MaxAttempts
      /\ KeepsRows
      /\ attempts'[i] = a
      /\ \A j \in Ids \ {i} : attempts'[j] = attempts[j]
  BY <1>1, <1>2, <1>3, RowStep
<1>5. i \in 1 .. MaxAttempts
  BY StoreAssumption DEF TypeOK, Ids
<1>6. snapshots' = [snapshots EXCEPT ![i] = files] /\ snapshots \in [1 .. MaxAttempts -> Files \cup {NoFiles}]
  BY DEF PassFirst, TypeOK
<1>7. reviews' = [reviews EXCEPT ![t0] = NextReview(reviews[t0])] /\ reviews \in [Tasks -> Review]
  BY DEF PassFirst, TypeOK
<1>8. NextReview(reviews[t0]) \in Review
  BY <1>1, <1>7, ReviewType
<1>9. TypeOK'
  BY <1>1, <1>3, <1>4, <1>5, <1>6, <1>7, <1>8 DEF TypeOK
<1>10. attempts[i].status # "passed"
  BY DEF PassFirst
<1> QED BY <1>1, <1>2, <1>4, <1>5, <1>6, <1>7, <1>9, <1>10

\* A step that leaves the tables alone.
IdleStep == UNCHANGED <<attempts, snapshots, reviews>> /\ now' \in Times

\* A step that leaves the tables alone is quiet.
LEMMA IdleIsQuiet ==
  ASSUME TypeOK, IdleStep
  PROVE  TypeOK' /\ KeepsRows /\ QuietStep /\ Ids' = Ids
BY DEF TypeOK, IdleStep, KeepsRows, QuietStep, Ids

\* Every step is quiet, or books one solve.
LEMMA StepCases ==
  ASSUME TypeOK, [Next]_vars
  PROVE  /\ TypeOK' /\ KeepsRows
         /\ QuietStep \/ \E i \in Ids, files \in Files : PassFirst(i, files)
<1>1. CASE AdvanceClock
  BY <1>1, IdleIsQuiet DEF AdvanceClock, IdleStep
<1>2. CASE UNCHANGED vars
  BY <1>2, IdleIsQuiet DEF IdleStep, vars, TypeOK
<1>3. ASSUME NEW t \in Tasks, StartAttempt(t) \/ AbandonOpen(t)
      PROVE  TypeOK' /\ KeepsRows /\ QuietStep
  <2>1. CASE ResumeAttempt(t)
    BY <2>1, IdleIsQuiet DEF ResumeAttempt, IdleStep, vars, TypeOK
  <2>2. CASE InsertAttempt(t)
    BY <2>2, InsertStep
  <2>3. CASE AbandonOpen(t)
    BY <2>3, AbandonOpenStep
  <2> QED BY <1>3, <2>1, <2>2, <2>3 DEF StartAttempt
<1>4. ASSUME NEW i \in Ids, AbandonAttempt(i)
      PROVE  TypeOK' /\ KeepsRows /\ QuietStep
  BY <1>4, AbandonStep
<1>5. ASSUME NEW i \in Ids, NEW d \in Beats, AddActive(i, d)
      PROVE  TypeOK' /\ KeepsRows /\ QuietStep
  BY <1>5, AddActiveStep
<1>6. ASSUME NEW i \in Ids, NEW passed \in BOOLEAN, RecordRun(i, passed)
      PROVE  TypeOK' /\ KeepsRows /\ QuietStep
  BY <1>6, RecordRunStep
<1>7. ASSUME NEW i \in Ids, NEW files \in Files, PassAttempt(i, files)
      PROVE  TypeOK' /\ KeepsRows /\ (QuietStep \/ PassFirst(i, files))
  <2>1. CASE PassAgain(i)
    BY <2>1, IdleIsQuiet DEF PassAgain, IdleStep, vars, TypeOK
  <2>2. CASE PassFirst(i, files)
    BY <2>2, PassStep
  <2> QED BY <1>7, <2>1, <2>2 DEF PassAttempt
<1> QED BY <1>1, <1>2, <1>3, <1>4, <1>5, <1>6, <1>7 DEF Next

\* A step that counts no run: it leaves the counters of the rows that were there
\* alone, and a row it adds starts at zero.
CountsNothing ==
  /\ \A i \in Ids : attempts'[i].runs = attempts[i].runs /\ attempts'[i].fails = attempts[i].fails
  /\ \A i \in Ids' \ Ids : attempts'[i].runs = 0 /\ attempts'[i].fails = 0

\* Closing, solving and activity leave the counters alone.
LEMMA UncountedRow ==
  ASSUME NEW a \in Attempt, NEW d \in Nat, TypeOK
  PROVE  /\ Closed(a).runs = a.runs /\ Closed(a).fails = a.fails
         /\ Solved(a).runs = a.runs /\ Solved(a).fails = a.fails
         /\ [a EXCEPT !.active = @ + d].runs = a.runs /\ [a EXCEPT !.active = @ + d].fails = a.fails
BY DEF Closed, Solved, Attempt

\* Only RecordRun counts.
LEMMA CounterCases ==
  ASSUME TypeOK
  PROVE  /\ AdvanceClock \/ UNCHANGED vars => CountsNothing
         /\ \A t \in Tasks : StartAttempt(t) \/ AbandonOpen(t) => CountsNothing
         /\ \A i \in Ids : AbandonAttempt(i) => CountsNothing
         /\ \A i \in Ids, d \in Beats : AddActive(i, d) => CountsNothing
         /\ \A i \in Ids, files \in Files : PassAttempt(i, files) => CountsNothing
<1>1. \A i \in Ids : attempts[i] \in Attempt
  BY RowType
<1>2. 0 \in Nat /\ Beats \subseteq Nat
  BY StoreAssumption
<1>3. UNCHANGED attempts => CountsNothing
  BY DEF CountsNothing, Ids
<1>4. AdvanceClock \/ UNCHANGED vars => CountsNothing
  BY <1>3 DEF AdvanceClock, vars
<1>5. ASSUME NEW t \in Tasks, StartAttempt(t) \/ AbandonOpen(t)
      PROVE  CountsNothing
  <2>1. CASE ResumeAttempt(t)
    BY <1>3, <2>1 DEF ResumeAttempt, vars
  <2>2. CASE InsertAttempt(t)
    <3>1. /\ Ids' = Ids \cup {Len(attempts) + 1}
          /\ \A i \in Ids : attempts'[i] = IF i \in OpenOf(t) THEN Closed(attempts[i])
                                             ELSE attempts[i]
          /\ attempts'[Len(attempts) + 1] = NewAttempt(t)
      BY <2>2, InsertStep
    <3>2. NewAttempt(t).runs = 0 /\ NewAttempt(t).fails = 0
      BY DEF NewAttempt
    <3> QED BY <1>1, <1>2, <3>1, <3>2, UncountedRow DEF CountsNothing
  <2>3. CASE AbandonOpen(t)
    <3>1. attempts' = [i \in Ids |-> IF i \in OpenOf(t) THEN Closed(attempts[i]) ELSE attempts[i]]
      BY <2>3 DEF AbandonOpen
    <3>2. Ids' = Ids
      BY <2>3, AbandonOpenStep
    <3> QED BY <1>1, <1>2, <3>1, <3>2, UncountedRow DEF CountsNothing
  <2> QED BY <1>5, <2>1, <2>2, <2>3 DEF StartAttempt
<1>6. ASSUME NEW i \in Ids, AbandonAttempt(i)
      PROVE  CountsNothing
  BY <1>1, <1>2, <1>6, AbandonStep, UncountedRow DEF CountsNothing
<1>7. ASSUME NEW i \in Ids, NEW d \in Beats, AddActive(i, d)
      PROVE  CountsNothing
  <2>1. /\ Ids' = Ids /\ \A j \in Ids \ {i} : attempts'[j] = attempts[j]
        /\ attempts'[i] = [attempts[i] EXCEPT !.active = @ + d]
    BY <1>7, AddActiveStep
  <2>2. d \in Nat /\ attempts[i] \in Attempt
    BY <1>1, <1>2
  <2>3. attempts'[i].runs = attempts[i].runs /\ attempts'[i].fails = attempts[i].fails
    BY <2>1, <2>2, UncountedRow
  <2> QED BY <2>1, <2>3 DEF CountsNothing
<1>8. ASSUME NEW i \in Ids, NEW files \in Files, PassAttempt(i, files)
      PROVE  CountsNothing
  <2>1. CASE PassAgain(i)
    BY <1>3, <2>1 DEF PassAgain, vars
  <2>2. CASE PassFirst(i, files)
    <3>1. attempts' = [attempts EXCEPT ![i] = Solved(attempts[i])]
      BY <2>2 DEF PassFirst
    <3>2. Ids' = Ids
      BY <2>2, PassStep
    <3> QED BY <1>1, <1>2, <3>1, <3>2, UncountedRow DEF CountsNothing, Ids
  <2> QED BY <1>8, <2>1, <2>2 DEF PassAttempt
<1> QED BY <1>4, <1>5, <1>6, <1>7, <1>8

\* Type correctness: every reachable row and review is well formed, the clock
\* set back or not.
THEOREM TypeCorrect == Spec => []TypeOK
<1>1. Init => TypeOK
  BY StoreAssumption DEF Init, TypeOK, NoReview, Review, TopRung
<1>2. TypeOK /\ [Next]_vars => TypeOK'
  BY StepCases
<1> QED BY <1>1, <1>2, PTL DEF Spec

------------------------------------------------------------------------------
(* At most one open attempt per task. *)

\* A step that opens nothing keeps the invariant.
LEMMA OpensNothing ==
  ASSUME OneOpenAttempt, KeepsRows, Ids' = Ids,
         \A i \in Ids : attempts'[i].status = "in_progress" => attempts[i].status = "in_progress"
  PROVE  OneOpenAttempt'
<1> SUFFICES ASSUME NEW i \in Ids, NEW j \in Ids,
                    attempts'[i].status = "in_progress",
                    attempts'[j].status = "in_progress",
                    attempts'[i].task = attempts'[j].task
             PROVE  i = j
  BY DEF OneOpenAttempt
<1>1. attempts[i].task = attempts[j].task
  BY DEF KeepsRows
<1> QED BY <1>1 DEF OneOpenAttempt

\* Inserting a row first closes the open one.
LEMMA InsertOpensOne ==
  ASSUME TypeOK, OneOpenAttempt, NEW t \in Tasks, InsertAttempt(t)
  PROVE  OneOpenAttempt'
<1> DEFINE n == Len(attempts) + 1
<1>1. /\ KeepsRows
      /\ Ids' = Ids \cup {n} /\ n \notin Ids
      /\ \A i \in Ids : attempts'[i] = IF i \in OpenOf(t) THEN Closed(attempts[i])
                                        ELSE attempts[i]
      /\ attempts'[n] = NewAttempt(t)
  BY InsertStep
<1>2. NewAttempt(t).task = t
  BY DEF NewAttempt
<1>3. \A i \in Ids : attempts[i] \in Attempt
  BY RowType
<1>4. \A i \in Ids : attempts'[i].status = "in_progress" =>
                      attempts[i].status = "in_progress" /\ attempts'[i].task # t
  BY <1>1, <1>3 DEF Closed, OpenOf, KeepsRows, Attempt
<1> HIDE DEF n
<1> SUFFICES ASSUME NEW i \in Ids', NEW j \in Ids',
                    attempts'[i].status = "in_progress",
                    attempts'[j].status = "in_progress",
                    attempts'[i].task = attempts'[j].task
             PROVE  i = j
  BY DEF OneOpenAttempt
<1>5. CASE i = n \/ j = n
  BY <1>1, <1>2, <1>4, <1>5
<1>6. CASE i \in Ids /\ j \in Ids
  <2>1. attempts[i].task = attempts[j].task
    BY <1>1, <1>6 DEF KeepsRows
  <2> QED BY <1>4, <1>6, <2>1 DEF OneOpenAttempt
<1> QED BY <1>1, <1>5, <1>6

\* Every step keeps at most one attempt of a task open.
LEMMA OneOpenStep ==
  ASSUME TypeOK, OneOpenAttempt, [Next]_vars
  PROVE  OneOpenAttempt'
<1>1. CASE UNCHANGED attempts
  BY <1>1 DEF OneOpenAttempt, Ids
<1>2. ASSUME NEW t \in Tasks, AbandonOpen(t)
      PROVE  OneOpenAttempt'
  <2>1. KeepsRows /\ Ids' = Ids
    BY <1>2, AbandonOpenStep
  <2>2. \A i \in Ids : attempts'[i].status = "in_progress" => attempts[i].status = "in_progress"
    BY <1>2 DEF AbandonOpen, OpenOf
  <2> QED BY <2>1, <2>2, OpensNothing
<1>3. ASSUME NEW i \in Ids, AbandonAttempt(i)
      PROVE  OneOpenAttempt'
  BY <1>3, AbandonStep, OpensNothing DEF AbandonAttempt
<1>4. ASSUME NEW i \in Ids, NEW d \in Beats, AddActive(i, d)
      PROVE  OneOpenAttempt'
  BY <1>4, AddActiveStep, OpensNothing DEF AddActive
<1>5. ASSUME NEW i \in Ids, NEW passed \in BOOLEAN, RecordRun(i, passed)
      PROVE  OneOpenAttempt'
  <2>1. attempts[i] \in Attempt
    BY RowType
  <2>2. attempts'[i].status = attempts[i].status
    BY <1>5, <2>1, RecordRunStep DEF Attempt
  <2> QED BY <1>5, <2>2, RecordRunStep, OpensNothing
<1>6. ASSUME NEW i \in Ids, NEW files \in Files, PassFirst(i, files)
      PROVE  OneOpenAttempt'
  BY <1>6, PassStep, OpensNothing
<1> QED
  BY <1>1, <1>2, <1>3, <1>4, <1>5, <1>6, InsertOpensOne
     DEF Next, vars, AdvanceClock, StartAttempt, ResumeAttempt, PassAttempt, PassAgain

\* At most one open attempt per task, for any number of tasks and attempts:
\* the unique index of the schema is never violated.
THEOREM OneOpen == Spec => []OneOpenAttempt
<1>1. Init => OneOpenAttempt
  BY DEF Init, OneOpenAttempt, Ids
<1>2. TypeOK /\ OneOpenAttempt /\ [Next]_vars => OneOpenAttempt'
  BY OneOpenStep
<1> QED BY <1>1, <1>2, TypeCorrect, PTL DEF Spec

------------------------------------------------------------------------------
(* The schedule counts the solves. *)

\* A task has finitely many solves.
LEMMA PassedFinite == TypeOK => \A t \in Tasks : IsFiniteSet(PassedOf(t))
<1> SUFFICES ASSUME TypeOK, NEW t \in Tasks
             PROVE  IsFiniteSet(PassedOf(t))
  OBVIOUS
<1>1. Len(attempts) \in Nat /\ Ids = 1 .. Len(attempts)
  BY DEF TypeOK, Ids
<1>2. IsFiniteSet(1 .. Len(attempts))
  BY <1>1, FS_Interval
<1>3. PassedOf(t) \subseteq 1 .. Len(attempts)
  BY <1>1 DEF PassedOf
<1> QED BY <1>2, <1>3, FS_Subset

\* A quiet step solves nothing.
LEMMA QuietKeepsPassed ==
  ASSUME KeepsRows, QuietStep, NEW t \in Tasks
  PROVE  PassedOf(t)' = PassedOf(t)
BY DEF KeepsRows, QuietStep, PassedOf

\* A first solve adds one solve, of its task.
LEMMA PassAddsOne ==
  ASSUME TypeOK, NEW i \in Ids, NEW files \in Files, PassFirst(i, files), NEW t \in Tasks
  PROVE  IF t = attempts[i].task
           THEN i \notin PassedOf(t) /\ PassedOf(t)' = PassedOf(t) \cup {i}
           ELSE PassedOf(t)' = PassedOf(t)
<1>1. /\ Ids' = Ids /\ KeepsRows
      /\ attempts[i].status # "passed"
      /\ attempts'[i].status = "passed"
      /\ \A j \in Ids \ {i} : attempts'[j] = attempts[j]
  BY PassStep
<1>2. attempts'[i].task = attempts[i].task
  BY <1>1 DEF KeepsRows
<1> QED BY <1>1, <1>2 DEF PassedOf

\* Every step keeps the review count and the solves together.
LEMMA CountStep ==
  ASSUME TypeOK, ReviewCountsSolves, [Next]_vars
  PROVE  ReviewCountsSolves'
<1>1. TypeOK' /\ KeepsRows
  BY StepCases
<1>2. CASE QuietStep
  <2>1. reviews' = reviews
    BY <1>2 DEF QuietStep
  <2>2. \A t \in Tasks : PassedOf(t)' = PassedOf(t)
    BY <1>1, <1>2, QuietKeepsPassed
  <2> QED BY <2>1, <2>2 DEF ReviewCountsSolves
<1>3. ASSUME NEW i \in Ids, NEW files \in Files, PassFirst(i, files)
      PROVE  ReviewCountsSolves'
  <2>1. ASSUME NEW t \in Tasks, t # attempts[i].task
        PROVE  /\ reviews'[t].passCount = Cardinality(PassedOf(t)')
               /\ reviews'[t].exists <=> PassedOf(t)' # {}
    <3>1. PassedOf(t)' = PassedOf(t) /\ reviews'[t] = reviews[t]
      BY <1>3, <2>1, PassAddsOne, PassStep
    <3> QED BY <3>1 DEF ReviewCountsSolves
  <2>2. ASSUME NEW t \in Tasks, t = attempts[i].task
        PROVE  /\ reviews'[t].passCount = Cardinality(PassedOf(t)')
               /\ reviews'[t].exists <=> PassedOf(t)' # {}
    <3>1. i \notin PassedOf(t) /\ PassedOf(t)' = PassedOf(t) \cup {i}
      BY <1>3, <2>2, PassAddsOne
    <3>2. Cardinality(PassedOf(t)') = Cardinality(PassedOf(t)) + 1
      BY <3>1, PassedFinite, FS_AddElement
    <3>3. reviews'[t] = NextReview(reviews[t]) /\ reviews[t] \in Review
      BY <1>3, <2>2, PassStep DEF TypeOK
    <3>4. reviews'[t].exists /\ reviews'[t].passCount = reviews[t].passCount + 1
      BY <3>3, ReviewType
    <3> QED BY <3>1, <3>2, <3>4 DEF ReviewCountsSolves
  <2> QED BY <2>1, <2>2 DEF ReviewCountsSolves
<1> QED BY <1>2, <1>3, StepCases

\* The review row of a task counts exactly its solved attempts.
THEOREM SolvesAreCounted == Spec => []ReviewCountsSolves
<1>1. Init => ReviewCountsSolves
  <2> SUFFICES ASSUME Init PROVE ReviewCountsSolves
    OBVIOUS
  <2>1. \A t \in Tasks : PassedOf(t) = {}
    BY DEF Init, PassedOf, Ids
  <2>2. \A t \in Tasks : reviews[t] = NoReview
    BY DEF Init
  <2> QED BY <2>1, <2>2, FS_EmptySet DEF ReviewCountsSolves, NoReview
<1>2. TypeOK /\ ReviewCountsSolves /\ [Next]_vars => ReviewCountsSolves'
  BY CountStep
<1> QED BY <1>1, <1>2, TypeCorrect, PTL DEF Spec

------------------------------------------------------------------------------
(* The ladder. *)

\* Every step keeps the schedule where the ladder puts it.
LEMMA LadderStep ==
  ASSUME TypeOK, ScheduleFollowsLadder, [Next]_vars
  PROVE  ScheduleFollowsLadder'
<1>1. CASE QuietStep
  BY <1>1 DEF QuietStep, ScheduleFollowsLadder
<1>2. ASSUME NEW i \in Ids, NEW files \in Files, PassFirst(i, files)
      PROVE  ScheduleFollowsLadder'
  <2> DEFINE t0 == attempts[i].task
             r == reviews[t0]
             u == reviews'[t0]
  <2>1. /\ t0 \in Tasks
        /\ u = NextReview(r)
        /\ \A t \in Tasks : t # t0 => reviews'[t] = reviews[t]
    BY <1>2, PassStep
  <2>2. r \in Review
    BY <2>1 DEF TypeOK
  <2>3. /\ u.exists
        /\ u.passCount = r.passCount + 1
        /\ u.lastPassed = now
        /\ u.stage = Clamp(Clamp(r.stage) + 1)
        /\ u.due = DayOf(now) + IntervalDays(r.stage)
    BY <2>1, <2>2, ReviewType
  <2>4. r.stage = Clamp(r.passCount) /\ r.passCount \in Nat
    BY <2>1, <2>2 DEF ScheduleFollowsLadder, Review
  <2>5. \A n \in Nat : /\ Clamp(Clamp(Clamp(n)) + 1) = Clamp(n + 1)
                       /\ IntervalDays(Clamp(n)) = IntervalDays(n)
    BY DEF Clamp, TopRung, IntervalDays
  <2>6. u.stage = Clamp(u.passCount)
    BY <2>3, <2>4, <2>5
  <2>7. (u.passCount - 1) = r.passCount
    BY <2>3, <2>4
  <2>8. u.due = DayOf(u.lastPassed) + IntervalDays(u.passCount - 1)
    BY <2>3, <2>4, <2>5, <2>7
  <2> HIDE DEF t0
  <2> QED BY <2>1, <2>6, <2>8 DEF ScheduleFollowsLadder
<1> QED BY <1>1, <1>2, StepCases

\* A task comes due the ladder's gap after its last solve, the n-th solve
\* leaving the n-th gap and the top gap repeating.
THEOREM LadderFollowed == Spec => []ScheduleFollowsLadder
<1>1. Init => ScheduleFollowsLadder
  BY DEF Init, ScheduleFollowsLadder, NoReview, Clamp, TopRung
<1>2. TypeOK /\ ScheduleFollowsLadder /\ [Next]_vars => ScheduleFollowsLadder'
  BY LadderStep
<1> QED BY <1>1, <1>2, TypeCorrect, PTL DEF Spec

------------------------------------------------------------------------------
(* Snapshots. *)

\* Every step keeps a snapshot for each solve, and for nothing else.
LEMMA SnapshotStep ==
  ASSUME TypeOK, SnapshotIffSolved, [Next]_vars
  PROVE  SnapshotIffSolved'
<1>1. CASE QuietStep
  BY <1>1, StepCases DEF QuietStep, KeepsRows, SnapshotIffSolved
<1>2. ASSUME NEW i \in Ids, NEW files \in Files, PassFirst(i, files)
      PROVE  SnapshotIffSolved'
  BY <1>2, PassStep, StoreAssumption DEF SnapshotIffSolved
<1> QED BY <1>1, <1>2, StepCases

\* Exactly the attempts that went green have a code snapshot.
THEOREM SnapshotsMatch == Spec => []SnapshotIffSolved
<1>1. Init => SnapshotIffSolved
  BY DEF Init, SnapshotIffSolved, Ids
<1>2. TypeOK /\ SnapshotIffSolved /\ [Next]_vars => SnapshotIffSolved'
  BY SnapshotStep
<1> QED BY <1>1, <1>2, TypeCorrect, PTL DEF Spec

------------------------------------------------------------------------------
(* A solve is final. *)

FrozenStep == \A i \in Ids : attempts[i].status = "passed" => SameSolve(i)

\* No step rewrites a solve.
LEMMA SolveStep ==
  ASSUME TypeOK, [Next]_vars
  PROVE  FrozenStep
<1>1. CASE UNCHANGED <<attempts, snapshots>>
  BY <1>1 DEF FrozenStep, SameSolve
<1>2. ASSUME NEW t \in Tasks, InsertAttempt(t)
      PROVE  FrozenStep
  BY <1>2, InsertStep DEF FrozenStep, SameSolve, OpenOf, InsertAttempt
<1>3. ASSUME NEW t \in Tasks, AbandonOpen(t)
      PROVE  FrozenStep
  BY <1>3 DEF AbandonOpen, FrozenStep, SameSolve, OpenOf
<1>4. ASSUME NEW i \in Ids, AbandonAttempt(i)
      PROVE  FrozenStep
  BY <1>4, AbandonStep DEF AbandonAttempt, FrozenStep, SameSolve
<1>5. ASSUME NEW i \in Ids, NEW d \in Beats, AddActive(i, d)
      PROVE  FrozenStep
  BY <1>5, AddActiveStep DEF AddActive, FrozenStep, SameSolve
<1>6. ASSUME NEW i \in Ids, NEW passed \in BOOLEAN, RecordRun(i, passed)
      PROVE  FrozenStep
  <2>1. \A a \in Attempt, m, n \in Int :
          LET b == [a EXCEPT !.runs = m, !.fails = n]
          IN  /\ b.status = a.status /\ b.finished = a.finished
              /\ b.duration = a.duration /\ b.active = a.active
              /\ b.task = a.task /\ b.day = a.day /\ b.started = a.started
    BY DEF Attempt
  <2>2. attempts[i] \in Attempt
    BY RowType
  <2>3. PICK m, n \in Int : attempts'[i] = [attempts[i] EXCEPT !.runs = m, !.fails = n]
    <3>1. attempts[i].runs + 1 \in Int /\ attempts[i].fails \in Int /\ attempts[i].fails + 1 \in Int
      BY <2>2 DEF Attempt
    <3>2. attempts'[i] = [attempts[i] EXCEPT !.runs = @ + 1, !.fails = IF passed THEN @ ELSE @ + 1]
      BY <1>6, RecordRunStep
    <3>3. CASE passed
      BY <3>1, <3>2, <3>3, Zenon
    <3>4. CASE ~passed
      BY <3>1, <3>2, <3>4, Zenon
    <3> QED BY <3>3, <3>4
  <2>4. /\ attempts'[i].status = attempts[i].status
        /\ attempts'[i].finished = attempts[i].finished
        /\ attempts'[i].duration = attempts[i].duration
        /\ attempts'[i].active = attempts[i].active
        /\ attempts'[i].task = attempts[i].task
        /\ attempts'[i].day = attempts[i].day
        /\ attempts'[i].started = attempts[i].started
    BY <2>1, <2>2, <2>3
  <2>5. \A j \in Ids \ {i} : attempts'[j] = attempts[j]
    BY <1>6, RecordRunStep
  <2>6. snapshots' = snapshots
    BY <1>6 DEF RecordRun
  <2> QED BY <2>4, <2>5, <2>6 DEF FrozenStep, SameSolve
<1>7. ASSUME NEW i \in Ids, NEW files \in Files, PassFirst(i, files)
      PROVE  FrozenStep
  <2>1. Ids \subseteq 1 .. MaxAttempts
    BY StoreAssumption DEF TypeOK, Ids
  <2> QED BY <1>7, <2>1, PassStep DEF FrozenStep, SameSolve
<1> QED
  BY <1>1, <1>2, <1>3, <1>4, <1>5, <1>6, <1>7
     DEF Next, vars, AdvanceClock, StartAttempt, ResumeAttempt, PassAttempt, PassAgain

\* Once green, an attempt keeps its task, its status, its clocks, its day and its
\* snapshot for ever.
THEOREM SolvesAreFinal == Spec => SolveIsFrozen
<1>1. TypeOK /\ [Next]_vars => [FrozenStep]_vars
  BY SolveStep
<1> QED BY <1>1, TypeCorrect, PTL DEF Spec, SolveIsFrozen, FrozenStep

------------------------------------------------------------------------------
(* The store implements Practice. *)

\* The ladder Practice quotes is the ladder of the store.
LEMMA SameLadder == \A stage \in Int : Practice!IntervalDays(stage) = IntervalDays(stage)
BY DEF Practice!IntervalDays, Practice!Ladder, Practice!Clamp, Practice!TopRung,
       IntervalDays, Ladder, Clamp, TopRung

\* What rewriting one row does to the tasks being worked on.
LEMMA WorkingRow ==
  ASSUME TypeOK, OneOpenAttempt, NEW i \in Ids, Ids' = Ids, KeepsRows,
         \A j \in Ids \ {i} : attempts'[j] = attempts[j]
  PROVE  /\ attempts'[i].status = attempts[i].status => Working' = Working
         /\ attempts[i].status # "in_progress" /\ attempts'[i].status # "in_progress" =>
              Working' = Working
         /\ attempts[i].status = "in_progress" /\ attempts'[i].status # "in_progress" =>
              attempts[i].task \in Working /\ Working' = Working \ {attempts[i].task}
<1> DEFINE t0 == attempts[i].task
<1>1. attempts[i].task \in Tasks /\ attempts'[i].task = attempts[i].task
  BY RowType DEF KeepsRows, Attempt
<1>2. ASSUME NEW t \in Tasks, t # t0
      PROVE  OpenOf(t)' = OpenOf(t)
  BY <1>1, <1>2 DEF OpenOf
<1>3. ASSUME attempts'[i].status = attempts[i].status, NEW t \in Tasks
      PROVE  OpenOf(t)' = OpenOf(t)
  BY <1>1, <1>3 DEF OpenOf
<1>4. ASSUME attempts[i].status # "in_progress", attempts'[i].status # "in_progress", NEW t \in Tasks
      PROVE  OpenOf(t)' = OpenOf(t)
  BY <1>1, <1>4 DEF OpenOf
<1>5. ASSUME attempts[i].status = "in_progress", attempts'[i].status # "in_progress"
      PROVE  i \in OpenOf(t0) /\ OpenOf(t0)' = {}
  <2>1. \A j \in OpenOf(t0) : j = i
    BY <1>5 DEF OpenOf, OneOpenAttempt
  <2>2. OpenOf(t0)' \subseteq OpenOf(t0) /\ i \notin OpenOf(t0)'
    BY <1>1, <1>5 DEF OpenOf
  <2> QED BY <1>5, <2>1, <2>2 DEF OpenOf
<1> QED BY <1>1, <1>2, <1>3, <1>4, <1>5 DEF Working

\* A step that books no solve leaves the schedule alone.
LEMMA QuietSchedule ==
  ASSUME reviews' = reviews
  PROVE  SolveCounts' = SolveCounts /\ DueDays' = DueDays
BY DEF SolveCounts, DueDays

\* Dropping the open attempt of a task, if it has one.
LEMMA DropOrStutter ==
  ASSUME NEW t \in Tasks, now' = now, reviews' = reviews, Working' = Working \ {t}
  PROVE  [Practice!Next]_(Practice!vars)
<1>1. UNCHANGED <<DayOf(now), SolveCounts, DueDays>>
  BY QuietSchedule
<1>2. CASE t \in Working
  BY <1>1, <1>2 DEF Practice!Next, Practice!Drop
<1>3. CASE t \notin Working
  BY <1>1, <1>3 DEF Practice!vars
<1> QED BY <1>2, <1>3

\* Same solves, same work, same clock: nothing has happened.
LEMMA WorkStutters ==
  ASSUME now' = now, reviews' = reviews, Working' = Working
  PROVE  UNCHANGED Practice!vars
BY QuietSchedule DEF Practice!vars

\* A resumed or restarted attempt is the same piece of work.
LEMMA BeginStep ==
  ASSUME TypeOK, NEW t \in Tasks, InsertAttempt(t)
  PROVE  [Practice!Next]_(Practice!vars)
<1> DEFINE n == Len(attempts) + 1
<1>1. /\ KeepsRows
      /\ Ids' = Ids \cup {n} /\ n \notin Ids
      /\ \A i \in Ids : attempts'[i] = IF i \in OpenOf(t) THEN Closed(attempts[i]) ELSE attempts[i]
      /\ attempts'[n] = NewAttempt(t)
  BY InsertStep
<1>2. NewAttempt(t).task = t /\ NewAttempt(t).status = "in_progress"
  BY DEF NewAttempt
<1>3. UNCHANGED <<DayOf(now), SolveCounts, DueDays>>
  BY QuietSchedule DEF InsertAttempt
<1> HIDE DEF n
<1>4. n \in OpenOf(t)'
  BY <1>1, <1>2 DEF OpenOf
<1>5. ASSUME NEW u \in Tasks, u # t
      PROVE  OpenOf(u)' = OpenOf(u)
  BY <1>1, <1>2, <1>5 DEF OpenOf, KeepsRows
<1>6. Working' = Working \cup {t}
  BY <1>4, <1>5 DEF Working
<1>7. CASE t \in Working
  BY <1>3, <1>6, <1>7 DEF Practice!vars
<1>8. CASE t \notin Working
  BY <1>3, <1>6, <1>8 DEF Practice!Next, Practice!Begin
<1> QED BY <1>7, <1>8

\* The first green run of an attempt is the solve.
LEMMA SolveImplements ==
  ASSUME TypeOK, OneOpenAttempt, ScheduleFollowsLadder,
         NEW i \in Ids, NEW files \in Files, PassFirst(i, files)
  PROVE  Practice!Next
<1> DEFINE t == attempts[i].task
           r == reviews[t]
<1>1. /\ Ids' = Ids /\ KeepsRows
      /\ t \in Tasks
      /\ attempts'[i].status = "passed"
      /\ \A j \in Ids \ {i} : attempts'[j] = attempts[j]
      /\ reviews'[t] = NextReview(r)
      /\ \A u \in Tasks : u # t => reviews'[u] = reviews[u]
  BY PassStep
<1>2. Working' \in {Working, Working \ {t}}
  BY <1>1, WorkingRow
<1>3. r \in Review
  BY <1>1 DEF TypeOK
<1>4. reviews'[t].passCount = r.passCount + 1 /\ reviews'[t].due = DayOf(now) + IntervalDays(r.stage)
  BY <1>1, <1>3, ReviewType
<1>5. r.passCount \in Int /\ IntervalDays(r.stage) = IntervalDays(r.passCount)
  <2>1. r.stage = Clamp(r.passCount) /\ r.passCount \in Nat
    BY <1>1, <1>3 DEF ScheduleFollowsLadder, Review
  <2>2. \A n \in Nat : IntervalDays(Clamp(n)) = IntervalDays(n)
    BY DEF Clamp, TopRung, IntervalDays
  <2> QED BY <2>1, <2>2
<1>6. SolveCounts' = [SolveCounts EXCEPT ![t] = SolveCounts[t] + 1]
  <2>1. \A u \in Tasks : SolveCounts'[u] = IF u = t THEN SolveCounts[t] + 1 ELSE SolveCounts[u]
    BY <1>1, <1>4 DEF SolveCounts
  <2> QED BY <1>1, <2>1 DEF SolveCounts
<1>7. Practice!IntervalDays(SolveCounts[t]) = IntervalDays(r.stage)
  BY <1>1, <1>5, SameLadder DEF SolveCounts
<1>8. DueDays' = [DueDays EXCEPT ![t] = DayOf(now) + Practice!IntervalDays(SolveCounts[t])]
  <2>1. \A u \in Tasks : DueDays'[u] = IF u = t THEN DayOf(now) + IntervalDays(r.stage) ELSE DueDays[u]
    BY <1>1, <1>4 DEF DueDays
  <2> QED BY <1>1, <1>7, <2>1 DEF DueDays
<1>9. DayOf(now)' = DayOf(now)
  BY DEF PassFirst
<1> HIDE DEF t, r
<1>10. Practice!Solve(t)
  BY <1>2, <1>6, <1>8, <1>9 DEF Practice!Solve
<1> QED BY <1>1, <1>10 DEF Practice!Next

\* Every step of the store is a step of the promise, or none.
LEMMA PracticeStep ==
  ASSUME TypeOK, OneOpenAttempt, ScheduleFollowsLadder, TypeOK', [Next]_vars
  PROVE  [Practice!Next]_(Practice!vars)
<1>1. CASE UNCHANGED vars
  BY <1>1, WorkStutters DEF vars, Working, OpenOf, Ids
<1>2. CASE AdvanceClock
  <2>1. DayOf(now)' \in Calendar
    BY <1>2 DEF AdvanceClock, Calendar
  <2>2. Working' = Working /\ SolveCounts' = SolveCounts /\ DueDays' = DueDays
    BY <1>2, QuietSchedule DEF AdvanceClock, Working, OpenOf, Ids
  <2> QED BY <2>1, <2>2 DEF Practice!Next, Practice!TurnCalendar
<1>3. ASSUME NEW t \in Tasks, StartAttempt(t)
      PROVE  [Practice!Next]_(Practice!vars)
  BY <1>1, <1>3, BeginStep DEF StartAttempt, ResumeAttempt
<1>4. ASSUME NEW t \in Tasks, AbandonOpen(t)
      PROVE  [Practice!Next]_(Practice!vars)
  <2>1. KeepsRows /\ Ids' = Ids
    BY <1>4, AbandonOpenStep
  <2>2. \A i \in Ids : attempts'[i] = IF i \in OpenOf(t) THEN Closed(attempts[i]) ELSE attempts[i]
    BY <1>4 DEF AbandonOpen
  <2>3. \A i \in OpenOf(t) : attempts'[i].status = "abandoned"
    BY <2>2, RowType DEF Closed, OpenOf, Attempt
  <2>4. OpenOf(t)' = {}
    BY <2>1, <2>2, <2>3 DEF OpenOf, KeepsRows
  <2>5. ASSUME NEW u \in Tasks, u # t
        PROVE  OpenOf(u)' = OpenOf(u)
    BY <2>1, <2>2, <2>5 DEF OpenOf, KeepsRows
  <2>6. Working' = Working \ {t}
    BY <2>4, <2>5 DEF Working
  <2> QED BY <1>4, <2>6, DropOrStutter DEF AbandonOpen
<1>5. ASSUME NEW i \in Ids, AbandonAttempt(i)
      PROVE  [Practice!Next]_(Practice!vars)
  <2>1. attempts[i] \in Attempt /\ attempts[i].task \in Tasks
    BY RowType DEF Attempt
  <2>2. attempts'[i].status # "in_progress"
    BY <1>5, <2>1, AbandonStep DEF Closed, Attempt
  <2>3. Working' = Working \ {attempts[i].task}
    BY <1>5, <2>2, AbandonStep, WorkingRow DEF AbandonAttempt
  <2> QED BY <1>5, <2>1, <2>3, DropOrStutter DEF AbandonAttempt
<1>6. ASSUME NEW i \in Ids, NEW d \in Beats, AddActive(i, d)
      PROVE  UNCHANGED Practice!vars
  <2>1. attempts'[i].status = attempts[i].status
    BY <1>6, AddActiveStep, RowType DEF Attempt
  <2> QED BY <1>6, <2>1, AddActiveStep, WorkingRow, WorkStutters DEF AddActive
<1>7. ASSUME NEW i \in Ids, NEW passed \in BOOLEAN, RecordRun(i, passed)
      PROVE  UNCHANGED Practice!vars
  <2>1. attempts[i] \in Attempt
    BY RowType
  <2>2. attempts'[i].status = attempts[i].status
    BY <1>7, <2>1, RecordRunStep DEF Attempt
  <2> QED BY <1>7, <2>2, RecordRunStep, WorkingRow, WorkStutters DEF RecordRun
<1>8. ASSUME NEW i \in Ids, NEW files \in Files, PassAttempt(i, files)
      PROVE  [Practice!Next]_(Practice!vars)
  BY <1>1, <1>8, SolveImplements DEF PassAttempt, PassAgain
<1> QED BY <1>1, <1>2, <1>3, <1>4, <1>5, <1>6, <1>7, <1>8 DEF Next

\* The ledger implements what it promises its callers: seen as tasks in work,
\* solve counts and due days, every step is one of Practice or none, so nothing but
\* a solve moves a schedule and a restarted attempt is no new work.
THEOREM KeepsThePromise == Spec => ImplementsPractice
<1>1. Init => Practice!Init
  <2> SUFFICES ASSUME Init PROVE Practice!Init
    OBVIOUS
  <2>1. Ids = {}
    BY DEF Init, Ids
  <2>2. Working = {}
    BY <2>1 DEF Working, OpenOf
  <2>3. SolveCounts = [t \in Tasks |-> 0] /\ DueDays = [t \in Tasks |-> 0]
    BY DEF Init, SolveCounts, DueDays, NoReview
  <2> QED BY <2>2, <2>3 DEF Init, Practice!Init, Calendar
<1>2. TypeOK /\ OneOpenAttempt /\ ScheduleFollowsLadder /\ TypeOK' /\ [Next]_vars =>
        [Practice!Next]_(Practice!vars)
  BY PracticeStep
<1> QED BY <1>1, <1>2, TypeCorrect, OneOpen, LadderFollowed, PTL
        DEF Spec, ImplementsPractice, Practice!Spec
==============================================================================
