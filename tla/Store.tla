-------------------------------- MODULE Store --------------------------------
(***************************************************************************)
(* The attempt ledger and the review schedule of internal/store:           *)
(* attempts.go and the schedule part of reviews.go.  The database has one  *)
(* connection (store.go), so a transaction is one action.                  *)
(*                                                                         *)
(* Time is a wall clock read from the set Times and may be set back: the   *)
(* code reads time.Now and compares it with times it stored before.  A day *)
(* is DayLength units of that clock.                                       *)
(***************************************************************************)
EXTENDS Integers, Sequences, FiniteSets

CONSTANTS
  Tasks,         \* task ids
  Files,         \* abstract contents of a submission (path -> text maps)
  NoFiles,       \* "no rows" in attempt_files
  Times,         \* instants at which the wall clock is read
  DayLength,     \* clock units in a day
  ResumeWindow,  \* clock units an unfinished attempt stays resumable
  Beats,         \* amounts of active time one heartbeat may report
  MaxAttempts,   \* bound on the attempts table
  MaxRuns,       \* bound on run_count
  MaxActive      \* bound on active_ms

ASSUME StoreAssumption ==
  /\ Times \subseteq Nat /\ Times # {}
  /\ DayLength \in Nat \ {0}
  /\ ResumeWindow \in Nat \ {0}
  /\ Beats \subseteq Nat
  /\ MaxAttempts \in Nat
  /\ MaxRuns \in Nat
  /\ MaxActive \in Nat
  /\ NoFiles \notin Files

VARIABLES
  now,        \* the wall clock
  attempts,   \* table attempts; the id is the index (AUTOINCREMENT)
  snapshots,  \* table attempt_files, by attempt id
  reviews     \* table reviews, by task

vars == <<now, attempts, snapshots, reviews>>

INSTANCE Srs

------------------------------------------------------------------------------
(* Rows and queries. *)

Statuses == {"in_progress", "passed", "abandoned"}

NoTime == -1  \* finished_at IS NULL, last_passed_at of a missing review

Attempt ==
  [task : Tasks, status : Statuses, started : Nat, finished : Nat \cup {NoTime},
   duration : Nat, active : Nat, day : Nat, runs : Nat, fails : Nat]

Review ==
  [exists : BOOLEAN, stage : 0 .. TopRung, due : Nat, lastPassed : Nat \cup {NoTime},
   passCount : Nat]

NoReview == [exists |-> FALSE, stage |-> 0, due |-> 0, lastPassed |-> NoTime, passCount |-> 0]

DayOf(t) == t \div DayLength

Ids == DOMAIN attempts

OpenOf(t) == {i \in Ids : attempts[i].task = t /\ attempts[i].status = "in_progress"}

PassedOf(t) == {i \in Ids : attempts[i].task = t /\ attempts[i].status = "passed"}

Resumable(i) == now - attempts[i].started < ResumeWindow

NewAttempt(t) ==
  [task |-> t, status |-> "in_progress", started |-> now, finished |-> NoTime,
   duration |-> 0, active |-> 0, day |-> DayOf(now), runs |-> 0, fails |-> 0]

Closed(a) == [a EXCEPT !.status = "abandoned", !.finished = now]

\* Mutant: the clamp forgotten.
Elapsed_Unclamped(a) == now - a.started

\* A negative wall-clock duration (the clock was set back) counts as zero.
Elapsed(a) == IF now < a.started THEN 0 ELSE now - a.started

Solved(a) ==
  [a EXCEPT !.status = "passed", !.finished = now, !.duration = Elapsed(a),
            !.active = IF a.active = 0 THEN Elapsed(a) ELSE a.active]

\* Mutant: due by the rung the task moves to, not the one it leaves.
NextReview_WrongRung(r) ==
  LET next == Advance(r.stage, DayOf(now))
  IN  [exists |-> TRUE, stage |-> next.stage, due |-> DayOf(now) + IntervalDays(next.stage),
       lastPassed |-> now, passCount |-> r.passCount + 1]

\* Mutant: the gap is added to the old due date instead of the day of the solve.
NextReview_FromDueDate(r) ==
  LET next == Advance(r.stage, r.due)
  IN  [exists |-> TRUE, stage |-> next.stage, due |-> next.due,
       lastPassed |-> now, passCount |-> r.passCount + 1]

NextReview(r) ==
  LET next == Advance(r.stage, DayOf(now))
  IN  [exists |-> TRUE, stage |-> next.stage, due |-> next.due,
       lastPassed |-> now, passCount |-> r.passCount + 1]

------------------------------------------------------------------------------
(* Operations, one transaction each. *)

Init ==
  /\ now \in Times
  /\ attempts = << >>
  /\ snapshots = [i \in 1 .. MaxAttempts |-> NoFiles]
  /\ reviews = [t \in Tasks |-> NoReview]

AdvanceClock == now' \in Times /\ UNCHANGED <<attempts, snapshots, reviews>>

\* StartAttempt when a recent open attempt exists: nothing is written.
ResumeAttempt(t) ==
  /\ \E i \in OpenOf(t) : Resumable(i)
  /\ UNCHANGED vars

\* Mutant: the stale attempt is left open.
InsertAttempt_KeepStale(t) ==
  /\ \A i \in OpenOf(t) : ~Resumable(i)
  /\ Len(attempts) < MaxAttempts
  /\ attempts' = Append(attempts, NewAttempt(t))
  /\ UNCHANGED <<now, snapshots, reviews>>

\* StartAttempt otherwise: a stale open attempt is abandoned, a row is added.
InsertAttempt(t) ==
  /\ \A i \in OpenOf(t) : ~Resumable(i)
  /\ Len(attempts) < MaxAttempts
  /\ attempts' = Append([i \in Ids |-> IF i \in OpenOf(t) THEN Closed(attempts[i])
                                       ELSE attempts[i]],
                        NewAttempt(t))
  /\ UNCHANGED <<now, snapshots, reviews>>

StartAttempt(t) == ResumeAttempt(t) \/ InsertAttempt(t)

AbandonAttempt(i) ==
  /\ attempts[i].status = "in_progress"
  /\ attempts' = [attempts EXCEPT ![i] = Closed(attempts[i])]
  /\ UNCHANGED <<now, snapshots, reviews>>

AbandonOpen(t) ==
  /\ attempts' = [i \in Ids |-> IF i \in OpenOf(t) THEN Closed(attempts[i]) ELSE attempts[i]]
  /\ UNCHANGED <<now, snapshots, reviews>>

\* Mutant: heartbeats are credited whatever the status.
AddActive_AnyStatus(i, d) ==
  /\ d > 0
  /\ attempts[i].active + d <= MaxActive
  /\ attempts' = [attempts EXCEPT ![i].active = @ + d]
  /\ UNCHANGED <<now, snapshots, reviews>>

AddActive(i, d) ==
  /\ d > 0
  /\ attempts[i].status = "in_progress"
  /\ attempts[i].active + d <= MaxActive
  /\ attempts' = [attempts EXCEPT ![i].active = @ + d]
  /\ UNCHANGED <<now, snapshots, reviews>>

\* No guard on the status: the UPDATE only names the id.
RecordRun(i, passed) ==
  /\ attempts[i].runs < MaxRuns
  /\ attempts' = [attempts EXCEPT ![i].runs = @ + 1,
                                  ![i].fails = IF passed THEN @ ELSE @ + 1]
  /\ UNCHANGED <<now, snapshots, reviews>>

\* Mutant: a repeated green run books the solve again.
PassAgain_Rebook(i) ==
  /\ attempts[i].status = "passed"
  /\ reviews' = [reviews EXCEPT ![attempts[i].task] = NextReview(@)]
  /\ UNCHANGED <<now, attempts, snapshots>>

\* Already green: the schedule and the snapshot stay as they are.
PassAgain(i) ==
  /\ attempts[i].status = "passed"
  /\ UNCHANGED vars

\* Mutant: only an open attempt gets its code snapshot.
PassFirst_SnapshotIfOpen(i, files) ==
  LET t == attempts[i].task
  IN  /\ attempts[i].status # "passed"
      /\ attempts' = [attempts EXCEPT ![i] = Solved(attempts[i])]
      /\ snapshots' = [snapshots EXCEPT ![i] = IF attempts[i].status = "in_progress" THEN files ELSE @]
      /\ reviews' = [reviews EXCEPT ![t] = NextReview(reviews[t])]
      /\ UNCHANGED now

\* The first green: an open attempt is closed as solved - and so is an abandoned one.
PassFirst(i, files) ==
  LET t == attempts[i].task
  IN  /\ attempts[i].status # "passed"
      /\ attempts' = [attempts EXCEPT ![i] = Solved(attempts[i])]
      /\ snapshots' = [snapshots EXCEPT ![i] = files]
      /\ reviews' = [reviews EXCEPT ![t] = NextReview(reviews[t])]
      /\ UNCHANGED now

PassAttempt(i, files) == PassAgain(i) \/ PassFirst(i, files)

Next ==
  \/ AdvanceClock
  \/ \E t \in Tasks : StartAttempt(t) \/ AbandonOpen(t)
  \/ \E i \in Ids :
       \/ AbandonAttempt(i)
       \/ \E d \in Beats : AddActive(i, d)
       \/ \E passed \in BOOLEAN : RecordRun(i, passed)
       \/ \E files \in Files : PassAttempt(i, files)

Spec == Init /\ [][Next]_vars

------------------------------------------------------------------------------
(* Properties. *)

\* Every row has the type its table declares.
TypeOK ==
  /\ now \in Times
  /\ attempts \in Seq(Attempt)
  /\ Len(attempts) <= MaxAttempts
  /\ snapshots \in [1 .. MaxAttempts -> Files \cup {NoFiles}]
  /\ reviews \in [Tasks -> Review]

\* StartAttempt leaves at most one open attempt per task, whatever the clock
\* does: the INSERT can never hit the unique index idx_attempts_one_open.
OneOpenAttempt ==
  \A i, j \in Ids :
    /\ attempts[i].status = "in_progress"
    /\ attempts[j].status = "in_progress"
    /\ attempts[i].task = attempts[j].task
    => i = j

\* The review row of a task counts exactly its solved attempts: repeated green
\* runs, abandons and restarts never move the schedule, and no solve is missed.
ReviewCountsSolves ==
  \A t \in Tasks :
    /\ reviews[t].passCount = Cardinality(PassedOf(t))
    /\ reviews[t].exists <=> PassedOf(t) # {}

\* Where a task stands on the ladder is determined by how often it was solved,
\* and it comes due exactly the rung's gap after the day of its last solve.
ScheduleFollowsLadder ==
  \A t \in Tasks :
    LET r == reviews[t]
    IN  /\ r.stage = Clamp(r.passCount)
        /\ r.exists => r.due = DayOf(r.lastPassed) + IntervalDays(r.passCount - 1)

\* A code snapshot exists exactly for the attempts that went green (the
\* journal shows it next to the reference solution).
SnapshotIffSolved ==
  \A i \in 1 .. MaxAttempts :
    snapshots[i] # NoFiles <=> i \in Ids /\ attempts[i].status = "passed"

\* Once an attempt is green nothing rewrites what it records of the solve - the task,
\* the status, the clocks, the day and the snapshot; only the run counters go on.
SameSolve(i) ==
  /\ attempts'[i].status = "passed"
  /\ attempts'[i].task = attempts[i].task
  /\ attempts'[i].day = attempts[i].day
  /\ attempts'[i].started = attempts[i].started
  /\ attempts'[i].finished = attempts[i].finished
  /\ attempts'[i].duration = attempts[i].duration
  /\ attempts'[i].active = attempts[i].active
  /\ snapshots'[i] = snapshots[i]

SolveIsFrozen == [][\A i \in Ids : attempts[i].status = "passed" => SameSolve(i)]_vars

\* The schedule the store keeps is the one Practice promises: only a solve moves
\* it, by one rung per solve and from the day of that solve, and restarting or
\* letting an attempt go stale is invisible to it.
Calendar == {DayOf(t) : t \in Times}

Working == {t \in Tasks : OpenOf(t) # {}}

SolveCounts == [t \in Tasks |-> reviews[t].passCount]

DueDays == [t \in Tasks |-> reviews[t].due]

Practice == INSTANCE Practice WITH
  Days <- Calendar, today <- DayOf(now), working <- Working, solves <- SolveCounts, due <- DueDays

ImplementsPractice == Practice!Spec
==============================================================================
