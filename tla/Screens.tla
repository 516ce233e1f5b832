------------------------------- MODULE Screens -------------------------------
(***************************************************************************)
(* What the home and review screens read from the store: the queries of    *)
(* internal/store/reviews.go and the handlers handleToday and handleReview *)
(* that show them.  Nothing here writes: the state is Store's, and which   *)
(* tasks the mirror table marks as deleted (SyncTasks of tasks.go, whose    *)
(* steps module Catalog takes apart).                                      *)
(*                                                                         *)
(* Tasks are numbers, in the order of their ids.                           *)
(***************************************************************************)
EXTENDS Store, FiniteSetsExt

CONSTANTS
  Topic,      \* per task
  Difficulty, \* per task, 1 .. 3
  Vanishing   \* tasks whose directories may be removed and put back

ASSUME ScreensAssumption ==
  /\ Tasks \subseteq Nat
  /\ Difficulty \in [Tasks -> 1 .. 3]
  /\ Vanishing \subseteq Tasks

VARIABLE deleted  \* tasks with deleted_at set

screenVars == <<vars, deleted>>

ScreensInit == Init /\ deleted = {}

\* The scan's SyncTasks: the mirror follows the directories, history stays.
SyncTasks == deleted' \in SUBSET Vanishing /\ UNCHANGED vars

ScreensNext == (Next /\ UNCHANGED deleted) \/ SyncTasks

ScreensSpec == ScreensInit /\ [][ScreensNext]_screenVars

Today == DayOf(now)

Passed == {i \in Ids : attempts[i].status = "passed"}

\* Mutant: everything that is scheduled is offered.
DueReviews_AnyDate(day) == {t \in Tasks \ deleted : reviews[t].exists}

\* Repetitions due on or before the day.
DueReviews(day) == {t \in Tasks \ deleted : reviews[t].exists /\ reviews[t].due <= day}

------------------------------------------------------------------------------
(* The one new task: least practised topic, then easiest, then by id. *)

Candidates == {t \in Tasks \ deleted : ~reviews[t].exists}

\* Mutant: every attempt counts as practice.
PassesInTopic_AnyStatus(topic) == Cardinality({i \in Ids : Topic[attempts[i].task] = topic})

PassesInTopic(topic) == Cardinality({i \in Passed : Topic[attempts[i].task] = topic})

Before(t, u) ==
  LET a == <<PassesInTopic(Topic[t]), Difficulty[t], t>>
      b == <<PassesInTopic(Topic[u]), Difficulty[u], u>>
  IN  \E k \in 1 .. 3 : a[k] < b[k] /\ \A j \in 1 .. k - 1 : a[j] = b[j]

\* The query's first row, if there is one.
PickNewTask == {t \in Candidates : \A u \in Candidates \ {t} : Before(t, u)}

------------------------------------------------------------------------------
(* Counters: an attempt belongs to the day it was started on. *)

SolvedToday(day) == Cardinality({attempts[i].task : i \in {j \in Passed : attempts[j].day = day}})

SolvedDays == {attempts[i].day : i \in {j \in Passed : attempts[j].day <= Today}}

\* Mutant: a day without practice yet breaks the streak at once.
StreakEnd_NoGrace == Today

\* Not having practised yet today does not break a streak.
StreakEnd == IF Today \in SolvedDays THEN Today ELSE Today - 1

\* The loop over the solved days, newest first, down to the first gap.
Streak ==
  LET back[d \in -2 .. Today] == IF d \in SolvedDays THEN 1 + back[d - 1] ELSE 0
  IN  back[StreakEnd]

\* The review screen's "in N days": the gap of the rung below.
NextInDays(t) == IntervalDays(reviews[t].stage - 1)

------------------------------------------------------------------------------
(* Properties. *)

\* A task that was just solved rests: it is not due again on the day of the
\* solve, and never before it, even when the clock is set back.
SolvedTasksRest ==
  \A t \in Tasks : reviews[t].exists =>
    \A day \in 0 .. DayOf(reviews[t].lastPassed) : t \notin DueReviews(day)

\* The home screen does not reshuffle its new task: reloading it, waiting,
\* starting, abandoning or running attempts leaves the choice alone; only a solve
\* or a scan of the directories moves it.
PickIsStable == [][Passed' = Passed /\ deleted' = deleted => PickNewTask' = PickNewTask]_screenVars

\* The streak is the longest stretch of solved days that ends today, or
\* yesterday while nothing was solved today yet.
StreakIsLongest ==
  LET stretches(end) == {n \in 0 .. Today + 1 : \A k \in 0 .. n - 1 : end - k \in SolvedDays}
  IN  Streak = Max({Max(stretches(Today)),
                    IF Today \in SolvedDays THEN 0 ELSE Max(stretches(Today - 1))})
==============================================================================
