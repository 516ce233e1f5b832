------------------------------- MODULE Practice -------------------------------
(***************************************************************************)
(* What the store promises its callers, with no attempts table in sight:   *)
(* a task is being worked on or not, it has been solved a number of times, *)
(* and it is due again the ladder's gap after its latest solve.  Store     *)
(* implements this module (Store!Practice).                                *)
(***************************************************************************)
EXTENDS Integers

CONSTANTS
  Tasks,  \* task ids
  Days    \* days the calendar may show

VARIABLES
  today,   \* the calendar, which the user may also set back
  working, \* tasks with an open attempt
  solves,  \* how often each task was solved
  due      \* the day each task comes due; 0 while it was never solved

vars == <<today, working, solves, due>>

INSTANCE Srs

Init ==
  /\ today \in Days
  /\ working = {}
  /\ solves = [t \in Tasks |-> 0]
  /\ due = [t \in Tasks |-> 0]

TurnCalendar == today' \in Days /\ UNCHANGED <<working, solves, due>>

Begin(t) ==
  /\ t \notin working
  /\ working' = working \cup {t}
  /\ UNCHANGED <<today, solves, due>>

Drop(t) ==
  /\ t \in working
  /\ working' = working \ {t}
  /\ UNCHANGED <<today, solves, due>>

\* A solve closes the attempt it belongs to, which is the open one or one that
\* was dropped before its run came back green.
Solve(t) ==
  /\ working' \in {working, working \ {t}}
  /\ solves' = [solves EXCEPT ![t] = @ + 1]
  /\ due' = [due EXCEPT ![t] = today + IntervalDays(solves[t])]
  /\ UNCHANGED today

Next == TurnCalendar \/ \E t \in Tasks : Begin(t) \/ Drop(t) \/ Solve(t)

Spec == Init /\ [][Next]_vars
==============================================================================
