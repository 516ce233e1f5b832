--------------------------------- MODULE Srs ---------------------------------
(***************************************************************************)
(* The spaced repetition policy of internal/srs: a fixed ladder of gaps,   *)
(* in days.  Rungs are numbered from 0 as in the code.  The module has no  *)
(* state; Store uses it for the schedule a solve leaves behind.            *)
(***************************************************************************)
EXTENDS Integers

Ladder == [rung \in 0 .. 3 |-> IF rung = 0 THEN 1
                               ELSE IF rung = 1 THEN 3
                               ELSE IF rung = 2 THEN 7 ELSE 21]

TopRung == 3

\* A stage forced onto the ladder: min(max(stage, 0), len(Ladder)-1).
Clamp(stage) == IF stage < 0 THEN 0 ELSE IF stage > TopRung THEN TopRung ELSE stage

\* The gap that will follow the next green run at this stage.
IntervalDays(stage) == Ladder[Clamp(stage)]

\* The schedule after a green run on the given day.  The last rung repeats.
Advance(stage, today) ==
  [stage |-> Clamp(Clamp(stage) + 1), due |-> today + IntervalDays(stage)]

Mastered(review) == review.exists /\ review.stage >= TopRung
==============================================================================
