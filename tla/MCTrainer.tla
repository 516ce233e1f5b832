------------------------------ MODULE MCTrainer ------------------------------
(* Trainer with one task and two runs, at one or two instants of the clock. *)
EXTENDS Trainer

CONSTANTS t1, f1, f2, r1, r2
==============================================================================
