------------------------------ MODULE MCRunner ------------------------------
(* Runner with two or three runs competing for one or two slots. *)
EXTENDS Runner

CONSTANTS r1, r2, r3
==============================================================================
