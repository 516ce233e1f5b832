------------------------------ MODULE MCEditor ------------------------------
(* Two screens of one task, interchangeable. *)
EXTENDS Editor, TLC

CONSTANTS s1, s2

Interchangeable == Permutations({s1, s2})
==============================================================================
