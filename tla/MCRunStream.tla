----------------------------- MODULE MCRunStream -----------------------------
(* RunStream with one or two browsers and buffers of two to five events. *)
EXTENDS RunStream

CONSTANTS c1, c2
==============================================================================
