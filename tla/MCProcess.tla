------------------------------ MODULE MCProcess ------------------------------
(* Processes of two binaries: one whose migrations skip a number and one that *)
(* fills it in later.                                                         *)
EXTENDS Process

MCBinaries == {{1, 3}, {1, 2, 3}}
==============================================================================
