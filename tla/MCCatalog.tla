------------------------------ MODULE MCCatalog ------------------------------
(* Catalog with one or two task directories and one browser. *)
EXTENDS Catalog

CONSTANTS v1, v2, c1
==============================================================================
