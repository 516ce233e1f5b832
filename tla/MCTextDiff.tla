----------------------------- MODULE MCTextDiff -----------------------------
(* All texts of up to six symbols: words of x, blank lines, with and without a *)
(* final newline.                                                              *)
EXTENDS TextDiff

CONSTANT MaxLength

MCTexts == UNION {[1 .. n -> {"x", Newline}] : n \in 0 .. MaxLength}
==============================================================================
