--------------------------- MODULE MCAlmostEquals ---------------------------
(* AlmostEquals for TLC: a type with three exponent and two fraction bits. *)
EXTENDS AlmostEquals

=============================================================================
