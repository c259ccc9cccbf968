--------------------------- MODULE MCErrorMessage ---------------------------
(* ErrorMessage for TLC: an unknown line, the first one, and another. *)
EXTENDS ErrorMessage, TLC

SomeLines == {-1, 0, 12}

\* Nothing tells variables, files or words apart.
Symmetry == Permutations(Slots) \cup Permutations(Files) \cup Permutations(Words)

=============================================================================
