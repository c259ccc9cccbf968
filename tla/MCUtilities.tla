---------------------------- MODULE MCUtilities ----------------------------
(***************************************************************************)
(* ErrorMessage, GuardStack and FileRead for TLC.  They share nothing, and *)
(* each behaviour is one of them.                                          *)
(***************************************************************************)
EXTENDS ErrorMessage, GuardStack, FileRead, TLC

VARIABLE utility

\* An unknown line, the first one, and another.
SomeLines == {-1, 0, 12}

\* Every line end that three characters have room for, a lone CR and a lone LF,
\* and an end of the text in front of more.
SomeContents == UNION {[1..n -> {"a", "CR", "LF", "mark"}] : n \in 0..3}

\* Nothing tells variables, files, words or values apart.
Symmetry ==
  Permutations(Slots) \cup Permutations(Files) \cup Permutations(Words) \cup Permutations(Values)

allVars == <<utility, vars, guardVars, fileVars>>

UtilitiesInit ==
  /\ utility \in {"error", "guard", "file"}
  /\ Init
  /\ GuardInit
  /\ FileInit /\ (utility # "file" => file = NoFile /\ ~windows)

UtilitiesNext ==
  /\ UNCHANGED utility
  /\ \/ utility = "error" /\ Next /\ UNCHANGED <<guardVars, fileVars>>
     \/ utility = "guard" /\ GuardNext /\ UNCHANGED <<vars, fileVars>>
     \/ utility = "file" /\ FileNext /\ UNCHANGED <<vars, guardVars>>

UtilitiesSpec == UtilitiesInit /\ [][UtilitiesNext]_allVars

=============================================================================
