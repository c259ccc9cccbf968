---------------------------- MODULE MCAtomicData ----------------------------
(* AtomicData for TLC: threads and values are interchangeable. *)
EXTENDS AtomicData, TLC

AllPredicates == SUBSET Values
Symmetry == Permutations(Threads) \cup Permutations(Values)

=============================================================================
