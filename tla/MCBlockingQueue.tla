--------------------------- MODULE MCBlockingQueue ---------------------------
(* BlockingQueue for TLC: threads are interchangeable, and so are the items *)
(* but for those that are copied.  The items bound the pushes; the number   *)
(* of other calls is not bounded.                                           *)
EXTENDS BlockingQueue, TLC

Symmetry == Permutations(Threads) \cup Permutations(Items \ Copied)

=============================================================================
