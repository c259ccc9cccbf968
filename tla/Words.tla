------------------------------- MODULE Words -------------------------------
(***************************************************************************)
(* The unsigned type of Width bits that the numeric helpers work with: a   *)
(* value is the natural number its pattern of ones reads as, a conversion  *)
(* keeps the lowest bits, and the bitwise operators of the language work   *)
(* on each place alone.                                                    *)
(***************************************************************************)
EXTENDS Integers, FiniteSetsExt

CONSTANT Width   \* the number of bits

ASSUME WidthAssumption == Width \in Nat \ {0}

Bits == 0 .. 2^Width - 1

\* static_cast to the type.
Cast(n) == n % 2^Width

Places == 0 .. Width - 1

\* The places at which a number has a one, and the value with these ones.
Ones(n) == {k \in Places : (n \div 2^k) % 2 = 1}
Word(ones) == CHOOSE n \in Bits : Ones(n) = ones

a | b == Word(Ones(a) \cup Ones(b))
a & b == Word(Ones(a) \cap Ones(b))
a ^^ b == Word(SymDiff(Ones(a), Ones(b)))

shiftR(n, shift) == n \div 2^shift

=============================================================================
