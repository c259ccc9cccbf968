---------------------------- MODULE AlmostEquals ----------------------------
(***************************************************************************)
(* google/AlmostEquals.h: two floating-point numbers are almost equal when *)
(* they are at most kMaxUlps representable numbers apart, decided from     *)
(* their bit patterns: a sign bit, then exponent bits, then fraction bits. *)
(* A pattern is the natural number it reads as, and the width of the type  *)
(* is given by how many patterns exponent and fraction have.               *)
(***************************************************************************)
EXTENDS Integers, FiniteSets

CONSTANTS FractionSize,  \* 2^kFractionBitCount
          ExponentSize,  \* 2^kExponentBitCount
          kMaxUlps

ASSUME FractionSizeAssumption == FractionSize \in Nat \ {0}
ASSUME ExponentSizeAssumption == ExponentSize \in Nat \ {0}
ASSUME MaxUlpsAssumption == kMaxUlps \in Nat

VARIABLES first, second,  \* the arguments of almost_equal
          apart,          \* what DistanceBetweenSignAndMagnitudeNumbers returned
          answer          \* what almost_equal returned

vars == <<first, second, apart, answer>>

kSignBitMask == FractionSize * ExponentSize
kExponentBitMask == kSignBitMask - FractionSize

Bits == 0 .. 2 * kSignBitMask - 1
NotComputed == -1

\* Arithmetic of the unsigned type Bits.
Wrap(n) == n % (2 * kSignBitMask)
Complement(b) == 2 * kSignBitMask - 1 - b

sign_bit(b) == IF b < kSignBitMask THEN 0 ELSE kSignBitMask
fraction_bits(b) == b % FractionSize
exponent_bits(b) == b - sign_bit(b) - fraction_bits(b)

is_nan(b) == exponent_bits(b) = kExponentBitMask /\ fraction_bits(b) # 0

\* The bits a FloatingPoint holds that is made from b: the processor may
\* replace a NaN with another one.
Held(b) == IF is_nan(b) THEN {c \in Bits : is_nan(c)} ELSE {b}

\* Fault: the ones' complement, which tells -0 from +0.
OnesComplementToBiased(sam) ==
  IF sign_bit(sam) # 0 THEN Complement(sam) ELSE kSignBitMask + sam

SignAndMagnitudeToBiased(sam) ==
  IF sign_bit(sam) # 0 THEN Wrap(Complement(sam) + 1) ELSE kSignBitMask + sam

\* Fault: the unsigned difference, whichever is larger.
UnorderedDistance(sam1, sam2) ==
  Wrap(SignAndMagnitudeToBiased(sam1) - SignAndMagnitudeToBiased(sam2))

DistanceBetweenSignAndMagnitudeNumbers(sam1, sam2) ==
  LET biased1 == SignAndMagnitudeToBiased(sam1)
      biased2 == SignAndMagnitudeToBiased(sam2)
  IN  IF biased1 >= biased2 THEN biased1 - biased2 ELSE biased2 - biased1

Init ==
  /\ first \in Bits /\ second \in Bits
  /\ apart = NotComputed
  /\ answer = "none"

\* Fault: a NaN on the right is not noticed.
CompareUnlessLeftNan(a, b) ==
  /\ IF is_nan(a)
       THEN apart' = apart /\ answer' = "no"
       ELSE /\ apart' = DistanceBetweenSignAndMagnitudeNumbers(a, b)
            /\ answer' = IF apart' <= kMaxUlps THEN "yes" ELSE "no"
  /\ UNCHANGED <<first, second>>

\* FloatingPoint::AlmostEquals, with a and b the bits of *this and rhs.
Compare(a, b) ==
  /\ IF is_nan(a) \/ is_nan(b)
       THEN apart' = apart /\ answer' = "no"
       ELSE /\ apart' = DistanceBetweenSignAndMagnitudeNumbers(a, b)
            /\ answer' = IF apart' <= kMaxUlps THEN "yes" ELSE "no"
  /\ UNCHANGED <<first, second>>

\* ltb::util::almost_equal(first, second).
almost_equal ==
  /\ answer = "none"
  /\ \E a \in Held(first), b \in Held(second) : Compare(a, b)

Next == almost_equal

Spec == Init /\ [][Next]_vars

----------------------------------------------------------------------------
(* What the answer means. *)

\* The place of a number, no NaN, among all of them: 0 for both zeros.
Ordinal(b) == IF b < kSignBitMask THEN b ELSE kSignBitMask - b

Difference(m, n) == IF m >= n THEN m - n ELSE n - m

\* The value of a number, in units of the smallest positive one.  Infinity is
\* what would come next after the largest finite number.
Value(b) ==
  LET magnitude == b - sign_bit(b)
      fraction == magnitude % FractionSize
      exponent == magnitude \div FractionSize
      size == IF exponent = 0 THEN fraction
              ELSE (FractionSize + fraction) * 2^(exponent - 1)
  IN  IF sign_bit(b) = 0 THEN size ELSE -size

\* How many representable values one passes on the way from a to b.
UlpsApart(a, b) ==
  LET low == IF Value(a) <= Value(b) THEN Value(a) ELSE Value(b)
      high == IF Value(a) <= Value(b) THEN Value(b) ELSE Value(a)
  IN  Cardinality({v \in {Value(c) : c \in {d \in Bits : ~is_nan(d)}} :
                     low < v /\ v <= high})

\* Type invariant.  The distance is that of two numbers which are not NaN: at
\* most from one infinity to the other, so the unsigned difference never wraps.
TypeOK ==
  /\ first \in Bits /\ second \in Bits
  /\ apart \in {NotComputed} \cup (0 .. 2 * kExponentBitMask)
  /\ answer \in {"none", "yes", "no"}

\* The answer is yes exactly for two numbers that are at most kMaxUlps places
\* apart in the order of the numbers, and no if one of them is a NaN.
AnswersByPlace ==
  answer # "none" =>
    (answer = "yes" <=> /\ ~is_nan(first) /\ ~is_nan(second)
                        /\ Difference(Ordinal(first), Ordinal(second)) <= kMaxUlps)

\* The same in terms of values: at most kMaxUlps representable values are
\* passed between the two.  It counts both zeros as one value, works across
\* zero and the denormalized numbers, and has the largest finite numbers
\* almost equal to infinity.
AnswersByUlps ==
  answer # "none" =>
    (answer = "yes" <=> /\ ~is_nan(first) /\ ~is_nan(second)
                        /\ UlpsApart(first, second) <= kMaxUlps)

=============================================================================
