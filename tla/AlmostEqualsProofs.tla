------------------------ MODULE AlmostEqualsProofs ------------------------
(***************************************************************************)
(* AlmostEquals for every width of exponent and fraction: the unsigned     *)
(* arithmetic on the patterns neither wraps nor loses a place.             *)
(***************************************************************************)
EXTENDS AlmostEquals, FiniteSetTheorems, TLAPS

\* There is a sign bit, and the bits of infinity are no negative number.
LEMMA MasksAreNaturals ==
  /\ kSignBitMask \in Nat \ {0}
  /\ kExponentBitMask \in Nat
  /\ kExponentBitMask < kSignBitMask
  /\ kExponentBitMask = FractionSize * (ExponentSize - 1)
PROOF
<1>1. FractionSize \in Nat \ {0} /\ ExponentSize \in Nat \ {0}
  BY FractionSizeAssumption, ExponentSizeAssumption
<1>2. FractionSize * ExponentSize \in Nat \ {0}
  BY <1>1
<1>3. /\ FractionSize * (ExponentSize - 1) = FractionSize * ExponentSize - FractionSize
      /\ FractionSize * (ExponentSize - 1) \in Nat
  BY <1>1
<1> QED
  BY <1>1, <1>2, <1>3 DEF kSignBitMask, kExponentBitMask

\* The biased representation of a number is its place, counted from the sign
\* bit: SignAndMagnitudeToBiased never wraps, not even for -0.
LEMMA BiasedIsOrdinal ==
  ASSUME NEW b \in Bits
  PROVE  /\ SignAndMagnitudeToBiased(b) = kSignBitMask + Ordinal(b)
         /\ Ordinal(b) \in Int
         /\ -kSignBitMask < Ordinal(b) /\ Ordinal(b) < kSignBitMask
PROOF
<1> DEFINE N == kSignBitMask
<1>1. N \in Nat \ {0} /\ b \in 0 .. 2 * N - 1
  BY MasksAreNaturals DEF Bits
<1> HIDE DEF N
<1>2. CASE b < N
  BY <1>1, <1>2 DEF SignAndMagnitudeToBiased, sign_bit, Ordinal, N
<1>3. CASE ~(b < N)
  <2>1. Complement(b) + 1 = 2 * N - b /\ 2 * N - b \in 0 .. 2 * N - 1
    BY <1>1, <1>3 DEF Complement, N
  <2>2. \A k \in 0 .. 2 * N - 1 : k % (2 * N) = k
    BY <1>1
  <2>3. Wrap(Complement(b) + 1) = 2 * N - b
    BY <2>1, <2>2 DEF Wrap, N
  <2> QED
    BY <1>1, <1>3, <2>3 DEF SignAndMagnitudeToBiased, sign_bit, Ordinal, N
<1> QED
  BY <1>2, <1>3

\* The distance of two patterns is the distance of their places.
LEMMA DistanceIsDifference ==
  ASSUME NEW a \in Bits, NEW b \in Bits
  PROVE  DistanceBetweenSignAndMagnitudeNumbers(a, b)
           = Difference(Ordinal(a), Ordinal(b))
PROOF
<1>1. /\ SignAndMagnitudeToBiased(a) = kSignBitMask + Ordinal(a)
      /\ SignAndMagnitudeToBiased(b) = kSignBitMask + Ordinal(b)
      /\ Ordinal(a) \in Int /\ Ordinal(b) \in Int /\ kSignBitMask \in Int
  BY BiasedIsOrdinal, MasksAreNaturals
<1> QED
  BY <1>1 DEF DistanceBetweenSignAndMagnitudeNumbers, Difference

\* The fraction is what remains of a pattern after whole steps of the exponent.
LEMMA DivisionWithRemainder ==
  ASSUME NEW F \in Nat \ {0}, NEW b \in Nat
  PROVE  b \div F \in Int /\ b % F \in 0 .. F - 1 /\ b = F * (b \div F) + (b % F)
PROOF
  OBVIOUS

\* A common factor keeps the order.
LEMMA FactorCancels ==
  ASSUME NEW F \in Nat \ {0}, NEW p \in Int, NEW s \in Int, F * p < F * s
  PROVE  p < s
PROOF
<1>1. SUFFICES ASSUME p >= s PROVE F * p >= F * s
  OBVIOUS
<1>2. PICK d \in Nat : p = s + d
  BY <1>1
<1>3. F * p = F * s + F * d /\ F * d \in Nat /\ F * s \in Int
  BY <1>2
<1> QED
  BY <1>3

\* The magnitude of any pattern is at most that of infinity if the fraction is
\* zero or the exponent is not the last one.
LEMMA LastExponent ==
  ASSUME NEW F \in Nat \ {0}, NEW S \in Nat \ {0}, NEW p \in Int, NEW r \in 0 .. F - 1,
         F * p + r < F * S, F * p + r > F * (S - 1)
  PROVE  p = S - 1
PROOF
<1>1. F * p \in Int /\ F * S \in Int /\ F * (S - 1) \in Int /\ F * (p + 1) = F * p + F
  OBVIOUS
<1>2. F * p < F * S /\ F * (S - 1) < F * (p + 1)
  BY <1>1
<1>3. p < S /\ S - 1 < p + 1
  BY <1>2, FactorCancels
<1> QED
  BY <1>3

\* Beyond infinity there are only NaNs.
LEMMA NumbersEndAtInfinity ==
  ASSUME NEW b \in Bits, ~is_nan(b)
  PROVE  -kExponentBitMask <= Ordinal(b) /\ Ordinal(b) <= kExponentBitMask
PROOF
<1> DEFINE F == FractionSize
           S == ExponentSize
           m == b - sign_bit(b)
           r == b % F
<1>1. F \in Nat \ {0} /\ S \in Nat \ {0} /\ kSignBitMask = F * S /\ F * S \in Nat \ {0}
  BY FractionSizeAssumption, ExponentSizeAssumption, MasksAreNaturals DEF kSignBitMask
<1>2. b \in 0 .. 2 * (F * S) - 1
  BY <1>1 DEF Bits
<1>3. b \div F \in Int /\ r \in 0 .. F - 1 /\ b = F * (b \div F) + r
  BY <1>1, <1>2, DivisionWithRemainder
<1>4. m \in 0 .. F * S - 1
  BY <1>1, <1>2 DEF sign_bit
<1>5. \E p \in Int : m = F * p + r
  <2>1. CASE b < kSignBitMask
    <3>1. m = b
      BY <2>1, <1>1, <1>2 DEF sign_bit
    <3> HIDE DEF m
    <3> QED
      BY <3>1, <1>3
  <2>2. CASE ~(b < kSignBitMask)
    <3>1. m = b - F * S
      BY <2>2, <1>1, <1>2 DEF sign_bit
    <3>2. \A k \in Int : F * (k - S) = F * k - F * S
      BY <1>1
    <3> DEFINE k == b \div F
    <3>3. m = F * (k - S) + r /\ k - S \in Int
      <4>1. k \in Int /\ b = F * k + r
        BY <1>3
      <4>2. F * (k - S) = F * k - F * S
        BY <4>1, <3>2
      <4> HIDE DEF k
      <4> QED
        BY <4>1, <4>2, <3>1, <1>1, <1>3
    <3> HIDE DEF k, m
    <3> QED
      BY <3>3
  <2> QED
    BY <2>1, <2>2
<1>6. kExponentBitMask = F * (S - 1) /\ kExponentBitMask \in Nat
  BY MasksAreNaturals
<1> HIDE DEF m, r, F, S
<1>7. m <= kExponentBitMask
  <2>1. SUFFICES ASSUME m > kExponentBitMask
                 PROVE  is_nan(b)
    BY <1>1, <1>4, <1>6
  <2>2. PICK p \in Int : m = F * p + r
    BY <1>5
  <2>3. p = S - 1
    BY <2>1, <2>2, <1>1, <1>3, <1>4, <1>6, LastExponent
  <2>4. m = kExponentBitMask + r
    BY <2>2, <2>3, <1>6
  <2>5. exponent_bits(b) = kExponentBitMask
    BY <2>4, <1>3, <1>6, <1>1 DEF exponent_bits, fraction_bits, m, r, F
  <2>6. r # 0
    BY <2>1, <2>4, <1>6
  <2> QED
    BY <2>5, <2>6 DEF is_nan, fraction_bits, r, F
<1>8. Ordinal(b) = m \/ Ordinal(b) = -m
  BY <1>1, <1>2 DEF Ordinal, sign_bit, m
<1> QED
  BY <1>1, <1>4, <1>6, <1>7, <1>8

\* Replacing a NaN by another one changes nothing that is asked of it.
LEMMA HeldIsAsGood ==
  ASSUME NEW b \in Bits, NEW c \in Held(b)
  PROVE  c \in Bits /\ (is_nan(c) <=> is_nan(b)) /\ (is_nan(b) \/ c = b)
PROOF
  BY DEF Held

----------------------------------------------------------------------------

\* A function that hits everything, and nothing twice.
LEMMA OneToOne ==
  ASSUME NEW S, NEW T, NEW f \in [S -> T],
         \A x, y \in S : f[x] = f[y] => x = y,
         \A t \in T : \E x \in S : f[x] = t
  PROVE  ExistsBijection(S, T)
PROOF
<1>1. f \in Injection(S, T) /\ f \in Surjection(S, T)
  BY DEF Injection, Surjection, IsInjective
<1> QED
  BY <1>1 DEF ExistsBijection, Bijection

\* 2^k is how many subsets k elements have: this is all that is known of powers.
LEMMA PowersCountSubsets ==
  ASSUME NEW k \in Nat
  PROVE  /\ IsFiniteSet(SUBSET (1..k))
         /\ Cardinality(SUBSET (1..k)) = 2^k
         /\ 2^k \in Nat \ {0}
PROOF
<1>1. IsFiniteSet(1..k) /\ Cardinality(1..k) = k
  BY FS_Interval
<1>2. IsFiniteSet(SUBSET (1..k)) /\ Cardinality(SUBSET (1..k)) = 2^k
  BY <1>1, FS_SUBSET
<1>3. Cardinality(SUBSET (1..k)) \in Nat
  BY <1>2, FS_CardinalityType
<1>4. Cardinality(SUBSET (1..k)) # 0
  <2>1. {} \in SUBSET (1..k)
    OBVIOUS
  <2> QED
    BY <1>2, <2>1, FS_EmptySet
<1> QED
  BY <1>2, <1>3, <1>4

\* A greater power is at least as large.
LEMMA PowersGrow ==
  ASSUME NEW j \in Nat, NEW k \in Nat, j <= k
  PROVE  2^j <= 2^k
PROOF
<1>1. SUBSET (1..j) \in SUBSET (SUBSET (1..k))
  <2>1. 1..j \subseteq 1..k
    OBVIOUS
  <2> QED
    BY <2>1
<1>2. Cardinality(SUBSET (1..j)) <= Cardinality(SUBSET (1..k))
  BY <1>1, PowersCountSubsets, FS_Subset
<1> QED
  BY <1>2, PowersCountSubsets

\* One more element can be in a subset or not.
LEMMA PowersDouble ==
  ASSUME NEW k \in Nat
  PROVE  2^(k + 1) = 2 * 2^k
PROOF
<1> DEFINE A == SUBSET (1..k)
           Both == SUBSET (1..k + 1)
           B == Both \ A
           f == [U \in A |-> U \cup {k + 1}]
<1>1. Both = A \cup B /\ A \cap B = {}
  <2>1. A \subseteq Both
    <3>1. 1..k \subseteq 1..k + 1
      OBVIOUS
    <3> QED
      BY <3>1
  <2> HIDE DEF A, Both
  <2> QED
    BY <2>1
<1>2. ExistsBijection(A, B)
  <2>1. f \in [A -> B]
    OBVIOUS
  <2>2. \A U, V \in A : f[U] = f[V] => U = V
    <3> SUFFICES ASSUME NEW U \in A, NEW V \in A, f[U] = f[V]
                 PROVE  U = V
      OBVIOUS
    <3>1. k + 1 \notin U /\ k + 1 \notin V
      OBVIOUS
    <3>2. U \cup {k + 1} = V \cup {k + 1}
      OBVIOUS
    <3> QED
      BY <3>1, <3>2
  <2>3. \A W \in B : \E U \in A : f[U] = W
    <3> SUFFICES ASSUME NEW W \in B
                 PROVE  \E U \in A : f[U] = W
      OBVIOUS
    <3>1. W \ {k + 1} \in A
      OBVIOUS
    <3>2. k + 1 \in W
      BY <3>1
    <3>3. (W \ {k + 1}) \cup {k + 1} = W
      BY <3>2
    <3> QED
      BY <3>1, <3>3
  <2> HIDE DEF A, B, f
  <2> QED
    BY <2>1, <2>2, <2>3, OneToOne
<1>3. IsFiniteSet(A) /\ Cardinality(A) = 2^k
  BY PowersCountSubsets
<1> HIDE DEF A, B
<1>4. IsFiniteSet(B) /\ Cardinality(B) = 2^k
  BY <1>2, <1>3, FS_Bijection
<1>5. Cardinality(A \cup B) = 2^k + 2^k - 0
  BY <1>1, <1>3, <1>4, FS_Union, FS_EmptySet
<1>6. Cardinality(Both) = 2^(k + 1)
  <2>1. k + 1 \in Nat
    OBVIOUS
  <2> QED
    BY <2>1, PowersCountSubsets, Zenon
<1>7. 2^k \in Nat
  BY PowersCountSubsets
<1>8. 2^k + 2^k - 0 = 2 * 2^k
  BY <1>7
<1> QED
  BY <1>1, <1>5, <1>6, <1>8, Zenon

----------------------------------------------------------------------------

\* The value of a number without its sign, by exponent and fraction.
SizeOf(exponent, fraction) ==
  IF exponent = 0 THEN fraction ELSE (FractionSize + fraction) * 2^(exponent - 1)

\* The same, from the pattern without its sign bit.
Size(magnitude) == SizeOf(magnitude \div FractionSize, magnitude % FractionSize)

\* The value of the number in this place.
ValueAt(o) == IF o >= 0 THEN Size(o) ELSE -Size(-o)

\* With each exponent the fractions go on where those of the one before ended.
LEMMA ExponentsContinue ==
  ASSUME NEW e \in Nat, NEW f \in 0 .. FractionSize - 1
  PROVE  /\ SizeOf(e, f) \in Nat
         /\ SizeOf(e, f) < FractionSize * 2^e
         /\ e > 0 => FractionSize * 2^(e - 1) <= SizeOf(e, f)
         /\ \A g \in 0 .. FractionSize - 1 : f < g => SizeOf(e, f) < SizeOf(e, g)
PROOF
<1> DEFINE F == FractionSize
<1>1. F \in Nat \ {0}
  BY FractionSizeAssumption
<1>2. CASE e = 0
  <2>1. 2^0 \in Nat \ {0}
    BY PowersCountSubsets
  <2> DEFINE p == 2^0
  <2> HIDE DEF p, F
  <2>2. F * p >= F
    BY <1>1, <2>1 DEF p
  <2>3. SizeOf(e, f) = f /\ f \in Nat /\ f < F * p
    BY <1>1, <1>2, <2>1, <2>2 DEF SizeOf, F, p
  <2>4. \A g \in 0 .. F - 1 : SizeOf(e, g) = g
    BY <1>2 DEF SizeOf
  <2> QED
    BY <1>1, <1>2, <2>3, <2>4 DEF F, p
<1>3. CASE e > 0
  <2> DEFINE k == e - 1
             p == 2^k
             q == 2^e
  <2>1. k \in Nat /\ k + 1 = e
    BY <1>3
  <2>2. p \in Nat \ {0} /\ q = 2 * p
    <3> HIDE DEF k
    <3>1. 2^k \in Nat \ {0} /\ 2^(k + 1) = 2 * 2^k
      BY <2>1, PowersCountSubsets, PowersDouble
    <3> QED
      BY <2>1, <3>1
  <2>3. \A g \in 0 .. F - 1 : SizeOf(e, g) = (F + g) * p
    BY <1>3 DEF SizeOf
  <2> HIDE DEF F, k, p, q
  <2>4. f \in 0 .. F - 1
    BY DEF F
  <2>5. (F + f) * p \in Nat /\ (F + f) * p < F * q /\ F * p <= (F + f) * p
    <3>1. F + f < 2 * F /\ F <= F + f /\ F + f \in Nat
      BY <1>1, <2>4
    <3>2. \A a, b, c \in Nat : a < b /\ c > 0 => a * c < b * c
      OBVIOUS
    <3>3. \A a, b, c \in Nat : a <= b => a * c <= b * c
      OBVIOUS
    <3>4. (F + f) * p < (2 * F) * p /\ F * p <= (F + f) * p
      BY <1>1, <2>2, <3>1, <3>2, <3>3
    <3>5. (2 * F) * p = F * q /\ (F + f) * p \in Nat
      BY <1>1, <2>2, <2>4
    <3> QED
      BY <3>4, <3>5
  <2>6. \A g \in 0 .. F - 1 : f < g => (F + f) * p < (F + g) * p
    BY <1>1, <2>2, <2>4
  <2> QED
    BY <1>3, <2>3, <2>4, <2>5, <2>6 DEF F, p, k, q
<1> QED
  BY <1>2, <1>3

\* A larger pattern without its sign bit is a larger number.
LEMMA SizesGrow ==
  ASSUME NEW m \in Nat
  PROVE  /\ Size(m) \in Nat
         /\ \A n \in Nat : m < n => Size(m) < Size(n)
PROOF
<1> DEFINE F == FractionSize
           e(k) == k \div F
           f(k) == k % F
<1>1. F \in Nat \ {0}
  BY FractionSizeAssumption
<1>2. \A k \in Nat : e(k) \in Nat /\ f(k) \in 0 .. F - 1 /\ k = F * e(k) + f(k)
  BY <1>1
<1>3. \A k \in Nat : Size(k) = SizeOf(e(k), f(k))
  BY DEF Size
<1> HIDE DEF F, e, f
<1>4. Size(m) \in Nat
  BY ZenonT(40), <1>2, <1>3, ExponentsContinue DEF F
<1>5. ASSUME NEW n \in Nat, m < n
      PROVE  Size(m) < Size(n)
  <2>1. /\ e(m) \in Nat /\ f(m) \in 0 .. F - 1 /\ m = F * e(m) + f(m)
        /\ e(n) \in Nat /\ f(n) \in 0 .. F - 1 /\ n = F * e(n) + f(n)
    BY <1>2
  <2>2. CASE e(m) = e(n)
    <3>1. f(m) < f(n)
      BY <1>5, <2>1, <2>2, <1>1
    <3> QED
      BY <1>3, <2>1, <2>2, <3>1, ExponentsContinue DEF F
  <2>3. CASE e(m) < e(n)
    <3>1. Size(m) < F * 2^e(m) /\ Size(m) \in Nat
      BY <1>3, <2>1, ExponentsContinue DEF F
    <3>2. F * 2^(e(n) - 1) <= Size(n) /\ Size(n) \in Nat
      <4>1. e(n) > 0
        BY <2>1, <2>3
      <4> QED
        BY <1>3, <2>1, <4>1, ExponentsContinue DEF F
    <3>3. F * 2^e(m) <= F * 2^(e(n) - 1) /\ F * 2^e(m) \in Nat /\ F * 2^(e(n) - 1) \in Nat
      <4> DEFINE j == e(m)
                 k == e(n) - 1
      <4>1. j \in Nat /\ k \in Nat /\ j <= k
        BY <2>1, <2>3
      <4> HIDE DEF j, k
      <4>2. 2^j \in Nat /\ 2^k \in Nat /\ 2^j <= 2^k
        BY <4>1, PowersCountSubsets, PowersGrow
      <4>3. \A a, b, c \in Nat : a <= b => c * a <= c * b /\ c * a \in Nat /\ c * b \in Nat
        OBVIOUS
      <4>4. F * 2^j <= F * 2^k /\ F * 2^j \in Nat /\ F * 2^k \in Nat
        BY <1>1, <4>2, <4>3
      <4> QED
        BY <4>4 DEF j, k
    <3> QED
      BY <3>1, <3>2, <3>3
  <2>4. ~(e(n) < e(m))
    <3> SUFFICES ASSUME e(n) < e(m)
                 PROVE  n < m
      BY <1>5
    <3>1. \A a, b \in Nat : a < b => F * a + F <= F * b
      BY <1>1
    <3>2. F * e(n) + F <= F * e(m) /\ F * e(n) \in Nat /\ F * e(m) \in Nat
      BY <1>1, <2>1, <3>1
    <3> QED
      BY <1>1, <2>1, <3>2
  <2> QED
    BY <2>1, <2>2, <2>3, <2>4
<1> QED
  BY <1>4, <1>5

\* A later place is a greater value, also from one side of zero to the other.
LEMMA ValuesGrow ==
  ASSUME NEW o \in Int, NEW p \in Int
  PROVE  /\ ValueAt(o) \in Int
         /\ o < p <=> ValueAt(o) < ValueAt(p)
         /\ o = p <=> ValueAt(o) = ValueAt(p)
PROOF
<1>1. Size(0) = 0
  BY FractionSizeAssumption DEF Size, SizeOf
<1>2. \A m \in Nat : Size(m) \in Nat /\ \A n \in Nat : m < n => Size(m) < Size(n)
  BY SizesGrow
<1>3. \A m \in Nat : m > 0 => Size(m) > 0
  BY <1>1, <1>2
<1>4. \A x, y \in Int : ValueAt(x) \in Int /\ (x < y => ValueAt(x) < ValueAt(y))
  <2> TAKE x, y \in Int
  <2>1. CASE x >= 0
    BY <1>2, <2>1 DEF ValueAt
  <2>2. CASE x < 0
    <3>1. -x \in Nat /\ -x > 0 /\ ValueAt(x) = -Size(-x) /\ Size(-x) \in Nat /\ Size(-x) > 0
      BY <1>2, <1>3, <2>2 DEF ValueAt
    <3>2. CASE y >= 0
      BY <1>2, <3>1, <3>2 DEF ValueAt
    <3>3. CASE y < 0
      <4>1. -y \in Nat /\ ValueAt(y) = -Size(-y) /\ Size(-y) \in Nat
        BY <1>2, <3>3 DEF ValueAt
      <4>2. x < y => Size(-y) < Size(-x)
        BY <1>2, <3>1, <4>1
      <4> QED
        BY <3>1, <4>1, <4>2
    <3> QED
      BY <3>2, <3>3
  <2> QED
    BY <2>1, <2>2
<1>5. /\ ValueAt(o) \in Int /\ ValueAt(p) \in Int
      /\ o < p => ValueAt(o) < ValueAt(p)
      /\ p < o => ValueAt(p) < ValueAt(o)
  BY <1>4
<1> QED
  BY <1>5

\* The value of a pattern is the value of its place.
LEMMA ValueIsThatOfPlace ==
  ASSUME NEW b \in Bits
  PROVE  Value(b) = ValueAt(Ordinal(b))
PROOF
<1> DEFINE N == kSignBitMask
<1>1. N \in Nat \ {0} /\ b \in 0 .. 2 * N - 1
  BY MasksAreNaturals DEF Bits
<1>2. CASE b < N
  <2>1. sign_bit(b) = 0 /\ b - 0 = b /\ Ordinal(b) = b /\ b >= 0
    BY <1>1, <1>2 DEF sign_bit, Ordinal
  <2> QED
    BY <2>1 DEF Value, ValueAt, Size, SizeOf
<1>3. CASE ~(b < N)
  <2>1. sign_bit(b) = N /\ N # 0 /\ Ordinal(b) = N - b /\ b - N \in Nat
    BY <1>1, <1>3 DEF sign_bit, Ordinal
  <2>2. Value(b) = -Size(b - N)
    BY <2>1 DEF Value, Size, SizeOf
  <2>3. CASE b = N
    <3>1. Size(0) = 0
      BY FractionSizeAssumption DEF Size, SizeOf
    <3>2. b - N = 0 /\ N - b = 0
      BY <1>1, <2>3
    <3> HIDE DEF N
    <3> QED
      BY <2>1, <2>2, <3>1, <3>2 DEF ValueAt
  <2>4. CASE b # N
    <3>1. ~(N - b >= 0) /\ -(N - b) = b - N
      BY <1>1, <1>3, <2>4
    <3> HIDE DEF N
    <3> QED
      BY <2>1, <2>2, <3>1 DEF ValueAt
  <2> QED
    BY <2>3, <2>4
<1> QED
  BY <1>2, <1>3

\* Every place between the infinities is that of a number.
LEMMA PlacesAreTaken ==
  ASSUME NEW o \in -kExponentBitMask .. kExponentBitMask
  PROVE  \E b \in Bits : ~is_nan(b) /\ Ordinal(b) = o
PROOF
<1> DEFINE N == kSignBitMask
           K == kExponentBitMask
<1>1. N \in Nat \ {0} /\ K \in Nat /\ K < N
  BY MasksAreNaturals
<1>2. \A b \in Nat : fraction_bits(b) \in Nat
  BY FractionSizeAssumption DEF fraction_bits
<1>3. CASE o >= 0
  <2>1. o \in Bits /\ sign_bit(o) = 0 /\ Ordinal(o) = o
    BY <1>1, <1>3 DEF Bits, sign_bit, Ordinal
  <2>2. ~is_nan(o)
    <3> SUFFICES ASSUME exponent_bits(o) = K, fraction_bits(o) # 0
                 PROVE  FALSE
      BY DEF is_nan
    <3>1. fraction_bits(o) \in Nat /\ o - 0 - fraction_bits(o) = K
      BY <1>2, <1>3, <2>1 DEF exponent_bits
    <3> QED
      BY <1>1, <3>1
  <2> QED
    BY <2>1, <2>2
<1>4. CASE o < 0
  <2> DEFINE b == N - o
  <2>1. b \in Bits /\ sign_bit(b) = N /\ Ordinal(b) = o /\ b \in Nat
    BY <1>1, <1>4 DEF Bits, sign_bit, Ordinal
  <2>2. ~is_nan(b)
    <3> SUFFICES ASSUME exponent_bits(b) = K, fraction_bits(b) # 0
                 PROVE  FALSE
      BY DEF is_nan
    <3>1. fraction_bits(b) \in Nat /\ b - N - fraction_bits(b) = K
      BY <1>2, <2>1 DEF exponent_bits
    <3> QED
      BY <1>1, <3>1
  <2> QED
    BY <2>1, <2>2
<1> QED
  BY <1>3, <1>4

\* The values passed on the way from a number to another are as many as places.
LEMMA PlacesCountUlps ==
  ASSUME NEW a \in Bits, NEW b \in Bits, ~is_nan(a), ~is_nan(b)
  PROVE  UlpsApart(a, b) = Difference(Ordinal(a), Ordinal(b))
PROOF
<1> DEFINE K == kExponentBitMask
           x == Ordinal(a)
           y == Ordinal(b)
           from == IF x <= y THEN x ELSE y
           to == IF x <= y THEN y ELSE x
           low == IF Value(a) <= Value(b) THEN Value(a) ELSE Value(b)
           high == IF Value(a) <= Value(b) THEN Value(b) ELSE Value(a)
           numbers == {d \in Bits : ~is_nan(d)}
           passed == {v \in {Value(c) : c \in numbers} : low < v /\ v <= high}
           f == [o \in from + 1 .. to |-> ValueAt(o)]
<1>1. K \in Nat /\ x \in -K .. K /\ y \in -K .. K
  BY MasksAreNaturals, NumbersEndAtInfinity, BiasedIsOrdinal
<1>2. /\ from \in -K .. K /\ to \in -K .. K /\ from <= to
      /\ to - from = Difference(x, y)
  <2> HIDE DEF x, y, K
  <2> QED
    BY <1>1 DEF Difference
<1>3. low = ValueAt(from) /\ high = ValueAt(to)
  <2>1. Value(a) = ValueAt(x) /\ Value(b) = ValueAt(y)
    BY ValueIsThatOfPlace
  <2>2. x \in Int /\ y \in Int
    BY <1>1
  <2> HIDE DEF x, y
  <2>3. /\ ValueAt(x) \in Int /\ ValueAt(y) \in Int
        /\ x <= y <=> ValueAt(x) <= ValueAt(y)
    BY <2>2, ValuesGrow
  <2> QED
    BY <2>1, <2>3
<1>4. \A v : v \in passed <=> \E o \in from + 1 .. to : v = ValueAt(o)
  <2> HIDE DEF low, high, from, to, K, x, y
  <2>1. ASSUME NEW v, v \in passed
        PROVE  \E o \in from + 1 .. to : v = ValueAt(o)
    <3>1. PICK c \in Bits : ~is_nan(c) /\ v = Value(c) /\ low < v /\ v <= high
      BY <2>1
    <3> DEFINE o == Ordinal(c)
    <3>2. v = ValueAt(o) /\ o \in Int
      BY <3>1, ValueIsThatOfPlace, BiasedIsOrdinal
    <3> HIDE DEF o
    <3>3. from \in Int /\ to \in Int /\ ValueAt(from) < ValueAt(o) /\ ValueAt(o) <= ValueAt(to)
      BY <1>1, <1>2, <1>3, <3>1, <3>2
    <3>4. from < o /\ o <= to
      <4>1. from < o
        BY <3>2, <3>3, ValuesGrow
      <4>2. ~(to < o)
        <5>1. ValueAt(to) \in Int /\ ValueAt(o) \in Int
          BY <3>2, <3>3, ValuesGrow
        <5>2. to < o => ValueAt(to) < ValueAt(o)
          BY <3>2, <3>3, ValuesGrow
        <5> QED
          BY <3>3, <5>1, <5>2
      <4> QED
        BY <3>2, <3>3, <4>1, <4>2
    <3>5. o \in from + 1 .. to
      BY <3>2, <3>3, <3>4
    <3> QED
      BY <3>2, <3>5
  <2>2. ASSUME NEW o \in from + 1 .. to
        PROVE  ValueAt(o) \in passed
    <3>1. o \in -K .. K /\ o \in Int /\ from \in Int /\ to \in Int /\ from < o /\ o <= to
      BY <1>1, <1>2
    <3>2. PICK c \in Bits : ~is_nan(c) /\ Ordinal(c) = o
      BY <3>1, PlacesAreTaken DEF K
    <3>3. Value(c) = ValueAt(o)
      BY <3>2, ValueIsThatOfPlace
    <3>4. ValueAt(from) < ValueAt(o) /\ ValueAt(o) <= ValueAt(to)
      <4>1. ValueAt(from) < ValueAt(o) /\ ValueAt(o) \in Int /\ ValueAt(to) \in Int
        BY <3>1, ValuesGrow
      <4>2. o < to \/ o = to
        BY <3>1
      <4>3. o < to => ValueAt(o) < ValueAt(to)
        BY <3>1, ValuesGrow
      <4> QED
        BY <4>1, <4>2, <4>3
    <3> QED
      BY <1>3, <3>2, <3>3, <3>4
  <2> QED
    BY <2>1, <2>2
<1>5. from \in Int /\ to \in Int
  BY <1>1, <1>2
<1> HIDE DEF passed, from, to, x, y, low, high
<1>6. ExistsBijection(from + 1 .. to, passed)
  <2>1. f \in [from + 1 .. to -> passed]
    BY <1>4
  <2>2. \A o, p \in from + 1 .. to : f[o] = f[p] => o = p
    BY <1>5, ValuesGrow
  <2>3. \A v \in passed : \E o \in from + 1 .. to : f[o] = v
    BY <1>4
  <2> DEFINE places == from + 1 .. to
  <2> HIDE DEF f, places
  <2>4. /\ f \in [places -> passed]
        /\ \A o, p \in places : f[o] = f[p] => o = p
        /\ \A v \in passed : \E o \in places : f[o] = v
    BY <2>1, <2>2, <2>3 DEF places
  <2>5. ExistsBijection(places, passed)
    BY <2>4, OneToOne
  <2> QED
    BY <2>5 DEF places
<1>7. IsFiniteSet(from + 1 .. to) /\ Cardinality(from + 1 .. to) = to - from
  <2>1. from + 1 \in Int /\ (from + 1 > to => to - from = 0) /\ to - (from + 1) + 1 = to - from
    BY <1>2, <1>5
  <2> DEFINE next == from + 1
  <2> HIDE DEF next
  <2>2. /\ IsFiniteSet(next .. to)
        /\ Cardinality(next .. to) = IF next > to THEN 0 ELSE to - next + 1
    BY <1>5, <2>1, FS_Interval DEF next
  <2> QED
    BY <2>1, <2>2, Zenon DEF next
<1>8. Cardinality(passed) = to - from
  BY <1>6, <1>7, FS_Bijection
<1>9. UlpsApart(a, b) = Cardinality(passed)
  BY DEF UlpsApart, passed, low, high
<1> QED
  BY <1>2, <1>8, <1>9 DEF x, y

----------------------------------------------------------------------------

\* The inductive invariant.
Inv == TypeOK /\ AnswersByPlace

\* A call answers by place, and its arithmetic stays within the bits.
LEMMA CallGivesRightAnswer ==
  ASSUME Inv, almost_equal
  PROVE  Inv'
PROOF
<1>1. PICK a \in Held(first), b \in Held(second) : Compare(a, b)
  BY DEF almost_equal
<1>2. /\ first \in Bits /\ second \in Bits /\ first' = first /\ second' = second
      /\ apart \in {NotComputed} \cup (0 .. 2 * kExponentBitMask)
  BY <1>1 DEF Compare, Inv, TypeOK
<1>3. /\ a \in Bits /\ (is_nan(a) <=> is_nan(first)) /\ (is_nan(first) \/ a = first)
      /\ b \in Bits /\ (is_nan(b) <=> is_nan(second)) /\ (is_nan(second) \/ b = second)
  BY <1>1, <1>2, HeldIsAsGood
<1>4. CASE is_nan(a) \/ is_nan(b)
  <2>1. apart' = apart /\ answer' = "no"
    BY <1>1, <1>4 DEF Compare
  <2> QED
    BY <2>1, <1>2, <1>3, <1>4 DEF Inv, TypeOK, AnswersByPlace, Bits, kSignBitMask,
       kExponentBitMask, is_nan, exponent_bits, fraction_bits, sign_bit
<1>5. CASE ~is_nan(a) /\ ~is_nan(b)
  <2>1. a = first /\ b = second
    BY <1>3, <1>5
  <2>2. /\ apart' = Difference(Ordinal(first), Ordinal(second))
        /\ answer' = IF apart' <= kMaxUlps THEN "yes" ELSE "no"
    BY <1>1, <1>2, <1>5, <2>1, DistanceIsDifference DEF Compare
  <2>3. apart' \in 0 .. 2 * kExponentBitMask
    <3>1. /\ -kExponentBitMask <= Ordinal(first) /\ Ordinal(first) <= kExponentBitMask
          /\ -kExponentBitMask <= Ordinal(second) /\ Ordinal(second) <= kExponentBitMask
      BY <1>2, <1>5, <2>1, NumbersEndAtInfinity
    <3>2. Ordinal(first) \in Int /\ Ordinal(second) \in Int /\ kExponentBitMask \in Nat
      BY <1>2, BiasedIsOrdinal, MasksAreNaturals
    <3> QED
      BY <2>2, <3>1, <3>2 DEF Difference
  <2> QED
    BY <1>2, <1>5, <2>1, <2>2, <2>3 DEF Inv, TypeOK, AnswersByPlace
<1> QED
  BY <1>4, <1>5

\* Both hold in every reachable state.
LEMMA InvIsInvariant == Spec => []Inv
PROOF
<1>1. Init => Inv
  BY DEF Init, Inv, TypeOK, AnswersByPlace
<1>2. Inv /\ [Next]_vars => Inv'
  <2>1. ASSUME Inv, almost_equal PROVE Inv'
    BY <2>1, CallGivesRightAnswer
  <2>2. ASSUME Inv, UNCHANGED vars PROVE Inv'
    BY <2>2 DEF vars, Inv, TypeOK, AnswersByPlace
  <2> QED
    BY <2>1, <2>2 DEF Next
<1> QED
  BY <1>1, <1>2, PTL DEF Spec

\* For every width, the distance lies between nothing and the way from one
\* infinity to the other: the unsigned subtraction does not wrap.
THEOREM TypeCorrect == Spec => []TypeOK
PROOF
<1>1. Inv => TypeOK
  BY DEF Inv
<1> QED
  BY <1>1, InvIsInvariant, PTL

\* For every width and tolerance, almost_equal answers yes exactly for two
\* numbers that are at most kMaxUlps places apart.
THEOREM AnswersAreRight == Spec => []AnswersByPlace
PROOF
<1>1. Inv => AnswersByPlace
  BY DEF Inv
<1> QED
  BY <1>1, InvIsInvariant, PTL

\* The same for the values that the patterns stand for: for every width and
\* tolerance, yes exactly for two numbers that at most kMaxUlps representable
\* values are passed between.
THEOREM AnswersAreRightForValues == Spec => []AnswersByUlps
PROOF
<1>1. Inv => AnswersByUlps
  BY PlacesCountUlps DEF Inv, TypeOK, AnswersByPlace, AnswersByUlps
<1> QED
  BY <1>1, InvIsInvariant, PTL

=============================================================================
