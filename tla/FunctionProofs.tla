--------------------------- MODULE FunctionProofs ---------------------------
(***************************************************************************)
(* The computations of MCFunctions for all constants: EnumFlags and        *)
(* NextPowerOf2 for every width, FileRead for all contents that a file may *)
(* have, and Duration for all units and spans.                             *)
(***************************************************************************)
EXTENDS EnumFlags, NextPowerOf2, Duration, FileRead, FiniteSetTheorems,
        SequenceTheorems, WellFoundedInduction, TLAPS

-----------------------------------------------------------------------------
\* A set of numbers that is not empty has a least one: what is proved by
\* induction below is proved from the least counterexample.
LEMMA LeastNumber ==
  ASSUME NEW T \in SUBSET Nat, T # {}
  PROVE  \E x \in T : \A y \in T : x <= y
<1>1. PICK R : R = {ss \in Nat \X Nat : ss[1] < ss[2]}
  OBVIOUS
<1>2. OpToRel(<, Nat) = R
  BY <1>1, Zenon DEF OpToRel
<1>3. IsWellFoundedOn(R, Nat)
  BY <1>2, NatLessThanWellFounded, Zenon
<1>4. PICK x \in T : \A y \in T : ~(<<y, x>> \in R)
  BY <1>3, WFMin, Zenon
<1>5. ASSUME NEW y \in T
      PROVE  x <= y
  <2>1. <<y, x>> \in Nat \X Nat /\ y \in Nat /\ x \in Nat
    OBVIOUS
  <2>2. ASSUME y < x PROVE <<y, x>> \in R
    BY <1>1, <2>1, <2>2
  <2> QED  BY <1>4, <2>1, <2>2
<1> QED  BY <1>5

\* Powers of two count the subsets of a set: each place more doubles them.
LEMMA PowersDouble ==
  ASSUME NEW k \in Nat
  PROVE  2^0 = 1 /\ 2^k \in Nat \ {0} /\ 2^(k + 1) = 2 * 2^k
<1> DEFINE Subsets(n) == SUBSET (1..n)
           B == Subsets(k + 1) \ Subsets(k)
           f == [U \in Subsets(k) |-> U \cup {k + 1}]
<1>1. ASSUME NEW n \in Nat
      PROVE  IsFiniteSet(Subsets(n)) /\ Cardinality(Subsets(n)) = 2^n
  <2>1. IsFiniteSet(1..n) /\ Cardinality(1..n) = n
    BY FS_Interval
  <2> QED  BY <2>1, FS_SUBSET
<1>2. Subsets(k) \subseteq Subsets(k + 1)
  <2>1. 1..k \subseteq 1..k + 1
    OBVIOUS
  <2> QED  BY <2>1
<1>3. f \in Bijection(Subsets(k), B)
  <2>1. f \in [Subsets(k) -> B]
    OBVIOUS
  <2>2. ASSUME NEW U \in Subsets(k), NEW V \in Subsets(k), f[U] = f[V]
        PROVE  U = V
    <3>1. k + 1 \notin U /\ k + 1 \notin V
      OBVIOUS
    <3>2. U \cup {k + 1} = V \cup {k + 1}
      BY <2>2
    <3> QED  BY <3>1, <3>2
  <2>3. ASSUME NEW W \in B
        PROVE  \E U \in Subsets(k) : f[U] = W
    <3>1. W \ {k + 1} \in Subsets(k) /\ k + 1 \in W
      OBVIOUS
    <3>2. (W \ {k + 1}) \cup {k + 1} = W
      BY <3>1
    <3> QED  BY <3>1, <3>2
  <2> HIDE DEF Subsets, B, f
  <2> QED  BY <2>1, <2>2, <2>3 DEF Bijection, Injection, Surjection, IsInjective
<1> HIDE DEF Subsets, B, f
<1>4. Cardinality(Subsets(k)) = 2^k /\ Cardinality(Subsets(k + 1)) = 2^(k + 1)
  <2>1. k + 1 \in Nat
    OBVIOUS
  <2> QED  BY <1>1, <2>1, Zenon
<1>5. IsFiniteSet(B) /\ Cardinality(B) = 2^k
  <2>1. ExistsBijection(Subsets(k), B)
    BY <1>3, Zenon DEF ExistsBijection
  <2> QED  BY <2>1, <1>1, <1>4, FS_Bijection, Zenon
<1>6. Cardinality(Subsets(k + 1)) = 2 * 2^k
  <2>1. Subsets(k + 1) = Subsets(k) \cup B /\ Subsets(k) \cap B = {}
    BY <1>2 DEF B
  <2>2. Cardinality({}) = 0
    BY FS_EmptySet
  <2>3. 2^k \in Nat
    BY <1>1, <1>4, FS_CardinalityType
  <2>4. Cardinality(Subsets(k) \cup B) = 2^k + 2^k - 0
    BY <2>1, <2>2, <1>1, <1>4, <1>5, FS_Union
  <2>5. 2^k + 2^k - 0 = 2 * 2^k
    BY <2>3
  <2> QED  BY <2>1, <2>4, <2>5, Zenon
<1>7. 2^0 = 1
  <2>1. Subsets(0) = {{}}
    BY DEF Subsets
  <2>2. Cardinality({{}}) = 1
    BY FS_Singleton
  <2> QED  BY <1>1, <2>1, <2>2
<1>8. 2^k \in Nat \ {0}
  <2>1. {} \in Subsets(k)
    BY DEF Subsets
  <2>2. 2^k \in Nat /\ (2^k = 0 => Subsets(k) = {})
    BY <1>1, <1>4, FS_CardinalityType, FS_EmptySet
  <2> QED  BY <2>1, <2>2
<1> QED  BY <1>4, <1>6, <1>7, <1>8, Zenon

\* Powers of two of a sum of exponents, and of exponents in order.
LEMMA PowersMultiply ==
  ASSUME NEW j \in Nat, NEW k \in Nat
  PROVE  2^(j + k) = 2^j * 2^k
<1> DEFINE T == {n \in Nat : 2^(j + n) # 2^j * 2^n}
<1>1. SUFFICES T = {}
  OBVIOUS
<1>2. SUFFICES ASSUME T # {} PROVE FALSE
  OBVIOUS
<1>3. PICK n \in T : \A m \in T : n <= m
  BY <1>2, LeastNumber
<1>4. CASE n = 0
  <2>1. 2^j \in Nat /\ 2^n = 1 /\ j + n = j
    BY <1>4, PowersDouble
  <2> QED  BY <2>1
<1>5. CASE n # 0
  <2>1. PICK m \in Nat : n = m + 1
    <3>1. n - 1 \in Nat /\ n = (n - 1) + 1
      BY <1>5
    <3> QED  BY <3>1
  <2>2. 2^(j + m) = 2^j * 2^m
    BY <1>3, <2>1
  <2>3. 2^n = 2 * 2^m /\ 2^m \in Nat /\ 2^j \in Nat
    BY <2>1, PowersDouble
  <2>4. 2^(j + n) = 2 * 2^(j + m)
    <3>1. j + m \in Nat /\ j + n = (j + m) + 1
      BY <2>1
    <3> QED  BY <3>1, PowersDouble
  <2>5. 2 * (2^j * 2^m) = 2^j * (2 * 2^m)
    BY <2>3
  <2> QED  BY <2>2, <2>3, <2>4, <2>5
<1> QED  BY <1>4, <1>5

\* A larger exponent has a larger power, which is an even multiple of the smaller.
LEMMA PowersGrow ==
  ASSUME NEW j \in Nat, NEW k \in Nat, j < k
  PROVE  2^j < 2^k /\ \E p \in Nat \ {0} : 2^k = 2^j * (2 * p)
<1>1. PICK d \in Nat : k = j + d + 1
  <2>1. k - j - 1 \in Nat /\ k = j + (k - j - 1) + 1
    OBVIOUS
  <2> QED  BY <2>1
<1>2. 2^j \in Nat \ {0} /\ 2^d \in Nat \ {0} /\ 2^(d + 1) = 2 * 2^d
  BY PowersDouble
<1>3. 2^k = 2^j * (2 * 2^d)
  <2>1. d + 1 \in Nat /\ k = j + (d + 1)
    BY <1>1
  <2>2. 2^k = 2^j * 2^(d + 1)
    BY <2>1, PowersMultiply
  <2> QED  BY <1>2, <2>2
<1>4. \A a, b \in Nat \ {0} : a < a * (2 * b)
  OBVIOUS
<1> QED  BY <1>2, <1>3, <1>4

\* Division undoes multiplication, whatever the remainder.
LEMMA DivisionIsUndone ==
  ASSUME NEW d \in Nat \ {0}, NEW q \in Int, NEW r \in 0 .. d - 1, NEW n \in Int,
         n = q * d + r
  PROVE  n \div d = q /\ n % d = r
<1>1. /\ n \div d \in Int /\ n % d \in 0 .. d - 1
      /\ n = d * (n \div d) + (n % d)
  OBVIOUS
<1> DEFINE p == n \div d
           s == n % d
<1>2. p \in Int /\ s \in 0 .. d - 1 /\ n = d * p + s
  BY <1>1
<1> HIDE DEF p, s
<1>3. \A x \in Int : x >= 1 => d * x >= d
  OBVIOUS
<1>4. d * (p - q) = r - s /\ d * (q - p) = s - r
  <2>1. d * (p - q) = d * p - d * q /\ d * (q - p) = d * q - d * p /\ q * d = d * q
    BY <1>2
  <2>2. d * p \in Int /\ d * q \in Int
    BY <1>2
  <2> QED  BY <1>2, <2>1, <2>2
<1>5. p = q
  <2>1. p - q \in Int /\ q - p \in Int /\ (p - q < 1) /\ (q - p < 1)
    BY <1>2, <1>3, <1>4
  <2> QED  BY <2>1, <1>2
<1>6. s = r
  BY <1>2, <1>4, <1>5
<1> QED  BY <1>5, <1>6 DEF p, s

\* The digit of a number at a place.
Digit(n, k) == (n \div 2^k) % 2

\* A number is made of its quotient and remainder, and digits are 0 or 1.
LEMMA DivideByPower ==
  ASSUME NEW n \in Int, NEW k \in Nat
  PROVE  /\ n \div 2^k \in Int /\ n % 2^k \in 0 .. 2^k - 1
         /\ n = (n \div 2^k) * 2^k + (n % 2^k)
         /\ Digit(n, k) \in {0, 1}
<1>1. 2^k \in Nat \ {0}
  BY PowersDouble
<1>2. \A d \in Nat \ {0} : n \div d \in Int /\ n % d \in 0 .. d - 1 /\ n = (n \div d) * d + (n % d)
  OBVIOUS
<1>3. \A q \in Int : q % 2 \in {0, 1}
  OBVIOUS
<1> QED  BY <1>1, <1>2, <1>3 DEF Digit

\* What is added in places above does not change a digit.
LEMMA DigitsBelow ==
  ASSUME NEW n \in Int, NEW c \in Int, NEW m \in Nat, NEW k \in 0 .. m - 1
  PROVE  Digit(n + c * 2^m, k) = Digit(n, k)
<1> DEFINE q == n \div 2^k
           r == n % 2^k
           d == 2^k
<1>1. q \in Int /\ d \in Nat \ {0} /\ r \in 0 .. d - 1 /\ n = q * d + r
  BY DivideByPower, PowersDouble
<1>2. PICK p \in Nat \ {0} : 2^m = d * (2 * p)
  BY PowersGrow
<1> HIDE DEF q, r, d
<1>3. n + c * 2^m = (q + 2 * (c * p)) * d + r
  <2>1. c * (d * (2 * p)) = (2 * (c * p)) * d
    BY <1>1
  <2>2. (q + 2 * (c * p)) * d = q * d + (2 * (c * p)) * d
    BY <1>1
  <2> QED  BY <1>1, <1>2, <2>1, <2>2
<1>4. (n + c * 2^m) \div d = q + 2 * (c * p)
  <2>1. q + 2 * (c * p) \in Int
    BY <1>1
  <2>2. n + c * 2^m \in Int
    BY <1>1, <1>3
  <2> QED  BY <1>1, <1>3, <2>1, <2>2, DivisionIsUndone
<1>5. \A x, y \in Int : (x + 2 * y) % 2 = x % 2
  OBVIOUS
<1>6. (q + 2 * (c * p)) % 2 = q % 2
  BY <1>1, <1>5
<1> QED  BY <1>4, <1>6 DEF Digit, q, d

\* A number below a power of two has the digits of its remainder, and the digit
\* at a place is what the place adds to the remainder.
LEMMA NextDigit ==
  ASSUME NEW n \in Int, NEW k \in Nat
  PROVE  n % 2^(k + 1) = Digit(n, k) * 2^k + (n % 2^k)
<1> DEFINE d == 2^k
           q == n \div d
           r == n % d
           p == q \div 2
           b == q % 2
<1>1. q \in Int /\ d \in Nat \ {0} /\ r \in 0 .. d - 1 /\ n = q * d + r
  BY DivideByPower, PowersDouble
<1>2. 2^(k + 1) = 2 * d
  BY PowersDouble
<1>3. p \in Int /\ b \in {0, 1} /\ q = 2 * p + b
  <2> HIDE DEF q
  <2> QED  BY <1>1
<1>4. Digit(n, k) = b
  BY DEF Digit
<1> HIDE DEF d, q, r, p, b
<1>5. n = p * (2 * d) + (b * d + r)
  <2>1. (2 * p + b) * d = p * (2 * d) + b * d
    BY <1>1, <1>3
  <2> QED  BY <1>1, <1>3, <2>1
<1>6. b * d + r \in 0 .. 2 * d - 1
  BY <1>1, <1>3
<1>7. n % (2 * d) = b * d + r
  <2>1. 2 * d \in Nat \ {0} /\ b * d + r \in Int
    BY <1>1, <1>3
  <2> QED  BY <1>3, <1>5, <1>6, <2>1, DivisionIsUndone
<1> QED  BY <1>2, <1>4, <1>7 DEF d, r

\* The digits tell numbers apart.
LEMMA DigitsDetermine ==
  ASSUME NEW w \in Nat, NEW a \in 0 .. 2^w - 1, NEW b \in 0 .. 2^w - 1,
         \A k \in 0 .. w - 1 : Digit(a, k) = Digit(b, k)
  PROVE  a = b
<1> DEFINE T == {k \in Nat : k <= w /\ a % 2^k # b % 2^k}
<1>0. 2^w \in Nat \ {0} /\ a \in Int /\ b \in Int
  BY PowersDouble
<1>1. T = {}
  <2> SUFFICES ASSUME T # {} PROVE FALSE
    OBVIOUS
  <2>1. PICK n \in T : \A m \in T : n <= m
    BY LeastNumber
  <2>2. n # 0
    <3>1. \A x \in Int : x % 1 = 0
      OBVIOUS
    <3> QED  BY <2>1, <3>1, <1>0, PowersDouble
  <2>3. PICK m \in Nat : n = m + 1 /\ m \in 0 .. w - 1
    <3>1. n - 1 \in Nat /\ n = (n - 1) + 1 /\ n - 1 \in 0 .. w - 1
      BY <2>2
    <3> QED  BY <3>1
  <2>4. a % 2^m = b % 2^m
    BY <2>1, <2>3
  <2>5. /\ a % 2^n = Digit(a, m) * 2^m + (a % 2^m)
        /\ b % 2^n = Digit(b, m) * 2^m + (b % 2^m)
    BY <2>3, <1>0, NextDigit
  <2>6. Digit(a, m) = Digit(b, m)
    BY <2>3
  <2> QED  BY <2>1, <2>4, <2>5, <2>6
<1>2. a % 2^w = b % 2^w
  <2>1. w \in Nat /\ w <= w
    OBVIOUS
  <2> QED  BY <1>1, <2>1, Zenon
<1>3. \A d \in Nat \ {0} : \A x \in 0 .. d - 1 : x % d = x
  OBVIOUS
<1> QED  BY <1>0, <1>2, <1>3

\* A number has zeros above its highest place, and adding a place sets a digit.
LEMMA DigitsAbove ==
  ASSUME NEW m \in Nat, NEW n \in 0 .. 2^m - 1, NEW c \in {0, 1}
  PROVE  /\ Digit(n + c * 2^m, m) = c
         /\ n + c * 2^m \in 0 .. 2^(m + 1) - 1
         /\ \A k \in Nat : k >= m => Digit(n, k) = 0
<1>1. 2^m \in Nat \ {0} /\ 2^(m + 1) = 2 * 2^m
  BY PowersDouble
<1>2. n + c * 2^m \in 0 .. 2^(m + 1) - 1
  BY <1>1
<1>3. Digit(n + c * 2^m, m) = c
  <2>1. (n + c * 2^m) \div 2^m = c
    <3>1. n + c * 2^m = c * 2^m + n /\ n + c * 2^m \in Int
      BY <1>1
    <3> QED  BY <1>1, <3>1, DivisionIsUndone
  <2>2. c % 2 = c
    OBVIOUS
  <2> QED  BY <2>1, <2>2 DEF Digit
<1>4. ASSUME NEW k \in Nat, k >= m
      PROVE  Digit(n, k) = 0
  <2>1. 2^k \in Nat \ {0} /\ 2^m <= 2^k
    <3>1. CASE k = m
      BY <3>1, <1>1
    <3>2. CASE k # m
      <4>1. m < k
        BY <1>4, <3>2
      <4> QED  BY <4>1, PowersGrow, PowersDouble
    <3> QED  BY <3>1, <3>2
  <2>2. n = 0 * 2^k + n /\ n \in 0 .. 2^k - 1
    BY <1>1, <2>1
  <2>3. n \div 2^k = 0
    BY <2>1, <2>2, DivisionIsUndone
  <2>4. 0 % 2 = 0
    OBVIOUS
  <2> QED  BY <2>3, <2>4 DEF Digit
<1> QED  BY <1>2, <1>3, <1>4

\* Any places can be the ones of a number.
LEMMA DigitsExist ==
  ASSUME NEW w \in Nat, NEW S
  PROVE  \E n \in 0 .. 2^w - 1 : \A k \in 0 .. w - 1 : Digit(n, k) = 1 <=> k \in S
<1> DEFINE Has(v) == \E n \in 0 .. 2^v - 1 : \A k \in 0 .. v - 1 : Digit(n, k) = 1 <=> k \in S
           T == {v \in Nat : ~Has(v)}
<1>1. SUFFICES ASSUME T # {} PROVE FALSE
  <2>1. T = {} => Has(w)
    BY Zenon DEF T
  <2> QED  BY <2>1
<1>2. PICK v \in T : \A u \in T : v <= u
  BY <1>1, LeastNumber
<1>3. v # 0
  <2>1. 0 \in 0 .. 2^0 - 1
    BY PowersDouble
  <2>2. 0 .. 0 - 1 = {}
    OBVIOUS
  <2>3. Has(0)
    BY <2>1, <2>2
  <2> QED  BY <1>2, <2>3
<1>4. PICK m \in Nat : v = m + 1
  <2>1. v - 1 \in Nat /\ v = (v - 1) + 1
    BY <1>3
  <2> QED  BY <2>1
<1>5. Has(m)
  BY <1>2, <1>4
<1>6. PICK n \in 0 .. 2^m - 1 : \A k \in 0 .. m - 1 : Digit(n, k) = 1 <=> k \in S
  BY <1>5
<1>7. PICK c \in {0, 1} : c = 1 <=> m \in S
  OBVIOUS
<1>8. /\ Digit(n + c * 2^m, m) = c
      /\ n + c * 2^m \in 0 .. 2^v - 1
  BY <1>4, DigitsAbove
<1>9. \A k \in 0 .. m - 1 : Digit(n + c * 2^m, k) = Digit(n, k)
  <2>1. n \in Int /\ c \in Int
    BY PowersDouble
  <2> QED  BY <2>1, DigitsBelow
<1>10. \A k \in 0 .. v - 1 : k = m \/ k \in 0 .. m - 1
  BY <1>4
<1>11. \A k \in 0 .. v - 1 : Digit(n + c * 2^m, k) = 1 <=> k \in S
  BY <1>6, <1>7, <1>8, <1>9, <1>10
<1>12. Has(v)
  BY <1>8, <1>11
<1> QED  BY <1>2, <1>12

-----------------------------------------------------------------------------
\* A value is determined by its ones, and every set of places is the ones of one.
LEMMA WordHasOnes ==
  /\ \A ones \in SUBSET Places : Word(ones) \in Bits /\ Ones(Word(ones)) = ones
  /\ \A a, b \in Bits : Ones(a) = Ones(b) => a = b
  /\ \A n : Ones(n) \in SUBSET Places /\ Ones(n) = {k \in Places : Digit(n, k) = 1}
<1>0. Width \in Nat
  BY WidthAssumption
<1>1. \A n : Ones(n) \in SUBSET Places /\ Ones(n) = {k \in Places : Digit(n, k) = 1}
  BY DEF Ones, Digit
<1>2. ASSUME NEW ones \in SUBSET Places
      PROVE  Word(ones) \in Bits /\ Ones(Word(ones)) = ones
  <2>1. PICK n \in Bits : \A k \in Places : Digit(n, k) = 1 <=> k \in ones
    BY <1>0, DigitsExist DEF Bits, Places
  <2>2. Ones(n) = ones
    BY <1>1, <2>1
  <2> QED  BY <2>2, Zenon DEF Word
<1>3. ASSUME NEW a \in Bits, NEW b \in Bits, Ones(a) = Ones(b)
      PROVE  a = b
  <2>1. \A k \in Places : Digit(a, k) = 1 <=> Digit(b, k) = 1
    BY <1>1, <1>3
  <2>2. \A k \in Places : k \in Nat /\ Digit(a, k) \in {0, 1} /\ Digit(b, k) \in {0, 1}
    <3>1. a \in Int /\ b \in Int
      BY <1>0, PowersDouble DEF Bits
    <3> QED  BY <1>0, <3>1, DivideByPower DEF Places
  <2>3. \A k \in 0 .. Width - 1 : Digit(a, k) = Digit(b, k)
    BY <2>1, <2>2 DEF Places
  <2> QED  BY <1>0, <2>3, DigitsDetermine DEF Bits
<1> QED  BY <1>1, <1>2, <1>3

\* What the operators on bits do.
LEMMA OnesOfOperators ==
  ASSUME NEW a \in Bits, NEW b \in Bits
  PROVE  /\ a | b \in Bits /\ Ones(a | b) = Ones(a) \cup Ones(b)
         /\ a & b \in Bits /\ Ones(a & b) = Ones(a) \cap Ones(b)
         /\ a ^^ b \in Bits /\ Ones(a ^^ b) = SymDiff(Ones(a), Ones(b))
<1>1. Ones(a) \in SUBSET Places /\ Ones(b) \in SUBSET Places
  BY WordHasOnes
<1>2. /\ Ones(a) \cup Ones(b) \in SUBSET Places
      /\ Ones(a) \cap Ones(b) \in SUBSET Places
      /\ SymDiff(Ones(a), Ones(b)) \in SUBSET Places
  BY <1>1 DEF SymDiff
<1> QED  BY <1>2, WordHasOnes, Zenon DEF |, &, ^^

\* A power of two has a single one.
LEMMA OnesOfPower ==
  ASSUME NEW e \in Places
  PROVE  2^e \in Bits /\ Cast(2^e) = 2^e /\ Ones(2^e) = {e}
<1>0. Width \in Nat /\ e \in Nat /\ e < Width
  BY WidthAssumption DEF Places
<1>1. 2^e \in Nat /\ 2^e < 2^Width /\ 2^Width \in Nat \ {0}
  BY <1>0, PowersGrow, PowersDouble
<1>2. 2^e \in Bits
  BY <1>1 DEF Bits
<1>3. \A d \in Nat \ {0} : \A x \in 0 .. d - 1 : x % d = x
  OBVIOUS
<1>4. Cast(2^e) = 2^e
  BY <1>1, <1>2, <1>3 DEF Cast, Bits
<1>5. 0 \in 0 .. 2^e - 1 /\ 0 + 1 * 2^e = 2^e /\ 2^e \in 0 .. 2^(e + 1) - 1
  BY <1>0, PowersDouble
<1>6. Digit(2^e, e) = 1 /\ \A k \in Nat : k >= e => Digit(0, k) = 0
  BY <1>0, <1>5, DigitsAbove
<1>7. ASSUME NEW k \in Places, k # e
      PROVE  Digit(2^e, k) = 0
  <2>1. CASE k < e
    <3>1. k \in 0 .. e - 1
      BY <2>1, <1>0 DEF Places
    <3>2. Digit(2^e, k) = Digit(0, k)
      BY <3>1, <1>0, <1>5, DigitsBelow
    <3>3. Digit(0, k) = 0
      <4>1. 0 \in 0 .. 2^0 - 1 /\ k \in Nat /\ k >= 0
        BY <3>1, PowersDouble
      <4> QED  BY <4>1, DigitsAbove
    <3> QED  BY <3>2, <3>3
  <2>2. CASE k > e
    <3>1. k \in Nat /\ e + 1 \in Nat /\ k >= e + 1
      BY <1>0, <2>2 DEF Places
    <3> QED  BY <3>1, <1>5, DigitsAbove
  <2> QED  BY <1>0, <1>7, <2>1, <2>2 DEF Places
<1>8. Ones(2^e) = {e}
  <2>1. Ones(2^e) = {k \in Places : Digit(2^e, k) = 1}
    BY WordHasOnes
  <2> QED  BY <1>6, <1>7, <2>1
<1> QED  BY <1>2, <1>4, <1>8

\* The digits of what is missing to a power of two, less one, are the others.
LEMMA DigitsFlip ==
  ASSUME NEW n \in Int, NEW m \in Nat, NEW k \in 0 .. m - 1
  PROVE  Digit(2^m - 1 - n, k) = 1 - Digit(n, k)
<1> DEFINE q == n \div 2^k
           r == n % 2^k
           d == 2^k
<1>1. q \in Int /\ d \in Nat \ {0} /\ r \in 0 .. d - 1 /\ n = q * d + r
  BY DivideByPower, PowersDouble
<1>2. PICK p \in Nat \ {0} : 2^m = d * (2 * p)
  BY PowersGrow
<1> HIDE DEF q, r, d
<1>3. 2^m - 1 - n = (2 * p - 1 - q) * d + (d - 1 - r)
  <2>1. (2 * p - 1 - q) * d = d * (2 * p) - d - q * d
    BY <1>1
  <2>2. d * (2 * p) \in Int /\ q * d \in Int
    BY <1>1
  <2> QED  BY <1>1, <1>2, <2>1, <2>2
<1>4. (2^m - 1 - n) \div d = 2 * p - 1 - q
  <2>1. 2 * p - 1 - q \in Int /\ d - 1 - r \in 0 .. d - 1
    BY <1>1
  <2>2. 2^m - 1 - n \in Int
    BY PowersDouble
  <2> QED  BY <1>1, <1>3, <2>1, <2>2, DivisionIsUndone
<1>5. \A x, y \in Int : (2 * y - 1 - x) % 2 = 1 - (x % 2)
  OBVIOUS
<1>6. (2 * p - 1 - q) % 2 = 1 - (q % 2)
  BY <1>1, <1>5
<1> QED  BY <1>4, <1>6 DEF Digit, q, d

\* Dividing by a power of two moves the digits down.
LEMMA DigitsShift ==
  ASSUME NEW n \in Int, NEW c \in Nat, NEW k \in Nat
  PROVE  Digit(n \div 2^c, k) = Digit(n, c + k)
<1> DEFINE C == 2^c
           K == 2^k
           q == n \div C
           r == n % C
           p == q \div K
           s == q % K
<1>1. q \in Int /\ C \in Nat \ {0} /\ r \in 0 .. C - 1 /\ n = q * C + r
  BY DivideByPower, PowersDouble
<1>2. p \in Int /\ K \in Nat \ {0} /\ s \in 0 .. K - 1 /\ q = p * K + s
  <2> HIDE DEF q
  <2> QED  BY <1>1, DivideByPower, PowersDouble
<1>3. 2^(c + k) = C * K
  BY PowersMultiply
<1>4. Digit(q, k) = p % 2
  BY DEF Digit
<1> HIDE DEF C, K, q, r, p, s
<1>5. n = p * (C * K) + (s * C + r)
  <2>1. (p * K + s) * C = p * (C * K) + s * C
    BY <1>1, <1>2
  <2>2. p * (C * K) \in Int /\ s * C \in Int
    BY <1>1, <1>2
  <2> QED  BY <1>1, <1>2, <2>1, <2>2
<1>6. s * C + r \in 0 .. C * K - 1
  <2>1. \A x, y, z \in Nat : x <= y => x * z <= y * z /\ x * z \in Nat /\ y * z \in Nat
    OBVIOUS
  <2>2. s * C <= (K - 1) * C /\ s * C \in Nat
    <3>1. s \in Nat /\ K - 1 \in Nat /\ C \in Nat /\ s <= K - 1
      BY <1>1, <1>2
    <3> QED  BY <2>1, <3>1
  <2>3. (K - 1) * C = C * K - C /\ C * K \in Int
    BY <1>1, <1>2
  <2> QED  BY <1>1, <2>2, <2>3
<1>7. n \div (C * K) = p
  <2>1. C * K \in Nat \ {0}
    BY <1>1, <1>2
  <2> QED  BY <1>2, <1>5, <1>6, <2>1, DivisionIsUndone
<1> QED  BY <1>3, <1>4, <1>7 DEF Digit, q, C

\* ~ turns every one into a zero and every zero into a one, and nothing else.
LEMMA OnesOfComplement ==
  ASSUME NEW a \in Bits
  PROVE  /\ Complement(a) \in Bits /\ Ones(Complement(a)) = Places \ Ones(a)
         /\ Complement(a) = 2^Width - 1 - a
<1>0. Width \in Nat /\ 2^Width \in Nat \ {0} /\ a \in 0 .. 2^Width - 1
  BY WidthAssumption, PowersDouble DEF Bits
<1>1. Complement(a) = 2^Width - 1 - a
  <2>1. \A d \in Nat \ {0} : \A x \in 0 .. d - 1 : (-x - 1) % d = d - 1 - x
    <3> SUFFICES ASSUME NEW d \in Nat \ {0}, NEW x \in 0 .. d - 1
                 PROVE  (-x - 1) % d = d - 1 - x
      OBVIOUS
    <3>1. -x - 1 = (-1) * d + (d - 1 - x) /\ -x - 1 \in Int /\ d - 1 - x \in 0 .. d - 1 /\ -1 \in Int
      OBVIOUS
    <3> QED  BY <3>1, DivisionIsUndone
  <2> QED  BY <1>0, <2>1 DEF Complement, Cast
<1>2. 2^Width - 1 - a \in Bits
  BY <1>0 DEF Bits
<1>3. ASSUME NEW k \in Places
      PROVE  Digit(2^Width - 1 - a, k) = 1 <=> ~(Digit(a, k) = 1)
  <2>1. a \in Int /\ k \in 0 .. Width - 1 /\ k \in Nat
    BY <1>0 DEF Places
  <2>2. Digit(2^Width - 1 - a, k) = 1 - Digit(a, k) /\ Digit(a, k) \in {0, 1}
    BY <1>0, <2>1, DigitsFlip, DivideByPower
  <2> QED  BY <2>2
<1>5. Ones(2^Width - 1 - a) = Places \ Ones(a)
  BY <1>3, WordHasOnes
<1> QED  BY <1>1, <1>2, <1>5

\* One less than a power of two has ones in all places below.
LEMMA OnesOfMask ==
  ASSUME NEW m \in 0 .. Width
  PROVE  2^m - 1 \in Bits /\ Ones(2^m - 1) = {k \in Places : k < m}
<1>0. Width \in Nat /\ m \in Nat /\ 2^m \in Nat \ {0} /\ 2^Width \in Nat \ {0}
  BY WidthAssumption, PowersDouble
<1>1. 2^m <= 2^Width
  <2>1. CASE m = Width
    BY <2>1, <1>0
  <2>2. CASE m # Width
    <3>1. m < Width
      BY <2>2, <1>0
    <3> QED  BY <3>1, <1>0, PowersGrow
  <2> QED  BY <2>1, <2>2
<1>2. 2^m - 1 \in 0 .. 2^m - 1 /\ 2^m - 1 - 0 = 2^m - 1
  BY <1>0
<1>3. ASSUME NEW k \in Nat
      PROVE  Digit(0, k) = 0
  <2>1. 0 \in 0 .. 2^0 - 1 /\ k >= 0
    BY PowersDouble
  <2> QED  BY <2>1, DigitsAbove
<1>4. ASSUME NEW k \in Places
      PROVE  Digit(2^m - 1, k) = 1 <=> k < m
  <2>1. k \in Nat
    BY <1>0 DEF Places
  <2>2. CASE k < m
    <3>1. k \in 0 .. m - 1
      BY <2>1, <2>2, <1>0
    <3>2. Digit(2^m - 1 - 0, k) = 1 - Digit(0, k)
      BY <3>1, <1>0, DigitsFlip
    <3> QED  BY <2>1, <2>2, <3>2, <1>2, <1>3
  <2>3. CASE ~(k < m)
    <3>1. Digit(2^m - 1, k) = 0
      <4>1. k >= m
        BY <2>1, <2>3, <1>0
      <4> QED  BY <2>1, <4>1, <1>0, <1>2, DigitsAbove
    <3> QED  BY <2>3, <3>1
  <2> QED  BY <2>2, <2>3
<1>5. Ones(2^m - 1) = {k \in Places : k < m}
  BY <1>4, WordHasOnes
<1> QED  BY <1>0, <1>1, <1>5 DEF Bits

\* Shifting right moves the ones down and drops those that fall out.
LEMMA OnesOfShift ==
  ASSUME NEW a \in Bits, NEW c \in Nat
  PROVE  a \div 2^c \in Bits /\ Ones(a \div 2^c) = {k \in Places : c + k \in Ones(a)}
<1>0. Width \in Nat /\ a \in 0 .. 2^Width - 1 /\ 2^Width \in Nat \ {0} /\ 2^c \in Nat \ {0}
  BY WidthAssumption, PowersDouble DEF Bits
<1>1. a \div 2^c \in Bits
  <2>1. \A d \in Nat \ {0} : \A x \in Nat : x \div d \in 0 .. x
    OBVIOUS
  <2>2. a \div 2^c \in 0 .. a
    BY <1>0, <2>1
  <2> QED  BY <1>0, <2>2 DEF Bits
<1>2. ASSUME NEW k \in Places
      PROVE  Digit(a \div 2^c, k) = 1 <=> c + k \in Ones(a)
  <2>1. k \in Nat /\ c + k \in Nat /\ a \in Int
    BY <1>0 DEF Places
  <2>2. Digit(a \div 2^c, k) = Digit(a, c + k)
    BY <2>1, DigitsShift
  <2>3. CASE c + k < Width
    <3>1. c + k \in Places
      BY <2>1, <2>3, <1>0 DEF Places
    <3> QED  BY <2>2, <3>1, WordHasOnes
  <2>4. CASE ~(c + k < Width)
    <3>1. Digit(a, c + k) = 0
      <4>1. c + k >= Width
        BY <2>1, <2>4, <1>0
      <4> QED  BY <2>1, <4>1, <1>0, DigitsAbove
    <3>2. c + k \notin Places
      BY <2>1, <2>4, <1>0 DEF Places
    <3> QED  BY <2>2, <3>1, <3>2, WordHasOnes
  <2> QED  BY <2>3, <2>4
<1>3. Ones(a \div 2^c) = {k \in Places : c + k \in Ones(a)}
  BY <1>2, WordHasOnes
<1> QED  BY <1>1, <1>3

-----------------------------------------------------------------------------
\* The enumerators are the lowest places, each with a bit of its own.
LEMMA EnumFacts ==
  /\ Cardinality(Enum) \in 0 .. Width
  /\ Enum = {k \in Places : k < Cardinality(Enum)}
  /\ \A e \in Enum : to_bits(e) \in Bits /\ Ones(to_bits(e)) = {e}
  /\ 0 \in Bits /\ Ones(0) = {}
<1>1. Cardinality(Enum) \in Nat /\ Width \in Nat
  BY EnumAssumption, WidthAssumption, FS_CardinalityType
<1>2. Cardinality(Enum) \in 0 .. Width
  BY <1>1, CountAssumption
<1>3. Enum = {k \in Places : k < Cardinality(Enum)}
  <2> DEFINE C == Cardinality(Enum)
  <2>1. Enum = 0 .. C - 1 /\ C \in 0 .. Width
    BY <1>2, EnumAssumption
  <2> HIDE DEF C
  <2>2. Enum = {k \in Places : k < C}
    BY <1>1, <2>1 DEF Places
  <2> QED  BY <2>2 DEF C
<1>4. ASSUME NEW e \in Enum
      PROVE  to_bits(e) \in Bits /\ Ones(to_bits(e)) = {e}
  <2>1. e \in Places
    BY <1>3
  <2> QED  BY <2>1, OnesOfPower DEF to_bits
<1>5. 0 \in Bits /\ Ones(0) = {}
  <2>1. 2^0 - 1 = 0 /\ 0 \in 0 .. Width
    BY <1>1, PowersDouble
  <2>2. 0 \in Bits /\ Ones(0) = {k \in Places : k < 0}
    BY <2>1, OnesOfMask
  <2>3. \A k \in Places : ~(k < 0)
    BY DEF Places
  <2> QED  BY <2>2, <2>3
<1> QED  BY <1>2, <1>3, <1>4, <1>5

\* has_flag finds the ones at the places of enumerators.
LEMMA MembersAreOnes ==
  ASSUME NEW f \in Bits
  PROVE  /\ Members(f) = Enum \cap Ones(f)
         /\ \A e \in Enum : has_flag(f, e) <=> e \in Ones(f)
<1>1. ASSUME NEW e \in Enum
      PROVE  has_flag(f, e) <=> e \in Ones(f)
  <2>1. to_bits(e) \in Bits /\ Ones(to_bits(e)) = {e} /\ 0 \in Bits /\ Ones(0) = {}
    BY EnumFacts
  <2>2. f & to_bits(e) \in Bits /\ Ones(f & to_bits(e)) = Ones(f) \cap {e}
    BY <2>1, OnesOfOperators
  <2>3. f & to_bits(e) = 0 <=> Ones(f) \cap {e} = {}
    BY <2>1, <2>2, WordHasOnes
  <2> QED  BY <2>3 DEF has_flag
<1> QED  BY <1>1 DEF Members

\* The bits above the enumerators are the same if their ones are.
LEMMA RestIsOnes ==
  ASSUME NEW f \in Bits
  PROVE  /\ Rest(f) \in Bits
         /\ Ones(Rest(f)) = {k \in Places : Cardinality(Enum) + k \in Ones(f)}
         /\ \A g \in Bits : Ones(f) \ Enum = Ones(g) \ Enum => Rest(f) = Rest(g)
<1>1. ASSUME NEW g \in Bits
      PROVE  /\ Rest(g) \in Bits
             /\ Ones(Rest(g)) = {k \in Places : Cardinality(Enum) + k \in Ones(g)}
  <2>1. Cardinality(Enum) \in Nat
    BY EnumFacts, WidthAssumption
  <2> QED  BY <2>1, OnesOfShift DEF Rest
<1>2. ASSUME NEW g \in Bits, Ones(f) \ Enum = Ones(g) \ Enum
      PROVE  Rest(f) = Rest(g)
  <2>1. ASSUME NEW k \in Places
        PROVE  Cardinality(Enum) + k \notin Enum
    <3>1. k \in Nat /\ Cardinality(Enum) \in Nat
      BY EnumFacts, WidthAssumption DEF Places
    <3>2. \A j \in Enum : j < Cardinality(Enum)
      BY EnumFacts
    <3> QED  BY <3>1, <3>2
  <2>2. \A k \in Places : Cardinality(Enum) + k \in Ones(f) <=> Cardinality(Enum) + k \in Ones(g)
    BY <1>2, <2>1
  <2> QED  BY <1>1, <2>2, WordHasOnes
<1> QED  BY <1>1, <1>2

-----------------------------------------------------------------------------
\* The flags of a list, joined one by one from the last.
Joined(es, from) ==
  [i \in DOMAIN es |-> IF i = Len(es) THEN to_bits(es[i]) ELSE to_bits(es[i]) | from[i + 1]]

\* There is one way to join the flags of a list, and it has exactly its flags.
LEMMA JoinedAreOnes ==
  ASSUME NEW n \in Nat \ {0}, NEW es \in [1..n -> Enum]
  PROVE  /\ \E from : from = Joined(es, from)
         /\ \A from : from = Joined(es, from) => from[1] \in Bits /\ Ones(from[1]) = Range(es)
<1> DEFINE After(i) == {es[j] : j \in i .. n}
<1>1. DOMAIN es = 1..n /\ Len(es) = n
  <2>1. es \in Seq(Enum)
    OBVIOUS
  <2> QED  BY <2>1
<1>2. ASSUME NEW i \in 1..n
      PROVE  /\ After(i) \in SUBSET Places
             /\ i = n => After(i) = {es[i]}
             /\ i # n => i + 1 \in 1..n /\ After(i) = {es[i]} \cup After(i + 1)
             /\ to_bits(es[i]) \in Bits /\ Ones(to_bits(es[i])) = {es[i]}
  <2>1. \A j \in i .. n : es[j] \in Enum
    OBVIOUS
  <2>2. i = n => i .. n = {i}
    OBVIOUS
  <2>3. i # n => i + 1 \in 1..n /\ i .. n = {i} \cup (i + 1 .. n)
    OBVIOUS
  <2> QED  BY <2>1, <2>2, <2>3, EnumFacts
<1>3. \E from : from = Joined(es, from)
  <2> DEFINE from == [i \in 1..n |-> Word(After(i))]
  <2>1. ASSUME NEW i \in 1..n
        PROVE  from[i] = IF i = n THEN to_bits(es[i]) ELSE to_bits(es[i]) | from[i + 1]
    <3>1. from[i] \in Bits /\ Ones(from[i]) = After(i)
      BY <1>2, WordHasOnes
    <3>2. CASE i = n
      <4>1. /\ to_bits(es[i]) \in Bits
            /\ Ones(to_bits(es[i])) = After(i)
        BY <1>2, <3>2
      <4> HIDE DEF from, After
      <4> QED  BY <3>1, <3>2, <4>1, WordHasOnes
    <3>3. CASE i # n
      <4>1. i + 1 \in 1..n /\ After(i) = {es[i]} \cup After(i + 1)
        BY <1>2, <3>3
      <4>2. from[i + 1] \in Bits /\ Ones(from[i + 1]) = After(i + 1)
        BY <1>2, <4>1, WordHasOnes
      <4> HIDE DEF from, After
      <4>3. /\ to_bits(es[i]) | from[i + 1] \in Bits
            /\ Ones(to_bits(es[i]) | from[i + 1]) = After(i)
        BY <1>2, <4>1, <4>2, OnesOfOperators
      <4> QED  BY <3>1, <3>3, <4>3, WordHasOnes
    <3> QED  BY <3>2, <3>3
  <2>2. from = [i \in 1..n |-> from[i]]
    OBVIOUS
  <2> HIDE DEF from
  <2>3. from = Joined(es, from)
    BY <1>1, <2>1, <2>2 DEF Joined
  <2> QED  BY <2>3
<1>4. ASSUME NEW from, from = Joined(es, from)
      PROVE  from[1] \in Bits /\ Ones(from[1]) = Range(es)
  <2> DEFINE Right(i) == from[i] \in Bits /\ Ones(from[i]) = After(i)
             T == {d \in Nat : d < n /\ ~Right(n - d)}
  <2>1. ASSUME NEW i \in 1..n
        PROVE  from[i] = IF i = n THEN to_bits(es[i]) ELSE to_bits(es[i]) | from[i + 1]
    BY <1>1, <1>4, Zenon DEF Joined
  <2>2. T = {}
    <3> SUFFICES ASSUME T # {} PROVE FALSE
      OBVIOUS
    <3>1. PICK d \in T : \A c \in T : d <= c
      BY LeastNumber
    <3> DEFINE i == n - d
    <3>2. i \in 1..n /\ ~Right(i)
      BY <3>1
    <3>3. CASE d = 0
      BY <1>2, <2>1, <3>2, <3>3
    <3>4. CASE d # 0
      <4> HIDE DEF Right
      <4>1. d - 1 \in Nat /\ d - 1 < n /\ n - (d - 1) = i + 1 /\ i # n
        BY <3>4
      <4>2. Right(i + 1)
        <5>1. d - 1 \notin T
          <6> HIDE DEF T
          <6>1. d \in Nat
            BY DEF T
          <6> QED  BY <3>1, <6>1
        <5> QED  BY <4>1, <5>1
      <4> USE DEF Right
      <4> HIDE DEF T, i, After
      <4>3. /\ to_bits(es[i]) \in Bits /\ Ones(to_bits(es[i])) = {es[i]}
            /\ After(i) = {es[i]} \cup After(i + 1)
        BY <1>2, <3>2, <4>1
      <4>4. /\ to_bits(es[i]) | from[i + 1] \in Bits
            /\ Ones(to_bits(es[i]) | from[i + 1]) = After(i)
        BY <4>2, <4>3, OnesOfOperators
      <4>5. from[i] = to_bits(es[i]) | from[i + 1]
        BY <2>1, <3>2, <4>1
      <4> QED  BY <3>2, <4>4, <4>5
    <3> QED  BY <3>3, <3>4
  <2>3. Right(1)
    <3>1. n - 1 \in Nat /\ n - 1 < n /\ n - (n - 1) = 1
      OBVIOUS
    <3> HIDE DEF Right
    <3>2. Right(n - (n - 1))
      BY <2>2, <3>1
    <3> QED  BY <3>1, <3>2
  <2>4. After(1) = Range(es)
    BY <1>1 DEF Range
  <2> QED  BY <2>3, <2>4
<1> QED  BY <1>3, <1>4

\* make_flags and the older to_bits give the flags of the list.
LEMMA ListsOfFlags ==
  ASSUME NEW es \in Lists
  PROVE  /\ make_flags(es) \in Bits /\ Ones(make_flags(es)) = Range(es)
         /\ Older!to_bits_of(es) = make_flags(es)
         /\ Range(es) \subseteq Enum
<1>1. PICK n \in Nat \ {0} : es \in [1..n -> Enum]
  BY DEF Lists
<1>2. /\ \E from : from = Joined(es, from)
      /\ \A from : from = Joined(es, from) => from[1] \in Bits /\ Ones(from[1]) = Range(es)
  BY <1>1, JoinedAreOnes
<1> DEFINE from == CHOOSE from : from = Joined(es, from)
<1>3. from = Joined(es, from)
  BY <1>2, Zenon
<1>4. make_flags(es) = from[1]
  BY Zenon DEF make_flags, Joined
<1>5. Older!to_bits_of(es) = from[1]
  BY Zenon DEF Older!to_bits_of, Joined, Older!to_bits, to_bits, Older!Cast, Cast, |, Older!|,
     Older!Word, Word, Older!Bits, Bits, Older!Ones, Ones, Older!Places, Places
<1>6. Range(es) \subseteq Enum
  BY <1>1 DEF Range
<1> HIDE DEF from
<1> QED  BY <1>2, <1>3, <1>4, <1>5, <1>6

\* The older functions compute the same.
LEMMA OlderIsSame ==
  ASSUME NEW f, NEW e
  PROVE  /\ Older!has_flag(f, e) = has_flag(f, e)
         /\ Older!toggle_flag(f, e) = toggle_flag(f, e)
         /\ Older!all_bits = Complement(0)
<1>1. Older!to_bits(e) = to_bits(e)
  BY DEF Older!to_bits, to_bits, Older!Cast, Cast
<1>3. \A a, b : Older!&(a, b) = a & b
  BY Zenon DEF Older!&, &, Older!Word, Word, Older!Bits, Bits, Older!Ones, Ones, Older!Places, Places
<1>5. \A a, b : Older!^^(a, b) = a ^^ b
  BY Zenon DEF Older!^^, ^^, Older!SymDiff, SymDiff, Older!Word, Word, Older!Bits, Bits, Older!Ones,
     Ones, Older!Places, Places
<1>4. /\ Older!has_flag(f, e) = has_flag(f, e)
      /\ Older!toggle_flag(f, e) = toggle_flag(f, e)
  BY <1>1, <1>3, <1>5 DEF Older!has_flag, has_flag, Older!toggle_flag, toggle_flag
<1>2. Older!all_bits = Complement(0)
  <2>1. -1 = -0 - 1
    OBVIOUS
  <2> QED  BY <2>1 DEF Older!all_bits, Complement, Older!Cast, Cast
<1> QED  BY <1>2, <1>4

-----------------------------------------------------------------------------
\* The values of the variables.
FlagsAreBits == flags \in [Vars -> Bits]

\* Every operation returns a value of the underlying type.
LEMMA FlagsStepPreservesType ==
  FlagsAreBits /\ [Next]_flags => FlagsAreBits'
<1> SUFFICES ASSUME FlagsAreBits, [Next]_flags
             PROVE  FlagsAreBits'
  OBVIOUS
<1>1. ASSUME NEW v \in Vars, NEW f \in Bits, Assign(v, f)
      PROVE  FlagsAreBits'
  BY <1>1 DEF Assign, FlagsAreBits
<1>2. \A x \in Operands : x \in Bits
  BY EnumFacts DEF Operands, FlagsAreBits
<1>3. \A w \in Vars : flags[w] \in Bits
  BY DEF FlagsAreBits
<1>4. CASE UNCHANGED flags
  BY <1>4 DEF FlagsAreBits
<1>5. ASSUME NEW v \in Vars,
             Construct(v) \/ Make(v) \/ Invert(v) \/ Combine(v) \/ Change(v)
      PROVE  FlagsAreBits'
  <2>1. CASE Construct(v)
    BY <2>1, <1>1, EnumFacts, RawBitsAssumption DEF Construct
  <2>2. CASE Make(v)
    BY <2>2, <1>1, EnumFacts, ListsOfFlags, OnesOfComplement DEF Make, no_flags, all_flags
  <2>3. CASE Invert(v)
    BY <2>3, <1>1, <1>2, OnesOfComplement DEF Invert
  <2>4. CASE Combine(v)
    BY <2>4, <1>1, <1>2, OnesOfOperators DEF Combine
  <2>5. CASE Change(v)
    <3>1. ASSUME NEW w \in Vars, NEW e \in Enum
          PROVE  /\ add_flag(flags[w], e) \in Bits
                 /\ remove_flag(flags[w], e) \in Bits
                 /\ toggle_flag(flags[w], e) \in Bits
      BY <1>3, EnumFacts, OnesOfComplement, OnesOfOperators DEF add_flag, remove_flag, toggle_flag
    <3> QED  BY <2>5, <3>1, <1>1 DEF Change
  <2> QED  BY <1>5, <2>1, <2>2, <2>3, <2>4, <2>5
<1> QED  BY <1>4, <1>5 DEF Next

\* What operations do to values of the underlying type is all that there is to
\* show of them.
LEMMA FlagsStayBits == Spec => []FlagsAreBits
<1>1. Init => FlagsAreBits
  BY EnumFacts DEF Init, FlagsAreBits, no_flags
<1> QED  BY <1>1, FlagsStepPreservesType, PTL DEF Spec

\* What an operation on one flag does to the ones.
LEMMA OneFlag ==
  ASSUME NEW f \in Bits, NEW e \in Enum
  PROVE  /\ add_flag(f, e) \in Bits /\ Ones(add_flag(f, e)) = Ones(f) \cup {e}
         /\ remove_flag(f, e) \in Bits /\ Ones(remove_flag(f, e)) = Ones(f) \ {e}
         /\ toggle_flag(f, e) \in Bits /\ Ones(toggle_flag(f, e)) = SymDiff(Ones(f), {e})
<1>1. to_bits(e) \in Bits /\ Ones(to_bits(e)) = {e}
  BY EnumFacts
<1>2. Complement(to_bits(e)) \in Bits /\ Ones(Complement(to_bits(e))) = Places \ {e}
  BY <1>1, OnesOfComplement
<1>3. Ones(f) \cap (Places \ {e}) = Ones(f) \ {e}
  BY WordHasOnes
<1>4. add_flag(f, e) \in Bits /\ Ones(add_flag(f, e)) = Ones(f) \cup {e}
  BY <1>1, OnesOfOperators DEF add_flag
<1>5. remove_flag(f, e) \in Bits /\ Ones(remove_flag(f, e)) = Ones(f) \ {e}
  BY <1>2, <1>3, OnesOfOperators DEF remove_flag
<1>6. toggle_flag(f, e) \in Bits /\ Ones(toggle_flag(f, e)) = SymDiff(Ones(f), {e})
  <2>1. /\ f ^^ to_bits(e) \in Bits
        /\ Ones(f ^^ to_bits(e)) = SymDiff(Ones(f), Ones(to_bits(e)))
    BY <1>1, OnesOfOperators
  <2> QED  BY <1>1, <2>1, Zenon DEF toggle_flag
<1> QED  BY <1>4, <1>5, <1>6

\* For every width and enumeration, and all lists and values that variables may
\* have: seen through has_flag the operations are those on sets of enumerators,
\* and an operation on one flag leaves every other bit alone.
THEOREM FlagsActAsSet == Spec => []ActsAsSet
<1>1. ListsActAsSets
  <2>1. Members(Older!all_bits) = Enum
    <3>1. Complement(0) \in Bits /\ Ones(Complement(0)) = Places
      BY EnumFacts, OnesOfComplement
    <3> QED  BY <3>1, OlderIsSame, MembersAreOnes, EnumFacts
  <2>2. ASSUME NEW es \in Lists
        PROVE  /\ Members(make_flags(es)) = Range(es)
               /\ Members(Older!to_bits_of(es)) = Range(es)
    BY ListsOfFlags, MembersAreOnes
  <2> QED  BY <2>1, <2>2 DEF ListsActAsSets
<1>2. ASSUME NEW f \in Bits
      PROVE  /\ Members(Complement(f)) = Enum \ Members(f)
             /\ \A g \in Bits :
                  /\ Members(f | g) = Members(f) \cup Members(g)
                  /\ Members(f & g) = Members(f) \cap Members(g)
                  /\ Members(f ^^ g) = SymDiff(Members(f), Members(g))
  <2>1. Members(Complement(f)) = Enum \ Members(f)
    BY OnesOfComplement, MembersAreOnes, EnumFacts
  <2>2. ASSUME NEW g \in Bits
        PROVE  /\ Members(f | g) = Members(f) \cup Members(g)
               /\ Members(f & g) = Members(f) \cap Members(g)
    BY OnesOfOperators, MembersAreOnes
  <2>3. ASSUME NEW g \in Bits
        PROVE  Members(f ^^ g) = SymDiff(Members(f), Members(g))
    BY OnesOfOperators, MembersAreOnes DEF SymDiff
  <2> QED  BY <2>1, <2>2, <2>3
<1>3. ASSUME NEW f \in Bits, NEW e \in Enum
      PROVE  /\ Older!has_flag(f, e) = (e \in Members(f))
             /\ Members(add_flag(f, e)) = Members(f) \cup {e}
             /\ Members(remove_flag(f, e)) = Members(f) \ {e}
             /\ \A toggled \in {toggle_flag(f, e), Older!toggle_flag(f, e)} :
                  Members(toggled) = SymDiff(Members(f), {e}) /\ Rest(toggled) = Rest(f)
             /\ Rest(add_flag(f, e)) = Rest(f) /\ Rest(remove_flag(f, e)) = Rest(f)
  <2>1. Older!has_flag(f, e) = (e \in Members(f))
    BY OlderIsSame, MembersAreOnes DEF has_flag, Members
  <2>2. /\ Members(add_flag(f, e)) = Members(f) \cup {e}
        /\ Members(remove_flag(f, e)) = Members(f) \ {e}
    <3>1. /\ add_flag(f, e) \in Bits /\ Ones(add_flag(f, e)) = Ones(f) \cup {e}
          /\ remove_flag(f, e) \in Bits /\ Ones(remove_flag(f, e)) = Ones(f) \ {e}
      BY OneFlag
    <3> QED  BY <3>1, MembersAreOnes
  <2>3. Members(toggle_flag(f, e)) = SymDiff(Members(f), {e})
    BY SMTT(30), OneFlag, MembersAreOnes DEF SymDiff
  <2>4. Rest(add_flag(f, e)) = Rest(f) /\ Rest(remove_flag(f, e)) = Rest(f)
    <3>1. /\ add_flag(f, e) \in Bits /\ remove_flag(f, e) \in Bits
          /\ Ones(add_flag(f, e)) \ Enum = Ones(f) \ Enum
          /\ Ones(remove_flag(f, e)) \ Enum = Ones(f) \ Enum
      <4>1. (Ones(f) \cup {e}) \ Enum = Ones(f) \ Enum /\ (Ones(f) \ {e}) \ Enum = Ones(f) \ Enum
        OBVIOUS
      <4> QED  BY <4>1, OneFlag, Zenon
    <3> QED  BY <3>1, RestIsOnes
  <2>5. Rest(toggle_flag(f, e)) = Rest(f)
    <3>1. Ones(toggle_flag(f, e)) \ Enum = Ones(f) \ Enum
      BY OneFlag DEF SymDiff
    <3> QED  BY <3>1, OneFlag, RestIsOnes
  <2> QED  BY <2>1, <2>2, <2>3, <2>4, <2>5, OlderIsSame
<1>4. FlagsAreBits => ActsAsSet
  BY <1>1, <1>2, <1>3 DEF FlagsAreBits, ActsAsSet
<1> QED  BY <1>4, FlagsStayBits, PTL

\* Above the enumerators there are no ones, or nothing but ones.
Even(f) == f \in Bits /\ Ones(f) \ Enum \in {{}, Places \ Enum}

\* Every variable is even above the enumerators.
RestInv == FlagsAreBits /\ \A v \in Vars : Even(flags[v])

\* Every operation keeps the bits above the enumerators even.
LEMMA OperationsKeepEven ==
  /\ \A e \in Enum : Even(to_bits(e))
  /\ \A es \in Lists : Even(make_flags(es))
  /\ Even(0)
  /\ \A f \in Bits : Even(f) => Even(Complement(f))
  /\ \A f, g \in Bits : Even(f) /\ Even(g) => Even(f | g) /\ Even(f & g) /\ Even(f ^^ g)
<1>1. \A e \in Enum : Even(to_bits(e))
  BY EnumFacts DEF Even
<1>2. \A es \in Lists : Even(make_flags(es))
  BY ListsOfFlags DEF Even
<1>3. Even(0)
  BY EnumFacts DEF Even
<1>4. ASSUME NEW f \in Bits, Even(f)
      PROVE  Even(Complement(f))
  <2>1. Complement(f) \in Bits /\ Ones(Complement(f)) = Places \ Ones(f)
    BY OnesOfComplement
  <2>2. Ones(f) \subseteq Places
    BY WordHasOnes
  <2>3. (Places \ Ones(f)) \ Enum \in {{}, Places \ Enum}
    BY <1>4, <2>2 DEF Even
  <2> QED  BY <2>1, <2>3 DEF Even
<1>5. ASSUME NEW f \in Bits, NEW g \in Bits, Even(f), Even(g)
      PROVE  Even(f | g) /\ Even(f & g) /\ Even(f ^^ g)
  <2>1. Ones(f) \subseteq Places /\ Ones(g) \subseteq Places
    BY WordHasOnes
  <2>2. /\ (Ones(f) \cup Ones(g)) \ Enum \in {{}, Places \ Enum}
        /\ (Ones(f) \cap Ones(g)) \ Enum \in {{}, Places \ Enum}
    BY <1>5, <2>1 DEF Even
  <2>3. SymDiff(Ones(f), Ones(g)) \ Enum \in {{}, Places \ Enum}
    BY <1>5, <2>1 DEF Even, SymDiff
  <2> QED  BY <2>2, <2>3, OnesOfOperators DEF Even
<1> QED  BY <1>1, <1>2, <1>3, <1>4, <1>5

\* Every step keeps the bits above the enumerators even.
LEMMA RestStepPreservesInv ==
  ASSUME \A bits \in RawBits : Even(bits), RestInv, [Next]_flags
  PROVE  RestInv'
<1>1. FlagsAreBits'
  BY FlagsStepPreservesType DEF RestInv
<1>2. ASSUME NEW v \in Vars, NEW f, Even(f), Assign(v, f)
      PROVE  \A w \in Vars : Even(flags'[w])
  <2>1. flags' = [flags EXCEPT ![v] = f] /\ flags \in [Vars -> Bits]
    BY <1>2 DEF Assign, RestInv, FlagsAreBits
  <2>2. \A w \in Vars : flags'[w] = IF w = v THEN f ELSE flags[w]
    BY <2>1
  <2> QED  BY <1>2, <2>2 DEF RestInv
<1>3. \A x \in Operands : x \in Bits /\ Even(x)
  BY OperationsKeepEven, EnumFacts DEF Operands, RestInv, FlagsAreBits
<1>4. \A w \in Vars : flags[w] \in Bits /\ Even(flags[w])
  BY DEF RestInv, FlagsAreBits
<1>5. CASE UNCHANGED flags
  BY <1>1, <1>4, <1>5 DEF RestInv
<1>6. ASSUME NEW v \in Vars,
             Construct(v) \/ Make(v) \/ Invert(v) \/ Combine(v) \/ Change(v)
      PROVE  \A w \in Vars : Even(flags'[w])
  <2>1. CASE Construct(v)
    BY <2>1, <1>2, OperationsKeepEven DEF Construct
  <2>2. CASE Make(v)
    <3>1. Even(no_flags) /\ Even(all_flags)
      BY OperationsKeepEven, EnumFacts DEF no_flags, all_flags
    <3> QED  BY <2>2, <3>1, <1>2, OperationsKeepEven DEF Make
  <2>3. CASE Invert(v)
    BY <2>3, <1>2, <1>3, OperationsKeepEven DEF Invert
  <2>4. CASE Combine(v)
    BY <2>4, <1>2, <1>3, OperationsKeepEven DEF Combine
  <2>5. CASE Change(v)
    <3>1. ASSUME NEW w \in Vars, NEW e \in Enum
          PROVE  /\ Even(add_flag(flags[w], e))
                 /\ Even(remove_flag(flags[w], e))
                 /\ Even(toggle_flag(flags[w], e))
      <4>1. to_bits(e) \in Bits /\ Even(to_bits(e))
        BY OperationsKeepEven, EnumFacts
      <4>2. Complement(to_bits(e)) \in Bits /\ Even(Complement(to_bits(e)))
        BY <4>1, OperationsKeepEven, OnesOfComplement
      <4> QED  BY <4>1, <4>2, <1>4, OperationsKeepEven DEF add_flag, remove_flag, toggle_flag
    <3> QED  BY <2>5, <3>1, <1>2 DEF Change
  <2> QED  BY <1>6, <2>1, <2>2, <2>3, <2>4, <2>5
<1> QED  BY <1>1, <1>5, <1>6 DEF Next, RestInv

\* If the bits passed to the constructor are those of enumerators, variables with
\* the same enumerators are equal or differ in all other bits, for every width and
\* enumeration.
THEOREM FlagsEqualUpToTheRest ==
  ASSUME \A bits \in RawBits : Rest(bits) = 0
  PROVE  Spec => []EqualUpToTheRest
<1>1. ASSUME NEW bits \in RawBits
      PROVE  Even(bits)
  <2>1. bits \in Bits /\ Rest(bits) = 0
    BY RawBitsAssumption
  <2>2. {k \in Places : Cardinality(Enum) + k \in Ones(bits)} = {}
    BY <2>1, RestIsOnes, EnumFacts
  <2>3. ASSUME NEW k \in Ones(bits), k \notin Enum
        PROVE  FALSE
    <3> DEFINE C == Cardinality(Enum)
    <3>1. k \in Places /\ k >= C /\ C \in Nat /\ Width \in Nat
      <4>1. k \in Places /\ ~(k < C)
        BY <2>3, EnumFacts, WordHasOnes
      <4>2. C \in Nat /\ Width \in Nat
        BY EnumFacts, WidthAssumption
      <4> QED  BY <4>1, <4>2 DEF Places
    <3> HIDE DEF C
    <3>2. k - C \in Places /\ C + (k - C) = k
      BY <3>1 DEF Places
    <3> QED  BY <3>2, <2>2 DEF C
  <2> QED  BY <2>1, <2>3 DEF Even
<1>2. Init => RestInv
  BY EnumFacts, OperationsKeepEven DEF Init, RestInv, FlagsAreBits, no_flags
<1>3. RestInv /\ [Next]_flags => RestInv'
  BY <1>1, RestStepPreservesInv
<1>4. RestInv => EqualUpToTheRest
  <2> SUFFICES ASSUME RestInv, NEW v \in Vars, NEW w \in Vars,
                      Members(flags[v]) = Members(flags[w]), flags[v] # flags[w]
               PROVE  Rest(flags[v]) ^^ Rest(flags[w]) = 2^(Width - Cardinality(Enum)) - 1
    BY DEF EqualUpToTheRest
  <2> DEFINE f == flags[v]
             g == flags[w]
             C == Cardinality(Enum)
  <2>1. f \in Bits /\ g \in Bits /\ Even(f) /\ Even(g)
    BY DEF RestInv, FlagsAreBits
  <2>2. Enum \cap Ones(f) = Enum \cap Ones(g) /\ f # g
    BY <2>1, MembersAreOnes
  <2> HIDE DEF f, g
  <2>3. Ones(f) \ Enum # Ones(g) \ Enum
    <3>1. Ones(f) # Ones(g)
      BY <2>1, <2>2, WordHasOnes
    <3> QED  BY <2>2, <3>1
  <2>4. \A k \in Places \ Enum : k \in Ones(f) <=> ~(k \in Ones(g))
    BY <2>1, <2>3 DEF Even
  <2>5. C \in Nat /\ C \in 0 .. Width /\ Width \in Nat
    BY EnumFacts, WidthAssumption
  <2>6. ASSUME NEW k \in Places
        PROVE  k \in SymDiff(Ones(Rest(f)), Ones(Rest(g))) <=> k < Width - C
    <3>1. k \in Ones(Rest(f)) <=> C + k \in Ones(f)
      BY <2>1, RestIsOnes
    <3>2. k \in Ones(Rest(g)) <=> C + k \in Ones(g)
      BY <2>1, RestIsOnes
    <3>3. k \in Nat
      BY <2>5 DEF Places
    <3>4. C + k \in Places <=> k < Width - C
      BY <2>5, <3>3 DEF Places
    <3>5. C + k \notin Enum
      <4>1. \A j \in Enum : j < C
        BY EnumFacts
      <4> QED  BY <2>5, <3>3, <4>1
    <3>6. Ones(f) \subseteq Places /\ Ones(g) \subseteq Places
      BY WordHasOnes
    <3> HIDE DEF C
    <3> QED  BY <3>1, <3>2, <3>4, <3>5, <3>6, <2>4 DEF SymDiff
  <2>7. /\ Rest(f) ^^ Rest(g) \in Bits
        /\ Ones(Rest(f) ^^ Rest(g)) = SymDiff(Ones(Rest(f)), Ones(Rest(g)))
    BY <2>1, RestIsOnes, OnesOfOperators
  <2>8. /\ 2^(Width - C) - 1 \in Bits
        /\ Ones(2^(Width - C) - 1) = {k \in Places : k < Width - C}
    <3>1. Width - C \in 0 .. Width
      BY <2>5
    <3> HIDE DEF C
    <3> QED  BY <3>1, OnesOfMask
  <2>9. Ones(Rest(f) ^^ Rest(g)) = Ones(2^(Width - C) - 1)
    <3>1. Ones(Rest(f) ^^ Rest(g)) \subseteq Places
      BY WordHasOnes
    <3> HIDE DEF C
    <3> QED  BY <3>1, <2>6, <2>7, <2>8
  <2>10. Rest(f) ^^ Rest(g) = 2^(Width - C) - 1
    BY <2>7, <2>8, <2>9, WordHasOnes
  <2> QED  BY <2>10 DEF f, g, C
<1> QED  BY <1>2, <1>3, <1>4, PTL DEF Spec

-----------------------------------------------------------------------------
\* A number other than 0 has a highest one, and lies between the powers of two.
LEMMA HighestOne ==
  ASSUME NEW v \in Bits, v # 0
  PROVE  \E h \in Places : /\ 2^h <= v /\ v < 2^(h + 1)
                           /\ h \in Ones(v) /\ \A l \in Ones(v) : l <= h
<1> DEFINE T == {m \in Nat : v < 2^m}
<1>0. Width \in Nat /\ v \in Nat \ {0} /\ v < 2^Width
  BY WidthAssumption, PowersDouble DEF Bits
<1>1. PICK m \in T : \A n \in T : m <= n
  <2>1. Width \in T
    BY <1>0
  <2> QED  BY <2>1, LeastNumber
<1>2. m \in Nat /\ v < 2^m /\ m # 0 /\ m <= Width
  <2>1. ~(v < 2^0)
    BY <1>0, PowersDouble
  <2> QED  BY <1>0, <1>1, <2>1
<1>3. PICK h \in Nat : m = h + 1 /\ h \in Places
  <2>1. m - 1 \in Nat /\ m = (m - 1) + 1 /\ m - 1 \in Places
    BY <1>0, <1>2 DEF Places
  <2> QED  BY <2>1
<1>4. 2^h \in Nat \ {0} /\ 2^m = 2 * 2^h
  BY <1>3, PowersDouble
<1>5. 2^h <= v
  <2>1. h \notin T
    BY <1>1, <1>3
  <2> QED  BY <1>0, <1>3, <1>4, <2>1
<1>6. Digit(v, h) = 1
  <2>1. v - 2^h \in 0 .. 2^h - 1 /\ v = (v - 2^h) + 1 * 2^h
    BY <1>0, <1>2, <1>4, <1>5
  <2> QED  BY <2>1, <1>3, DigitsAbove
<1>7. ASSUME NEW l \in Ones(v)
      PROVE  l <= h
  <2>1. l \in Nat /\ Digit(v, l) = 1
    BY WordHasOnes, <1>0 DEF Places
  <2>2. v \in 0 .. 2^m - 1
    BY <1>0, <1>2, <1>4
  <2>3. ~(l >= m)
    BY <2>1, <2>2, <1>2, DigitsAbove
  <2> QED  BY <2>1, <2>3, <1>3
<1>8. h \in Ones(v)
  BY <1>3, <1>6, WordHasOnes
<1> QED  BY <1>2, <1>3, <1>5, <1>7, <1>8

\* Values with the same ones are equal.
LEMMA SameOnes ==
  ASSUME NEW a \in Bits, NEW b \in Bits, Ones(a) = Ones(b)
  PROVE  a = b
BY WordHasOnes

\* Powers of two are ordered as their exponents are.
LEMMA PowersInOrder ==
  ASSUME NEW j \in Nat, NEW k \in Nat
  PROVE  /\ j <= k <=> 2^j <= 2^k
         /\ j = k <=> 2^j = 2^k
<1>1. 2^j \in Nat /\ 2^k \in Nat
  BY PowersDouble
<1>2. CASE j < k
  BY <1>1, <1>2, PowersGrow
<1>3. CASE k < j
  BY <1>1, <1>3, PowersGrow
<1>4. CASE j = k
  BY <1>1, <1>4
<1> QED  BY <1>2, <1>3, <1>4

\* What the function returns: 0 wraps around to the largest number, and beyond the
\* largest power the increment wraps around to 0.
Expected(n) == IF n = 0 \/ n > Max(Powers) THEN 0 ELSE NextPower(n)

\* The next power of a number is the one above the highest one of its predecessor.
LEMMA ExpectedIsNext ==
  /\ Expected(0) = 0
  /\ Expected(1) = 1
  /\ \A n \in Bits, h \in Places : 2^h < n /\ n <= 2^(h + 1) => Expected(n) = Cast(2^(h + 1))
<1> USE DEF Powers
<1>0. Width \in Nat \ {0} /\ 2^Width \in Nat \ {0} /\ 2^0 = 1
  BY WidthAssumption, PowersDouble
<1>1. Expected(0) = 0
  BY DEF Expected, NextPower
<1>2. Max(Powers) = 2^(Width - 1)
  <2>1. 2^(Width - 1) \in Powers
    BY <1>0
  <2>2. ASSUME NEW p \in Powers
        PROVE  p <= 2^(Width - 1)
    <3>1. PICK k \in 0 .. Width - 1 : p = 2^k
      OBVIOUS
    <3> QED  BY <3>1, <1>0, PowersInOrder
  <2>3. \A p \in Powers : p \in Nat
    BY <1>0, PowersDouble
  <2> HIDE DEF Powers
  <2>4. \A x \in Powers : (\A p \in Powers : p <= x) => x = 2^(Width - 1)
    BY <2>1, <2>2, <2>3
  <2> QED  BY <2>1, <2>2, <2>4 DEF Max
<1>3. ASSUME NEW n \in Bits, n # 0, NEW k \in 0 .. Width - 1, n <= 2^k,
             \A j \in 0 .. Width - 1 : n <= 2^j => k <= j
      PROVE  Expected(n) = 2^k
  <2>1. ~(n > 2^(Width - 1))
    <3>1. 2^k <= 2^(Width - 1) /\ 2^k \in Nat /\ 2^(Width - 1) \in Nat
      BY <1>0, PowersInOrder, PowersDouble
    <3> QED  BY <1>0, <1>3, <3>1 DEF Bits
  <2> DEFINE above == {p \in Powers : p >= n}
  <2>2. 2^k \in above
    BY <1>0, <1>3, PowersDouble DEF Bits
  <2>3. ASSUME NEW p \in above
        PROVE  2^k <= p /\ p \in Nat
    <3>1. PICK j \in 0 .. Width - 1 : p = 2^j
      OBVIOUS
    <3>2. n <= 2^j /\ p \in Nat
      BY <3>1, <1>0, PowersDouble DEF Bits
    <3> QED  BY <3>1, <3>2, <1>0, <1>3, PowersInOrder
  <2>4. Min(above) = 2^k
    <3> HIDE DEF above
    <3>1. \A x \in above : (\A p \in above : x <= p) => x = 2^k
      BY <2>2, <2>3
    <3> QED  BY <2>2, <2>3, <3>1 DEF Min
  <2> QED  BY <1>2, <1>3, <2>1, <2>4 DEF Expected, NextPower
<1>4. Expected(1) = 1
  <2>1. 1 \in Bits
    <3>1. 2^0 < 2^Width
      BY <1>0, PowersGrow
    <3> QED  BY <1>0, <3>1 DEF Bits
  <2>2. 0 \in 0 .. Width - 1 /\ \A j \in 0 .. Width - 1 : 0 <= j
    BY <1>0
  <2>3. 1 # 0 /\ 1 <= 2^0
    BY <1>0
  <2>4. Expected(1) = 2^0
    BY <1>3, <2>1, <2>2, <2>3, Zenon
  <2> QED  BY <1>0, <2>4, Zenon
<1>5. ASSUME NEW n \in Bits, NEW h \in Places, 2^h < n, n <= 2^(h + 1)
      PROVE  Expected(n) = Cast(2^(h + 1))
  <2>1. h \in Nat /\ h + 1 \in Nat /\ 2^h \in Nat /\ 2^(h + 1) \in Nat /\ n \in Nat /\ n # 0
    BY <1>0, <1>5, PowersDouble DEF Places, Bits
  <2>2. CASE h + 1 = Width
    <3>1. h = Width - 1 /\ n > 2^(Width - 1)
      BY <1>0, <1>5, <2>1, <2>2
    <3>2. Expected(n) = 0
      BY <1>2, <3>1 DEF Expected, NextPower
    <3>3. \A d \in Nat \ {0} : d % d = 0
      OBVIOUS
    <3> QED  BY <1>0, <2>2, <3>2, <3>3 DEF Cast
  <2>3. CASE h + 1 # Width
    <3>1. h + 1 \in 0 .. Width - 1 /\ h + 1 \in Places
      BY <1>0, <2>1, <2>3 DEF Places
    <3>2. ASSUME NEW j \in 0 .. Width - 1, n <= 2^j
          PROVE  h + 1 <= j
      <4>1. ~(2^j <= 2^h)
        BY <1>0, <1>5, <2>1, <3>2, PowersDouble
      <4> QED  BY <1>0, <2>1, <4>1, PowersInOrder
    <3>3. Expected(n) = 2^(h + 1)
      BY <1>3, <1>5, <2>1, <3>1, <3>2
    <3> QED  BY <3>1, <3>3, OnesOfPower
  <2> QED  BY <2>2, <2>3
<1> QED  BY <1>1, <1>4, <1>5

-----------------------------------------------------------------------------
\* The shifts of the first statements.
FirstShifts(j) == {2^i : i \in 0 .. j - 1}

\* A place has a one if one of as many places from there on has in the decremented
\* input.
Smeared(distance) ==
  \A k \in Places : k \in Ones(value) <=> \E l \in Ones(Cast(input - 1)) : k <= l /\ l < k + distance

ReturnsExpected == pc = "done" => value = Expected(input)

\* What the statements so far have done to the number.
PowerInv ==
  /\ input \in Bits /\ value \in Bits
  /\ pc = "decrement" => value = input /\ shifted = {}
  /\ pc = "smear" => \E j \in Nat : /\ shifted = FirstShifts(j) /\ ~(Shifts \subseteq shifted)
                                    /\ Smeared(2^j)
  /\ pc = "increment" => Smeared(Width)
  /\ ReturnsExpected

\* value-- and value++ are computed in the type.
LEMMA CastIsBits ==
  ASSUME NEW n \in Int
  PROVE  /\ Cast(n) \in Bits
         /\ n \in Bits => Cast(n) = n
<1>1. 2^Width \in Nat \ {0}
  BY WidthAssumption, PowersDouble
<1>2. \A d \in Nat \ {0} : n % d \in 0 .. d - 1 /\ (n \in 0 .. d - 1 => n % d = n)
  OBVIOUS
<1> QED  BY <1>1, <1>2 DEF Cast, Bits

\* The next shift is twice the one before.
LEMMA NextShift ==
  ASSUME NEW n \in Nat, Shifts = FirstShifts(n), NEW j \in Nat, shifted = FirstShifts(j),
         ~(Shifts \subseteq shifted)
  PROVE  /\ Min(Shifts \ shifted) = 2^j
         /\ shifted \cup {2^j} = FirstShifts(j + 1)
         /\ shifted \cup {2^j} = Shifts <=> j + 1 = n
         /\ Shifts \subseteq shifted \cup {2^j} <=> j + 1 = n
<1>1. j < n
  <2> SUFFICES ASSUME ~(j < n) PROVE FALSE
    OBVIOUS
  <2>1. 0 .. n - 1 \subseteq 0 .. j - 1
    OBVIOUS
  <2> QED  BY <2>1 DEF FirstShifts
<1>2. \A m \in Nat : \A i \in Nat : 2^i \in FirstShifts(m) <=> i < m
  <2> SUFFICES ASSUME NEW m \in Nat, NEW i \in Nat
               PROVE  2^i \in FirstShifts(m) <=> i < m
    OBVIOUS
  <2>1. ASSUME 2^i \in FirstShifts(m)
        PROVE  i < m
    <3>1. PICK k \in 0 .. m - 1 : 2^i = 2^k
      BY <2>1 DEF FirstShifts
    <3> QED  BY <3>1, PowersInOrder
  <2>2. i < m => i \in 0 .. m - 1
    OBVIOUS
  <2> QED  BY <2>1, <2>2 DEF FirstShifts
<1>3. \A m \in Nat : \A s \in FirstShifts(m) : \E i \in Nat : s = 2^i /\ i < m
  BY DEF FirstShifts
<1>4. Min(Shifts \ shifted) = 2^j
  <2> DEFINE left == Shifts \ shifted
  <2>1. 2^j \in left
    BY <1>1, <1>2
  <2>2. ASSUME NEW s \in left
        PROVE  2^j <= s /\ s \in Nat
    <3>1. PICK i \in Nat : s = 2^i
      BY <1>3
    <3>2. ~(i < j)
      BY <1>2, <3>1
    <3> QED  BY <3>1, <3>2, PowersInOrder, PowersDouble
  <2> HIDE DEF left
  <2>3. \A x \in left : (\A s \in left : x <= s) => x = 2^j
    BY <2>1, <2>2
  <2>4. Min(left) = 2^j
    BY <2>1, <2>2, <2>3 DEF Min
  <2> QED  BY <2>4 DEF left
<1>5. shifted \cup {2^j} = FirstShifts(j + 1)
  <2>1. 0 .. (j + 1) - 1 = (0 .. j - 1) \cup {j}
    OBVIOUS
  <2> QED  BY <2>1 DEF FirstShifts
<1>6. shifted \cup {2^j} \subseteq Shifts
  BY <1>1, <1>2, <1>3
<1>7. Shifts \subseteq shifted \cup {2^j} <=> j + 1 = n
  <2>1. CASE j + 1 = n
    BY <1>5, <2>1
  <2>2. CASE j + 1 # n
    <3>1. j + 1 < n /\ j + 1 \in Nat
      BY <1>1, <2>2
    <3>2. 2^(j + 1) \in Shifts /\ 2^(j + 1) \notin FirstShifts(j + 1)
      BY <1>2, <3>1
    <3> QED  BY <1>5, <2>2, <3>2
  <2> QED  BY <2>1, <2>2
<1> QED  BY <1>4, <1>5, <1>6, <1>7

\* Every statement preserves the invariant.
LEMMA PowerStepPreservesInv ==
  PowerInv /\ [PowerNext]_powerVars => PowerInv'
<1> SUFFICES ASSUME PowerInv, [PowerNext]_powerVars
             PROVE  PowerInv'
  OBVIOUS
<1>0. /\ Width \in Nat \ {0} /\ 2^Width \in Nat \ {0}
      /\ input \in Bits /\ value \in Bits /\ input \in Nat /\ value \in Nat
      /\ input - 1 \in Int /\ value - 1 \in Int /\ value + 1 \in Int
      /\ Cast(input - 1) \in Bits
  <2>1. Width \in Nat \ {0} /\ 2^Width \in Nat \ {0} /\ input \in Nat /\ value \in Nat
    BY WidthAssumption, PowersDouble DEF Bits, PowerInv
  <2> QED  BY <2>1, CastIsBits DEF PowerInv
<1> DEFINE v == Cast(input - 1)
<1>1. \A l \in Ones(v) : l \in Places /\ l \in Nat /\ l < Width
  BY <1>0, WordHasOnes DEF Places
<1>2. CASE Decrement
  <2>1. /\ value' = v /\ pc' = "smear" /\ input' = input /\ shifted' = {}
    BY <1>2 DEF Decrement, PowerInv
  <2>2. shifted' = FirstShifts(0) /\ ~(Shifts \subseteq shifted')
    <3>1. PICK n \in 1 .. Width : Shifts = FirstShifts(n)
      BY ShiftsAssumption DEF FirstShifts
    <3>2. 0 \in 0 .. n - 1 /\ 0 .. 0 - 1 = {}
      OBVIOUS
    <3> QED  BY <2>1, <3>1, <3>2 DEF FirstShifts
  <2>3. Smeared(2^0)'
    <3>1. ASSUME NEW k \in Places
          PROVE  k \in Ones(v) <=> \E l \in Ones(v) : k <= l /\ l < k + 2^0
      <4>1. k \in Nat /\ 2^0 = 1
        BY <1>0, PowersDouble DEF Places
      <4>2. \A l \in Nat : k <= l /\ l < k + 2^0 <=> l = k
        BY <4>1
      <4> QED  BY <4>2, <1>1
    <3> QED  BY <3>1, <2>1 DEF Smeared
  <2> QED  BY <2>1, <2>2, <2>3, <1>0 DEF PowerInv, ReturnsExpected
<1>3. ASSUME NEW shift \in Shifts, Smear(shift)
      PROVE  PowerInv'
  <2>1. PICK j \in Nat : /\ shifted = FirstShifts(j) /\ ~(Shifts \subseteq shifted)
                         /\ Smeared(2^j)
    BY <1>3 DEF PowerInv, Smear
  <2>2. PICK n \in Nat : Shifts = FirstShifts(n) /\ Width <= 2^n
    <3>1. PICK n \in 1 .. Width : Shifts = FirstShifts(n) /\ Width <= 2^n
      BY ShiftsAssumption DEF FirstShifts
    <3> QED  BY <3>1, <1>0
  <2>3. /\ shift = 2^j
        /\ shifted \cup {2^j} = FirstShifts(j + 1)
        /\ shifted \cup {2^j} = Shifts <=> j + 1 = n
        /\ Shifts \subseteq shifted \cup {2^j} <=> j + 1 = n
    BY <1>3, <2>1, <2>2, NextShift DEF Smear
  <2>4. /\ value' = value | (value \div 2^(2^j))
        /\ shifted' = FirstShifts(j + 1) /\ input' = input
        /\ pc' = IF j + 1 = n THEN "increment" ELSE "smear"
    BY <1>3, <2>3 DEF Smear, shiftR
  <2>5. 2^j \in Nat \ {0} /\ 2^(j + 1) = 2 * 2^j /\ j + 1 \in Nat
    BY PowersDouble
  <2>6. /\ value \div 2^(2^j) \in Bits
        /\ Ones(value \div 2^(2^j)) = {k \in Places : 2^j + k \in Ones(value)}
    BY <1>0, <2>5, OnesOfShift
  <2>7. /\ value' \in Bits
        /\ \A k \in Places : k \in Ones(value') <=> k \in Ones(value) \/ 2^j + k \in Ones(value)
    <3> DEFINE moved == value \div 2^(2^j)
    <3>1. moved \in Bits /\ Ones(moved) = {k \in Places : 2^j + k \in Ones(value)}
      BY <2>6
    <3>2. value' = value | moved
      BY <2>4
    <3> HIDE DEF moved
    <3>3. value | moved \in Bits /\ Ones(value | moved) = Ones(value) \cup Ones(moved)
      BY <1>0, <3>1, OnesOfOperators
    <3>4. Ones(value') = Ones(value) \cup Ones(moved)
      BY <3>2, <3>3
    <3> QED  BY <3>1, <3>2, <3>3, <3>4
  <2>8. ASSUME NEW k \in Places
        PROVE  k \in Ones(value') <=> \E l \in Ones(v) : k <= l /\ l < k + 2^(j + 1)
    <3> DEFINE s == 2^j
    <3>0. k \in Nat /\ s \in Nat \ {0} /\ 2^(j + 1) = 2 * s
      BY <1>0, <2>5 DEF Places
    <3>1. k \in Ones(value) <=> \E l \in Ones(v) : k <= l /\ l < k + s
      BY <2>1 DEF Smeared
    <3>2. s + k \in Ones(value) <=> \E l \in Ones(v) : s + k <= l /\ l < s + k + s
      <4>1. CASE s + k \in Places
        BY <2>1, <4>1 DEF Smeared
      <4>2. CASE s + k \notin Places
        <5> HIDE DEF s
        <5>1. s + k \notin Ones(value)
          BY <4>2, WordHasOnes
        <5>2. \A l \in Ones(v) : ~(s + k <= l)
          BY <4>2, <3>0, <1>0, <1>1 DEF Places
        <5> QED  BY <5>1, <5>2
      <4> QED  BY <4>1, <4>2
    <3> HIDE DEF s, v
    <3>3. \A l \in Nat : /\ k <= l /\ l < k + s => k <= l /\ l < k + 2 * s
                         /\ s + k <= l /\ l < s + k + s => k <= l /\ l < k + 2 * s
                         /\ k <= l /\ l < k + 2 * s
                              => (k <= l /\ l < k + s) \/ (s + k <= l /\ l < s + k + s)
      BY <3>0
    <3>4. k \in Ones(value') <=> k \in Ones(value) \/ s + k \in Ones(value)
      BY <2>7 DEF s
    <3>5. \A l \in Ones(v) : l \in Nat
      BY <1>1 DEF v
    <3>6. (\E l \in Ones(v) : k <= l /\ l < k + 2 * s)
            <=> \/ \E l \in Ones(v) : k <= l /\ l < k + s
                \/ \E l \in Ones(v) : s + k <= l /\ l < s + k + s
      BY <3>3, <3>5
    <3>7. k \in Ones(value') <=> \E l \in Ones(v) : k <= l /\ l < k + 2 * s
      BY <3>1, <3>2, <3>4, <3>6
    <3> QED  BY <3>0, <3>7
  <2>9. CASE j + 1 = n
    <3>1. ASSUME NEW k \in Places, NEW l \in Ones(v)
          PROVE  l < k + 2^(j + 1) /\ l < k + Width
      BY <1>0, <1>1, <2>2, <2>5, <2>9 DEF Places
    <3>2. Smeared(Width)'
      BY <2>4, <2>8, <3>1 DEF Smeared
    <3> QED  BY <1>0, <2>4, <2>7, <2>9, <3>2 DEF PowerInv, ReturnsExpected
  <2>10. CASE j + 1 # n
    <3>1. Smeared(2^(j + 1))'
      BY <2>4, <2>8 DEF Smeared
    <3>2. ~(Shifts \subseteq shifted')
      BY <2>3, <2>4, <2>10
    <3> QED  BY <1>0, <2>4, <2>5, <2>7, <2>10, <3>1, <3>2 DEF PowerInv, ReturnsExpected
  <2> QED  BY <2>9, <2>10
<1>4. CASE Increment
  <2>1. /\ value' = Cast(value + 1) /\ pc' = "done" /\ input' = input
    BY <1>4 DEF Increment
  <2>2. ASSUME NEW k \in Places
        PROVE  k \in Ones(value) <=> \E l \in Ones(v) : k <= l
    <3>1. \A l \in Ones(v) : l < k + Width
      BY <1>0, <1>1 DEF Places
    <3> QED  BY <1>4, <3>1 DEF PowerInv, Smeared, Increment
  <2>3. CASE v = 0
    <3>1. Ones(value) = {}
      BY <2>2, <2>3, EnumFacts, WordHasOnes
    <3>2. value = 0
      <4>1. 0 \in Bits /\ Ones(0) = {}
        BY EnumFacts
      <4>2. Ones(value) = Ones(0) /\ value \in Bits
        BY <3>1, <4>1, <1>0
      <4> QED  BY <4>1, <4>2, SameOnes
    <3>3. input = 1
      <4>1. CASE input = 0
        <5>1. 0 - 1 = -0 - 1
          OBVIOUS
        <5>2. v = 2^Width - 1 - 0
          BY <4>1, <5>1, EnumFacts, OnesOfComplement DEF Complement
        <5>3. 2^0 < 2^Width /\ 2^0 = 1
          <6>1. 0 \in Nat /\ Width \in Nat /\ 0 < Width
            BY <1>0
          <6> QED  BY <6>1, PowersGrow, PowersDouble
        <5> QED  BY <1>0, <2>3, <5>2, <5>3
      <4>2. CASE input # 0
        <5>1. input - 1 \in Bits
          BY <1>0, <4>2 DEF Bits
        <5> QED  BY <1>0, <2>3, <5>1, CastIsBits
      <4> QED  BY <4>1, <4>2
    <3>4. Cast(0 + 1) = 1
      <4>1. 1 \in Bits /\ 0 + 1 = 1
        BY <3>3, <1>0
      <4> QED  BY <4>1, CastIsBits
    <3>5. value' = 1
      BY <2>1, <3>2, <3>4
    <3>6. value' = Expected(input)
      BY <3>3, <3>5, ExpectedIsNext
    <3> QED  BY <1>0, <2>1, <3>3, <3>5, <3>6 DEF PowerInv, ReturnsExpected, Expected
  <2>4. CASE v # 0
    <3>1. PICK h \in Places : /\ 2^h <= v /\ v < 2^(h + 1)
                              /\ h \in Ones(v) /\ \A l \in Ones(v) : l <= h
      BY <1>0, <2>4, HighestOne
    <3>2. h \in Nat /\ h < Width /\ h + 1 \in 0 .. Width /\ 2^(h + 1) \in Nat /\ 2^h \in Nat
      BY <1>0, PowersDouble DEF Places
    <3>3. \A k \in Places : k \in Ones(value) <=> k < h + 1
      <4> SUFFICES ASSUME NEW k \in Places
                   PROVE  k \in Ones(value) <=> k < h + 1
        OBVIOUS
      <4>1. k \in Nat
        BY <1>0 DEF Places
      <4>2. (\E l \in Ones(v) : k <= l) <=> k < h + 1
        BY <4>1, <3>1, <3>2, <1>1
      <4> QED  BY <2>2, <4>2
    <3>4. value = 2^(h + 1) - 1
      <4>1. 2^(h + 1) - 1 \in Bits /\ Ones(2^(h + 1) - 1) = {k \in Places : k < h + 1}
        BY <3>2, OnesOfMask
      <4>2. Ones(value) = {k \in Places : k < h + 1}
        BY <3>3, WordHasOnes
      <4>3. Ones(value) = Ones(2^(h + 1) - 1) /\ value \in Bits
        BY <4>1, <4>2, <1>0
      <4> QED  BY <4>1, <4>3, SameOnes
    <3>5. value' = Cast(2^(h + 1))
      <4>1. value + 1 = 2^(h + 1)
        BY <3>2, <3>4
      <4> QED  BY <4>1, <2>1
    <3>6. value' \in Bits
      BY <3>2, <3>5, CastIsBits
    <3>7. value' = Expected(input)
      <4>1. CASE input = 0
        <5>1. v = 2^Width - 1
          <6>1. 0 - 1 = -0 - 1
            OBVIOUS
          <6>2. v = 2^Width - 1 - 0
            BY <4>1, <6>1, EnumFacts, OnesOfComplement DEF Complement
          <6> QED  BY <1>0, <6>2
        <5>2. h + 1 = Width
          <6>1. 2^Width <= 2^(h + 1)
            BY <1>0, <3>1, <3>2, <5>1
          <6>2. Width <= h + 1
            BY <1>0, <3>2, <6>1, PowersInOrder
          <6> QED  BY <1>0, <3>2, <6>2
        <5>3. \A d \in Nat \ {0} : d % d = 0
          OBVIOUS
        <5>4. Cast(2^Width) = 0
          BY <1>0, <5>3 DEF Cast
        <5> QED  BY <3>5, <4>1, <5>2, <5>4, ExpectedIsNext
      <4>2. CASE input # 0
        <5>1. input - 1 \in Bits
          BY <1>0, <4>2 DEF Bits
        <5>2. v = input - 1
          BY <1>0, <5>1, CastIsBits
        <5>3. 2^h < input /\ input <= 2^(h + 1)
          BY <1>0, <3>1, <3>2, <5>2
        <5> QED  BY <1>0, <3>5, <5>3, ExpectedIsNext
      <4> QED  BY <4>1, <4>2
    <3> QED  BY <1>0, <2>1, <3>6, <3>7 DEF PowerInv, ReturnsExpected, Expected
  <2> QED  BY <2>3, <2>4
<1>5. CASE UNCHANGED powerVars
  BY <1>5 DEF powerVars, PowerInv, Smeared, ReturnsExpected
<1> QED  BY <1>2, <1>3, <1>4, <1>5 DEF PowerNext

\* For every width, and shifts that double until they reach it, the function
\* returns the least power of two that is not less than its argument, which is not
\* 0, and 0 where there is no such power.
THEOREM NextPowerIsReturned == PowerSpec => []ReturnsNextPower
<1>1. PowerInit => PowerInv
  BY DEF PowerInit, PowerInv, ReturnsExpected
<1>2. PowerInv => ReturnsNextPower
  BY DEF PowerInv, ReturnsExpected, Expected, ReturnsNextPower
<1> QED  BY <1>1, <1>2, PowerStepPreservesInv, PTL DEF PowerSpec

-----------------------------------------------------------------------------
\* The places of the text up to one of the file.
UpTo(places, p) == {k \in places : k <= p}

\* Where there is a mark of the end.
Marks == {k \in 1..Len(file) : windows /\ file[k] = EndMark}

\* What read has done so far if nobody has written to the file.
ReadSoFar ==
  /\ size = Len(file) /\ pos <= Len(file)
  /\ (\A k \in 1..pos : k \notin Marks)
  /\ got = Cardinality(UpTo(TextPlaces, pos))
  /\ \A i \in UpTo(TextPlaces, pos) : result[Cardinality(UpTo(TextPlaces, i))] = file[i]

\* A file that is there has contents, the string is as long as the size, and what
\* has not been read is blank.
FileInv(Characters) ==
  /\ at \in {"open", "tell", "rewind", "read", "done", "empty", "error"}
  /\ at \in {"tell", "rewind", "read", "done"} => file \in Seq(Characters)
  /\ file \in Contents \cup {NoFile}
  /\ pos \in Nat /\ size \in Nat /\ got \in Nat
  /\ at \in {"open", "tell", "rewind"} => got = 0
  /\ at \in {"read", "done"} =>
       /\ result \in [1..size -> Characters \cup {Blank}]
       /\ got <= size
       /\ \A i \in got + 1 .. size : result[i] = Blank
  /\ at = "rewind" /\ ~disturbed => size = Len(file)
  /\ at = "read" /\ ~disturbed => ReadSoFar
  /\ at = "done" /\ ~disturbed =>
       /\ size = Len(file) /\ got = Cardinality(TextPlaces)
       /\ \A i \in TextPlaces : result[Cardinality(UpTo(TextPlaces, i))] = file[i]

\* Places are counted.
LEMMA PlacesCounted ==
  ASSUME NEW Characters, file \in Seq(Characters), NEW p \in Nat
  PROVE  /\ TextPlaces \subseteq 1..Len(file) /\ IsFiniteSet(TextPlaces)
         /\ IsFiniteSet(UpTo(TextPlaces, p)) /\ Cardinality(UpTo(TextPlaces, p)) \in Nat
         /\ \A q \in Nat : q <= p => Cardinality(UpTo(TextPlaces, q)) <= Cardinality(UpTo(TextPlaces, p))
         /\ Len(file) <= p => UpTo(TextPlaces, p) = TextPlaces
<1>1. Len(file) \in Nat
  OBVIOUS
<1>2. TextPlaces \subseteq 1..Len(file)
  BY DEF TextPlaces
<1>3. IsFiniteSet(TextPlaces)
  <2>1. IsFiniteSet(1..Len(file))
    BY <1>1, FS_Interval
  <2> QED  BY <1>2, <2>1, FS_Subset
<1>4. ASSUME NEW q \in Nat PROVE IsFiniteSet(UpTo(TextPlaces, q)) /\ Cardinality(UpTo(TextPlaces, q)) \in Nat
  <2>1. UpTo(TextPlaces, q) \subseteq TextPlaces
    BY DEF UpTo
  <2> QED  BY <1>3, <2>1, FS_Subset, FS_CardinalityType
<1>5. ASSUME NEW q \in Nat, q <= p PROVE Cardinality(UpTo(TextPlaces, q)) <= Cardinality(UpTo(TextPlaces, p))
  <2>1. UpTo(TextPlaces, q) \subseteq UpTo(TextPlaces, p)
    <3>1. \A k \in TextPlaces : k \in Nat
      BY <1>1, <1>2
    <3>2. \A k \in Nat : k <= q => k <= p
      BY <1>5
    <3> QED  BY <3>1, <3>2 DEF UpTo
  <2> QED  BY <1>4, <2>1, FS_Subset
<1>6. Len(file) <= p => UpTo(TextPlaces, p) = TextPlaces
  <2> SUFFICES ASSUME Len(file) <= p PROVE \A k \in TextPlaces : k <= p
    BY DEF UpTo
  <2>1. \A k \in 1..Len(file) : k <= p
    BY <1>1
  <2> QED  BY <1>2, <2>1
<1> QED  BY <1>2, <1>3, <1>4, <1>5, <1>6

\* The next character that read gets is that of the next place of the text.
LEMMA NextPlace ==
  ASSUME NEW Characters, file \in Seq(Characters), NEW p \in Nat, p <= Len(file),
         (\A k \in 1..p : k \notin Marks), ~Ends(p + 1),
         NEW next, next = IF LineEnds(p + 1) THEN p + 2 ELSE p + 1
  PROVE  /\ next \in 1..Len(file) /\ (\A k \in 1..next : k \notin Marks)
         /\ UpTo(TextPlaces, next) = UpTo(TextPlaces, p) \cup {next} /\ next \notin UpTo(TextPlaces, p)
<1>1. Len(file) \in Nat /\ DOMAIN file = 1..Len(file)
  OBVIOUS
<1>2. p + 1 \in 1..Len(file) /\ ~(windows /\ file[p + 1] = EndMark)
  BY <1>1 DEF Ends
<1>3. next \in 1..Len(file) /\ p < next
  BY <1>1, <1>2 DEF LineEnds
<1>4. LineEnds(p + 1) => windows /\ file[p + 1] = CR /\ next = p + 2 /\ file[next] = LF
  BY <1>1, <1>2 DEF LineEnds
<1>5. (\A k \in 1..next : k \notin Marks) /\ ~LineEnds(next)
  <2>1. CASE LineEnds(p + 1)
    <3>1. file[next] # CR /\ file[next] # EndMark /\ file[p + 1] # EndMark
      BY <1>4, <2>1, CharactersAssumption
    <3>2. \A k \in 1..next : k \in 1..p \/ k = p + 1 \/ k = next
      BY <1>4, <2>1
    <3> QED  BY <3>1, <3>2 DEF Marks, LineEnds
  <2>2. CASE ~LineEnds(p + 1)
    <3>1. next = p + 1 /\ \A k \in 1..next : k \in 1..p \/ k = p + 1
      BY <2>2
    <3> QED  BY <1>2, <2>2, <3>1 DEF Marks
  <2> QED  BY <2>1, <2>2
<1>6. next \in TextPlaces
  BY <1>3, <1>5 DEF TextPlaces, Marks
<1>7. ASSUME NEW k \in TextPlaces, k <= next PROVE k <= p \/ k = next
  <2>1. k \in 1..Len(file) /\ ~LineEnds(k)
    BY DEF TextPlaces
  <2>2. k = p + 1 => ~LineEnds(p + 1)
    BY <2>1
  <2> QED  BY <1>1, <1>7, <2>1, <2>2
<1>8. \A k \in TextPlaces : k \in Nat
  BY <1>1 DEF TextPlaces
<1>9. UpTo(TextPlaces, next) = UpTo(TextPlaces, p) \cup {next} /\ next \notin UpTo(TextPlaces, p)
  <2>1. next \in Nat /\ next <= next /\ ~(next <= p)
    BY <1>1, <1>3
  <2>2. \A k \in TextPlaces : k <= p => k <= next
    BY <1>3, <1>8, <2>1
  <2> QED  BY <1>6, <1>7, <2>1, <2>2 DEF UpTo
<1> QED  BY <1>3, <1>5, <1>9

\* A step of read preserves what holds of it.
LEMMA ReadPreservesInv ==
  ASSUME NEW Characters, FileInv(Characters), Read
  PROVE  FileInv(Characters)'
<1> DEFINE next == IF LineEnds(pos + 1) THEN pos + 2 ELSE pos + 1
           Both == Characters \cup {Blank}
<1>1. /\ at = "read" /\ got < size /\ ~Ends(pos + 1)
      /\ pos' = next /\ result' = [result EXCEPT ![got + 1] = file[next]]
      /\ got' = got + 1
      /\ UNCHANGED <<file, windows, at, size, disturbed>>
  BY DEF Read
<1>2. /\ file \in Seq(Characters) /\ pos \in Nat /\ size \in Nat /\ got \in Nat
      /\ result \in [1..size -> Both] /\ got + 1 \in 1..size
      /\ \A i \in got + 1 .. size : result[i] = Blank
  <2>1. /\ file \in Seq(Characters) /\ pos \in Nat /\ size \in Nat /\ got \in Nat
        /\ result \in [1..size -> Both]
        /\ \A i \in got + 1 .. size : result[i] = Blank
    BY <1>1 DEF FileInv
  <2>2. got + 1 \in 1..size
    BY <1>1, <2>1
  <2> QED  BY <2>1, <2>2
<1>3. Len(file) \in Nat /\ DOMAIN file = 1..Len(file) /\ \A i \in 1..Len(file) : file[i] \in Characters
  BY <1>2
<1>4. pos + 1 \in 1..Len(file)
  BY <1>1, <1>3 DEF Ends
<1>5. next \in 1..Len(file)
  BY <1>2, <1>3, <1>4 DEF LineEnds
<1> HIDE DEF next
<1>6. result' \in [1..size -> Both]
  BY <1>1, <1>2, <1>3, <1>5
<1>7. result'[got + 1] = file[next] /\ \A i \in 1..size : i # got + 1 => result'[i] = result[i]
  BY <1>1, <1>2
<1>8. \A i \in got' + 1 .. size : result'[i] = Blank
  BY <1>1, <1>2, <1>7
<1>9. ASSUME ~disturbed PROVE ReadSoFar'
  <2>1. /\ size = Len(file) /\ pos <= Len(file) /\ (\A k \in 1..pos : k \notin Marks)
        /\ got = Cardinality(UpTo(TextPlaces, pos))
        /\ \A i \in UpTo(TextPlaces, pos) : result[Cardinality(UpTo(TextPlaces, i))] = file[i]
    BY <1>1, <1>9 DEF FileInv, ReadSoFar
  <2>2. /\ (\A k \in 1..next : k \notin Marks) /\ UpTo(TextPlaces, next) = UpTo(TextPlaces, pos) \cup {next} /\ next \notin UpTo(TextPlaces, pos)
    BY <1>1, <1>2, <2>1, NextPlace DEF next
  <2>3. /\ IsFiniteSet(UpTo(TextPlaces, pos))
        /\ \A q \in Nat : q <= pos => Cardinality(UpTo(TextPlaces, q)) \in Nat /\ Cardinality(UpTo(TextPlaces, q)) <= got
    BY <1>2, <2>1, PlacesCounted
  <2>4. Cardinality(UpTo(TextPlaces, next)) = got + 1
    BY <2>1, <2>2, <2>3, FS_AddElement
  <2>5. ASSUME NEW i \in UpTo(TextPlaces, next) PROVE result'[Cardinality(UpTo(TextPlaces, i))] = file[i]
    <3>1. CASE i = next
      BY <1>7, <2>4, <3>1
    <3>2. CASE i # next
      <4>1. i \in UpTo(TextPlaces, pos)
        BY <2>2, <3>2
      <4>2. i \in Nat /\ i <= pos /\ i \in 1..Len(file)
        BY <1>3, <4>1 DEF UpTo, TextPlaces
      <4>3. UpTo(TextPlaces, i) # {} /\ IsFiniteSet(UpTo(TextPlaces, i))
        BY <1>2, <4>1, <4>2, PlacesCounted DEF UpTo
      <4>4. Cardinality(UpTo(TextPlaces, i)) \in 1..got
        BY <2>3, <4>2, <4>3, FS_EmptySet
      <4>5. Cardinality(UpTo(TextPlaces, i)) \in 1..size /\ Cardinality(UpTo(TextPlaces, i)) # got + 1
        BY <1>2, <4>4
      <4> QED  BY <1>7, <2>1, <4>1, <4>5
    <3> QED  BY <3>1, <3>2
  <2>6. TextPlaces' = TextPlaces /\ Marks' = Marks
    BY <1>1 DEF TextPlaces, LineEnds, Marks
  <2>7. next <= Len(file)
    BY <1>3, <1>5
  <2> QED  BY <1>1, <2>1, <2>2, <2>4, <2>5, <2>6, <2>7 DEF ReadSoFar
<1> QED  BY <1>1, <1>2, <1>3, <1>5, <1>6, <1>8, <1>9 DEF FileInv

\* When the string is full, or there is no more to read, all of the text is there.
LEMMA EndPreservesInv ==
  ASSUME NEW Characters, FileInv(Characters), ReadEnds
  PROVE  FileInv(Characters)'
<1>1. /\ at = "read" /\ (got = size \/ Ends(pos + 1)) /\ at' = "done"
      /\ UNCHANGED <<file, windows, pos, size, result, got, disturbed>>
  BY DEF ReadEnds
<1>2. file \in Seq(Characters) /\ pos \in Nat /\ size \in Nat /\ got \in Nat
  BY <1>1 DEF FileInv
<1>3. Len(file) \in Nat /\ DOMAIN file = 1..Len(file)
  BY <1>2
<1>4. ASSUME ~disturbed
      PROVE  /\ size = Len(file) /\ got = Cardinality(TextPlaces)
             /\ \A i \in TextPlaces : result[Cardinality(UpTo(TextPlaces, i))] = file[i]
  <2>1. ReadSoFar
    BY <1>1, <1>4 DEF FileInv
  <2>2. /\ TextPlaces \subseteq 1..Len(file) /\ IsFiniteSet(UpTo(TextPlaces, pos)) /\ IsFiniteSet(TextPlaces)
    BY <1>2, PlacesCounted
  <2>3. UpTo(TextPlaces, pos) = TextPlaces
    <3>1. CASE got = size
      <4>1. UpTo(TextPlaces, pos) \subseteq 1..Len(file)
        BY <2>2 DEF UpTo
      <4>2. Cardinality(UpTo(TextPlaces, pos)) = Cardinality(1..Len(file)) /\ IsFiniteSet(1..Len(file))
        <5>1. \A n \in Nat : IsFiniteSet(1..n) /\ Cardinality(1..n) = n
          <6> TAKE n \in Nat
          <6>1. IsFiniteSet(1..n) /\ Cardinality(1..n) = IF 1 > n THEN 0 ELSE n - 1 + 1
            BY FS_Interval
          <6> QED  BY <6>1
        <5> QED  BY <1>3, <2>1, <3>1, <5>1 DEF ReadSoFar
      <4>3. UpTo(TextPlaces, pos) = 1..Len(file)
        BY <4>1, <4>2, FS_Subset
      <4> QED  BY <2>2, <4>3 DEF UpTo
    <3>2. CASE Ends(pos + 1)
      <4>1. ASSUME NEW i \in TextPlaces PROVE i <= pos
        <5>1. i \in 1..Len(file) /\ \A k \in 1..i : ~(windows /\ file[k] = EndMark)
          BY DEF TextPlaces
        <5>2. ASSUME i > pos PROVE FALSE
          <6>1. pos + 1 \in 1..i /\ pos + 1 \in 1..Len(file)
            BY <1>2, <1>3, <5>1, <5>2
          <6> QED  BY <1>3, <3>2, <5>1, <6>1 DEF Ends
        <5> QED  BY <1>2, <1>3, <5>1, <5>2
      <4> QED  BY <4>1 DEF UpTo
    <3> QED  BY <1>1, <3>1, <3>2
  <2> QED  BY <2>1, <2>3 DEF ReadSoFar
<1>5. TextPlaces' = TextPlaces
  BY <1>1 DEF TextPlaces, LineEnds
<1> QED  BY <1>1, <1>4, <1>5 DEF FileInv

\* Going back to the beginning, nothing has been read.
LEMMA RewindPreservesInv ==
  ASSUME NEW Characters, FileInv(Characters), Rewind
  PROVE  FileInv(Characters)'
<1>1. /\ at = "rewind" /\ at' = "read" /\ pos' = 0
      /\ result' = [i \in 1..size |-> Blank]
      /\ UNCHANGED <<file, windows, size, got, disturbed>>
  BY DEF Rewind
<1>2. file \in Seq(Characters) /\ size \in Nat /\ got = 0 /\ Len(file) \in Nat
  BY <1>1 DEF FileInv
<1>3. ASSUME NEW T, T \subseteq Nat \ {0} PROVE UpTo(T, 0) = {}
  <2>1. \A k \in T : k \in Nat \ {0}
    BY <1>3
  <2>2. \A k \in T : ~(k <= 0)
    BY <2>1
  <2> QED  BY <2>2 DEF UpTo
<1>4. TextPlaces' = TextPlaces /\ TextPlaces \subseteq Nat \ {0}
  BY <1>1, <1>2 DEF TextPlaces, LineEnds
<1>5. Cardinality({}) = 0
  BY FS_EmptySet
<1>6. ASSUME ~disturbed PROVE ReadSoFar'
  <2>1. size = Len(file)
    BY <1>1, <1>6 DEF FileInv
  <2>2. \A k \in 1..pos' : k \notin Marks'
    BY <1>1
  <2>3. UpTo(TextPlaces', pos') = {}
    BY <1>1, <1>3, <1>4
  <2>4. size' = Len(file') /\ pos' <= Len(file') /\ got' = Cardinality(UpTo(TextPlaces', pos'))
    BY SMTT(30), <1>1, <1>2, <1>5, <2>1, <2>3
  <2>5. \A i \in UpTo(TextPlaces', pos') : result'[Cardinality(UpTo(TextPlaces', i))] = file'[i]
    BY <2>3
  <2> QED  BY <2>2, <2>4, <2>5 DEF ReadSoFar
<1> QED  BY <1>1, <1>2, <1>6 DEF FileInv

\* Every step of reading a file preserves the invariant.
LEMMA FileStepPreservesInv ==
  ASSUME NEW Characters, Contents \subseteq Seq(Characters),
         FileInv(Characters), [FileNext]_fileVars
  PROVE  FileInv(Characters)'
<1>1. \A s \in Seq(Characters) : Len(s) \in Nat
  OBVIOUS
<1>2. CASE Open
  BY <1>2 DEF Open, FileInv
<1>3. CASE Tell
  BY <1>1, <1>3 DEF Tell, FileInv
<1>4. CASE TellFails
  BY <1>4 DEF TellFails, FileInv
<1>5. CASE ReadFails
  BY <1>5 DEF ReadFails, FileInv
<1>6. ASSUME NEW contents \in Contents, Rewrite(contents)
      PROVE  FileInv(Characters)'
  BY <1>6 DEF Rewrite, FileInv
<1>7. CASE UNCHANGED fileVars
  <2>1. TextPlaces' = TextPlaces /\ Marks' = Marks /\ UNCHANGED fileVars
    BY <1>7 DEF fileVars, TextPlaces, LineEnds, Marks
  <2> QED  BY <2>1 DEF fileVars, FileInv, ReadSoFar
<1> QED  BY <1>2, <1>3, <1>4, <1>5, <1>6, <1>7, ReadPreservesInv, EndPreservesInv,
            RewindPreservesInv DEF FileNext

\* Where text mode does nothing, every place belongs to the text.
LEMMA AllOfFile ==
  ASSUME NEW Characters, FileInv(Characters), at = "done", ~disturbed, ~windows
  PROVE  result = file
<1>1. /\ file \in Seq(Characters) /\ size = Len(file) /\ Len(file) \in Nat
      /\ result \in [1..size -> Characters \cup {Blank}]
      /\ \A i \in TextPlaces : result[Cardinality(UpTo(TextPlaces, i))] = file[i]
  BY DEF FileInv
<1>2. TextPlaces = 1..Len(file)
  BY DEF TextPlaces, LineEnds
<1>3. ASSUME NEW i \in 1..Len(file) PROVE result[i] = file[i]
  <2>1. UpTo(TextPlaces, i) = 1..i
    BY <1>1, <1>2 DEF UpTo
  <2>2. Cardinality(1..i) = i
    <3>1. i \in Nat /\ Cardinality(1..i) = IF 1 > i THEN 0 ELSE i - 1 + 1
      BY FS_Interval
    <3> QED  BY <3>1
  <2> QED  BY <1>1, <1>2, <2>1, <2>2
<1>4. file \in [1..Len(file) -> Characters]
  BY <1>1
<1> QED  BY <1>1, <1>3, <1>4

\* The text is that of the file if nobody has written to it meanwhile and reading
\* did not fail, all of it where text mode does nothing.  Whatever happened, the
\* string is as long as the file was when its size was asked for, and ends in
\* blanks where nothing was read.
THEOREM TextIsOfFile ==
  ASSUME NEW Characters, Contents \subseteq Seq(Characters)
  PROVE  FileSpec => []TextOfFile
<1> DEFINE IInv == FileInv(Characters)
<1>1. FileInit => IInv
  BY DEF FileInit, FileInv
<1>2. IInv /\ [FileNext]_fileVars => IInv'
  BY FileStepPreservesInv
<1>3. IInv => TextOfFile
  <2> SUFFICES ASSUME FileInv(Characters), at = "done" PROVE TextOfFile
    BY DEF TextOfFile
  <2>1. Len(result) = size
    <3>1. result \in [1..size -> Characters \cup {Blank}] /\ size \in Nat
      BY DEF FileInv
    <3>2. result \in Seq(Characters \cup {Blank}) /\ DOMAIN result = 1..size
      BY <3>1, SeqDef
    <3> QED  BY <3>1, <3>2, LenProperties
  <2> QED  BY <2>1, AllOfFile DEF FileInv, TextOfFile, UpTo
<1> HIDE DEF IInv
<1> QED  BY <1>1, <1>2, <1>3, PTL DEF FileSpec

-----------------------------------------------------------------------------
\* A span in whole units, cut off towards zero.
Truncated(n, d) == Quotient(n, d) * d

\* Of whole units a coarser one loses what it loses of the nanoseconds.
LEMMA CoarserUnit ==
  ASSUME NEW n \in Nat, NEW p \in Nat \ {0}, NEW k \in Nat \ {0}
  PROVE  ((n \div p) * p) \div (k * p) = n \div (k * p)
<1> DEFINE q == k * p
           a == n \div q
           r == n % q
           b == r \div p
           s == r % p
<1>1. q \in Nat \ {0}
  OBVIOUS
<1>2. a \in Nat /\ r \in 0..q - 1 /\ n = a * q + r
  <2> HIDE DEF q
  <2> QED  BY <1>1
<1>3. b \in Nat /\ s \in 0..p - 1 /\ r = b * p + s
  <2> HIDE DEF r
  <2> QED  BY <1>2
<1> HIDE DEF a, r, b, s
<1>4. n = (a * k + b) * p + s
  BY <1>2, <1>3
<1>5. n \div p = a * k + b
  <2>1. a * k + b \in Nat
    BY <1>2, <1>3
  <2> DEFINE c == a * k + b
  <2> HIDE DEF c
  <2>2. c \in Nat /\ n = c * p + s
    BY <1>4, <2>1 DEF c
  <2>3. n \div p = c
    BY <1>3, <2>2
  <2> QED  BY <2>3 DEF c
<1>6. (n \div p) * p = a * q + b * p
  BY <1>2, <1>3, <1>5
<1>7. b * p \in 0..q - 1
  BY <1>1, <1>2, <1>3
<1>8. (a * q + b * p) \div q = a
  <2> DEFINE t == b * p
  <2> HIDE DEF t, q
  <2>1. t \in 0..q - 1
    BY <1>7 DEF t
  <2>2. (a * q + t) \div q = a
    BY <1>1, <1>2, <2>1
  <2> QED  BY <2>2 DEF t
<1> QED  BY <1>6, <1>8 DEF a

\* Of whole units a finer one loses nothing.
LEMMA FinerUnit ==
  ASSUME NEW n \in Nat, NEW q \in Nat \ {0}, NEW k \in Nat \ {0}
  PROVE  ((n * (k * q)) \div q) * q = n * (k * q)
<1> DEFINE m == n * k
<1>1. m \in Nat /\ n * (k * q) = m * q + 0
  OBVIOUS
<1> HIDE DEF m
<1>2. (m * q + 0) \div q = m
  BY <1>1
<1> QED  BY <1>1, <1>2

\* The same for spans on both sides of zero.
LEMMA TruncatedAgain ==
  ASSUME NEW n \in Int, NEW p \in Nat \ {0}, NEW q \in Nat \ {0}, NEW k \in Nat \ {0}
  PROVE  /\ Truncated(n, p) \in Int
         /\ q = k * p => Truncated(Truncated(n, p), q) = Truncated(n, q)
         /\ p = k * q => Truncated(Truncated(n, p), q) = Truncated(n, p)
<1> DEFINE abs == IF n < 0 THEN -n ELSE n
           a == abs \div p
           T(m, d) == IF m < 0 THEN -(((-m) \div d) * d) ELSE (m \div d) * d
<1>1. abs \in Nat /\ (n < 0 => n = -abs) /\ (n >= 0 => n = abs)
  OBVIOUS
<1>2. \A m \in Int, d \in Nat \ {0} : Truncated(m, d) = T(m, d)
  BY DEF Truncated, Quotient
<1> HIDE DEF abs
<1>3. a \in Nat /\ a * p \in Nat
  BY <1>1
<1>4. Truncated(n, p) = IF n < 0 THEN -(a * p) ELSE a * p
  <2>1. CASE n < 0
    <3>1. -n = abs
      BY <1>1, <2>1
    <3>2. Truncated(n, p) = -(((-n) \div p) * p)
      BY <1>2, <2>1
    <3> QED  BY <2>1, <3>1, <3>2
  <2>2. CASE n >= 0
    <3>1. n = abs /\ ~(n < 0)
      BY <1>1, <2>2
    <3>2. Truncated(n, p) = (n \div p) * p
      BY <1>2, <3>1
    <3> QED  BY <3>1, <3>2
  <2> QED  BY <2>1, <2>2
<1>5. Truncated(n, p) \in Int
  BY <1>3, <1>4
<1>6. \A m \in Nat, d \in Nat \ {0} : m \div d \in Nat /\ (m \div d) * d \in Nat
  OBVIOUS
<1>7. \A m \in Nat, d \in Nat \ {0} : m = 0 => (m \div d) * d = 0
  OBVIOUS
<1>8. \A m \in Nat, d \in Nat \ {0} :
        /\ Truncated(m, d) = (m \div d) * d
        /\ Truncated(-m, d) = -((m \div d) * d)
  <2> TAKE m \in Nat, d \in Nat \ {0}
  <2>1. CASE m = 0
    BY <1>2, <1>7, <2>1
  <2>2. CASE m > 0
    BY SMTT(30), <1>2, <2>2
  <2> QED  BY <2>1, <2>2
<1>9. ASSUME q = k * p
      PROVE  Truncated(Truncated(n, p), q) = Truncated(n, q)
  <2>1. ((a * p) \div q) * q = (abs \div q) * q
    BY <1>1, <1>9, CoarserUnit
  <2> HIDE DEF a
  <2>2. /\ n < 0 => Truncated(n, p) = -(a * p)
        /\ n >= 0 => Truncated(n, p) = a * p
    BY <1>4
  <2>3. /\ Truncated(a * p, q) = ((a * p) \div q) * q
        /\ Truncated(-(a * p), q) = -(((a * p) \div q) * q)
        /\ Truncated(abs, q) = (abs \div q) * q
        /\ Truncated(-abs, q) = -((abs \div q) * q)
    BY <1>1, <1>3, <1>8
  <2> QED  BY <1>1, <2>1, <2>2, <2>3
<1>10. ASSUME p = k * q
       PROVE  Truncated(Truncated(n, p), q) = Truncated(n, p)
  <2>1. ((a * p) \div q) * q = a * p
    BY <1>3, <1>10, FinerUnit
  <2> HIDE DEF a
  <2>2. /\ n < 0 => Truncated(n, p) = -(a * p)
        /\ n >= 0 => Truncated(n, p) = a * p
    BY <1>4
  <2>3. /\ Truncated(a * p, q) = ((a * p) \div q) * q
        /\ Truncated(-(a * p), q) = -(((a * p) \div q) * q)
    BY <1>3, <1>8
  <2> QED  BY <1>1, <2>1, <2>2, <2>3
<1> QED  BY <1>5, <1>9, <1>10

\* Of two units one is a number of times the other, the longer of the shorter.
LEMMA Multiples ==
  ASSUME NEW u \in Units, NEW v \in Units
  PROVE  /\ Period[u] \in Nat \ {0}
         /\ Period[u] <= Period[v] => \E k \in Nat \ {0} : Period[v] = k * Period[u]
<1>1. Period[u] \in Nat \ {0} /\ Period[v] \in Nat \ {0}
  BY PeriodAssumption
<1>2. Period[u] % Period[v] = 0 \/ Period[v] % Period[u] = 0
  BY PeriodAssumption
<1>3. \A a, b \in Nat \ {0} :
        a <= b /\ (a % b = 0 \/ b % a = 0) => \E k \in Nat \ {0} : b = k * a
  <2> SUFFICES ASSUME NEW a \in Nat \ {0}, NEW b \in Nat \ {0}, a <= b
               PROVE  a % b = 0 \/ b % a = 0 => \E k \in Nat \ {0} : b = k * a
    OBVIOUS
  <2>1. ASSUME b % a = 0
        PROVE  \E k \in Nat \ {0} : b = k * a
    <3>1. b = (b \div a) * a /\ b \div a \in Nat \ {0}
      BY <2>1
    <3> QED  BY <3>1
  <2>2. ASSUME a % b = 0
        PROVE  \E k \in Nat \ {0} : b = k * a
    <3>1. a = b
      BY <2>2
    <3>2. b = 1 * a
      BY <3>1
    <3> QED  BY <3>2
  <2> QED  BY <2>1, <2>2
<1> QED  BY <1>1, <1>2, <1>3

-----------------------------------------------------------------------------
\* As long as every number fits, the span is what the coarsest unit that it has
\* been expressed in leaves of the original one.
SpanInv ==
  ~overflow =>
    /\ used \subseteq Units /\ original \in Int
    /\ used = {} => span = original
    /\ used # {} => \E c \in used : /\ \A v \in used : Period[v] <= Period[c]
                                    /\ span = Truncated(original, Period[c])

\* Expressing a span in one more unit preserves the invariant.
LEMMA ThereAndBackPreservesInv ==
  ASSUME SpanInv, NEW unit \in Units, NEW width, ThereAndBack(unit, width)
  PROVE  SpanInv'
<1> SUFFICES ASSUME ~overflow'
             PROVE  /\ used' \subseteq Units /\ original' \in Int
                    /\ used' = {} => span' = original'
                    /\ used' # {} => \E c \in used' :
                         /\ \A v \in used' : Period[v] <= Period[c]
                         /\ span' = Truncated(original', Period[c])
  BY DEF SpanInv
<1>1. /\ ~overflow /\ original' = original
      /\ used' = used \cup {unit}
      /\ span' = Truncated(span, Period[unit])
  <2>1. /\ ~overflow
        /\ time_to_integral(span, unit, width) = Quotient(span, Period[unit])
    BY Zenon DEF ThereAndBack
  <2> QED  BY <2>1, Zenon DEF ThereAndBack, time_from_integral, Truncated
<1>2. used \subseteq Units /\ original \in Int
  BY <1>1 DEF SpanInv
<1>3. Period[unit] \in Nat \ {0}
  BY Multiples
<1> SUFFICES \E c \in used' : /\ \A v \in used' : Period[v] <= Period[c]
                              /\ span' = Truncated(original, Period[c])
  BY <1>1, <1>2
<1>4. CASE used = {}
  <2>1. span = original /\ used' = {unit}
    BY <1>1, <1>4 DEF SpanInv
  <2>2. Period[unit] <= Period[unit]
    BY <1>3
  <2> QED  BY <1>1, <2>1, <2>2
<1>5. CASE used # {}
  <2>1. PICK c \in used : /\ \A v \in used : Period[v] <= Period[c]
                          /\ span = Truncated(original, Period[c])
    BY <1>1, <1>5 DEF SpanInv
  <2>2. c \in Units /\ Period[c] \in Nat \ {0}
    BY <1>2, Multiples
  <2>3. CASE Period[unit] <= Period[c]
    <3>1. PICK k \in Nat \ {0} : Period[c] = k * Period[unit]
      BY <2>2, <2>3, Multiples
    <3>2. span' = Truncated(original, Period[c])
      BY <1>1, <1>2, <1>3, <2>1, <2>2, <3>1, TruncatedAgain
    <3>3. \A v \in used' : Period[v] <= Period[c]
      BY <1>1, <2>1, <2>3
    <3> QED  BY <1>1, <3>2, <3>3
  <2>4. CASE Period[c] <= Period[unit]
    <3>1. PICK k \in Nat \ {0} : Period[unit] = k * Period[c]
      BY <2>2, <2>4, Multiples
    <3>2. span' = Truncated(original, Period[unit])
      BY <1>1, <1>2, <1>3, <2>1, <2>2, <3>1, TruncatedAgain
    <3>3. \A v \in used' : Period[v] <= Period[unit]
      <4> SUFFICES ASSUME NEW v \in used
                   PROVE  Period[v] <= Period[unit]
        BY <1>1, <1>3
      <4>1. Period[v] \in Nat \ {0} /\ Period[v] <= Period[c]
        BY <1>2, <2>1, Multiples
      <4> QED  BY <1>3, <2>2, <2>4, <4>1
    <3> QED  BY <1>1, <3>2, <3>3
  <2> QED  BY <1>3, <2>2, <2>3, <2>4
<1> QED  BY <1>4, <1>5

\* However often a span is expressed in whatever units and in whatever order, it
\* loses what the coarsest of them loses, once, and it loses it towards zero,
\* as long as every number fits the integer type asked for.
THEOREM CoarsestUnitDecides ==
  ASSUME Spans \subseteq Int
  PROVE  SpanSpec => []LostOnce
<1>1. SpanInit => SpanInv
  BY DEF SpanInit, SpanInv
<1>2. SpanInv /\ [SpanNext]_spanVars => SpanInv'
  <2>1. SpanInv /\ UNCHANGED spanVars => SpanInv'
    BY DEF SpanInv, spanVars
  <2> QED  BY <2>1, ThereAndBackPreservesInv DEF SpanNext
<1>3. SpanInv => LostOnce
  <2> SUFFICES ASSUME SpanInv, ~overflow, NEW u \in used,
                      \A v \in used : Period[v] <= Period[u]
               PROVE  span = IF original >= 0 THEN (original \div Period[u]) * Period[u]
                             ELSE -(((-original) \div Period[u]) * Period[u])
    BY DEF LostOnce, SpanInv
  <2>1. used \subseteq Units /\ original \in Int
    BY DEF SpanInv
  <2>2. PICK c \in used : /\ \A v \in used : Period[v] <= Period[c]
                          /\ span = Truncated(original, Period[c])
    BY DEF SpanInv
  <2>3. Period[u] \in Nat \ {0} /\ Period[c] \in Nat \ {0}
    BY <2>1, Multiples
  <2>4. Period[c] = Period[u]
    BY <2>2, <2>3
  <2>5. span = Truncated(original, Period[u])
    BY <2>2, <2>4
  <2> QED  BY <2>1, <2>3, <2>5 DEF Truncated, Quotient
<1> QED  BY <1>1, <1>2, <1>3, PTL DEF SpanSpec

=============================================================================
