----------------------------- MODULE EnumFlags -----------------------------
(***************************************************************************)
(* util/enum_flags.hpp: Flags<E>, a set of enumerators kept as bits of the *)
(* underlying type of E, with operators of sets and of bits.  The program  *)
(* has some variables of type Flags<E> and applies the operations to them  *)
(* in any order.  A value stands for its pattern of bits: a signed         *)
(* underlying type reads some of the patterns as negative numbers.         *)
(***************************************************************************)
EXTENDS FiniteSets, Sequences, Functions, Words

CONSTANTS Enum,     \* the values of the enumerators
          Vars,     \* the variables of type Flags<E>
          RawBits   \* what is passed to the constructor that takes bits

\* "Converts incremental enums": without gaps, from 0.
ASSUME EnumAssumption == IsFiniteSet(Enum) /\ Enum = 0 .. Cardinality(Enum) - 1
\* The static_assert of Flags has numeric_limits::digits here, which for a signed
\* type is one less.
ASSUME CountAssumption == Cardinality(Enum) <= Width
ASSUME RawBitsAssumption == RawBits \subseteq Bits

VARIABLE flags

to_bits(type) == Cast(2^type)

\* Fault: as many bits as numeric_limits::digits says of a signed type.
DigitsComplement(bits) == bits ^^ (2^(Width - 1) - 1)

Complement(bits) == Cast(-bits - 1)

no_flags == 0
all_flags == Complement(no_flags)

\* The first flag together with the flags made of the others.
make_flags(es) ==
  LET from[i \in DOMAIN es] ==
        IF i = Len(es) THEN to_bits(es[i]) ELSE to_bits(es[i]) | from[i + 1]
  IN  from[1]

add_flag(f, e) == f | to_bits(e)

\* Fault: an absent flag is added.
RemoveByToggle(f, e) == f ^^ to_bits(e)

remove_flag(f, e) == f & Complement(to_bits(e))
toggle_flag(f, e) == f ^^ to_bits(e)
has_flag(f, e) == (f & to_bits(e)) # 0

Lists == UNION {[1..n -> Enum] : n \in 1 .. Cardinality(Enum)}

\* An operand is a variable or an enumerator, which is converted.
Operands == {flags[v] : v \in Vars} \cup {to_bits(e) : e \in Enum}

Assign(v, f) == flags' = [flags EXCEPT ![v] = f]

Init == flags = [v \in Vars |-> no_flags]

Construct(v) ==
  \/ \E e \in Enum : Assign(v, to_bits(e))
  \/ \E bits \in RawBits : Assign(v, bits)

Make(v) ==
  \/ \E es \in Lists : Assign(v, make_flags(es))
  \/ Assign(v, no_flags)
  \/ Assign(v, all_flags)

Invert(v) == \E x \in Operands : Assign(v, Complement(x))

\* |, & and ^, and with lhs the variable itself |=, &= and ^=.
Combine(v) ==
  \E lhs \in Operands, rhs \in Operands :
    Assign(v, lhs | rhs) \/ Assign(v, lhs & rhs) \/ Assign(v, lhs ^^ rhs)

Change(v) ==
  \E w \in Vars, e \in Enum :
    \/ Assign(v, add_flag(flags[w], e))
    \/ Assign(v, remove_flag(flags[w], e))
    \/ Assign(v, toggle_flag(flags[w], e))

Next ==
  \E v \in Vars :
    Construct(v) \/ Make(v) \/ Invert(v) \/ Combine(v) \/ Change(v)

Spec == Init /\ [][Next]_flags

----------------------------------------------------------------------------

\* What a program sees of flags: the enumerators that has_flag finds, and the
\* bits above all enumerators.
Members(f) == {e \in Enum : has_flag(f, e)}
Rest(f) == f \div 2^Cardinality(Enum)

\* The older functions of enum_bits.hpp, on bits alone.
Older == INSTANCE EnumBits

\* What making flags of a list gives.
ListsActAsSets ==
  /\ Members(Older!all_bits) = Enum
  /\ \A es \in Lists :
       /\ Members(make_flags(es)) = Range(es)
       /\ Members(Older!to_bits_of(es)) = Range(es)

\* Flags are sets of enumerators: seen through has_flag, the operations on bits
\* are the operations on sets, whatever the order and the number of times a flag
\* is named; adding, removing and toggling one flag changes no other bit.  The
\* older functions act as the same sets, so bits and Flags can be exchanged.
ActsAsSet ==
  /\ ListsActAsSets
  /\ \A v \in Vars :
       LET f == flags[v] IN
       /\ Members(Complement(f)) = Enum \ Members(f)
       /\ \A w \in Vars :
            /\ Members(f | flags[w]) = Members(f) \cup Members(flags[w])
            /\ Members(f & flags[w]) = Members(f) \cap Members(flags[w])
            /\ Members(f ^^ flags[w]) = SymDiff(Members(f), Members(flags[w]))
       /\ \A e \in Enum :
            /\ Older!has_flag(f, e) = (e \in Members(f))
            /\ Members(add_flag(f, e)) = Members(f) \cup {e}
            /\ Members(remove_flag(f, e)) = Members(f) \ {e}
            /\ \A toggled \in {toggle_flag(f, e), Older!toggle_flag(f, e)} :
                 Members(toggled) = SymDiff(Members(f), {e}) /\ Rest(toggled) = Rest(f)
            /\ Rest(add_flag(f, e)) = Rest(f) /\ Rest(remove_flag(f, e)) = Rest(f)

\* all_flags and ~ also set the bits that no enumerator has.  They do so with all
\* of them at once: after any operations, two variables with the same enumerators
\* are equal, or differ in every bit that no enumerator has, as long as the bits
\* passed to the constructor are those of enumerators.  (They may differ:
\* all flags added one by one do not compare equal to all_flags, and all_flags
\* with every flag removed still converts to true.)
EqualUpToTheRest ==
  \A v, w \in Vars :
    Members(flags[v]) = Members(flags[w]) =>
      \/ flags[v] = flags[w]
      \/ Rest(flags[v]) ^^ Rest(flags[w]) = 2^(Width - Cardinality(Enum)) - 1

=============================================================================
