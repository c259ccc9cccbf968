------------------------------ MODULE EnumBits ------------------------------
(***************************************************************************)
(* util/enum_bits.hpp: enumerators as bits of their underlying type, where *)
(* << and ~ are computed in a wider type and then converted.               *)
(***************************************************************************)
EXTENDS Sequences, Words

to_bits(type) == Cast(2^type)

\* to_bits of several enumerators.
to_bits_of(types) ==
  LET from[i \in DOMAIN types] ==
        IF i = Len(types) THEN to_bits(types[i]) ELSE to_bits(types[i]) | from[i + 1]
  IN  from[1]

\* Fault: a flag that is there is kept.
ToggleOn(flags, flag) == flags | to_bits(flag)

toggle_flag(flags, flag) == flags ^^ to_bits(flag)
has_flag(flags, flag) == (flags & to_bits(flag)) # 0
all_bits == Cast(-1)

=============================================================================
