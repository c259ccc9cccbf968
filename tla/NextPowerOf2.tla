---------------------------- MODULE NextPowerOf2 ----------------------------
(***************************************************************************)
(* util/power_of_2.cpp: the power of two that is no less than an unsigned  *)
(* number, by copying its highest bit into all lower ones.  One step of    *)
(* the specification is one statement of the function.                     *)
(***************************************************************************)
EXTENDS FiniteSetsExt, Words

CONSTANT Shifts   \* the numbers of bits shifted by, 1 to 32 for 64 bits

ASSUME ShiftsAssumption ==
  \E n \in 1 .. Width : Shifts = {2^i : i \in 0 .. n - 1} /\ Width <= 2^n

VARIABLES input, value, shifted, pc

powerVars == <<input, value, shifted, pc>>

PowerInit ==
  /\ input \in Bits
  /\ value = input
  /\ shifted = {}
  /\ pc = "decrement"

\* value--
Decrement ==
  /\ pc = "decrement"
  /\ value' = Cast(value - 1)
  /\ pc' = "smear"
  /\ UNCHANGED <<input, shifted>>

\* Fault: the number is shifted by one bit each time.
SmearByOne(shift) ==
  /\ pc = "smear"
  /\ shift = Min(Shifts \ shifted)
  /\ value' = value | shiftR(value, 1)
  /\ shifted' = shifted \cup {shift}
  /\ pc' = IF shifted' = Shifts THEN "increment" ELSE "smear"
  /\ UNCHANGED input

\* value |= value >> shift
Smear(shift) ==
  /\ pc = "smear"
  /\ shift = Min(Shifts \ shifted)
  /\ value' = value | shiftR(value, shift)
  /\ shifted' = shifted \cup {shift}
  /\ pc' = IF shifted' = Shifts THEN "increment" ELSE "smear"
  /\ UNCHANGED input

\* value++
Increment ==
  /\ pc = "increment"
  /\ value' = Cast(value + 1)
  /\ pc' = "done"
  /\ UNCHANGED <<input, shifted>>

PowerNext == Decrement \/ (\E shift \in Shifts : Smear(shift)) \/ Increment

PowerSpec == PowerInit /\ [][PowerNext]_powerVars

----------------------------------------------------------------------------

Powers == {2^k : k \in 0 .. Width - 1}

\* The next power of two that is greater than or equal to a number, where the
\* type has one.
NextPower(n) == Min({p \in Powers : p >= n})

\* The function returns the next power of two for every number but 0, and 0 for
\* the numbers beyond the largest power, where the increment wraps around as the
\* test "next_power_of_2" expects.
ReturnsNextPower ==
  pc = "done" /\ input # 0 =>
    value = IF input > Max(Powers) THEN 0 ELSE NextPower(input)

\* What power_of_2.hpp says of the function: it returns the next power of two
\* that is greater than or equal to the number, here claimed of the numbers for
\* which there is one.  0 is one of them, but value-- wraps it around.
DocumentedPower ==
  pc = "done" /\ input <= Max(Powers) => value = NextPower(input)

=============================================================================
