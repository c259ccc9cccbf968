------------------------------ MODULE Duration ------------------------------
(***************************************************************************)
(* util/duration.hpp: a Duration counts nanoseconds; to_hours to to_nanos  *)
(* turn it into a number of some unit, duration_hours to duration_nanos    *)
(* turn such a number back.  The program keeps a span in whatever units    *)
(* and integer types it likes, one after the other.  Targets and inputs of *)
(* type float are left out.                                                *)
(***************************************************************************)
EXTENDS Integers

CONSTANTS Units,
          Period,      \* how many nanoseconds a unit has
          TypeWidths,  \* bits of the integer types that numbers are kept in
          Spans        \* the numbers of nanoseconds to begin with

\* Hours, minutes, seconds and their thousandths: one period divides the next.
ASSUME PeriodAssumption ==
  /\ Period \in [Units -> Nat \ {0}]
  /\ \A u, v \in Units : Period[u] % Period[v] = 0 \/ Period[v] % Period[u] = 0

VARIABLES span,      \* the Duration
          original,  \* history: the Duration it was at first
          used,      \* history: the units it has been expressed in
          overflow   \* history: whether some number did not fit its type

spanVars == <<span, original, used, overflow>>

\* Integer division of C++ cuts off the fraction, on both sides of zero.
Quotient(n, d) == IF n < 0 THEN -((-n) \div d) ELSE n \div d

\* What a signed type of this width keeps of a number.
Narrowed(n, width) == ((n + 2^(width - 1)) % 2^width) - 2^(width - 1)

\* duration_cast computes in 64 bits, and only then converts.
time_to_integral(duration, unit, width) == Narrowed(Quotient(duration, Period[unit]), width)

\* Fault: the product is computed in the type that the number came in.
time_from_integral_narrow(value, unit, width) == Narrowed(value * Period[unit], width)

time_from_integral(value, unit, width) == value * Period[unit]

SpanInit ==
  /\ span \in Spans /\ original = span
  /\ used = {}
  /\ overflow = FALSE

\* to_unit<Integer>, and duration_unit of the number it returns.
ThereAndBack(unit, width) ==
  LET number == time_to_integral(span, unit, width)
  IN  /\ span' = time_from_integral(number, unit, width)
      /\ used' = used \cup {unit}
      /\ overflow' = (overflow \/ number # Quotient(span, Period[unit]))
      /\ UNCHANGED original

SpanNext == \E unit \in Units, width \in TypeWidths : ThereAndBack(unit, width)

SpanSpec == SpanInit /\ [][SpanNext]_spanVars

-----------------------------------------------------------------------------
\* However often a span is expressed in whatever units and in whatever order, it
\* loses what the coarsest of them loses, once, and it loses it towards zero,
\* as long as every number fits the integer type asked for.
LostOnce ==
  LET coarsest == {u \in used : \A v \in used : Period[v] <= Period[u]}
      Rounded(n, u) == (n \div Period[u]) * Period[u]
  IN  ~overflow =>
        /\ used = {} => span = original
        /\ \A u \in coarsest :
             span = IF original >= 0 THEN Rounded(original, u) ELSE -Rounded(-original, u)

=============================================================================
