---------------------------- MODULE MCFunctions ----------------------------
(***************************************************************************)
(* The computations on numbers, for TLC: EnumFlags, NextPowerOf2 and       *)
(* Duration.  Each behaviour is one of them.  Three enumerators in a type  *)
(* of five bits leave two bits that belong to no enumerator, and five bits *)
(* take three shifts.                                                      *)
(***************************************************************************)
EXTENDS EnumFlags, NextPowerOf2, Duration

VARIABLE computation

SomeEnum == 0 .. 2
SomeRawBits == {2, 5}

SomeShifts == {1, 2, 4}

\* Five units, each some times the one before: 1, 3, 2, 4 and 2 times.
SomeUnits == {"nanos", "micros", "millis", "seconds", "minutes"}
SomePeriods ==
  [nanos |-> 1, micros |-> 3, millis |-> 6, seconds |-> 24, minutes |-> 48]

\* The number of nanoseconds of every span fits in the widest type only.
SomeWidths == {3, 5, 8}
SomeSpans == -110 .. 110

allVars == <<computation, flags, powerVars, spanVars>>

FunctionsInit ==
  /\ computation \in {"flags", "power", "span"}
  /\ Init
  /\ PowerInit /\ (computation # "power" => input = 0)
  /\ SpanInit /\ (computation # "span" => span = 0)

FunctionsNext ==
  /\ UNCHANGED computation
  /\ \/ computation = "flags" /\ Next /\ UNCHANGED <<powerVars, spanVars>>
     \/ computation = "power" /\ PowerNext /\ UNCHANGED <<flags, spanVars>>
     \/ computation = "span" /\ SpanNext /\ UNCHANGED <<flags, powerVars>>

FunctionsSpec == FunctionsInit /\ [][FunctionsNext]_allVars

=============================================================================
