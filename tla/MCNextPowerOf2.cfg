SPECIFICATION PowerSpec
CONSTANTS
  Width = 5
  Shifts = {1, 2, 4}
INVARIANT
  DocumentedPower
CHECK_DEADLOCK FALSE
