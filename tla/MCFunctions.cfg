SPECIFICATION FunctionsSpec
CONSTANTS
  Width = 5
  Enum <- SomeEnum
  RawBits <- SomeRawBits
  Vars = {a, b}
  Shifts <- SomeShifts
  Units <- SomeUnits
  Period <- SomePeriods
  TypeWidths <- SomeWidths
  Spans <- SomeSpans
INVARIANTS
  ActsAsSet
  EqualUpToTheRest
  ReturnsNextPower
  LostOnce
CHECK_DEADLOCK FALSE
