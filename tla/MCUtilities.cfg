SPECIFICATION UtilitiesSpec
CONSTANTS
  Slots = {s, t}
  Files = {errorCpp, uuidCpp}
  Lines <- SomeLines
  Words = {bad, blarg}
  Contexts = {c}
  NoError = NoError
  NoContext = NoContext
  MaxWords = 2
  Values = {u, v}
  Reference = Reference
  MaxGuards = 3
  Contents <- SomeContents
  NoFile = NoFile
  Blank = " "
  CR = "CR"
  LF = "LF"
  EndMark = "mark"
SYMMETRY Symmetry
INVARIANTS
  EqualMeansSameText
  HeldByGuards
  GivenWhatInitLeft
  TextOfFile
CHECK_DEADLOCK FALSE
