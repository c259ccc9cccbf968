SPECIFICATION Spec
CONSTANTS
  Slots = {s, t}
  Files = {errorCpp, uuidCpp}
  Lines <- SomeLines
  Words = {bad, blarg}
  Contexts = {c}
  NoError = NoError
  NoContext = NoContext
  MaxWords = 2
SYMMETRY Symmetry
INVARIANT
  DebugNamesFile
