SPECIFICATION Spec
CONSTANTS
  FractionSize = 4
  ExponentSize = 8
  kMaxUlps = 4
INVARIANTS
  TypeOK
  AnswersByPlace
  AnswersByUlps
CHECK_DEADLOCK FALSE
