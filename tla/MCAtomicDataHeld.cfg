\* Threads that have made all their calls stop.
SPECIFICATION HoldSpec
CHECK_DEADLOCK FALSE
CONSTANTS
  Threads = {t1, t2, t3}
  Nobody = Nobody
  Values = {a, b}
  Torn = Torn
  Predicates <- AllPredicates
  Spurious = FALSE
  MaxCalls = 3
PROPERTY
  TimedWaitReturns
