\* Threads that have used up their calls stop, and consumers may wait for good.
SPECIFICATION LiveSpec
CHECK_DEADLOCK FALSE
CONSTANTS
  Threads = {t1, t2, t3}
  Nobody = Nobody
  Items = {a, b}
  NoItem = NoItem
  Copied = {}
  HasCallback = FALSE
  Spurious = FALSE
  MaxCalls = 4
PROPERTIES
  ConsumersServed
  CallsReturn
