SPECIFICATION Spec
SYMMETRY Symmetry
\* An item whose destructor pushes under the mutex locks the queue up for good.
CHECK_DEADLOCK FALSE
CONSTANTS
  Threads = {t1, t2, t3}
  Nobody = Nobody
  Items = {a, b, c}
  NoItem = NoItem
  Copied = {c}
  HasCallback = TRUE
  Spurious = TRUE
INVARIANTS
  TypeOK
  MutexDiscipline
  NoLostWakeup
  CallbackPerItem
  TrashInArrivalOrder
PROPERTY
  ImplementsFifo
