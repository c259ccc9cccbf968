SPECIFICATION Spec
SYMMETRY Symmetry
\* Nothing can be done with an object that has been destroyed.
CHECK_DEADLOCK FALSE
CONSTANTS
  Threads = {t1, t2, t3}
  Nobody = Nobody
  Values = {a, b}
  Torn = Torn
  Predicates <- AllPredicates
  Spurious = TRUE
INVARIANTS
  TypeOK
  MutexDiscipline
  MutexOutlivesLock
PROPERTY
  ImplementsCell
