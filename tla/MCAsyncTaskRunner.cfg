\* A destroyed runner stops, and so does a client that waits for no task.
SPECIFICATION FairSpec
CHECK_DEADLOCK FALSE
CONSTANTS
  Clients = {c1}
  Worker = Worker
  Tasks = {a, b, c, d}
  Sentinel = Sentinel
  NoTask = NoTask
  Unset = Unset
  Limits = {2}
INVARIANTS
  TypeOK
  BacklogNeverRuns
  ProcessingWhileRunning
  FateOfTasks
  SeenIsThere
PROPERTIES
  ImplementsPipeline
  CallsReturn
  TasksFinish
