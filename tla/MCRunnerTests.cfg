\* When the runner of a test is destroyed, nothing is left to do.
SPECIFICATION TestsSpec
CHECK_DEADLOCK FALSE
CONSTANTS
  Main = Main
  Clients = {Main}
  Worker = Worker
  Tasks <- SixTasks
  Sentinel = Sentinel
  NoTask = NoTask
  Unset = Unset
  Limits = {1, 2, 3, 6, 10}
  Nobody = Nobody
  NoItem = NoItem
INVARIANT
  ChecksHold
PROPERTY
  TestsEnd
