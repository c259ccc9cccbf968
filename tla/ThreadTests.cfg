\* When all threads of the last test have ended, nothing is left to do.
SPECIFICATION TestsSpec
CHECK_DEADLOCK FALSE
CONSTANTS
  Odd = Odd
  Even = Even
  Main = Main
  Second = Second
  NoItem = NoItem
  MaxNumber = 9
  Writers = {t1, t2, t3, t4}
  Nobody = Nobody
  Torn = Torn
INVARIANTS
  InOrder
  EachCountsOnce
  WritesInTurn
PROPERTIES
  BothFinish
  EverybodyPasses
  PingPongEnds
