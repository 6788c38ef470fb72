SPECIFICATION FairSpec
CONSTANTS
  MAX_PROC = 3
  RANGE = 2
  MAXCREATE = 5
INVARIANTS
  ProcSlotsExact
  NoWaiterForgotten
PROPERTIES
  WakeMeansExit
  CreationsEnd
CHECK_DEADLOCK FALSE
