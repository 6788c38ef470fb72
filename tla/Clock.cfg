SPECIFICATION FairSpec
CONSTANTS
  N = 3
  INTERVAL = 2
  WORD = 12
  Delay = {0, 3}
  SLOW = TRUE
  Proc = {p1}
  Clients = TRUE
INVARIANTS
  OneTimerEach
  NoTimerLate
PROPERTY
  SleepersWake
