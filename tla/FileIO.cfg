SPECIFICATION FairSpec
CONSTANTS
  Proc = {p, q}
  PAGE_SIZE = 2
  PACKET = 1
  CHUNK = 2
  Names = 3
  Content <- MCContent
  MAXLEN = 3
  MAXCALLS = 2
  Want = {0, 3}
INVARIANTS
  LateAnswersHarmless
PROPERTIES
  TransfersExact
  EntryByPosition
  CallsReturn
CHECK_DEADLOCK FALSE
