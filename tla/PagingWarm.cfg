SPECIFICATION FairSpec
CONSTANTS
  NFRAMES = 11
  RESERVED = 1
  p1 = p1
  p2 = p2
  Proc <- MCProc
  Valid <- MCValid
  Page = {1, 2}
  NULL = NULL
  NSLOTS = 3
  UNITS = 2
  MAXKILLS = 1
  Warm = TRUE
  Copies = {}
  Faults = {"frame", "cap", "write", "open"}
INVARIANTS
  FramesBelongToPages
  MappingsFollowTables
  SlotsExact
  PagingTransparent
  NoFrameLost
  UndefinedOnlyAfterKill
PROPERTY
  EveryOperationEnds
