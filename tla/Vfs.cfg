SPECIFICATION Spec
CONSTANTS
  Proc = {p1, p2}
  Path = {f, g}
  VNODES = 3
  PROCESS_MAX_FILES = 3
INVARIANTS
  OpenCountsExact
  NewVnodePrivate
CHECK_DEADLOCK FALSE
