SPECIFICATION Spec
CONSTANTS
  NFRAMES = 10
  RESERVED = 1
  p1 = p1
  p2 = p2
  Proc <- MCProc
  Valid <- MCValid4
  Page = {1, 2, 3}
  NULL = NULL
  NSLOTS = 4
  UNITS = 2
  MAXKILLS = 0
  Warm = FALSE
  Copies = {"copyin"}
  Faults = {"regs", "caps"}
INVARIANTS
  TablesHeldOrDangling
  SlotsExact
