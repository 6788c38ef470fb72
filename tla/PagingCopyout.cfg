SPECIFICATION Spec
CONSTANTS
  NFRAMES = 11
  RESERVED = 1
  p1 = p1
  p2 = p2
  Proc <- MCProc
  Valid <- MCValid
  Page = {1, 2}
  NULL = NULL
  NSLOTS = 3
  UNITS = 2
  MAXKILLS = 0
  Warm = TRUE
  Copies = {"copyout"}
  Faults = {}
INVARIANT CopyoutArrives
