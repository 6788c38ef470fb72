SPECIFICATION Spec
CONSTANTS
  MAX_IO_BUF = 2
  Char = {"x"}
  Sizes = {1, 2}
  Proc = {p1, p2}
  MAXOPENS = 2
  MAXREADS = 2
  MAXTYPED = 4
  Copyouts = {"now", "later", "fails"}
INVARIANTS
  ReadsReturnInput
  LineWakesReader
  ReadAnsweredOnce
CHECK_DEADLOCK FALSE
