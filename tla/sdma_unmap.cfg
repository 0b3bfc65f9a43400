SPECIFICATION MCSpec
CONSTANTS
  p1 = p1
  p2 = p2
  f1 = f1
  f2 = f2
  c1 = c1
  c2 = c2
  NULL = NULL
  Procs = {p1, p2}
  Files = {f1}
  Channels = {c1}
  N = 3
  HalfPairs = {2}
  Table <- OneTable
  MaxRequests = 3
INVARIANT
  UnmapAfterDone
CHECK_DEADLOCK FALSE
