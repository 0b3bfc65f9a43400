SPECIFICATION MCSpec
CONSTANTS
  p1 = p1
  p2 = p2
  f1 = f1
  f2 = f2
  c1 = c1
  c2 = c2
  NULL = NULL
  Procs = {p1, p2}
  Files = {f1, f2}
  Channels = {c1, c2}
  N = 3
  HalfPairs = {2}
  Table <- OneTable
  MaxRequests = 3
INVARIANTS
  TypeOK
  ExclusiveIsMemorySafe
  LeakAccounting
  ReadConfirms
  DmaIntoLiveBuffers
SYMMETRY Symmetry
CHECK_DEADLOCK FALSE
