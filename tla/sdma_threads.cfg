SPECIFICATION MCFairSpec
CONSTANTS
  p1 = p1
  p2 = p2
  f1 = f1
  c1 = c1
  c2 = c2
  NULL = NULL
  Procs = {p1, p2}
  Files = {f1}
  Channels = {c1, c2}
  N = 1
  HalfPairs = {}
  Table <- OwnTables
  MaxRequests = 5
INVARIANTS
  CompletionBalance
  DmaIntoLiveBuffers
  ReadConfirms
PROPERTY
  WriteReturns
CHECK_DEADLOCK FALSE
