SPECIFICATION MCSpec
CONSTANTS
  p1 = p1
  p2 = p2
  b1 = b1
  b2 = b2
  Procs = {p1}
  Buffers = {b1}
  NULL = NULL
  EEP_SIZE = 12
  EEP_PAGE_SIZE = 4
  SIZE_T = 128
  INT_T = 32
  Bytes <- MCBytes
  Payloads <- Pattern
  Counts <- AllCounts
  MaxRequests = 4
  Positions = {12}
  Seeks <- SomeSeeks
INVARIANTS
  TypeOK
  ExclusiveIsMemorySafe
  ExclusiveNoLeak
  WriteFaithful
  FailedWriteAccounting
  ReadDelivers
PROPERTY
  ImplementsCursorMemory
CHECK_DEADLOCK FALSE
