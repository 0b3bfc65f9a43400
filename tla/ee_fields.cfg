SPECIFICATION MCFairSpec
CONSTANTS
  p1 = p1
  p2 = p2
  b1 = b1
  b2 = b2
  Procs = {p1, p2}
  Buffers = {b1, b2}
  NULL = NULL
  EEP_SIZE = 4
  EEP_PAGE_SIZE = 2
  SIZE_T = 64
  INT_T = 16
  Bytes = {0, 1}
  Payloads <- Ones
  Counts = {1, 3}
  Positions = {}
  Seeks <- NoSeeks
  MaxRequests = 4
PROPERTY
  MutexProtectsFields
CHECK_DEADLOCK FALSE
