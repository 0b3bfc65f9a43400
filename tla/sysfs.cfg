SPECIFICATION FairSpec
CONSTANTS
  w1 = w1
  w2 = w2
  Writers = {w1, w2}
  Clients = {c1}
  Requests <- MCRequests
INVARIANTS
  TypeOK
  NoStaleSleep
  ShortNumberStays
PROPERTY
  WriteWakes
CHECK_DEADLOCK FALSE
