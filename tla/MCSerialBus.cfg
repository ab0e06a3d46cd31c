CHECK_DEADLOCK FALSE
SPECIFICATION FairSpec
CONSTANTS
  None = None
  p1 = p1
  p2 = p2
  w1 = w1
  Pollers <- MCPollers
  Writers <- MCWriters
  Retries <- MCRetries
  MaxObjects = 4
  MaxOwed = 1
  MaxAccesses = 3
INVARIANTS
  AloneReadsOwn
  AloneWritesReach
PROPERTIES
  AccessesEnd
