SPECIFICATION FairSpec
CONSTANTS
  r1 = r1
  w1 = w1
  Readers <- MCReaders
  Writers <- MCWriters
  Retries <- MCRetries
  Values = {5, 6}
  MaxAccesses = 4
  Unreachable = Unreachable
  Garbage = Garbage
CHECK_DEADLOCK FALSE
INVARIANTS
  WrittenOnce
  FreshReading
PROPERTIES
  AccessesEnd
