SPECIFICATION FairSpec
CONSTANTS
  None = None
  Connections = {c1, c2, c3, c4}
  Threads = {t1, t2}
INVARIANTS
  WaitersCounted
  HeardOnce
  DiesUnborn
PROPERTIES
  ServesInOrder
  NoneForgotten
