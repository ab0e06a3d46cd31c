SPECIFICATION FairSpec
CONSTANTS
  Conf <- MCConf
  Handlers = {h1, h2}
  Refs = {0, 2, 4}
  MaxRequests = 2
INVARIANT AloneRoutesRight
PROPERTY AloneEnds
CHECK_DEADLOCK FALSE
