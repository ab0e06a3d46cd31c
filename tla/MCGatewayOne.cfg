SPECIFICATION FairSpec
CONSTANTS
  None = None
  Conf <- MCMixed
  Requests <- MCMixedRequests
  Handlers = {h1}
  Sleepers = {s1}
  MaxRequests = 2
  Field = {8}
  DevicesFail = TRUE
INVARIANTS
  RelayFollowsRegister
  LeftOnIsTold
  LegalWritesAnswered
PROPERTIES
  AlarmStays
  EventuallyMirrored
\* The bound on the writes ends some behaviours.
CHECK_DEADLOCK FALSE
