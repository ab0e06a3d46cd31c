SPECIFICATION FairSpec
CONSTANTS
  None = None
  Conf <- MCRelays
  Requests <- MCRelayRequests
  Handlers = {h1, h2}
  Sleepers = {s1, s2}
  MaxRequests = 3
  Field = {7}
  DevicesFail = FALSE
INVARIANTS
  QuietRegistersLegal
  IllegalIsDecided
  PulseHeld
PROPERTIES
  PulseEnds
CHECK_DEADLOCK FALSE
