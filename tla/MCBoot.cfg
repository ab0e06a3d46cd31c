SPECIFICATION Spec
CONSTANT Configs <- MCConfigs
INVARIANTS
  RoutesReachOwner
  NoEndlessSearch
  PollerReachesOwner
  SensorReachesOwner
  PinsKeepTheirNumbers
CHECK_DEADLOCK FALSE
