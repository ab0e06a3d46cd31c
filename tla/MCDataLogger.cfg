SPECIFICATION LogSpec
CONSTANTS
  Day = 3
  IntSpan = 7
  Month = 9
  Limit = 40
  Powers = {0, 3, 40}
  Horizon = 10
CHECK_DEADLOCK FALSE
INVARIANTS
  EnergyAddsUp
  EnergyNeverFalls
