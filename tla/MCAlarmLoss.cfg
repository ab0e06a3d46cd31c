SPECIFICATION FairSpec
CONSTANTS
  Low = 10
  High = 20
  Readings = {15, 25}
  Pollers = {p1}
PROPERTY LossTold
