SPECIFICATION FairSpec
CONSTANTS
  Low = 10
  High = 20
  Readings = {0, 5, 15, 20, 25}
  Pollers = {p1, p2}
INVARIANTS
  LinkMessagesAlternate
  HighOnce
PROPERTY Settles
