SPECIFICATION Spec
CONSTANTS
  a = a
  b = b
  c = c
  Keys <- MCKeys
  Duration = 2
  MaxKeys = 2
  TimeMin <- MCTimeMin
  TimeMax = 3
  Readings <- MCReadings
  MaxOffers = 4
SYMMETRY Symmetry
INVARIANTS
  SummariesTrue
  HeldOnce
  HeldInWindow
PROPERTY ImplementsLedger
