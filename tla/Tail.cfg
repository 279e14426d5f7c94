SPECIFICATION FairSpec
CONSTANTS
  Modes <- MCModes
  BufCap = 2
  MaxPieces = 4
  MaxGens = 3
  RegrowBeforePoll = FALSE
INVARIANTS
  ReadInOrder
  RecordsAreLines
PROPERTIES
  KeepsUp
