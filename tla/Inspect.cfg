SPECIFICATION InspectSpec
CONSTANTS
  Levels <- MCLevels
  Values <- MCValues
  Usual <- MCUsual
  MaxLines = 3
  Step = 8
  MaxBuffer = 64
  MaxPieces = 5
INVARIANTS
  ReadBack
  IndexAgrees
  DetectedIsRead
  QueryMeans
  SearchNewest
  TailIsTail
