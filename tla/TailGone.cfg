SPECIFICATION FairSpec
CONSTANTS
  Modes = {"create"}
  BufCap = 2
  MaxPieces = 2
  MaxGens = 3
  RegrowBeforePoll = FALSE
PROPERTIES
  FollowsOn
