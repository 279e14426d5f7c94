SPECIFICATION FairSpec
CONSTANTS
  file = file
  archive = archive
  journal = journal
  a = a
  b = b
  Keys <- MCKeys
  Duration = 2
  MaxKeys = 1
  TimeMin <- MCTimeMin
  TimeMax = 9
  Sources <- MCSources
  Pipes <- MCPipes
  Journals <- MCPipes
  Archives = {}
  Texts <- MCTexts
  Rules <- MCRules
  Stamps <- MCStamps
  Since = 1
  ChanCap = 1
  MaxLines = 3
  Horizon = 1
INVARIANTS
  MatchesAccounted
  ExitComplete
  LiveCounts
PROPERTIES
  WatchSettles
  HeldIsTold
