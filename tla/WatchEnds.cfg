SPECIFICATION Spec
CONSTANTS
  file = file
  archive = archive
  journal = journal
  a = a
  b = b
  Keys <- MCKeysThree
  Duration = 2
  MaxKeys = 1
  TimeMin <- MCTimeMin
  TimeMax = 9
  Sources <- MCThree
  Pipes <- MCPipes
  Journals <- MCPipes
  Archives <- MCArchives
  Texts <- MCOneText
  Rules <- MCOneRule
  Stamps <- MCStamps
  Since = 1
  ChanCap = 1
  MaxLines = 2
  Horizon = 1
INVARIANTS
  ExitComplete
  LiveCounts
