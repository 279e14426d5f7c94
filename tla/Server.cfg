SPECIFICATION Spec
CONSTANTS
  c1 = c1
  c2 = c2
  file = file
  archive = archive
  Conns = {c1, c2}
  Specs <- MCSpecs
  Archives = {archive}
  Archived <- MCArchived
  Requests <- MCRequests
  Limit = 2
  ChanCap = 1
  MaxRequests = 2
  MaxLines = 3
INVARIANTS
  AnsweredOnce
  SearchIsBetween
  WatchIsPrefix
PROPERTIES
  Settles
