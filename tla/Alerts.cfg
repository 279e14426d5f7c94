SPECIFICATION FairSpec
CONSTANTS
  Rules = {r1}
  All = All
  c1 = c1
  c2 = c2
  Chats <- MCChats
  QueueCap = 1
  BatchMax = 2
  PerMinute = 1
  Unit = 2
  MuteTime = 1
  Back = 1
  MaxNotices = 3
INVARIANTS EachHasOneFate DroppedCounted RateKept
PROPERTY Drains
