SPECIFICATION FollowFairSpec
CONSTANTS
  Kinds = {"file", "journal"}
  ChanCap = 2
  DrainPerTick = 2
  MaxEntries = 5
PROPERTIES
  Arrives
  ImplementsFeed
