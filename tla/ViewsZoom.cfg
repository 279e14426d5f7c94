SPECIFICATION Spec
CONSTANTS
  Log <- MCShort
  Backfill = 2
  Tallied = TRUE
  Texts = {"x"}
  BadRegex = BadRegex
  NoText = NoText
  Buckets <- MCBuckets
  MaxSev = 2
  Screens <- MCScreen
  Visible = 2
  MaxViews = 2
  MaxKeys = 5
  DefaultBins = 5
  None = None
INVARIANTS FullWithoutZoom
