SPECIFICATION Spec
CONSTANTS
  Log <- MCLog
  Backfill = 2
  Tallied = TRUE
  Texts = {"x", "y"}
  BadRegex = BadRegex
  NoText = NoText
  Buckets <- MCBuckets
  MaxSev = 2
  Screens <- MCScreens
  Visible = 2
  MaxViews = 2
  MaxKeys = 4
  DefaultBins = 5
  None = None
INVARIANTS RowsTrue CursorShown CacheTrue ZoomInside
