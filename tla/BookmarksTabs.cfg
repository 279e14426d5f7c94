SPECIFICATION Spec
CONSTANTS
  Programs = {one, two}
  one = one
  two = two
  Logs = {"a"}
  Tabs = 2
  Changing = {}
  FirstRows = 3
  MaxRow = 3
  MaxLive = 0
  Marked = {2}
  MAX_SOURCES = 1
  MaxChanges = 0
  MaxTime = 0
  MaxRuns = 2
INVARIANTS RestoredInFull
SYMMETRY Symmetry
