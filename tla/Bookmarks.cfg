SPECIFICATION Spec
CONSTANTS
  Programs = {one, two}
  one = one
  two = two
  Logs = {"a", "b"}
  Tabs = 1
  Changing = {"a"}
  FirstRows = 1
  MaxRow = 2
  MaxLive = 1
  Marked = {1}
  MAX_SOURCES = 1
  MaxChanges = 1
  MaxTime = 1
  MaxRuns = 2
INVARIANTS MarksTrue SavesKept
SYMMETRY Symmetry
