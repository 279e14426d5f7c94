SPECIFICATION Spec
CONSTANTS
  Programs = {one, two}
  one = one
  two = two
  Logs = {"a"}
  Tabs = 1
  Changing = {"a"}
  FirstRows = 1
  MaxRow = 3
  MaxLive = 2
  Marked = {0, 1}
  MAX_SOURCES = 1
  MaxChanges = 0
  MaxTime = 0
  MaxRuns = 2
INVARIANTS MarksStay
SYMMETRY Symmetry
