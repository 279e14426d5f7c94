SPECIFICATION Spec
CONSTANTS
  Loads = {"file", "stream", "merged"}
  Formats = {"single", "folding", "csv", "regex"}
  Lines <- MCLines
  Files = 2
  MaxLines = 3
  MaxLive = 2
INVARIANTS RecordsTrue EveryLineOnce MergedInOrder
