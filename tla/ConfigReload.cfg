SPECIFICATION ReloadSpec
CONSTANTS
  Filters = {"a", "b"}
  Empty = "empty"
  Shipped = "a"
  MaxEdits = 2
  MaxSaves = 1
  MaxSignals = 1
INVARIANTS QuietIsCurrent
PROPERTIES EditTakesHold
CHECK_DEADLOCK FALSE
