SPECIFICATION Spec
CONSTANTS
  t1 = t1
  t2 = t2
  Targets <- MCTargets
  Lists <- MCLists
  Minute = 2
  Cycle = 2
  PoolSize = 1
  MaxVersions = 2
  MaxReschedules = 2
INVARIANTS LoopsAreTheList
PROPERTIES RoundsAreCurrent EarlierLoopsEnd KeepsProbing
CHECK_DEADLOCK FALSE
