\* two tasks and one worker: three executions, a lost report, a toggle
SPECIFICATION FairSpec
CONSTANTS
  Tasks = {t1, t2}
  MaxWorkers = 1
  MaxRuns = 3
  MaxLost = 1
  MaxToggles = 1
INVARIANTS ActiveIsExact RunsAgainOnlyIfExcused
PROPERTIES QueueStarvesOnlyIfHeldUp
CHECK_DEADLOCK FALSE
