\* three releases, two failures: the task and the automatic updates together
SPECIFICATION FairUpgradeSpec
CONSTANTS
  MaxVersion = 3
  MaxFaults = 2
INVARIANTS UpgradeTypeOK BinaryUnlessSwapped AnswerAccounted
PROPERTIES ConvergesToLatest
CHECK_DEADLOCK FALSE
