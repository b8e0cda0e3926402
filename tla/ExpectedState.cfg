\* a conflict retry that fails otherwise leaves VERIFYING behind
SPECIFICATION Spec
CONSTANTS
  MaxRetries = 2
  MaxFaults = 0
  MaxChanges = 2
  MaxResults = 1
INVARIANT ExpectedState
CHECK_DEADLOCK FALSE
