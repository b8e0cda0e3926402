\* one installation: a fault, two changes of the backend, two results
SPECIFICATION FairSpec
CONSTANTS
  MaxRetries = 2
  MaxFaults = 1
  MaxChanges = 2
  MaxResults = 2
INVARIANTS ResultsAccounted OneIdentity
PROPERTIES ImplementsResultQueue TransientErrorsKeepResults StopsOnlyForItsReasons StopHonoured KeepsReporting
CHECK_DEADLOCK FALSE
