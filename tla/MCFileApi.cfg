SPECIFICATION Spec
CONSTANTS
  Callers = {"file"}
  Nonces = {"w1", "w2", "x"}
  Skew = 1
  TTL = 2
  MaxClock = 2
  Paths <- MCPaths
  Root = "/"
  Parent <- MCParent
  Plans <- MCPlans
  Uploads <- MCUploads
  InitFiles <- MCInitFiles
  MaxWire = 2
  MaxDrift = 1
  MaxTroubles = 1
INVARIANTS AcceptedAgain OneEffectPerAcceptance UploadIsWhole NoRequestForgotten
PROPERTIES DataToItsHeader
CHECK_DEADLOCK FALSE
