\* two terminals on one WebSocket; the backend and the shells do what they like
SPECIFICATION FairSpec
CONSTANT Ids = {s1, s2}
INVARIANT WaitsOnLiveHandle
PROPERTIES ImplementsSessions ClosedTwiceOnlyAbandoned WaitsOnlyForShells
CHECK_DEADLOCK FALSE
