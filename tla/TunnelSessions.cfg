\* two sessions on one WebSocket; the backend and sshd do what they like
SPECIFICATION FairSpec
CONSTANT Ids = {s1, s2}
INVARIANTS HeaderThenData
PROPERTIES ImplementsSessions ClosedSocketEnds WaitsOnlyForLate
CHECK_DEADLOCK FALSE
