SPECIFICATION FairSpec
CONSTANTS
    Requests <- FewRequests
    Malformed = {"b"}
    Agents = {a1, a2}
    None = None
    MaxDropped = 0
    MaxLostAcks = 0
    MaxRestarts = 1
INVARIANTS
    NothingBehindMalformed
PROPERTIES
    LockReleased
    AgentsConverge
CHECK_DEADLOCK FALSE
