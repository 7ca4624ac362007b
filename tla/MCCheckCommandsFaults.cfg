SPECIFICATION Spec
CONSTANTS
    Requests <- MCRequests
    Malformed = {}
    Agents = {a1}
    None = None
    MaxDropped = 1
    MaxLostAcks = 1
    MaxRestarts = 1
INVARIANTS
    TypeOK
    TopicTellsOneLife
    AgentsRunWhatIsAnnounced
PROPERTIES
    AgentsKeepPromise
CHECK_DEADLOCK FALSE
