SPECIFICATION FairSpec
CONSTANTS
    Intervals = {1, 2}
    Topics <- MCTopics
    WorkerCounts <- MCWorkerCounts
    ChannelSize = 1
    PoolCapacity = 1
    GrowFactor = 1
    MaxRuns = 3
    MaxRestarts = 1
INVARIANTS
    TypeOK
    SamplesInOnePlace
    ClientsSuffice
    OneWorkerSendsNothing
PROPERTIES
    StarvedForGood
    SamplesGetOut
    CommandsGetIn
CHECK_DEADLOCK FALSE
