SPECIFICATION Spec
CONSTANTS
    Samples <- MCSamples
    Capacity = 1
    MaxSamples = 3
    MaxLostAcks = 1
    MaxRestarts = 0
    MayEnd = FALSE
INVARIANTS
    TypeOK
    AggregatesAreFirstAnswers
CHECK_DEADLOCK FALSE
