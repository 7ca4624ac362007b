SPECIFICATION FairSpec
CONSTANTS
    Samples <- OneSample
    Capacity = 1
    MaxSamples = 2
    MaxLostAcks = 1
    MaxRestarts = 2
    MayEnd = TRUE
PROPERTIES
    KeepsDelivery
    SamplesSettle
    SourceDrains
CHECK_DEADLOCK FALSE
