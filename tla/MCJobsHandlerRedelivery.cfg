SPECIFICATION Spec
CONSTANTS
    CheckKinds <- MCCheckKinds
    CheckOutputs <- OneWheel
    Positions <- TwoPositions
    Redelivery = TRUE
INVARIANTS
    TypeOK
    LocationIntegrity
    Balanced
    PunctualRuns
CHECK_DEADLOCK FALSE
