SPECIFICATION Spec
CONSTANTS
    CheckKinds <- MCCheckKinds
    CheckOutputs <- OneWheel
    Positions <- TwoPositions
    Redelivery = FALSE
INVARIANT NoDummyRuns
CHECK_DEADLOCK FALSE
