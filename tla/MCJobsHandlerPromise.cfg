SPECIFICATION Spec
CONSTANTS
    CheckKinds <- MCCheckKinds
    CheckOutputs <- TwoWheels
    Positions <- OnePosition
    Redelivery = TRUE
PROPERTY
    KeepsPromise
CHECK_DEADLOCK FALSE
