CONSTANTS
    g1 = g1
    g2 = g2
    Regions = {g1, g2}
    Requests <- FairRequests
SPECIFICATION FairSpec
INVARIANT NotFoundIsTrue
PROPERTY RequestsAnswered
CHECK_DEADLOCK FALSE
