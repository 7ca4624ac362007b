CONSTANTS
    g1 = g1
    g2 = g2
    Regions = {g1, g2}
    Requests <- MCRequests
SPECIFICATION Spec
INVARIANTS TypeOK OkIsDone ChangesMadeWhereAnswered
CHECK_DEADLOCK FALSE
