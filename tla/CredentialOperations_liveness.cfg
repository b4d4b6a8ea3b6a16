SPECIFICATION FairSpec
CONSTANTS
    Ops = {o1, o2}
    Workers = {w1}
    None = None
    Requests = {"PUT","DELETE"}
    StaleSnapshots = FALSE
    LeasesHold = FALSE
    OwnedElsewhere = {o2}

PROPERTY OperationsSettle
CHECK_DEADLOCK FALSE
