SPECIFICATION Spec
CONSTANTS
    Ops = {o1, o2}
    Workers = {w1, w2}
    None = None
    Requests = {"PUT", "SET_PRIMARY"}
    StaleSnapshots = FALSE
    LeasesHold = TRUE
    OwnedElsewhere = {}
SYMMETRY Symmetry
INVARIANT PrimaryChangeReconciles
CHECK_DEADLOCK FALSE
