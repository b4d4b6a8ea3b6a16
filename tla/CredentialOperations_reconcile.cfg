SPECIFICATION Spec
CONSTANTS
    Ops = {o1, o2}
    Workers = {w1, w2}
    None = None
    Requests = {"PUT", "REFRESH", "DELETE"}
    StaleSnapshots = FALSE
    LeasesHold = TRUE
    OwnedElsewhere = {o2}
SYMMETRY Symmetry
INVARIANTS  ReleasedIsDead   
CHECK_DEADLOCK FALSE
