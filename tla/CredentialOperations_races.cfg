SPECIFICATION OvertakenSpec
CONSTANTS
    Ops = {o1, o2}
    Workers = {w1, w2}
    None = None
    Requests = {}
    StaleSnapshots = TRUE
    LeasesHold = FALSE
    OwnedElsewhere = {}
SYMMETRY Symmetry
INVARIANTS SuccessIsTrue AtMostOneReservation
PROPERTY ReleasedIsFinal
CHECK_DEADLOCK FALSE
