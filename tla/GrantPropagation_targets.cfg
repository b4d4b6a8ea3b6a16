SPECIFICATION Spec
CONSTANTS
    c1 = c1  c2 = c2  b1 = b1  b2 = b2
    Consumers = {c1, c2}
    Bots = {b1, b2}
    BotOf <- SameBot
    Unlinks = {u1}
    Workers = {w1}
    NoUnlink = NoUnlink
    LateGrants = FALSE
    MaxVersion = 1
    MaxGeneration = 2
    MaxInFlight = 1
    MaxFailures = 0
    MaxTickets = 1
INVARIANTS UnlinkedIsRefused NoLockout
CHECK_DEADLOCK FALSE
