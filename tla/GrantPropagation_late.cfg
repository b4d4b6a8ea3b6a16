SPECIFICATION Spec
CONSTANTS
    c1 = c1  c2 = c2  b1 = b1  b2 = b2
    Consumers = {c1}
    Bots = {b1}
    BotOf <- SameBot
    Unlinks = {u1}
    Workers = {w1, w2}
    NoUnlink = NoUnlink
    LateGrants = TRUE
    MaxVersion = 2
    MaxGeneration = 1
    MaxInFlight = 2
    MaxFailures = 0
    MaxTickets = 1
INVARIANTS UnlinkedIsRefused
CHECK_DEADLOCK FALSE
