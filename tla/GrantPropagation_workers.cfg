SPECIFICATION Spec
CONSTANTS
    c1 = c1  c2 = c2  b1 = b1  b2 = b2
    Consumers = {c1}
    Bots = {b1}
    BotOf <- SameBot
    Unlinks = {u1, u2}
    Workers = {w1, w2}
    NoUnlink = NoUnlink
    LateGrants = FALSE
    MaxVersion = 2
    MaxGeneration = 1
    MaxInFlight = 1
    MaxFailures = 1
    MaxTickets = 1
SYMMETRY Symmetry
INVARIANTS ConfirmedIsInForce RevokedIsRefused UnconfirmedIsOwed
CHECK_DEADLOCK FALSE
