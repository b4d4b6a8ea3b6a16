SPECIFICATION FairSpec
CONSTANTS
    c1 = c1  c2 = c2  b1 = b1  b2 = b2
    Consumers = {c1}
    Bots = {b1}
    BotOf <- SameBot
    Unlinks = {}
    Workers = {w1}
    NoUnlink = NoUnlink
    LateGrants = FALSE
    MaxVersion = 2
    MaxGeneration = 1
    MaxInFlight = 1
    MaxFailures = 1
    MaxTickets = 0
PROPERTIES ChangesPropagate
CHECK_DEADLOCK FALSE
