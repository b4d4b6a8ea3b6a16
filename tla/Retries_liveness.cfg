SPECIFICATION RetriesSpec
CONSTANTS
    c1 = c1  c2 = c2  b1 = b1  b2 = b2
    Consumers = {c1}
    Bots = {b1}
    BotOf <- SameBot
    Unlinks = {u1}
    Workers = {w1}
    NoUnlink = NoUnlink
    LateGrants = FALSE
    MaxVersion = 2
    MaxGeneration = 2
    MaxInFlight = 1
    MaxFailures = 0
    MaxTickets = 0
    Keys = {k1}
    Scopes = {s1}
    None = None
    Request = Request
    Cleaner = Cleaner
PROPERTIES ChangesPropagate UnlinksSettle IntentsSettle
CHECK_DEADLOCK FALSE
