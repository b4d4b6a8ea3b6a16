SPECIFICATION Spec
CONSTANTS
    Clients = {p1, p2}
    Handlers = {p1, p2}
    Accounts = {x1, x2}
    Subjects = {y1, y2}
    NoOne = NoOne
    Secrets = {x1, x2}
    Profiles = {k1}
    Permissions = {r1}
    Own = Own
    KeyIds = {i1, i2, i3}
    Messages = {m1, m2, m3}
    Codes = {y1, y2}
    Devices = {d1}
    Services = {k1}
    MaxSessions = 2
    MaxGen = 2
    SessionLimit = 1
    MaxRequests = 3
    States = {1, 2}
    MaxRows = 3
    Roles = {"admin", "guest"}
    Admin = "admin"
    MaxGeneration = 3
    MaxRevision = 2
    MaxAsked = 2
    Bots = {b1, b2}
    MaxChallenges = 2
    MaxPending = 1
    QueueSize = 2
    MaxRetries = 1
    MaxFactors = 2
    MaxLists = 2
SYMMETRY Symmetry
INVARIANTS SessionLimitHolds   StateHandedOnce SubjectsAreAuthorized AdministratorRemains StatusIsOfTheSecret ProjectionIsCurrent RequestsAreAtomic  CapacityHolds LinksAreApproved NoMessageSleeps CodesAreOfTheFactor ResourcesAreShared
PROPERTIES BindStateSurvives
CHECK_DEADLOCK FALSE
