SPECIFICATION Spec
CONSTANTS
    Slots = {s1, s2}
    Null = Null
    Idle = Idle
    MaxRestarts = 1
    Users = {u1, u2}
    Emails = {e1, e2}
    Phones = {p1, p2}
    Clients = {c1}
    Devices = {Null, d1}
    InFlight = {i1, i2}
    MaxSessions = 3
    MaxTokens = 3
    MaxExpired = 1
    Menus = {m1, m2}
    Dishes = {"tacos", "ramen"}
    Baskets = {b1, b2}
    Items = {t1}
    Prices = {5200}
    MaxQuantity = 1
    MaxLines = 2
    MaxVersions = 3
    MaxStamp = 1
    MaxQuotes = 1
    MaxCheckouts = 1
    MaxOrders = 1
    DayTimes = {0, 540, 1320, 1439}
    Zones = {z1, z2, z3, z4}
    Latitudes = {0, 6}
    Longitudes = {0}
    PointLatitudes = {0, 8}
    PointLongitudes = {0}
    Grain = 4
    Couriers = {1, 2}
    Distances = {1345, 4945, 7000, 30000}
    Loads = {0, 3, 4}
    Pressures = {3, 91}
    MaxCandidates = 2
    Int32Limit = 20000
    ObservationTimes = {0, 1, 2}
    Intents = {n1, n2}
    maxAttempts = 2
    MaxKills = 1
    MaxEnqueued = 2
SYMMETRY Symmetric
INVARIANTS
    IdentitiesUnique
    FamiliesDie
    AppSessionUsable
    HttpAnswers
    RoutesReachable
    BffCallsAccepted
    StorefrontTrue
    DispatchSound
    QueueKeepsItsWord
CHECK_DEADLOCK FALSE
