SPECIFICATION FairSpec
CONSTANTS
    Slots = {s1, s2}
    Null = Null
    Idle = Idle
    MaxRestarts = 1
    Events = {"order.created.v1", "order.delivered.v1", "payment.captured.v1"}
    Rooms = {r1}
    Sockets = {k1, k2}
    Users = {u1, u2}
    Configured = {"apns"}
    FeedLength = 2
    MaxPublications = 3
INVARIANTS
    EventsTypeOK
    BrokerFollowsOutbox
    TimelineRebuilt
    PublicationsReach
PROPERTIES
    EventuallyEverywhere
CHECK_DEADLOCK FALSE
