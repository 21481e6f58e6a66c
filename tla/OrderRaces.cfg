SPECIFICATION FairSpec
CONSTANTS
    Orders = {o1}
    Checkouts = {k1}
    Couriers = {c1, c2}
    Actors = {"consumer", "support_agent"}
    Slots = {s1, s2}
    Null = Null
    Idle = Idle
INVARIANTS
    TypeOK
    RecordConsistent
    Auditable
    TimelineCaughtUp
PROPERTIES
    EventuallyOnTimeline
CHECK_DEADLOCK FALSE
