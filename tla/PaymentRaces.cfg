SPECIFICATION FairSpec
CONSTANTS
    Orders = {o1}
    Couriers = {c1}
    Intents = {i1}
    Refunds = {f1}
    Keys = {k1}
    Amounts = {1, 2}
    Slots = {s1, s2}
    Null = Null
    Idle = Idle
    MaxRestarts = 0
INVARIANTS
    TypeOK
    CapturedAfterAcceptance
    RefundsBacked
    KeyMeansCaptured
    Audited
PROPERTIES
    CaptureEventuallyAudited
CHECK_DEADLOCK FALSE
