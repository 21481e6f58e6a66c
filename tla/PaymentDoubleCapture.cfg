SPECIFICATION Spec
CONSTANTS
    Orders = {o1}
    Couriers = {c1}
    Intents = {i1}
    Refunds = {f1}
    Keys = {k1}
    Amounts = {1}
    Slots = {s1, s2}
    Null = Null
    Idle = Idle
    MaxRestarts = 0
INVARIANTS
    CapturePublishedOnce
CHECK_DEADLOCK FALSE
