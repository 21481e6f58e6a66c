SPECIFICATION Spec
CONSTANTS
    Orders = {o1}
    Couriers = {c1}
    Intents = {i1, i2}
    Refunds = {f1}
    Keys = {k1, k2}
    Amounts = {1}
    Slots = {s1}
    Null = Null
    Idle = Idle
    MaxRestarts = 1
SYMMETRY Symmetry
INVARIANTS
    PublishedOnce
CHECK_DEADLOCK FALSE
