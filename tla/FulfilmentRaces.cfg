SPECIFICATION FulfilmentSpec
CONSTANTS
    Orders = {o1}
    Checkouts = {k1}
    Couriers = {c1, c2}
    Actors = {"support_agent"}
    Slots = {s1, s2}
    Null = Null
    Idle = Idle
    DispatchClient = TRUE
    MaxRestarts = 0
SYMMETRY Symmetry
INVARIANTS
    JobWasReleased
CHECK_DEADLOCK FALSE
