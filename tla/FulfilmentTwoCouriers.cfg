SPECIFICATION FulfilmentSpec
CONSTANTS
    Orders = {o1}
    Checkouts = {k1}
    Couriers = {c1, c2}
    Actors = {"support_agent"}
    Slots = {s1}
    Null = Null
    Idle = Idle
    DispatchClient = TRUE
    MaxRestarts = 0
INVARIANTS
    OneActiveAssignment
CHECK_DEADLOCK FALSE
