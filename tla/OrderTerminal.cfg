SPECIFICATION Spec
CONSTANTS
    Orders = {o1}
    Checkouts = {k1}
    Couriers = {c1}
    Actors = {"support_agent"}
    Slots = {s1, s2}
    Null = Null
    Idle = Idle
INVARIANTS
    OneTerminalState
CHECK_DEADLOCK FALSE
