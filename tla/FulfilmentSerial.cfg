SPECIFICATION FulfilmentSpec
CONSTANTS
    Orders = {o1, o2}
    Checkouts = {k1}
    Couriers = {c1, c2}
    Actors = {"support_agent"}
    Slots = {s1}
    Null = Null
    Idle = Idle
    DispatchClient = TRUE
    MaxRestarts = 1
SYMMETRY Symmetry
INVARIANTS
    FulfilmentTypeOK
    JobLeadsOrder
PROPERTIES
    JobHolderKept
    ImplementsLifecycle
CHECK_DEADLOCK FALSE
