SPECIFICATION FulfilmentFairSpec
CONSTANTS
    Orders = {o1, o2}
    Checkouts = {k1}
    Couriers = {c1, c2}
    Actors = {"consumer", "support_agent"}
    Slots = {s1}
    Null = Null
    Idle = Idle
    DispatchClient = FALSE
    MaxRestarts = 1
INVARIANTS
    OneActiveAssignment
    AgreeBetweenRequests
PROPERTIES
    DropoffDelivers
CHECK_DEADLOCK FALSE
