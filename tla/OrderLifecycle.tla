--------------------------- MODULE OrderLifecycle ---------------------------
(***************************************************************************)
(* What order orchestration promises of one order, without requests,       *)
(* events or interleavings: the transitions between stored statuses that   *)
(* the guards of OrderService allow.  DELIVERED and CANCELLED have no      *)
(* successor, and the courier of an order is fixed by its assignment.      *)
(***************************************************************************)

CONSTANTS Orders, Couriers, Null

VARIABLES status, courier

vars == <<status, courier>>

Init == /\ status = [o \in Orders |-> "ABSENT"]
        /\ courier = [o \in Orders |-> Null]

Move(o, from, to) ==
    /\ status[o] \in from
    /\ status' = [status EXCEPT ![o] = to]

Create(o) == Move(o, {"ABSENT"}, "CREATED") /\ UNCHANGED courier

Accept(o) == Move(o, {"CREATED"}, "MERCHANT_ACCEPTED") /\ UNCHANGED courier

Dispatch(o) == Move(o, {"MERCHANT_ACCEPTED"}, "DISPATCH_PENDING") /\ UNCHANGED courier

Assign(o, c) == /\ Move(o, {"DISPATCH_PENDING"}, "COURIER_ASSIGNED")
                /\ courier' = [courier EXCEPT ![o] = c]

PickUp(o) == Move(o, {"COURIER_ASSIGNED"}, "PICKED_UP") /\ UNCHANGED courier

Deliver(o) == Move(o, {"PICKED_UP"}, "DELIVERED") /\ UNCHANGED courier

Cancel(o) ==
    /\ Move(o, {"CREATED", "MERCHANT_ACCEPTED", "DISPATCH_PENDING", "COURIER_ASSIGNED"}, "CANCELLED")
    /\ UNCHANGED courier

Next == \E o \in Orders :
            \/ Create(o) \/ Accept(o) \/ Dispatch(o) \/ PickUp(o) \/ Deliver(o) \/ Cancel(o)
            \/ \E c \in Couriers : Assign(o, c)

Spec == Init /\ [][Next]_vars

=============================================================================
