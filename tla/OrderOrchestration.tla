------------------------- MODULE OrderOrchestration -------------------------
(***************************************************************************)
(* OrderService of core-api: the order repository, the handlers that move  *)
(* an order through its lifecycle, the domain events they publish and the  *)
(* timeline entries they project.                                          *)
(*                                                                         *)
(* The service runs on Node's event loop: a handler is atomic only between *)
(* two awaits.  Every handler has the same awaits, so every request runs   *)
(* the same steps and differs only in what it reads and decides first:     *)
(*                                                                         *)
(*    read the record, check the guard, build the updated record           *)
(*    [a cancellation first publishes and projects order.cancel_requested] *)
(*    save    - DocumentStore.put replaces the WHOLE stored record         *)
(*    publish - the event enters the event bus                             *)
(*    project - the event enters the order's timeline                      *)
(*                                                                         *)
(* Nothing locks the order between the read and the save.  A slot holds    *)
(* one request being served, so Slots with one element is a server that    *)
(* serves requests one at a time and Slots with two lets any two handlers  *)
(* interleave.  Early returns and thrown errors change nothing and are the *)
(* steps that a guard forbids.                                             *)
(***************************************************************************)

EXTENDS Naturals

CONSTANTS
    Orders,     \* the ids randomUUID can hand out
    Checkouts,  \* stored checkouts, referred to by an accepted POST /orders
    Couriers,   \* courier ids
    Actors,     \* the actors that request cancellations
    Slots,      \* requests the server works on at the same time
    Null,       \* JavaScript's null
    Idle        \* a slot that serves no request

\* "ABSENT" is not an OrderStatus: it says that findById(o) returns null.
Status == {"ABSENT", "CREATED", "MERCHANT_ACCEPTED", "DISPATCH_PENDING",
           "COURIER_ASSIGNED", "PICKED_UP", "DELIVERED", "CANCELLED"}

\* The statuses in which each actor may cancel.
CancellationPolicy ==
    LET operated == {"CREATED", "MERCHANT_ACCEPTED", "DISPATCH_PENDING", "COURIER_ASSIGNED"}
    IN [actor \in {"consumer", "merchant_operator", "support_agent", "system_admin"} |->
            IF actor = "consumer" THEN {"CREATED", "MERCHANT_ACCEPTED"} ELSE operated]

\* cancelledBy: an actor of the policy, or "system" for a merchant timeout.
Canceller == Actors \cup {"system"}

\* The fields of Order that the handlers decide on or overwrite.
OrderRecord == [checkoutId  : Checkouts \cup {Null},
                courierId   : Couriers \cup {Null},
                status      : Status,
                cancelledBy : Canceller \cup {Null}]

AbsentOrder == [checkoutId |-> Null, courierId |-> Null,
                status |-> "ABSENT", cancelledBy |-> Null]

EventType == {"order.created.v1", "order.confirmed.v1",
              "dispatch.assignment.requested.v1", "dispatch.assignment.completed.v1",
              "order.picked_up.v1", "order.delivered.v1",
              "order.cancel_requested.v1", "order.cancelled.v1"}

\* A domain event; "by" is the courierId or the cancelledBy of its payload.
Event == [type : EventType, orderId : Orders, by : Couriers \cup Canceller \cup {Null}]

\* What a handler has decided and not finished: the record it will save and
\* the event it will then publish.
Phase == {"request", "requested", "save", "publish", "project"}
Request == [phase : Phase, next : OrderRecord, event : Event]

ASSUME OrchestrationAssumption ==
    /\ Actors \subseteq DOMAIN CancellationPolicy
    /\ Null \notin Checkouts \cup Couriers \cup Canceller \cup DOMAIN CancellationPolicy
    /\ Couriers \cap Canceller = {}
    /\ Idle \notin Request

VARIABLES
    orders,    \* OrderRepository: order id -> stored record
    req,       \* slot -> the request it serves, or Idle
    events,    \* the events the bus has accepted
    timeline   \* the timeline repository's entries, one per projected event

vars == <<orders, req, events, timeline>>

Init == /\ orders = [o \in Orders |-> AbsentOrder]
        /\ req = [s \in Slots |-> Idle]
        /\ events = {}
        /\ timeline = {}

-----------------------------------------------------------------------------
(* The first atomic piece of each handler: findById, guard, updated record. *)

\* Slot s has decided to save "next" and to announce it as "type" by "by".
Decide(s, phase, o, next, type, by) ==
    /\ req[s] = Idle
    /\ req' = [req EXCEPT ![s] = [phase |-> phase, next |-> next,
                                  event |-> [type |-> type, orderId |-> o, by |-> by]]]
    /\ UNCHANGED <<orders, events, timeline>>

\* createOrder: the checkout exists and its quote hash matches.  The id is a
\* fresh UUID, so no stored order and no other request has it.
CreateOrder(s, o, k) ==
    /\ orders[o].status = "ABSENT"
    /\ \A t \in Slots : req[t] # Idle => req[t].event.orderId # o
    /\ Decide(s, "save", o, [AbsentOrder EXCEPT !.checkoutId = k, !.status = "CREATED"],
              "order.created.v1", Null)

\* Mutant of MerchantAcceptOrder: the early return is forgotten.
MerchantAcceptAnyOrder(s, o) ==
    /\ orders[o].status # "ABSENT"
    /\ Decide(s, "save", o, [orders[o] EXCEPT !.status = "MERCHANT_ACCEPTED"],
              "order.confirmed.v1", Null)

MerchantAcceptOrder(s, o) ==
    /\ orders[o].status = "CREATED"
    /\ Decide(s, "save", o,
              [orders[o] EXCEPT !.status = "MERCHANT_ACCEPTED",
                                !.courierId = Null, !.cancelledBy = Null],
              "order.confirmed.v1", Null)

HandleMerchantDecisionTimeout(s, o) ==
    /\ orders[o].status = "CREATED"
    /\ Decide(s, "save", o,
              [orders[o] EXCEPT !.status = "CANCELLED", !.cancelledBy = "system"],
              "order.cancelled.v1", "system")

RequestDispatch(s, o) ==
    /\ orders[o].status = "MERCHANT_ACCEPTED"
    /\ Decide(s, "save", o,
              [orders[o] EXCEPT !.status = "DISPATCH_PENDING", !.courierId = Null],
              "dispatch.assignment.requested.v1", Null)

\* Mutant of AssignCourier: the status name of the published contract.
AssignCourierAsContract(s, o, c) ==
    /\ orders[o].status = "DISPATCH_PENDING"
    /\ Decide(s, "save", o,
              [orders[o] EXCEPT !.courierId = c, !.status = "ASSIGNED"],
              "dispatch.assignment.completed.v1", c)

AssignCourier(s, o, c) ==
    /\ orders[o].status = "DISPATCH_PENDING"
    /\ Decide(s, "save", o,
              [orders[o] EXCEPT !.courierId = c, !.status = "COURIER_ASSIGNED"],
              "dispatch.assignment.completed.v1", c)

\* Mutant of MarkPickedUp: the courier is not compared.
MarkPickedUpByAnyCourier(s, o, c) ==
    /\ orders[o].status = "COURIER_ASSIGNED"
    /\ Decide(s, "save", o, [orders[o] EXCEPT !.status = "PICKED_UP"],
              "order.picked_up.v1", c)

MarkPickedUp(s, o, c) ==
    /\ orders[o].status = "COURIER_ASSIGNED"
    /\ orders[o].courierId = c
    /\ Decide(s, "save", o, [orders[o] EXCEPT !.status = "PICKED_UP"],
              "order.picked_up.v1", c)

MarkDelivered(s, o, c) ==
    /\ orders[o].status = "PICKED_UP"
    /\ orders[o].courierId = c
    /\ Decide(s, "save", o, [orders[o] EXCEPT !.status = "DELIVERED"],
              "order.delivered.v1", c)

\* Mutant of RequestCancellation: the policy of the actor is not consulted.
RequestCancellationByAnyone(s, o, actor) ==
    /\ orders[o].status \notin {"ABSENT", "CANCELLED"}
    /\ Decide(s, "request", o,
              [orders[o] EXCEPT !.status = "CANCELLED", !.cancelledBy = actor],
              "order.cancelled.v1", actor)

RequestCancellation(s, o, actor) ==
    /\ orders[o].status \in CancellationPolicy[actor]
    /\ Decide(s, "request", o,
              [orders[o] EXCEPT !.status = "CANCELLED", !.cancelledBy = actor],
              "order.cancelled.v1", actor)

-----------------------------------------------------------------------------
(* The pieces that follow, one per await. *)

CancelRequested(e) == [e EXCEPT !.type = "order.cancel_requested.v1"]

InPhase(s, phase) == req[s] # Idle /\ req[s].phase = phase

EnterPhase(s, phase) == req' = [req EXCEPT ![s].phase = phase]

PublishCancelRequested(s) ==
    /\ InPhase(s, "request")
    /\ events' = events \cup {CancelRequested(req[s].event)}
    /\ EnterPhase(s, "requested")
    /\ UNCHANGED <<orders, timeline>>

ProjectCancelRequested(s) ==
    /\ InPhase(s, "requested")
    /\ timeline' = timeline \cup {CancelRequested(req[s].event)}
    /\ EnterPhase(s, "save")
    /\ UNCHANGED <<orders, events>>

\* Mutant of Save: the handler answers without announcing what it saved.
SaveSilently(s) ==
    /\ InPhase(s, "save")
    /\ orders' = [orders EXCEPT ![req[s].event.orderId] = req[s].next]
    /\ req' = [req EXCEPT ![s] = Idle]
    /\ UNCHANGED <<events, timeline>>

Save(s) ==
    /\ InPhase(s, "save")
    /\ orders' = [orders EXCEPT ![req[s].event.orderId] = req[s].next]
    /\ EnterPhase(s, "publish")
    /\ UNCHANGED <<events, timeline>>

\* Mutant of Publish: the event is not projected.
PublishWithoutProjection(s) ==
    /\ InPhase(s, "publish")
    /\ events' = events \cup {req[s].event}
    /\ req' = [req EXCEPT ![s] = Idle]
    /\ UNCHANGED <<orders, timeline>>

Publish(s) ==
    /\ InPhase(s, "publish")
    /\ events' = events \cup {req[s].event}
    /\ EnterPhase(s, "project")
    /\ UNCHANGED <<orders, timeline>>

\* The last await: the entry is appended and the request is answered.
ProjectEvent(s) ==
    /\ InPhase(s, "project")
    /\ timeline' = timeline \cup {req[s].event}
    /\ req' = [req EXCEPT ![s] = Idle]
    /\ UNCHANGED <<orders, events>>

Continue(s) ==
    \/ PublishCancelRequested(s)
    \/ ProjectCancelRequested(s)
    \/ Save(s)
    \/ Publish(s)
    \/ ProjectEvent(s)

Start(s) ==
    \E o \in Orders :
        \/ \E k \in Checkouts : CreateOrder(s, o, k)
        \/ MerchantAcceptOrder(s, o)
        \/ HandleMerchantDecisionTimeout(s, o)
        \/ RequestDispatch(s, o)
        \/ \E c \in Couriers : \/ AssignCourier(s, o, c)
                               \/ MarkPickedUp(s, o, c)
                               \/ MarkDelivered(s, o, c)
        \/ \E a \in Actors : RequestCancellation(s, o, a)

Next == \E s \in Slots : Start(s) \/ Continue(s)

\* Requests arrive when clients choose; one that was accepted runs on, since
\* the event loop resumes every handler whose awaited call has answered.
Fairness == \A s \in Slots : WF_vars(Continue(s))

Spec == Init /\ [][Next]_vars
FairSpec == Spec /\ Fairness

-----------------------------------------------------------------------------
(* What the service promises. *)

TypeOK ==
    /\ orders \in [Orders -> OrderRecord]
    /\ req \in [Slots -> Request \cup {Idle}]
    /\ events \in SUBSET Event
    /\ timeline \in SUBSET Event

Consistent(r) ==
    /\ r.status \in {"COURIER_ASSIGNED", "PICKED_UP", "DELIVERED"} => r.courierId # Null
    /\ r.courierId # Null =>
           r.status \in {"COURIER_ASSIGNED", "PICKED_UP", "DELIVERED", "CANCELLED"}
    /\ r.cancelledBy # Null <=> r.status = "CANCELLED"
    /\ r.cancelledBy \in {"consumer", "system"} => r.courierId = Null
    /\ r.status = "ABSENT" <=> r.checkoutId = Null

\* However handlers interleave, no stored record mixes the work of two of
\* them: it has a courier exactly when one was assigned, a canceller exactly
\* when it was cancelled, and an order that its consumer or a merchant timeout
\* cancelled never had a courier.
RecordConsistent == \A o \in Orders : Consistent(orders[o])

\* The event is in the log, or its handler has saved the order and is about to
\* publish it.
Announcing(e) ==
    \/ e \in events
    \/ \E s \in Slots : InPhase(s, "publish") /\ req[s].event = e

EventOf(o, type, by) == [type |-> type, orderId |-> o, by |-> by]

\* The event that announces a record, by its status.
StatusEvent(o, r) ==
    CASE r.status = "MERCHANT_ACCEPTED" -> EventOf(o, "order.confirmed.v1", Null)
      [] r.status = "DISPATCH_PENDING"  -> EventOf(o, "dispatch.assignment.requested.v1", Null)
      [] r.status = "COURIER_ASSIGNED"  -> EventOf(o, "dispatch.assignment.completed.v1", r.courierId)
      [] r.status = "PICKED_UP"         -> EventOf(o, "order.picked_up.v1", r.courierId)
      [] r.status = "DELIVERED"         -> EventOf(o, "order.delivered.v1", r.courierId)
      [] r.status = "CANCELLED"         -> EventOf(o, "order.cancelled.v1", r.cancelledBy)
      [] OTHER                          -> EventOf(o, "order.created.v1", Null)

\* The step of the lifecycle that must have been announced before e: the same
\* courier's previous step, the same actor's cancellation request.
CauseOf(e) ==
    CASE e.type = "dispatch.assignment.requested.v1" -> EventOf(e.orderId, "order.confirmed.v1", Null)
      [] e.type = "dispatch.assignment.completed.v1" ->
             EventOf(e.orderId, "dispatch.assignment.requested.v1", Null)
      [] e.type = "order.picked_up.v1" -> EventOf(e.orderId, "dispatch.assignment.completed.v1", e.by)
      [] e.type = "order.delivered.v1" -> EventOf(e.orderId, "order.picked_up.v1", e.by)
      [] e.type = "order.cancelled.v1" /\ e.by # "system" -> CancelRequested(e)
      [] OTHER -> EventOf(e.orderId, "order.created.v1", Null)

\* The stored status of every order is announced, and the whole chain of steps
\* that leads to an announced event is announced too: no race leaves a
\* delivery without its courier's pickup, or a cancellation without the
\* request of the actor it names.
Auditable ==
    /\ \A o \in Orders : orders[o].status # "ABSENT" => Announcing(StatusEvent(o, orders[o]))
    /\ \A e \in events : Announcing(CauseOf(e))

\* The timeline shows nothing that was not published, and it misses only the
\* events whose handler is about to project them.
TimelineCaughtUp ==
    /\ timeline \subseteq events
    /\ \A e \in events \ timeline : \E s \in Slots :
           \/ InPhase(s, "project") /\ e = req[s].event
           \/ InPhase(s, "requested") /\ e = CancelRequested(req[s].event)

\* Every status an order takes reaches its timeline.
EventuallyOnTimeline ==
    \A o \in Orders, st \in Status \ {"ABSENT"} :
        orders[o].status = st ~>
            \E e \in timeline :
                e.orderId = o /\ e.type = StatusEvent(o, [AbsentOrder EXCEPT !.status = st]).type

\* A server that works on one request at a time implements the lifecycle of
\* OrderLifecycle: every save is one of its transitions.
Lifecycle == INSTANCE OrderLifecycle WITH
                 status  <- [o \in Orders |-> orders[o].status],
                 courier <- [o \in Orders |-> orders[o].courierId]
ImplementsLifecycle == Lifecycle!Spec

\* "Exactly one terminal state": no order is announced both as delivered and
\* as cancelled.
OneTerminalState ==
    \A d, e \in events :
        d.type = "order.delivered.v1" /\ e.type = "order.cancelled.v1" => d.orderId # e.orderId
=============================================================================
