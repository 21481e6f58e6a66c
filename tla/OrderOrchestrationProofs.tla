---------------------- MODULE OrderOrchestrationProofs ----------------------
(***************************************************************************)
(* Proofs about OrderOrchestration for any set of orders, couriers, actors *)
(* and concurrent requests.                                                *)
(***************************************************************************)
EXTENDS OrderOrchestration, TLAPS

\* One step of a slot, with what it changes named.
LEMMA DecideType ==
    ASSUME TypeOK, NEW s \in Slots, NEW o \in Orders, NEW phase \in Phase,
           NEW next \in OrderRecord, NEW type \in EventType,
           NEW by \in Couriers \cup Canceller \cup {Null},
           Decide(s, phase, o, next, type, by)
    PROVE  TypeOK'
<1>1. [phase |-> phase, next |-> next,
       event |-> [type |-> type, orderId |-> o, by |-> by]] \in Request
  BY DEF Request, Event
<1> QED
  BY <1>1 DEF TypeOK, Decide

LEMMA TypePreserved == TypeOK /\ [Next]_vars => TypeOK'
<1> QED
  <2> SUFFICES ASSUME TypeOK, Next PROVE TypeOK'
    BY DEF TypeOK, vars
  <2> PICK s \in Slots : Start(s) \/ Continue(s)
    BY DEF Next
  <2>1. CASE Start(s)
    <3> PICK o \in Orders :
          \/ \E k \in Checkouts : CreateOrder(s, o, k)
          \/ MerchantAcceptOrder(s, o)
          \/ HandleMerchantDecisionTimeout(s, o)
          \/ RequestDispatch(s, o)
          \/ \E c \in Couriers : \/ AssignCourier(s, o, c)
                                 \/ MarkPickedUp(s, o, c)
                                 \/ MarkDelivered(s, o, c)
          \/ \E a \in Actors : RequestCancellation(s, o, a)
      BY <2>1 DEF Start
    <3> orders[o] \in OrderRecord
      BY DEF TypeOK
    <3>1. ASSUME NEW k \in Checkouts, CreateOrder(s, o, k) PROVE TypeOK'
      <4>1. [AbsentOrder EXCEPT !.checkoutId = k, !.status = "CREATED"] \in OrderRecord
        BY DEF AbsentOrder, OrderRecord, Status
      <4> QED BY <3>1, <4>1, DecideType DEF CreateOrder, Phase, EventType
    <3>2. CASE MerchantAcceptOrder(s, o)
      <4>1. [orders[o] EXCEPT !.status = "MERCHANT_ACCEPTED",
                              !.courierId = Null, !.cancelledBy = Null] \in OrderRecord
        BY DEF OrderRecord, Status
      <4> QED BY <3>2, <4>1, DecideType DEF MerchantAcceptOrder, Phase, EventType
    <3>3. CASE HandleMerchantDecisionTimeout(s, o)
      <4>1. [orders[o] EXCEPT !.status = "CANCELLED", !.cancelledBy = "system"] \in OrderRecord
        BY DEF OrderRecord, Status, Canceller
      <4> QED BY <3>3, <4>1, DecideType
              DEF HandleMerchantDecisionTimeout, Phase, EventType, Canceller
    <3>4. CASE RequestDispatch(s, o)
      <4>1. [orders[o] EXCEPT !.status = "DISPATCH_PENDING", !.courierId = Null] \in OrderRecord
        BY DEF OrderRecord, Status
      <4> QED BY <3>4, <4>1, DecideType DEF RequestDispatch, Phase, EventType
    <3>5. ASSUME NEW c \in Couriers, AssignCourier(s, o, c) PROVE TypeOK'
      <4>1. [orders[o] EXCEPT !.courierId = c, !.status = "COURIER_ASSIGNED"] \in OrderRecord
        BY DEF OrderRecord, Status
      <4> QED BY <3>5, <4>1, DecideType DEF AssignCourier, Phase, EventType
    <3>6. ASSUME NEW c \in Couriers, MarkPickedUp(s, o, c) PROVE TypeOK'
      <4>1. [orders[o] EXCEPT !.status = "PICKED_UP"] \in OrderRecord
        BY DEF OrderRecord, Status
      <4> QED BY <3>6, <4>1, DecideType DEF MarkPickedUp, Phase, EventType
    <3>7. ASSUME NEW c \in Couriers, MarkDelivered(s, o, c) PROVE TypeOK'
      <4>1. [orders[o] EXCEPT !.status = "DELIVERED"] \in OrderRecord
        BY DEF OrderRecord, Status
      <4> QED BY <3>7, <4>1, DecideType DEF MarkDelivered, Phase, EventType
    <3>8. ASSUME NEW a \in Actors, RequestCancellation(s, o, a) PROVE TypeOK'
      <4>1. [orders[o] EXCEPT !.status = "CANCELLED", !.cancelledBy = a] \in OrderRecord
        BY DEF OrderRecord, Status, Canceller
      <4> QED BY <3>8, <4>1, DecideType DEF RequestCancellation, Phase, EventType, Canceller
    <3> QED BY <3>1, <3>2, <3>3, <3>4, <3>5, <3>6, <3>7, <3>8
  <2>2. CASE Continue(s)
    <3>1. req[s] \in Request
      BY <2>2 DEF TypeOK, Continue, PublishCancelRequested, ProjectCancelRequested,
                  Save, Publish, ProjectEvent, InPhase
    <3>2. /\ req[s].event \in Event
          /\ req[s].next \in OrderRecord
          /\ CancelRequested(req[s].event) \in Event
      BY <3>1 DEF Request, Event, CancelRequested, EventType
    <3>3. \A p \in Phase : [req[s] EXCEPT !.phase = p] \in Request
      BY <3>1 DEF Request
    <3>4. /\ orders' \in [Orders -> OrderRecord]
          /\ events' \in SUBSET Event
          /\ timeline' \in SUBSET Event
      BY <2>2, <3>2 DEF TypeOK, Continue, PublishCancelRequested, ProjectCancelRequested,
                        Save, Publish, ProjectEvent, Event
    <3>5. req' \in [Slots -> Request \cup {Idle}]
      BY <2>2, <3>3 DEF TypeOK, Continue, PublishCancelRequested, ProjectCancelRequested,
                        Save, Publish, ProjectEvent, EnterPhase, Phase
    <3> QED BY <3>4, <3>5 DEF TypeOK
  <2> QED BY <2>1, <2>2

\* Every variable keeps its type: saved records, requests in flight, published
\* events and timeline entries stay within the shapes declared for them.
THEOREM TypeCorrect == Spec => []TypeOK
<1>1. Init => TypeOK
  BY DEF Init, TypeOK, AbsentOrder, OrderRecord, Status
<1> QED BY <1>1, TypePreserved, PTL DEF Spec

-----------------------------------------------------------------------------
(***************************************************************************)
(* The inductive invariant.  What a request has decided is a consistent    *)
(* record, the event it will publish announces that record, and the causes *)
(* of the event are announced already; an order's creation is announced    *)
(* before anything else about it.                                          *)
(***************************************************************************)

Created(o) == EventOf(o, "order.created.v1", Null)

DecisionOK(q) ==
    LET o == q.event.orderId IN
    /\ Consistent(q.next)
    /\ q.next.status # "ABSENT"
    /\ q.event = StatusEvent(o, q.next)
    /\ q.event # Created(o) => Announcing(Created(o))
    /\ q.phase \in {"request", "requested"} =>
           q.event.type = "order.cancelled.v1" /\ q.event.by # "system"
    /\ q.phase # "request" /\ q.event # Created(o) => Announcing(CauseOf(q.event))
    /\ q.phase = "requested" => CancelRequested(q.event) \in events
    /\ q.phase = "project" => q.event \in events

DecisionsOK == \A s \in Slots : req[s] # Idle => DecisionOK(req[s])

CreationAnnounced ==
    \A o \in Orders : orders[o].status # "ABSENT" => Announcing(Created(o))

IInv == TypeOK /\ RecordConsistent /\ Auditable /\ TimelineCaughtUp
        /\ CreationAnnounced /\ DecisionsOK

LEMMA DecidePreserves ==
    ASSUME IInv, NEW s \in Slots, NEW o \in Orders, NEW phase \in {"request", "save"},
           NEW next \in OrderRecord, NEW type \in EventType,
           NEW by \in Couriers \cup Canceller \cup {Null},
           Decide(s, phase, o, next, type, by),
           DecisionOK([phase |-> phase, next |-> next, event |-> EventOf(o, type, by)])
    PROVE  IInv'
<1> DEFINE q == [phase |-> phase, next |-> next, event |-> EventOf(o, type, by)]
<1>1. /\ req[s] = Idle
      /\ req' = [req EXCEPT ![s] = q]
      /\ UNCHANGED <<orders, events, timeline>>
  BY DEF Decide, EventOf
<1>2. q \in Request
  BY DEF Request, Event, Phase, EventOf
<1>3. req \in [Slots -> Request \cup {Idle}]
  BY DEF IInv, TypeOK
<1>4. TypeOK'
  BY <1>1, <1>2 DEF IInv, TypeOK
<1>5. \A t \in Slots : t # s => req'[t] = req[t]
  BY <1>1, <1>3
<1>6. req'[s] = q /\ q # Idle /\ q.phase \notin {"publish", "project", "requested"}
  BY <1>1, <1>2, <1>3, OrchestrationAssumption
<1> HIDE DEF q
<1>7. \A e : Announcing(e)' <=> Announcing(e)
  BY <1>1, <1>5, <1>6 DEF Announcing, InPhase
<1>8. RecordConsistent'
  BY <1>1 DEF IInv, RecordConsistent
<1>9. Auditable'
  BY <1>1, <1>7 DEF IInv, Auditable
<1>10. TimelineCaughtUp'
  BY <1>1, <1>5, <1>6 DEF IInv, TimelineCaughtUp, InPhase
<1>11. CreationAnnounced'
  BY <1>1, <1>7 DEF IInv, CreationAnnounced
<1>12. \A d : DecisionOK(d)' <=> DecisionOK(d)
  BY <1>1, <1>7 DEF DecisionOK
<1>13. DecisionsOK'
  BY <1>5, <1>6, <1>12 DEF IInv, DecisionsOK, q
<1> QED
  BY <1>4, <1>8, <1>9, <1>10, <1>11, <1>13 DEF IInv

\* What a handler decides from a stored order is a consistent record, and the
\* steps that led to the order's stored status are announced.
LEMMA StartPreserves == ASSUME IInv, NEW s \in Slots, Start(s) PROVE IInv'
<1> PICK o \in Orders :
      \/ \E k \in Checkouts : CreateOrder(s, o, k)
      \/ MerchantAcceptOrder(s, o)
      \/ HandleMerchantDecisionTimeout(s, o)
      \/ RequestDispatch(s, o)
      \/ \E c \in Couriers : \/ AssignCourier(s, o, c)
                             \/ MarkPickedUp(s, o, c)
                             \/ MarkDelivered(s, o, c)
      \/ \E a \in Actors : RequestCancellation(s, o, a)
  BY DEF Start
<1>1. /\ orders[o] \in OrderRecord
      /\ Consistent(orders[o])
      /\ orders[o].status # "ABSENT" => /\ Announcing(StatusEvent(o, orders[o]))
                                        /\ Announcing(Created(o))
  BY DEF IInv, TypeOK, RecordConsistent, Auditable, CreationAnnounced
<1>9. ASSUME NEW k \in Checkouts, CreateOrder(s, o, k) PROVE IInv'
  <2> DEFINE next == [AbsentOrder EXCEPT !.checkoutId = k, !.status = "CREATED"]
  <2>1. next \in OrderRecord /\ Consistent(next)
    BY OrchestrationAssumption
    DEF AbsentOrder, OrderRecord, Status, Consistent, Canceller
  <2>2. Created(o) = StatusEvent(o, next)
    BY DEF StatusEvent, AbsentOrder, Created
  <2>3. DecisionOK([phase |-> "save", next |-> next,
                    event |-> EventOf(o, "order.created.v1", Null)])
    BY <2>1, <2>2 DEF DecisionOK, Created, EventOf, AbsentOrder
  <2> QED
    BY <1>9, <2>1, <2>3, DecidePreserves DEF CreateOrder, EventType
<1>2. CASE MerchantAcceptOrder(s, o)
  <2> DEFINE next == [orders[o] EXCEPT !.status = "MERCHANT_ACCEPTED", !.courierId = Null, !.cancelledBy = Null]
  <2>1. next \in OrderRecord
    BY <1>1 DEF OrderRecord, Status, Canceller
  <2>2. Consistent(next)
    BY <1>2, <1>1, OrchestrationAssumption
    DEF Consistent, MerchantAcceptOrder, OrderRecord, Canceller, CancellationPolicy
  <2>3. EventOf(o, "order.confirmed.v1", Null) = StatusEvent(o, next)
    BY <1>1, <1>2 DEF StatusEvent, OrderRecord, MerchantAcceptOrder
  <2>4. Announcing(CauseOf(EventOf(o, "order.confirmed.v1", Null)))
    BY <1>1, <1>2 DEF CauseOf, EventOf, StatusEvent, Created, MerchantAcceptOrder
  <2>5. DecisionOK([phase |-> "save", next |-> next, event |-> EventOf(o, "order.confirmed.v1", Null)])
    BY <1>1, <1>2, <2>1, <2>2, <2>3, <2>4, OrchestrationAssumption
    DEF DecisionOK, EventOf, MerchantAcceptOrder, OrderRecord, Canceller, CancellationPolicy
  <2> QED
    BY <1>2, <2>1, <2>5, DecidePreserves DEF MerchantAcceptOrder, EventType, Canceller
<1>3. CASE HandleMerchantDecisionTimeout(s, o)
  <2> DEFINE next == [orders[o] EXCEPT !.status = "CANCELLED", !.cancelledBy = "system"]
  <2>1. next \in OrderRecord
    BY <1>1 DEF OrderRecord, Status, Canceller
  <2>2. Consistent(next)
    BY <1>3, <1>1, OrchestrationAssumption
    DEF Consistent, HandleMerchantDecisionTimeout, OrderRecord, Canceller, CancellationPolicy
  <2>3. EventOf(o, "order.cancelled.v1", "system") = StatusEvent(o, next)
    BY <1>1, <1>3 DEF StatusEvent, OrderRecord, HandleMerchantDecisionTimeout
  <2>4. Announcing(CauseOf(EventOf(o, "order.cancelled.v1", "system")))
    BY <1>1, <1>3 DEF CauseOf, EventOf, StatusEvent, Created, HandleMerchantDecisionTimeout
  <2>5. DecisionOK([phase |-> "save", next |-> next, event |-> EventOf(o, "order.cancelled.v1", "system")])
    BY <1>1, <1>3, <2>1, <2>2, <2>3, <2>4, OrchestrationAssumption
    DEF DecisionOK, EventOf, HandleMerchantDecisionTimeout, OrderRecord, Canceller, CancellationPolicy
  <2> QED
    BY <1>3, <2>1, <2>5, DecidePreserves DEF HandleMerchantDecisionTimeout, EventType, Canceller
<1>4. CASE RequestDispatch(s, o)
  <2> DEFINE next == [orders[o] EXCEPT !.status = "DISPATCH_PENDING", !.courierId = Null]
  <2>1. next \in OrderRecord
    BY <1>1 DEF OrderRecord, Status, Canceller
  <2>2. Consistent(next)
    BY <1>4, <1>1, OrchestrationAssumption
    DEF Consistent, RequestDispatch, OrderRecord, Canceller, CancellationPolicy
  <2>3. EventOf(o, "dispatch.assignment.requested.v1", Null) = StatusEvent(o, next)
    BY <1>1, <1>4 DEF StatusEvent, OrderRecord, RequestDispatch
  <2>4. Announcing(CauseOf(EventOf(o, "dispatch.assignment.requested.v1", Null)))
    BY <1>1, <1>4 DEF CauseOf, EventOf, StatusEvent, Created, RequestDispatch
  <2>5. DecisionOK([phase |-> "save", next |-> next, event |-> EventOf(o, "dispatch.assignment.requested.v1", Null)])
    BY <1>1, <1>4, <2>1, <2>2, <2>3, <2>4, OrchestrationAssumption
    DEF DecisionOK, EventOf, RequestDispatch, OrderRecord, Canceller, CancellationPolicy
  <2> QED
    BY <1>4, <2>1, <2>5, DecidePreserves DEF RequestDispatch, EventType, Canceller
<1>5. ASSUME NEW c \in Couriers, AssignCourier(s, o, c) PROVE IInv'
  <2> DEFINE next == [orders[o] EXCEPT !.courierId = c, !.status = "COURIER_ASSIGNED"]
  <2>1. next \in OrderRecord
    BY <1>1 DEF OrderRecord, Status, Canceller
  <2>2. Consistent(next)
    <3>1. orders[o].status = "DISPATCH_PENDING" /\ c # Null
      BY <1>5, OrchestrationAssumption DEF AssignCourier
    <3>2. orders[o].cancelledBy = Null /\ orders[o].checkoutId # Null
      BY <1>1, <3>1 DEF Consistent
    <3>3. Null # "consumer" /\ Null # "system"
      BY OrchestrationAssumption DEF Canceller, CancellationPolicy
    <3> QED
      BY <1>1, <3>1, <3>2, <3>3 DEF Consistent, OrderRecord
  <2>3. EventOf(o, "dispatch.assignment.completed.v1", c) = StatusEvent(o, next)
    BY <1>1, <1>5 DEF StatusEvent, OrderRecord, AssignCourier
  <2>4. Announcing(CauseOf(EventOf(o, "dispatch.assignment.completed.v1", c)))
    BY <1>1, <1>5 DEF CauseOf, EventOf, StatusEvent, Created, AssignCourier
  <2>5. DecisionOK([phase |-> "save", next |-> next, event |-> EventOf(o, "dispatch.assignment.completed.v1", c)])
    BY <1>1, <1>5, <2>1, <2>2, <2>3, <2>4, OrchestrationAssumption
    DEF DecisionOK, EventOf, AssignCourier, OrderRecord, Canceller, CancellationPolicy
  <2> QED
    BY <1>5, <2>1, <2>5, DecidePreserves DEF AssignCourier, EventType, Canceller
<1>6. ASSUME NEW c \in Couriers, MarkPickedUp(s, o, c) PROVE IInv'
  <2> DEFINE next == [orders[o] EXCEPT !.status = "PICKED_UP"]
  <2>1. next \in OrderRecord
    BY <1>1 DEF OrderRecord, Status, Canceller
  <2>2. Consistent(next)
    BY <1>6, <1>1, OrchestrationAssumption
    DEF Consistent, MarkPickedUp, OrderRecord, Canceller, CancellationPolicy
  <2>3. EventOf(o, "order.picked_up.v1", c) = StatusEvent(o, next)
    BY <1>1, <1>6 DEF StatusEvent, OrderRecord, MarkPickedUp
  <2>4. Announcing(CauseOf(EventOf(o, "order.picked_up.v1", c)))
    BY <1>1, <1>6 DEF CauseOf, EventOf, StatusEvent, Created, MarkPickedUp
  <2>5. DecisionOK([phase |-> "save", next |-> next, event |-> EventOf(o, "order.picked_up.v1", c)])
    BY <1>1, <1>6, <2>1, <2>2, <2>3, <2>4, OrchestrationAssumption
    DEF DecisionOK, EventOf, MarkPickedUp, OrderRecord, Canceller, CancellationPolicy
  <2> QED
    BY <1>6, <2>1, <2>5, DecidePreserves DEF MarkPickedUp, EventType, Canceller
<1>7. ASSUME NEW c \in Couriers, MarkDelivered(s, o, c) PROVE IInv'
  <2> DEFINE next == [orders[o] EXCEPT !.status = "DELIVERED"]
  <2>1. next \in OrderRecord
    BY <1>1 DEF OrderRecord, Status, Canceller
  <2>2. Consistent(next)
    BY <1>7, <1>1, OrchestrationAssumption
    DEF Consistent, MarkDelivered, OrderRecord, Canceller, CancellationPolicy
  <2>3. EventOf(o, "order.delivered.v1", c) = StatusEvent(o, next)
    BY <1>1, <1>7 DEF StatusEvent, OrderRecord, MarkDelivered
  <2>4. Announcing(CauseOf(EventOf(o, "order.delivered.v1", c)))
    BY <1>1, <1>7 DEF CauseOf, EventOf, StatusEvent, Created, MarkDelivered
  <2>5. DecisionOK([phase |-> "save", next |-> next, event |-> EventOf(o, "order.delivered.v1", c)])
    BY <1>1, <1>7, <2>1, <2>2, <2>3, <2>4, OrchestrationAssumption
    DEF DecisionOK, EventOf, MarkDelivered, OrderRecord, Canceller, CancellationPolicy
  <2> QED
    BY <1>7, <2>1, <2>5, DecidePreserves DEF MarkDelivered, EventType, Canceller
<1>8. ASSUME NEW a \in Actors, RequestCancellation(s, o, a) PROVE IInv'
  <2> DEFINE next == [orders[o] EXCEPT !.status = "CANCELLED", !.cancelledBy = a]
  <2>1. next \in OrderRecord
    BY <1>1 DEF OrderRecord, Status, Canceller
  <2>2. Consistent(next)
    BY <1>8, <1>1, OrchestrationAssumption
    DEF Consistent, RequestCancellation, OrderRecord, Canceller, CancellationPolicy
  <2>3. EventOf(o, "order.cancelled.v1", a) = StatusEvent(o, next)
    BY <1>1, <1>8 DEF StatusEvent, OrderRecord, RequestCancellation
  <2>5. DecisionOK([phase |-> "request", next |-> next, event |-> EventOf(o, "order.cancelled.v1", a)])
    BY <1>1, <1>8, <2>1, <2>2, <2>3, OrchestrationAssumption
    DEF DecisionOK, EventOf, RequestCancellation, OrderRecord, Canceller, CancellationPolicy
  <2> QED
    BY <1>8, <2>1, <2>5, DecidePreserves DEF RequestCancellation, EventType, Canceller
<1> QED
  BY <1>2, <1>3, <1>4, <1>5, <1>6, <1>7, <1>8, <1>9

\* What one step of a request in flight does to its own slot and to the rest.
LEMMA ContinueShape ==
    ASSUME TypeOK, NEW s \in Slots, Continue(s)
    PROVE  /\ req[s] # Idle /\ req[s] \in Request
           /\ \A t \in Slots \ {s} : req'[t] = req[t]
           /\ events \subseteq events' /\ timeline \subseteq timeline'
           /\ req'[s] # Idle => /\ req'[s].event = req[s].event
                               /\ req'[s].next = req[s].next
<1>1. req[s] # Idle /\ req[s] \in Request
  BY DEF TypeOK, Continue, PublishCancelRequested, ProjectCancelRequested,
         Save, Publish, ProjectEvent, InPhase
<1>2. \A t \in Slots \ {s} : req'[t] = req[t]
  BY DEF TypeOK, Continue, PublishCancelRequested, ProjectCancelRequested,
         Save, Publish, ProjectEvent, EnterPhase
<1>3. events \subseteq events' /\ timeline \subseteq timeline'
  BY DEF Continue, PublishCancelRequested, ProjectCancelRequested, Save, Publish, ProjectEvent
<1>4. \A p : LET q == [req[s] EXCEPT !.phase = p]
             IN q.event = req[s].event /\ q.next = req[s].next
  BY <1>1 DEF Request
<1>5. \/ req'[s] = Idle
      \/ \E p : req'[s] = [req[s] EXCEPT !.phase = p]
  BY DEF TypeOK, Continue, PublishCancelRequested, ProjectCancelRequested,
         Save, Publish, ProjectEvent, EnterPhase
<1> QED
  BY <1>1, <1>2, <1>3, <1>4, <1>5

\* An announced event stays announced: publishing moves it into the log.
LEMMA AnnouncingPersists ==
    ASSUME TypeOK, NEW s \in Slots, Continue(s), NEW e, Announcing(e)
    PROVE  Announcing(e)'
<1>1. CASE e \in events
  BY <1>1, ContinueShape DEF Announcing
<1>2. ASSUME NEW t \in Slots, InPhase(t, "publish"), req[t].event = e
      PROVE  Announcing(e)'
  <2>1. CASE t # s
    BY <2>1, <1>2, ContinueShape DEF Announcing, InPhase
  <2>2. CASE t = s
    <3>1. Publish(s)
      BY <2>2, <1>2 DEF Continue, InPhase, PublishCancelRequested, ProjectCancelRequested,
                        Save, ProjectEvent
    <3> QED
      BY <3>1, <2>2, <1>2 DEF Publish, Announcing
  <2> QED BY <2>1, <2>2
<1> QED BY <1>1, <1>2 DEF Announcing

\* Saving announces what was saved; publishing adds an event whose cause is
\* announced; the timeline follows.
LEMMA ContinuePreserves == ASSUME IInv, NEW s \in Slots, Continue(s) PROVE IInv'
<1> PICK q : q = req[s]  OBVIOUS
<1> PICK o : o = q.event.orderId  OBVIOUS
<1>1. /\ TypeOK
      /\ q # Idle /\ q \in Request /\ DecisionOK(q)
      /\ o \in Orders
  <2>1. TypeOK BY DEF IInv
  <2>2. q # Idle /\ q \in Request BY <2>1, ContinueShape
  <2> QED BY <2>1, <2>2 DEF IInv, DecisionsOK, Request, Event
<1>2. \A e : Announcing(e) => Announcing(e)'
  BY <1>1, AnnouncingPersists
<1>3. /\ events \subseteq events'
      /\ \A t \in Slots \ {s} : req'[t] = req[t]
      /\ req'[s] # Idle => req'[s].event = q.event /\ req'[s].next = q.next
  BY <1>1, ContinueShape
<1>4. /\ Save(s) => q.phase = "save" /\ req'[s] # Idle /\ req'[s].phase = "publish"
      /\ Publish(s) => q.phase = "publish" /\ req'[s] # Idle /\ req'[s].phase = "project"
      /\ PublishCancelRequested(s) => q.phase = "request" /\ req'[s] # Idle /\ req'[s].phase = "requested"
      /\ ProjectCancelRequested(s) => q.phase = "requested" /\ req'[s] # Idle /\ req'[s].phase = "save"
      /\ ProjectEvent(s) => q.phase = "project" /\ req'[s] = Idle
  <2>1. \A p \in Phase : /\ [q EXCEPT !.phase = p] \in Request
                         /\ [q EXCEPT !.phase = p].phase = p
    BY <1>1 DEF Request
  <2> QED
    BY <1>1, <2>1, OrchestrationAssumption
    DEF TypeOK, Save, Publish, PublishCancelRequested, ProjectCancelRequested, ProjectEvent,
        InPhase, EnterPhase, Phase
<1>5. TypeOK'
  BY <1>1, TypePreserved DEF Next
<1>6. orders' = orders \/ (Save(s) /\ orders' = [orders EXCEPT ![o] = q.next])
  BY DEF Continue, Save, Publish, PublishCancelRequested, ProjectCancelRequested, ProjectEvent
<1>7. \A p \in Orders : orders'[p] = orders[p] \/ (p = o /\ Save(s) /\ orders'[p] = q.next)
  BY <1>1, <1>6 DEF TypeOK
<1>8. Save(s) => Announcing(q.event)'
  BY <1>3, <1>4 DEF Announcing, InPhase
<1>9. RecordConsistent'
  BY <1>1, <1>7 DEF IInv, RecordConsistent, DecisionOK
<1>10. CreationAnnounced'
  BY <1>1, <1>2, <1>7, <1>8 DEF IInv, CreationAnnounced, DecisionOK
<1>11. Auditable'
  <2>1. \A p \in Orders : orders'[p].status # "ABSENT" => Announcing(StatusEvent(p, orders[p]))'
    <3> SUFFICES ASSUME NEW p \in Orders, orders'[p].status # "ABSENT"
                 PROVE  Announcing(StatusEvent(p, orders[p]))'
      OBVIOUS
    <3> PICK r : r = orders'[p]  OBVIOUS
    <3>1. Announcing(StatusEvent(p, r))'
      BY <1>1, <1>2, <1>7, <1>8 DEF IInv, Auditable, DecisionOK
    <3>2. StatusEvent(p, orders[p])' = StatusEvent(p, r)
      BY DEF StatusEvent
    <3> QED BY <3>1, <3>2 DEF Announcing
  <2>2. \A e \in events' : e \in events \/ (Publish(s) /\ e = q.event)
                          \/ (PublishCancelRequested(s) /\ e = CancelRequested(q.event))
    BY DEF Continue, Save, Publish, PublishCancelRequested, ProjectCancelRequested, ProjectEvent
  <2>3. Publish(s) => Announcing(CauseOf(q.event))'
    <3>1. CASE q.event = Created(o)
      <4>1. CauseOf(q.event) = q.event
        BY <3>1 DEF CauseOf, Created, EventOf
      <4> QED BY <4>1 DEF Publish, Announcing
    <3>2. CASE q.event # Created(o)
      BY <3>2, <1>1, <1>2, <1>4 DEF DecisionOK
    <3> QED BY <3>1, <3>2
  <2>4. PublishCancelRequested(s) => Announcing(CauseOf(CancelRequested(q.event)))'
    <3>1. CauseOf(CancelRequested(q.event)) = Created(o)
      BY <1>1 DEF CauseOf, CancelRequested, Created, EventOf, Request, Event
    <3>2. PublishCancelRequested(s) => q.event # Created(o)
      BY <1>1, <1>4 DEF DecisionOK, Created, EventOf
    <3> QED BY <3>1, <3>2, <1>1, <1>2 DEF DecisionOK
  <2> QED
    BY <2>1, <2>2, <2>3, <2>4, <1>2 DEF IInv, Auditable
<1>12. TimelineCaughtUp'
  <2>1. timeline' \subseteq events'
    BY <1>1, <1>3, <1>4
    DEF IInv, TimelineCaughtUp, Continue, Save, Publish, PublishCancelRequested,
        ProjectCancelRequested, ProjectEvent, DecisionOK
  <2>2. ASSUME NEW e \in events' \ timeline'
        PROVE  \E t \in Slots : \/ InPhase(t, "project")' /\ e = req'[t].event
                                \/ InPhase(t, "requested")' /\ e = CancelRequested(req'[t].event)
    <3>1. CASE e \notin events
      BY <3>1, <1>3, <1>4
      DEF Continue, Save, Publish, PublishCancelRequested, ProjectCancelRequested, ProjectEvent,
          InPhase
    <3>2. CASE e \in events
      <4>1. e \in events \ timeline
        BY <3>2, <1>1, ContinueShape
      <4>2. PICK t \in Slots : \/ InPhase(t, "project") /\ e = req[t].event
                               \/ InPhase(t, "requested") /\ e = CancelRequested(req[t].event)
        BY <4>1 DEF IInv, TimelineCaughtUp
      <4>3. CASE t # s
        BY <4>2, <4>3, <1>3 DEF InPhase
      <4>4. CASE t = s
        BY <4>2, <4>4
        DEF InPhase, Continue, Save, Publish, PublishCancelRequested, ProjectCancelRequested,
            ProjectEvent
      <4> QED BY <4>3, <4>4
    <3> QED BY <3>1, <3>2
  <2> QED BY <2>1, <2>2 DEF TimelineCaughtUp
<1>13. DecisionsOK'
  <2>1. ASSUME NEW t \in Slots, t # s, req'[t] # Idle PROVE DecisionOK(req[t])'
    <3> PICK d : d = req[t]  OBVIOUS
    <3>1. req'[t] = d /\ DecisionOK(d)
      BY <2>1, <1>3 DEF IInv, DecisionsOK
    <3>2. DecisionOK(d)'
      BY <3>1, <1>2, <1>3 DEF DecisionOK
    <3> QED BY <3>1, <3>2 DEF DecisionOK
  <2>2. ASSUME req'[s] # Idle PROVE DecisionOK(req[s])'
    <3> PICK d : d = req'[s]  OBVIOUS
    <3>1. q.phase = "requested" => CauseOf(q.event) = CancelRequested(q.event)
      BY <1>1 DEF DecisionOK, CauseOf
    <3>2. q.phase \in {"save", "publish", "project"} /\ q.event # Created(o)
              => Announcing(CauseOf(q.event))'
      BY <1>1, <1>2 DEF DecisionOK
    <3>3. PublishCancelRequested(s) =>
              CancelRequested(q.event) \in events' /\ q.event.type = "order.cancelled.v1"
                  /\ q.event.by # "system"
      BY <1>1, <1>4 DEF PublishCancelRequested, DecisionOK
    <3>4. PublishCancelRequested(s) => Announcing(CauseOf(q.event))'
      BY <3>3 DEF CauseOf, Announcing
    <3>5. ProjectCancelRequested(s) => Announcing(CauseOf(q.event))'
      BY <1>1, <1>3, <1>4, <3>1 DEF DecisionOK, Announcing
    <3>6. Publish(s) => q.event \in events'
      BY DEF Publish
    <3>7. DecisionOK(d)'
      BY <2>2, <1>1, <1>2, <1>3, <1>4, <3>2, <3>3, <3>4, <3>5, <3>6
      DEF DecisionOK, Continue
    <3> QED BY <3>7 DEF DecisionOK
  <2> QED BY <2>1, <2>2 DEF DecisionsOK
<1> QED
  BY <1>5, <1>9, <1>10, <1>11, <1>12, <1>13 DEF IInv

LEMMA InvariantInductive == (Init => IInv) /\ (IInv /\ [Next]_vars => IInv')
<1>1. Init => IInv
  BY OrchestrationAssumption
  DEF Init, IInv, TypeOK, RecordConsistent, Consistent, AbsentOrder, OrderRecord, Status, Auditable,
      TimelineCaughtUp, CreationAnnounced, DecisionsOK, Canceller
<1>2. IInv /\ [Next]_vars => IInv'
  <2> SUFFICES ASSUME IInv, [Next]_vars PROVE IInv'
    OBVIOUS
  <2>1. CASE Next
    BY <2>1, StartPreserves, ContinuePreserves DEF Next
  <2>2. CASE UNCHANGED vars
    BY <2>2 DEF vars, IInv, TypeOK, RecordConsistent, Auditable, TimelineCaughtUp,
                CreationAnnounced, DecisionsOK, DecisionOK, Announcing, InPhase
  <2> QED BY <2>1, <2>2
<1> QED BY <1>1, <1>2

\* The invariant holds in every reachable state.
THEOREM InvariantHolds == Spec => []IInv
<1> QED BY InvariantInductive, PTL DEF Spec

\* However many requests are served at once, no stored order mixes the work
\* of two handlers.
THEOREM RecordsStayConsistent == Spec => []RecordConsistent
<1>1. IInv => RecordConsistent BY DEF IInv
<1> QED BY <1>1, InvariantHolds, PTL

\* Every stored status, and every step that led to an announced event, is
\* announced or about to be.
THEOREM OrdersAreAuditable == Spec => []Auditable
<1>1. IInv => Auditable BY DEF IInv
<1> QED BY <1>1, InvariantHolds, PTL

\* The timeline is the event log up to the events being projected.
THEOREM TimelineFollowsLog == Spec => []TimelineCaughtUp
<1>1. IInv => TimelineCaughtUp BY DEF IInv
<1> QED BY <1>1, InvariantHolds, PTL

=============================================================================
