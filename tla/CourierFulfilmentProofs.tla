---------------------- MODULE CourierFulfilmentProofs ----------------------
(***************************************************************************)
(* Proofs about CourierFulfilment for any orders, couriers and restarts.   *)
(* The order and its job are two records, so what holds between them is    *)
(* proved for a server that serves one request at a time, with a restart   *)
(* at any await.                                                           *)
(***************************************************************************)
EXTENDS CourierFulfilment, OrderOrchestrationProofs

CourierOps == {"accept", "pickup", "dropoff"}

\* What the fields of a route in each of its phases are.
RouteOK(r) ==
    /\ r.op # "list" => r.order \in Orders
    /\ r.op \in CourierOps => r.courier \in Couriers
    /\ r.phase = "sync" => r.op # "dispatch"
    /\ r.phase = "save" => r.op \in CourierOps
    /\ r.phase = "assign" => r.op = "dispatch"
    /\ r.phase = "order" => r.op # "list" /\ r.courier \in Couriers

RoutesOK == \A s \in Slots : route[s] # Idle => RouteOK(route[s])

FulfilmentTypeInv == FulfilmentTypeOK /\ RoutesOK

LEMMA RouteInOrder ==
    ASSUME FulfilmentTypeInv, NEW s \in Slots, NEW phase, InRoute(s, phase)
    PROVE  route[s] \in Route /\ RouteOK(route[s])
BY DEF FulfilmentTypeInv, FulfilmentTypeOK, RoutesOK, InRoute

\* Every step but a restart is one of the order service or leaves it alone.
LEMMA OrdersStep ==
    ASSUME FulfilmentTypeInv, [FulfilmentNext]_fulfilmentVars
    PROVE  [Next]_vars \/ Restart
<1>1. ASSUME NEW s \in Slots, NEW o \in Orders, OrderRoute(s, o) \/ DispatchRequest(s, o)
      PROVE  [Next]_vars
  BY <1>1 DEF OrderRoute, DispatchRequest, Start, Next
<1>2. ASSUME NEW s \in Slots, StartCourierRoute(s) PROVE [Next]_vars
  BY <1>2 DEF StartCourierRoute, StartRoute, RouteOnly
<1>3. ASSUME NEW s \in Slots, ContinueRoute(s) PROVE [Next]_vars
  <2>1. CASE CallOrderService(s)
    <3>1. route[s].order \in Orders /\ route[s].courier \in Couriers
      BY <2>1, RouteInOrder DEF CallOrderService, InRoute, RouteOK
    <3> QED BY <2>1, <3>1 DEF CallOrderService, OrderCall, Start, Next
  <2>2. CASE Continue(s) /\ OrderOnly
    BY <2>2 DEF Next
  <2>3. CASE \/ \E o \in Orders : SyncFindJob(s, o)
             \/ SyncSaveJob(s) \/ ListJobs(s) \/ SaveJob(s) \/ Assigned(s)
    BY <2>3 DEF SyncFindJob, SyncSaveJob, ListJobs, SaveJob, Assigned, RouteOnly
  <2>4. CASE AcceptJob(s) \/ PickupJob(s) \/ DropoffJob(s)
    BY <2>4 DEF AcceptJob, PickupJob, DropoffJob, DecideJob, RouteOnly
  <2> QED BY <1>3, <2>1, <2>2, <2>3, <2>4 DEF ContinueRoute
<1>4. CASE UNCHANGED fulfilmentVars
  BY <1>4 DEF fulfilmentVars, vars
<1> QED BY <1>1, <1>2, <1>3, <1>4 DEF FulfilmentNext

\* A step that gives slot s the route r, or none.
LEMMA RouteStepType ==
    ASSUME FulfilmentTypeInv, [FulfilmentNext]_fulfilmentVars, ~Restart,
           NEW s \in Slots, NEW r \in Route \cup {Idle},
           route' = [route EXCEPT ![s] = r],
           r # Idle => RouteOK(r),
           jobs' \in [Orders -> Job],
           restarts' = restarts
    PROVE  FulfilmentTypeInv'
<1>1. TypeOK'
  BY OrdersStep, TypePreserved DEF FulfilmentTypeInv, FulfilmentTypeOK
<1>2. route' \in [Slots -> Route \cup {Idle}]
  BY DEF FulfilmentTypeInv, FulfilmentTypeOK
<1>3. RoutesOK'
  <2> SUFFICES ASSUME NEW t \in Slots, route'[t] # Idle PROVE RouteOK(route'[t])
    BY DEF RoutesOK, RouteOK
  <2> QED BY DEF FulfilmentTypeInv, FulfilmentTypeOK, RoutesOK
<1>4. restarts' \in 0..MaxRestarts
  BY DEF FulfilmentTypeInv, FulfilmentTypeOK
<1> QED BY <1>1, <1>2, <1>3, <1>4 DEF FulfilmentTypeInv, FulfilmentTypeOK

LEMMA FulfilmentTypePreserved ==
    ASSUME FulfilmentTypeInv, [FulfilmentNext]_fulfilmentVars
    PROVE  FulfilmentTypeInv'
<1> DEFINE Goal == FulfilmentTypeInv'
<1>1. CASE UNCHANGED fulfilmentVars
  <2>1. TypeOK'
    BY <1>1, TypePreserved DEF FulfilmentTypeInv, FulfilmentTypeOK, fulfilmentVars, vars
  <2> QED BY <1>1, <2>1 DEF FulfilmentTypeInv, FulfilmentTypeOK, RoutesOK, RouteOK, fulfilmentVars
<1>2. CASE Restart
  <2>1. restarts' \in 0..MaxRestarts
    BY <1>2, FulfilmentAssumption DEF Restart, FulfilmentTypeInv, FulfilmentTypeOK
  <2>2. TypeOK'
    BY <1>2 DEF Restart, FulfilmentTypeInv, FulfilmentTypeOK, TypeOK
  <2>3. RoutesOK' /\ route' \in [Slots -> Route \cup {Idle}]
    BY <1>2 DEF Restart, RoutesOK
  <2> QED BY <1>2, <2>1, <2>2, <2>3 DEF Restart, FulfilmentTypeInv, FulfilmentTypeOK
<1>3. ASSUME ~Restart, NEW s \in Slots, NEW o \in Orders, OrderRoute(s, o) PROVE Goal
  <2>1. route' = [route EXCEPT ![s] = route[s]] /\ jobs' = jobs /\ restarts' = restarts
    BY <1>3 DEF OrderRoute, OrderOnly, FulfilmentTypeInv, FulfilmentTypeOK
  <2> PICK r : r = route[s]
    OBVIOUS
  <2>2. r \in Route \cup {Idle} /\ (r # Idle => RouteOK(r)) /\ jobs \in [Orders -> Job]
    BY DEF FulfilmentTypeInv, FulfilmentTypeOK, RoutesOK
  <2> QED BY <1>3, <2>1, <2>2, RouteStepType
<1>4. ASSUME ~Restart, NEW s \in Slots, NEW o \in Orders, DispatchRequest(s, o) PROVE Goal
  <2> DEFINE d == [op |-> "dispatch", phase |-> "assign", order |-> o, courier |-> Null,
                   left |-> {}, missing |-> Null]
  <2>1. d \in Route /\ RouteOK(d)
    BY DEF Route, RouteOK, CourierOps
  <2> HIDE DEF d
  <2>2. jobs' \in [Orders -> Job] /\ restarts' = restarts
    BY <1>4 DEF DispatchRequest, FulfilmentTypeInv, FulfilmentTypeOK
  <2>3. route' = [route EXCEPT ![s] = d] \/ route' = [route EXCEPT ![s] = Idle]
    BY <1>4 DEF DispatchRequest, d
  <2> QED BY <1>4, <2>1, <2>2, <2>3, RouteStepType
<1>5. ASSUME ~Restart, NEW s \in Slots, StartCourierRoute(s) PROVE Goal
  <2>1. PICK op \in {"list"} \cup CourierOps, o \in Orders \cup {Null}, c \in Couriers \cup {Null} :
            StartRoute(s, op, o, c) /\ (op # "list" => o \in Orders /\ c \in Couriers)
    BY <1>5 DEF StartCourierRoute, CourierOps
  <2> PICK p : p = PendingOrders
    OBVIOUS
  <2> DEFINE r == [op |-> op, phase |-> "sync", order |-> o, courier |-> c,
                   left |-> p, missing |-> Null]
  <2>2. r \in Route /\ RouteOK(r)
    BY <2>1 DEF Route, RouteOK, CourierOps, PendingOrders
  <2>3. route' = [route EXCEPT ![s] = r]
    BY <2>1 DEF StartRoute
  <2>4. jobs' \in [Orders -> Job] /\ restarts' = restarts
    BY <2>1 DEF StartRoute, RouteOnly, FulfilmentTypeInv, FulfilmentTypeOK
  <2> HIDE DEF r
  <2> QED BY <1>5, <2>2, <2>3, <2>4, RouteStepType
<1>6. ASSUME ~Restart, NEW s \in Slots, ContinueRoute(s) PROVE Goal
  <2> PICK r : r = route[s]
    OBVIOUS
  <2>0. /\ \A phase : InRoute(s, phase) => r \in Route /\ RouteOK(r) /\ r # Idle /\ r.phase = phase
        /\ jobs \in [Orders -> Job]
        /\ route \in [Slots -> Route \cup {Idle}]
    BY RouteInOrder DEF InRoute, FulfilmentTypeInv, FulfilmentTypeOK
  <2>1. ASSUME NEW o \in Orders, SyncFindJob(s, o) PROVE Goal
    <3> PICK m \in Orders \cup {Null} : m = IF jobs[o].status = "ABSENT" THEN o ELSE Null
      OBVIOUS
    <3> DEFINE d == [r EXCEPT !.left = @ \ {o}, !.missing = m]
    <3>3. r \in Route /\ RouteOK(r) /\ o \in r.left
      BY <2>0, <2>1 DEF SyncFindJob
    <3>4. d \in Route
      BY <3>3 DEF Route
    <3>5. /\ d.op = r.op /\ d.phase = r.phase
          /\ d.order = r.order /\ d.courier = r.courier
      BY <3>3 DEF Route
    <3>1. d \in Route /\ RouteOK(d)
      BY <3>3, <3>4, <3>5 DEF RouteOK
    <3>2. route' = [route EXCEPT ![s] = d] /\ jobs' = jobs /\ restarts' = restarts
      BY <2>0, <2>1 DEF SyncFindJob, RouteOnly
    <3> HIDE DEF d
    <3> QED BY <1>6, <2>0, <3>1, <3>2, RouteStepType
  <2>2. CASE SyncSaveJob(s)
    <3> DEFINE d == [r EXCEPT !.missing = Null]
    <3>1. d \in Route /\ RouteOK(d)
      BY <2>0, <2>2 DEF SyncSaveJob, Route, RouteOK
    <3>2. route' = [route EXCEPT ![s] = d] /\ restarts' = restarts
      BY <2>0, <2>2 DEF SyncSaveJob, RouteOnly
    <3>3. jobs' \in [Orders -> Job]
      BY <2>0, <2>2 DEF SyncSaveJob, Job, JobStatus
    <3> HIDE DEF d
    <3> QED BY <1>6, <3>1, <3>2, <3>3, RouteStepType
  <2>3. CASE ListJobs(s)
    <3>1. route' = [route EXCEPT ![s] = Idle] /\ jobs' = jobs /\ restarts' = restarts
      BY <2>3 DEF ListJobs, Answer, RouteOnly
    <3> QED BY <1>6, <2>0, <3>1, RouteStepType
  <2>4. ASSUME NEW op \in CourierOps, NEW holder, NEW from, NEW to, DecideJob(s, op, holder, from, to)
        PROVE  Goal
    <3>1. jobs' = jobs /\ restarts' = restarts
      BY <2>4 DEF DecideJob, RouteOnly
    <3>2. r \in Route /\ RouteOK(r) /\ r.op = op
      BY <2>0, <2>4 DEF DecideJob, Synced
    <3>3. ASSUME NEW phase \in {"order", "save"}, route' = [route EXCEPT ![s].phase = phase]
          PROVE  Goal
      <4> DEFINE d == [r EXCEPT !.phase = phase]
      <4>1. d \in Route /\ RouteOK(d)
        BY <3>2 DEF Route, RouteOK, CourierOps
      <4>2. route' = [route EXCEPT ![s] = d]
        BY <2>0, <3>3
      <4> HIDE DEF d
      <4> QED BY <1>6, <2>0, <3>1, <4>1, <4>2, RouteStepType
    <3>4. CASE route' = [route EXCEPT ![s] = Idle]
      BY <1>6, <2>0, <3>1, <3>4, RouteStepType
    <3>5. \/ \E phase \in {"order", "save"} : route' = [route EXCEPT ![s].phase = phase]
          \/ route' = [route EXCEPT ![s] = Idle]
      BY <2>4 DEF DecideJob, Answer
    <3> QED BY <3>3, <3>4, <3>5
  <2>5. CASE SaveJob(s)
    <3> DEFINE d == [r EXCEPT !.phase = "order"]
    <3>1. d \in Route /\ RouteOK(d)
      BY <2>0, <2>5 DEF SaveJob, Route, RouteOK, CourierOps
    <3>2. route' = [route EXCEPT ![s] = d] /\ restarts' = restarts
      BY <2>0, <2>5 DEF SaveJob, RouteOnly
    <3>3. jobs' \in [Orders -> Job]
      <4>1. r.op \in CourierOps /\ r.courier \in Couriers
        BY <2>0, <2>5 DEF SaveJob, RouteOK
      <4>2. SavedStatus[r.op] \in JobStatus
        BY <4>1 DEF SavedStatus, JobStatus, CourierOps
      <4> QED BY <2>0, <2>5, <4>1, <4>2 DEF SaveJob, Job
    <3> HIDE DEF d
    <3> QED BY <1>6, <3>1, <3>2, <3>3, RouteStepType
  <2>6. CASE CallOrderService(s)
    <3>1. route' = [route EXCEPT ![s] = Idle] /\ jobs' = jobs /\ restarts' = restarts
      BY <2>6 DEF CallOrderService, Answer
    <3> QED BY <1>6, <2>0, <3>1, RouteStepType
  <2>7. CASE Assigned(s)
    <3>1. jobs' = jobs /\ restarts' = restarts
      BY <2>7 DEF Assigned, RouteOnly
    <3>2. ASSUME NEW c \in Couriers, route' = [route EXCEPT ![s].phase = "order", ![s].courier = c]
          PROVE  Goal
      <4> DEFINE d == [r EXCEPT !.phase = "order", !.courier = c]
      <4>1. d \in Route /\ RouteOK(d)
        BY <2>0, <2>7 DEF Assigned, Route, RouteOK, CourierOps
      <4>2. route' = [route EXCEPT ![s] = d]
        BY <2>0, <3>2
      <4> HIDE DEF d
      <4> QED BY <1>6, <2>0, <3>1, <4>1, <4>2, RouteStepType
    <3>3. CASE route' = [route EXCEPT ![s] = Idle]
      BY <1>6, <2>0, <3>1, <3>3, RouteStepType
    <3> QED BY <2>7, <3>2, <3>3 DEF Assigned, Answer
  <2>8. CASE Continue(s) /\ OrderOnly
    <3>1. route' = [route EXCEPT ![s] = r] /\ jobs' = jobs /\ restarts' = restarts
      BY <2>0, <2>8 DEF OrderOnly
    <3>2. r \in Route \cup {Idle} /\ (r # Idle => RouteOK(r))
      BY DEF FulfilmentTypeInv, FulfilmentTypeOK, RoutesOK
    <3> QED BY <1>6, <2>0, <3>1, <3>2, RouteStepType
  <2> QED BY <1>6, <2>1, <2>2, <2>3, <2>4, <2>5, <2>6, <2>7, <2>8
          DEF ContinueRoute, AcceptJob, PickupJob, DropoffJob, CourierOps
<1> QED BY <1>1, <1>2, <1>3, <1>4, <1>5, <1>6 DEF FulfilmentNext

LEMMA FulfilmentTypeInit == FulfilmentInit => FulfilmentTypeInv
<1> SUFFICES ASSUME FulfilmentInit PROVE FulfilmentTypeInv
  OBVIOUS
<1>1. TypeOK
  BY DEF FulfilmentInit, Init, TypeOK, AbsentOrder, OrderRecord, Status
<1> QED BY <1>1, FulfilmentAssumption
        DEF FulfilmentInit, FulfilmentTypeInv, FulfilmentTypeOK, RoutesOK, AbsentJob, Job, JobStatus

LEMMA FulfilmentTypeAlways == FulfilmentSpec => []FulfilmentTypeInv
<1> QED BY FulfilmentTypeInit, FulfilmentTypePreserved, PTL DEF FulfilmentSpec

\* Orders, jobs, requests and routes keep their types, however many requests
\* run at once and however often the server restarts.
THEOREM FulfilmentTypeCorrect == FulfilmentSpec => []FulfilmentTypeOK
<1>1. FulfilmentTypeInv => FulfilmentTypeOK
  BY DEF FulfilmentTypeInv
<1> QED BY <1>1, FulfilmentTypeAlways, PTL

-----------------------------------------------------------------------------
(* One request at a time. *)

\* What OrderLifecycle allows from record r to record n.
LifecycleStep(r, n) ==
    \/ /\ n.courierId = r.courierId
       /\ \/ r.status = "ABSENT" /\ n.status = "CREATED"
          \/ r.status = "CREATED" /\ n.status = "MERCHANT_ACCEPTED"
          \/ r.status = "MERCHANT_ACCEPTED" /\ n.status = "DISPATCH_PENDING"
          \/ r.status = "COURIER_ASSIGNED" /\ n.status = "PICKED_UP"
          \/ r.status = "PICKED_UP" /\ n.status = "DELIVERED"
          \/ /\ r.status \in {"CREATED", "MERCHANT_ACCEPTED", "DISPATCH_PENDING",
                              "COURIER_ASSIGNED"}
             /\ n.status = "CANCELLED"
    \/ /\ r.status = "DISPATCH_PENDING" /\ n.status = "COURIER_ASSIGNED"
       /\ n.courierId \in Couriers

\* The part of JobLeadsOrder that is about one record and its job.
Leads(order, job) ==
    /\ order.status = "PICKED_UP" =>
           job.courierId = order.courierId /\ job.status \in {"PICKED_UP", "DROPPED_OFF"}
    /\ order.status = "DELIVERED" =>
           job.courierId = order.courierId /\ job.status = "DROPPED_OFF"

Unsaved == {"request", "requested", "save"}

\* A decided record still follows from the stored one.
DecisionFits(q) ==
    q.phase \in Unsaved =>
        /\ LifecycleStep(orders[q.event.orderId], q.next)
        /\ Consistent(q.next)
        /\ Leads(q.next, jobs[q.event.orderId])

Holder(r) == IF r.op = "accept" THEN Null ELSE r.courier

\* What a route read of the job is still so.
RouteFits(r) ==
    /\ r.phase = "sync" /\ r.missing # Null => jobs[r.missing].status = "ABSENT"
    /\ r.phase = "save" =>
           /\ jobs[r.order].courierId = Holder(r)
           /\ r.op = "accept" => jobs[r.order].status = "AVAILABLE"
           /\ r.op = "pickup" => jobs[r.order].status = "ACCEPTED"
           /\ r.op = "dropoff" => jobs[r.order].status = "PICKED_UP"
    /\ r.phase = "order" /\ r.op = "pickup" =>
           jobs[r.order] = [status |-> "PICKED_UP", courierId |-> r.courier]
    /\ r.phase = "order" /\ r.op = "dropoff" =>
           jobs[r.order] = [status |-> "DROPPED_OFF", courierId |-> r.courier]

UnclaimedJobs ==
    \A o \in Orders : jobs[o].status \in {"ABSENT", "AVAILABLE"} => jobs[o].courierId = Null

SerialInv ==
    /\ FulfilmentTypeInv
    /\ RecordConsistent
    /\ JobLeadsOrder
    /\ UnclaimedJobs
    /\ \A s \in Slots : /\ req[s] # Idle => DecisionFits(req[s])
                        /\ route[s] # Idle => RouteFits(route[s])
                        /\ req[s] # Idle /\ route[s] # Idle => route[s].phase = "assign"

\* Slot s has decided on a record that follows from the stored one.
Decided(s, o, next) ==
    /\ req[s] = Idle
    /\ next \in OrderRecord
    /\ \E phase \in Unsaved, type \in EventType, by \in Couriers \cup Canceller \cup {Null} :
           Decide(s, phase, o, next, type, by)
    /\ LifecycleStep(orders[o], next)
    /\ Consistent(next)

LEMMA DecisionMade ==
    ASSUME NEW s, NEW o, NEW phase \in Unsaved, NEW next \in OrderRecord, NEW type \in EventType,
           NEW by \in Couriers \cup Canceller \cup {Null},
           Decide(s, phase, o, next, type, by), LifecycleStep(orders[o], next), Consistent(next)
    PROVE  Decided(s, o, next)
BY DEF Decided, Decide

\* The statuses that an order has with a courier.
CourierStatus == {"COURIER_ASSIGNED", "PICKED_UP", "DELIVERED"}

\* The handlers that do not depend on a courier.
LEMMA OtherDecisions ==
    ASSUME SerialInv, NEW s \in Slots, NEW o \in Orders,
           \/ \E k \in Checkouts : CreateOrder(s, o, k)
           \/ MerchantAcceptOrder(s, o)
           \/ HandleMerchantDecisionTimeout(s, o)
           \/ RequestDispatch(s, o)
           \/ \E a \in Actors : RequestCancellation(s, o, a)
    PROVE  \E next : Decided(s, o, next) /\ next.status \notin CourierStatus
<1> orders[o] \in OrderRecord /\ Consistent(orders[o])
  BY DEF SerialInv, FulfilmentTypeInv, FulfilmentTypeOK, TypeOK, RecordConsistent
<1> USE OrchestrationAssumption DEF OrderRecord, Consistent, LifecycleStep, CourierStatus
<1> USE DEF Unsaved, EventType
<1>1. ASSUME NEW k \in Checkouts, CreateOrder(s, o, k)
      PROVE  \E next : Decided(s, o, next) /\ next.status \notin CourierStatus
  <2> DEFINE next == [AbsentOrder EXCEPT !.checkoutId = k, !.status = "CREATED"]
  <2>1. LifecycleStep(orders[o], next) /\ Consistent(next) /\ next.status = "CREATED"
    BY <1>1 DEF CreateOrder, AbsentOrder
  <2>2. next \in OrderRecord
    BY <1>1 DEF AbsentOrder, Status
  <2>3. Decided(s, o, next)
    BY DecisionMade, <1>1, <2>1, <2>2 DEF CreateOrder
  <2> QED BY <2>1, <2>3
<1>2. ASSUME MerchantAcceptOrder(s, o)
      PROVE  \E next : Decided(s, o, next) /\ next.status \notin CourierStatus
  <2> DEFINE next == [orders[o] EXCEPT !.status = "MERCHANT_ACCEPTED",
                                       !.courierId = Null, !.cancelledBy = Null]
  <2>1. LifecycleStep(orders[o], next) /\ Consistent(next) /\ next.status = "MERCHANT_ACCEPTED"
    BY <1>2 DEF MerchantAcceptOrder
  <2>2. next \in OrderRecord
    BY <1>2 DEF Status
  <2>3. Decided(s, o, next)
    BY DecisionMade, <1>2, <2>1, <2>2 DEF MerchantAcceptOrder
  <2> QED BY <2>1, <2>3
<1>3. ASSUME HandleMerchantDecisionTimeout(s, o)
      PROVE  \E next : Decided(s, o, next) /\ next.status \notin CourierStatus
  <2> DEFINE next == [orders[o] EXCEPT !.status = "CANCELLED", !.cancelledBy = "system"]
  <2>1. LifecycleStep(orders[o], next) /\ Consistent(next) /\ next.status = "CANCELLED"
    BY <1>3 DEF HandleMerchantDecisionTimeout, Canceller
  <2>2. next \in OrderRecord
    BY <1>3 DEF Status, Canceller
  <2>3. Decided(s, o, next)
    BY DecisionMade, <1>3, <2>1, <2>2 DEF HandleMerchantDecisionTimeout, Canceller
  <2> QED BY <2>1, <2>3
<1>4. ASSUME RequestDispatch(s, o)
      PROVE  \E next : Decided(s, o, next) /\ next.status \notin CourierStatus
  <2> DEFINE next == [orders[o] EXCEPT !.status = "DISPATCH_PENDING", !.courierId = Null]
  <2>1. LifecycleStep(orders[o], next) /\ Consistent(next) /\ next.status = "DISPATCH_PENDING"
    BY <1>4 DEF RequestDispatch
  <2>2. next \in OrderRecord
    BY <1>4 DEF Status
  <2>3. Decided(s, o, next)
    BY DecisionMade, <1>4, <2>1, <2>2 DEF RequestDispatch
  <2> QED BY <2>1, <2>3
<1>5. ASSUME NEW a \in Actors, RequestCancellation(s, o, a)
      PROVE  \E next : Decided(s, o, next) /\ next.status \notin CourierStatus
  <2> DEFINE next == [orders[o] EXCEPT !.status = "CANCELLED", !.cancelledBy = a]
  <2>1. LifecycleStep(orders[o], next) /\ Consistent(next) /\ next.status = "CANCELLED"
    BY <1>5 DEF RequestCancellation, CancellationPolicy, Canceller
  <2>2. next \in OrderRecord
    BY <1>5 DEF Status, Canceller
  <2>3. Decided(s, o, next)
    BY DecisionMade, <1>5, <2>1, <2>2 DEF RequestCancellation, Canceller
  <2> QED BY <2>1, <2>3
<1> QED BY <1>1, <1>2, <1>3, <1>4, <1>5

\* The courier's steps move the record of the courier's own order.
LEMMA CourierDecisions ==
    ASSUME SerialInv, NEW s \in Slots, NEW o \in Orders, NEW c \in Couriers
    PROVE  /\ AssignCourier(s, o, c) =>
                  \E next : /\ Decided(s, o, next)
                            /\ next.status = "COURIER_ASSIGNED" /\ next.courierId = c
           /\ MarkPickedUp(s, o, c) =>
                  \E next : /\ Decided(s, o, next)
                            /\ next.status = "PICKED_UP" /\ next.courierId = c
           /\ MarkDelivered(s, o, c) =>
                  \E next : /\ Decided(s, o, next)
                            /\ next.status = "DELIVERED" /\ next.courierId = c
<1> orders[o] \in OrderRecord /\ Consistent(orders[o])
  BY DEF SerialInv, FulfilmentTypeInv, FulfilmentTypeOK, TypeOK, RecordConsistent
<1> USE OrchestrationAssumption DEF OrderRecord, Consistent, LifecycleStep
<1>1. ASSUME MarkPickedUp(s, o, c)
      PROVE  \E next : Decided(s, o, next) /\ next.status = "PICKED_UP" /\ next.courierId = c
  <2> DEFINE next == [orders[o] EXCEPT !.status = "PICKED_UP"]
  <2>1. /\ LifecycleStep(orders[o], next) /\ Consistent(next)
        /\ next.status = "PICKED_UP" /\ next.courierId = c
    BY <1>1 DEF MarkPickedUp, Canceller
  <2>2. next \in OrderRecord
    BY DEF Status
  <2>3. Decided(s, o, next)
    BY DecisionMade, <1>1, <2>1, <2>2 DEF MarkPickedUp, Unsaved, EventType
  <2> QED BY <2>1, <2>3
<1>2. ASSUME MarkDelivered(s, o, c)
      PROVE  \E next : Decided(s, o, next) /\ next.status = "DELIVERED" /\ next.courierId = c
  <2> DEFINE next == [orders[o] EXCEPT !.status = "DELIVERED"]
  <2>1. /\ LifecycleStep(orders[o], next) /\ Consistent(next)
        /\ next.status = "DELIVERED" /\ next.courierId = c
    BY <1>2 DEF MarkDelivered, Canceller
  <2>2. next \in OrderRecord
    BY DEF Status
  <2>3. Decided(s, o, next)
    BY DecisionMade, <1>2, <2>1, <2>2 DEF MarkDelivered, Unsaved, EventType
  <2> QED BY <2>1, <2>3
<1>3. ASSUME AssignCourier(s, o, c)
      PROVE  \E next : Decided(s, o, next) /\ next.status = "COURIER_ASSIGNED" /\ next.courierId = c
  <2> DEFINE next == [orders[o] EXCEPT !.courierId = c, !.status = "COURIER_ASSIGNED"]
  <2>1. /\ LifecycleStep(orders[o], next) /\ Consistent(next)
        /\ next.status = "COURIER_ASSIGNED" /\ next.courierId = c
    <3>1. Null \notin {"consumer", "system"}
      BY DEF CancellationPolicy, Canceller
    <3> QED BY <1>3, <3>1 DEF AssignCourier
  <2>2. next \in OrderRecord
    BY DEF Status
  <2>3. Decided(s, o, next)
    BY DecisionMade, <1>3, <2>1, <2>2 DEF AssignCourier, Unsaved, EventType
  <2> QED BY <2>1, <2>3
<1> QED BY <1>1, <1>2, <1>3

\* A decision that the job leads, in a slot whose route is done or waits.
LEMMA DecidedPreserves ==
    ASSUME SerialInv, FulfilmentTypeInv', NEW s \in Slots, Slots = {s},
           NEW o \in Orders, NEW next, Decided(s, o, next), Leads(next, jobs[o]),
           UNCHANGED jobs,
           route'[s] # Idle => route'[s].phase = "assign"
    PROVE  SerialInv'
<1> PICK phase \in Unsaved : \E type, by : Decide(s, phase, o, next, type, by)
  BY DEF Decided
<1> PICK type, by : Decide(s, phase, o, next, type, by)
  OBVIOUS
<1> DEFINE q == [phase |-> phase, next |-> next,
                 event |-> [type |-> type, orderId |-> o, by |-> by]]
<1>1. req'[s] = q /\ orders' = orders
  BY DEF Decide, SerialInv, FulfilmentTypeInv, FulfilmentTypeOK, TypeOK
<1>2. DecisionFits(q)'
  BY <1>1 DEF DecisionFits, Decided
<1>3. DecisionFits(req[s])'
  <2> HIDE DEF q
  <2> QED BY <1>1, <1>2 DEF DecisionFits
<1>4. route'[s] # Idle => RouteFits(route[s])'
  BY DEF RouteFits
<1> QED BY <1>1, <1>3, <1>4
        DEF SerialInv, RecordConsistent, JobLeadsOrder, UnclaimedJobs

\* A step of the courier's route while no order request runs in the slot.
LEMMA RouteStepPreserves ==
    ASSUME SerialInv, FulfilmentTypeInv', NEW s \in Slots, Slots = {s},
           req[s] = Idle, UNCHANGED vars, JobLeadsOrder', UnclaimedJobs',
           NEW r \in Route \cup {Idle}, route'[s] = r, r # Idle => RouteFits(r)'
    PROVE  SerialInv'
<1>1. RecordConsistent'
  BY DEF SerialInv, RecordConsistent, vars
<1>2. req'[s] = Idle
  BY DEF vars
<1>3. route'[s] # Idle => RouteFits(route[s])'
  BY DEF RouteFits
<1> QED BY <1>1, <1>2, <1>3 DEF SerialInv

\* The order service's part of a request, in a slot whose route is done or waits.
LEMMA ContinueSerial ==
    ASSUME SerialInv, FulfilmentTypeInv', NEW s \in Slots, Slots = {s},
           Continue(s), OrderOnly
    PROVE  SerialInv'
<1> PICK q : q = req[s]
  OBVIOUS
<1> PICK o : o = q.event.orderId
  OBVIOUS
<1>0. q \in Request /\ q # Idle /\ DecisionFits(q) /\ o \in Orders
  BY DEF Continue, PublishCancelRequested, ProjectCancelRequested, Save, Publish, ProjectEvent,
         InPhase, SerialInv, FulfilmentTypeInv, FulfilmentTypeOK, TypeOK, Request, Event
<1>1. route' = route /\ jobs' = jobs /\ UnclaimedJobs'
  BY DEF OrderOnly, SerialInv, UnclaimedJobs
<1>2. route'[s] # Idle => RouteFits(route[s])' /\ route'[s].phase = "assign"
  BY <1>0, <1>1 DEF SerialInv, RouteFits
<1>3. CASE Save(s)
  <2>1. q.phase = "save" /\ orders' = [orders EXCEPT ![o] = q.next]
    BY <1>3 DEF Save, InPhase
  <2>2. Consistent(q.next) /\ Leads(q.next, jobs[o])
    BY <1>0, <2>1 DEF DecisionFits, Unsaved
  <2>3. req'[s].phase = "publish"
    BY <1>0, <1>3 DEF Save, EnterPhase, Request, SerialInv, FulfilmentTypeInv, FulfilmentTypeOK, TypeOK
  <2>4. DecisionFits(req[s])'
    BY <2>3 DEF DecisionFits, Unsaved
  <2>5. RecordConsistent'
    BY <1>0, <2>1, <2>2
       DEF SerialInv, FulfilmentTypeInv, FulfilmentTypeOK, TypeOK, RecordConsistent
  <2>6. JobLeadsOrder'
    BY <1>0, <1>1, <2>1, <2>2
       DEF SerialInv, FulfilmentTypeInv, FulfilmentTypeOK, TypeOK, JobLeadsOrder, Leads
  <2> QED BY <1>1, <1>2, <2>4, <2>5, <2>6 DEF SerialInv
<1>4. CASE ~Save(s)
  <2>1. orders' = orders
    BY <1>4 DEF Continue, PublishCancelRequested, ProjectCancelRequested, Publish, ProjectEvent
  <2>2. RecordConsistent' /\ JobLeadsOrder'
    BY <1>1, <2>1 DEF SerialInv, RecordConsistent, JobLeadsOrder
  <2>3. \/ req'[s] = Idle
        \/ req'[s].phase \notin Unsaved
        \/ /\ q.phase \in Unsaved
           /\ req'[s].next = q.next /\ req'[s].event = q.event
    BY <1>0, <1>4 DEF Continue, PublishCancelRequested, ProjectCancelRequested, Publish,
                      ProjectEvent, InPhase, EnterPhase, Request, Unsaved, SerialInv,
                      FulfilmentTypeInv, FulfilmentTypeOK, TypeOK
  <2>4. req'[s] # Idle => DecisionFits(req[s])'
    BY <1>0, <1>1, <2>1, <2>3 DEF DecisionFits
  <2> QED BY <1>1, <1>2, <2>2, <2>4 DEF SerialInv
<1> QED BY <1>3, <1>4

LEMMA ContinueRouteSerial ==
    ASSUME SerialInv, FulfilmentTypeInv', NEW s \in Slots, Slots = {s}, ContinueRoute(s)
    PROVE  SerialInv'
<1> PICK r : r = route[s]
  OBVIOUS
<1> USE FulfilmentAssumption, OrchestrationAssumption
<1>0. /\ \A phase : InRoute(s, phase) =>
             r \in Route /\ RouteOK(r) /\ r # Idle /\ r.phase = phase /\ RouteFits(r)
      /\ jobs \in [Orders -> Job]
      /\ route \in [Slots -> Route \cup {Idle}]
      /\ r.phase # "assign" /\ r # Idle => req[s] = Idle
  BY RouteInOrder DEF InRoute, SerialInv, FulfilmentTypeInv, FulfilmentTypeOK
<1>1. ASSUME UNCHANGED jobs PROVE UnclaimedJobs' /\ (UNCHANGED vars => JobLeadsOrder')
  BY <1>1 DEF SerialInv, UnclaimedJobs, JobLeadsOrder, vars
<1>2. ASSUME NEW o \in Orders, SyncFindJob(s, o) PROVE SerialInv'
  <2> PICK m : m = IF jobs[o].status = "ABSENT" THEN o ELSE Null
    OBVIOUS
  <2> DEFINE d == [r EXCEPT !.left = @ \ {o}, !.missing = m]
  <2>1. route'[s] = d /\ jobs' = jobs /\ UNCHANGED vars
    BY <1>0, <1>2 DEF SyncFindJob, RouteOnly
  <2>0. r \in Route /\ r.phase = "sync" /\ o \in r.left
    BY <1>0, <1>2 DEF SyncFindJob
  <2>2. d.phase = "sync" /\ d.missing = m /\ d \in Route
    BY <2>0 DEF Route
  <2> HIDE DEF d
  <2>3. RouteFits(d)'
    BY <2>1, <2>2 DEF RouteFits
  <2>4. req[s] = Idle
    BY <1>0, <1>2 DEF SyncFindJob
  <2> QED BY <1>1, <2>1, <2>2, <2>3, <2>4, RouteStepPreserves
<1>3. CASE SyncSaveJob(s)
  <2> DEFINE d == [r EXCEPT !.missing = Null]
  <2>1. route'[s] = d /\ UNCHANGED vars /\ req[s] = Idle
    BY <1>0, <1>3 DEF SyncSaveJob, RouteOnly
  <2>2. d.phase = "sync" /\ d.missing = Null /\ d \in Route
    BY <1>0, <1>3 DEF SyncSaveJob, Route
  <2>3. /\ jobs[r.missing].status = "ABSENT"
        /\ jobs' = [jobs EXCEPT ![r.missing] = [status |-> "AVAILABLE", courierId |-> Null]]
    BY <1>0, <1>3 DEF SyncSaveJob, RouteFits
  <2> HIDE DEF d
  <2>4. RouteFits(d)'
    BY <2>2 DEF RouteFits
  <2>5. UnclaimedJobs' /\ JobLeadsOrder'
    BY <1>0, <2>1, <2>3 DEF SerialInv, UnclaimedJobs, JobLeadsOrder, vars
  <2> QED BY <2>1, <2>2, <2>4, <2>5, RouteStepPreserves
<1>4. CASE ListJobs(s)
  <2>1. route'[s] = Idle /\ jobs' = jobs /\ UNCHANGED vars /\ req[s] = Idle
    BY <1>0, <1>4 DEF ListJobs, Synced, Answer, RouteOnly
  <2> QED BY <1>1, <2>1, RouteStepPreserves
<1>5. ASSUME NEW op \in CourierOps, NEW holder, NEW from, NEW to, DecideJob(s, op, holder, from, to),
             \/ op = "accept" /\ holder = Null /\ from = "AVAILABLE" /\ to = "ACCEPTED"
             \/ op = "pickup" /\ holder = r.courier /\ from = "ACCEPTED" /\ to = "PICKED_UP"
             \/ op = "dropoff" /\ holder = r.courier /\ from = "PICKED_UP" /\ to = "DROPPED_OFF"
      PROVE  SerialInv'
  <2>1. /\ r \in Route /\ RouteOK(r) /\ r.op = op /\ r.phase = "sync" /\ r.order \in Orders
        /\ req[s] = Idle /\ jobs' = jobs /\ UNCHANGED vars
    BY <1>0, <1>5 DEF DecideJob, Synced, RouteOK, RouteOnly, CourierOps
  <2> PICK job : job = jobs[r.order]
    OBVIOUS
  <2>2. job \in Job
    BY <1>0, <2>1
  <2>3. CASE job.status = to /\ job.courierId = r.courier
    <3> DEFINE d == [r EXCEPT !.phase = "order"]
    <3>1. route'[s] = d
      BY <1>0, <1>5, <2>3 DEF DecideJob
    <3>2. d \in Route /\ d.phase = "order" /\ d.op = op /\ d.order = r.order /\ d.courier = r.courier
      BY <2>1 DEF Route
    <3> HIDE DEF d
    <3>3. RouteFits(d)'
      BY <1>5, <2>1, <2>2, <2>3, <3>2 DEF RouteFits, Job
    <3> QED BY <1>1, <2>1, <3>1, <3>2, <3>3, RouteStepPreserves
  <2>4. CASE /\ ~(job.status = to /\ job.courierId = r.courier)
             /\ job.status = from /\ job.courierId = holder
    <3> DEFINE d == [r EXCEPT !.phase = "save"]
    <3>1. route'[s] = d
      BY <1>0, <1>5, <2>4 DEF DecideJob
    <3>2. d \in Route /\ d.phase = "save" /\ d.op = op /\ d.order = r.order /\ d.courier = r.courier
      BY <2>1 DEF Route
    <3> HIDE DEF d
    <3>3. RouteFits(d)'
      BY <1>5, <2>1, <2>4, <3>2 DEF RouteFits, Holder
    <3> QED BY <1>1, <2>1, <3>1, <3>2, <3>3, RouteStepPreserves
  <2>5. CASE ~(job.status = to /\ job.courierId = r.courier)
             /\ ~(job.status = from /\ job.courierId = holder)
    <3>1. route'[s] = Idle
      BY <1>0, <1>5, <2>5 DEF DecideJob, Answer
    <3> QED BY <1>1, <2>1, <3>1, RouteStepPreserves
  <2> QED BY <2>3, <2>4, <2>5
<1>6. CASE SaveJob(s)
  <2> DEFINE d == [r EXCEPT !.phase = "order"]
             job == [status |-> SavedStatus[r.op], courierId |-> r.courier]
  <2>1. /\ r \in Route /\ RouteOK(r) /\ RouteFits(r) /\ r.phase = "save"
        /\ r.op \in CourierOps /\ r.order \in Orders /\ r.courier \in Couriers
        /\ req[s] = Idle /\ UNCHANGED vars
    BY <1>0, <1>6 DEF SaveJob, RouteOK, RouteOnly, CourierOps
  <2>2. route'[s] = d /\ jobs' = [jobs EXCEPT ![r.order] = job]
    BY <1>0, <1>6 DEF SaveJob
  <2>3. d \in Route /\ d.phase = "order" /\ d.op = r.op /\ d.order = r.order /\ d.courier = r.courier
    BY <2>1 DEF Route
  <2>4. jobs'[r.order] = job /\ job.courierId = r.courier /\ job.status = SavedStatus[r.op]
    BY <1>0, <2>1, <2>2
  <2>5. /\ r.op = "accept" => job.status = "ACCEPTED" /\ jobs[r.order].status = "AVAILABLE"
        /\ r.op = "pickup" => /\ job.status = "PICKED_UP"
                              /\ jobs[r.order].status = "ACCEPTED"
        /\ r.op = "dropoff" => /\ job.status = "DROPPED_OFF"
                               /\ jobs[r.order].status = "PICKED_UP"
                               /\ jobs[r.order].courierId = r.courier
    BY <2>1, <2>4 DEF SavedStatus, RouteFits, Holder
  <2>6. RouteFits(d)'
    <3>1. /\ r.op = "pickup" => job = [status |-> "PICKED_UP", courierId |-> r.courier]
          /\ r.op = "dropoff" => job = [status |-> "DROPPED_OFF", courierId |-> r.courier]
      BY DEF SavedStatus
    <3> HIDE DEF d, job
    <3> QED BY <2>3, <2>4, <3>1 DEF RouteFits
  <2>7. UnclaimedJobs' /\ JobLeadsOrder'
    <3> HIDE DEF job
    <3>1. UnclaimedJobs'
      BY <1>0, <2>1, <2>2, <2>4, <2>5 DEF SerialInv, UnclaimedJobs, CourierOps
    <3>2. ASSUME NEW o \in Orders PROVE Leads(orders[o], jobs'[o])
      <4>1. Leads(orders[o], jobs[o])
        BY DEF SerialInv, JobLeadsOrder, Leads
      <4>2. CASE o = r.order
        BY <2>1, <2>4, <2>5, <4>1, <4>2 DEF Leads, CourierOps
      <4>3. CASE o # r.order
        BY <1>0, <2>1, <2>2, <4>1, <4>3 DEF Leads
      <4> QED BY <4>2, <4>3
    <3> QED BY <2>1, <3>1, <3>2 DEF JobLeadsOrder, Leads, vars
  <2> HIDE DEF d, job
  <2> QED BY <2>1, <2>2, <2>3, <2>6, <2>7, RouteStepPreserves
<1>7. CASE CallOrderService(s)
  <2>1. /\ r \in Route /\ RouteOK(r) /\ RouteFits(r) /\ r.phase = "order"
        /\ r.order \in Orders /\ r.courier \in Couriers
        /\ req[s] = Idle /\ jobs' = jobs /\ route'[s] = Idle
    BY <1>0, <1>7 DEF CallOrderService, RouteOK, Answer
  <2>2. CASE UNCHANGED vars
    BY <1>1, <2>1, <2>2, RouteStepPreserves
  <2>3. CASE r.op \in {"accept", "dispatch"} /\ AssignCourier(s, r.order, r.courier)
    <3>1. PICK next : /\ Decided(s, r.order, next)
                      /\ next.status = "COURIER_ASSIGNED" /\ next.courierId = r.courier
      BY <2>1, <2>3, CourierDecisions
    <3>2. Leads(next, jobs[r.order])
      BY <3>1 DEF Leads
    <3> QED BY <2>1, <3>1, <3>2, DecidedPreserves
  <2>4. CASE r.op = "pickup" /\ MarkPickedUp(s, r.order, r.courier)
    <3>1. PICK next : /\ Decided(s, r.order, next)
                      /\ next.status = "PICKED_UP" /\ next.courierId = r.courier
      BY <2>1, <2>4, CourierDecisions
    <3>2. Leads(next, jobs[r.order])
      BY <2>1, <2>4, <3>1 DEF Leads, RouteFits
    <3> QED BY <2>1, <3>1, <3>2, DecidedPreserves
  <2>5. CASE r.op = "dropoff" /\ MarkDelivered(s, r.order, r.courier)
    <3>1. PICK next : /\ Decided(s, r.order, next)
                      /\ next.status = "DELIVERED" /\ next.courierId = r.courier
      BY <2>1, <2>5, CourierDecisions
    <3>2. Leads(next, jobs[r.order])
      BY <2>1, <2>5, <3>1 DEF Leads, RouteFits
    <3> QED BY <2>1, <3>1, <3>2, DecidedPreserves
  <2> QED BY <1>7, <2>2, <2>3, <2>4, <2>5 DEF CallOrderService, OrderCall
<1>8. CASE Assigned(s)
  <2>1. /\ r \in Route /\ RouteOK(r) /\ r.phase = "assign" /\ r.op = "dispatch"
        /\ req[s] = Idle /\ jobs' = jobs /\ UNCHANGED vars
    BY <1>0, <1>8 DEF Assigned, RouteOK, RouteOnly
  <2>2. ASSUME NEW c \in Couriers, route' = [route EXCEPT ![s].phase = "order", ![s].courier = c]
        PROVE  SerialInv'
    <3> DEFINE d == [r EXCEPT !.phase = "order", !.courier = c]
    <3>1. route'[s] = d
      BY <1>0, <2>2
    <3>2. d \in Route /\ d.phase = "order" /\ d.op = "dispatch"
      BY <2>1 DEF Route
    <3> HIDE DEF d
    <3>3. RouteFits(d)'
      BY <3>2 DEF RouteFits
    <3> QED BY <1>1, <2>1, <3>1, <3>2, <3>3, RouteStepPreserves
  <2>3. CASE route' = [route EXCEPT ![s] = Idle]
    <3>1. route'[s] = Idle
      BY <1>0, <2>3
    <3> QED BY <1>1, <2>1, <3>1, RouteStepPreserves
  <2> QED BY <1>8, <2>2, <2>3 DEF Assigned, Answer
<1>9. CASE Continue(s) /\ OrderOnly
  BY <1>9, ContinueSerial
<1> QED BY <1>2, <1>3, <1>4, <1>5, <1>6, <1>7, <1>8, <1>9
        DEF ContinueRoute, AcceptJob, PickupJob, DropoffJob, CourierOps

LEMMA SerialPreserved ==
    ASSUME SerialInv, [FulfilmentNext]_fulfilmentVars, NEW s \in Slots, Slots = {s}
    PROVE  SerialInv'
<1>1. FulfilmentTypeInv'
  BY FulfilmentTypePreserved DEF SerialInv
<1>2. CASE UNCHANGED fulfilmentVars
  <2>1. UNCHANGED <<orders, req, jobs, route>>
    BY <1>2 DEF fulfilmentVars
  <2>2. RecordConsistent' /\ JobLeadsOrder' /\ UnclaimedJobs'
    BY <2>1 DEF SerialInv, RecordConsistent, JobLeadsOrder, UnclaimedJobs
  <2>3. /\ req'[s] # Idle => DecisionFits(req[s])'
        /\ route'[s] # Idle => RouteFits(route[s])'
        /\ req'[s] # Idle /\ route'[s] # Idle => route'[s].phase = "assign"
    BY <2>1 DEF SerialInv, DecisionFits, RouteFits, Holder
  <2> QED BY <1>1, <2>2, <2>3 DEF SerialInv
<1>3. CASE Restart
  <2>1. UNCHANGED <<orders, jobs>> /\ req'[s] = Idle /\ route'[s] = Idle
    BY <1>3 DEF Restart
  <2>2. RecordConsistent' /\ JobLeadsOrder' /\ UnclaimedJobs'
    BY <2>1 DEF SerialInv, RecordConsistent, JobLeadsOrder, UnclaimedJobs
  <2> QED BY <1>1, <2>1, <2>2 DEF SerialInv
<1>4. ASSUME NEW o \in Orders, OrderRoute(s, o) PROVE SerialInv'
  <2>1. PICK next : Decided(s, o, next) /\ next.status \notin CourierStatus
    BY <1>4, OtherDecisions DEF OrderRoute
  <2>2. route'[s] = Idle /\ jobs' = jobs
    BY <1>4 DEF OrderRoute, OrderOnly, Free
  <2>3. Leads(next, jobs[o])
    BY <2>1 DEF Leads, CourierStatus
  <2> QED BY <1>1, <2>1, <2>2, <2>3, DecidedPreserves
<1>5. ASSUME NEW o \in Orders, DispatchRequest(s, o) PROVE SerialInv'
  <2>1. jobs' = jobs /\ req[s] = Idle
    BY <1>5 DEF DispatchRequest, Free
  <2>2. route'[s] # Idle => route'[s].phase = "assign"
    BY <1>5 DEF DispatchRequest, SerialInv, FulfilmentTypeInv, FulfilmentTypeOK
  <2>3. CASE RequestDispatch(s, o)
    <3>1. PICK next : Decided(s, o, next) /\ next.status \notin CourierStatus
      BY <2>3, OtherDecisions
    <3>2. Leads(next, jobs[o])
      BY <3>1 DEF Leads, CourierStatus
    <3> QED BY <1>1, <2>1, <2>2, <3>1, <3>2, DecidedPreserves
  <2>4. CASE UNCHANGED vars
    <3> PICK r : r = route'[s]
      OBVIOUS
    <3>1. r \in Route \cup {Idle}
      BY <1>1 DEF FulfilmentTypeInv, FulfilmentTypeOK
    <3>2. r # Idle => RouteFits(r)'
      BY <2>2 DEF RouteFits
    <3>3. JobLeadsOrder' /\ UnclaimedJobs'
      BY <2>1, <2>4 DEF SerialInv, JobLeadsOrder, UnclaimedJobs, vars
    <3> QED BY <1>1, <2>1, <2>4, <3>1, <3>2, <3>3, RouteStepPreserves
  <2> QED BY <1>5, <2>3, <2>4 DEF DispatchRequest
<1>6. ASSUME StartCourierRoute(s) PROVE SerialInv'
  <2>1. /\ jobs' = jobs /\ req[s] = Idle /\ UNCHANGED vars
        /\ route'[s].phase = "sync" /\ route'[s].missing = Null
    BY <1>6 DEF StartCourierRoute, StartRoute, Free, RouteOnly, SerialInv, FulfilmentTypeInv,
                FulfilmentTypeOK
  <2> PICK r : r = route'[s]
    OBVIOUS
  <2>2. r \in Route \cup {Idle}
    BY <1>1 DEF FulfilmentTypeInv, FulfilmentTypeOK
  <2>3. RouteFits(r)'
    BY <2>1 DEF RouteFits
  <2>4. JobLeadsOrder' /\ UnclaimedJobs'
    BY <2>1 DEF SerialInv, JobLeadsOrder, UnclaimedJobs, vars
  <2> QED BY <1>1, <2>1, <2>2, <2>3, <2>4, RouteStepPreserves
<1>7. ASSUME ContinueRoute(s) PROVE SerialInv'
  BY <1>1, <1>7, ContinueRouteSerial
<1> QED BY <1>2, <1>3, <1>4, <1>5, <1>6, <1>7 DEF FulfilmentNext

LEMMA SerialInit == FulfilmentInit => SerialInv
<1> SUFFICES ASSUME FulfilmentInit PROVE SerialInv
  OBVIOUS
<1>1. RecordConsistent
  BY OrchestrationAssumption
     DEF FulfilmentInit, Init, AbsentOrder, RecordConsistent, Consistent, CancellationPolicy, Canceller
<1>2. JobLeadsOrder /\ UnclaimedJobs
  BY DEF FulfilmentInit, Init, AbsentOrder, AbsentJob, JobLeadsOrder, UnclaimedJobs
<1> QED BY <1>1, <1>2, FulfilmentTypeInit DEF SerialInv, FulfilmentInit, Init

\* The orders of a serial server take a step of their lifecycle or none.
LEMMA SerialRefines ==
    ASSUME SerialInv, [FulfilmentNext]_fulfilmentVars, NEW s \in Slots, Slots = {s}
    PROVE  [Lifecycle!Next]_(Lifecycle!vars)
<1>1. CASE UNCHANGED orders
  BY <1>1 DEF Lifecycle!vars
<1>2. CASE Save(s)
  <2> PICK q : q = req[s]
    OBVIOUS
  <2> PICK o : o = q.event.orderId
    OBVIOUS
  <2>1. /\ o \in Orders /\ q.phase = "save" /\ q.next \in OrderRecord
        /\ LifecycleStep(orders[o], q.next)
        /\ orders' = [orders EXCEPT ![o] = q.next]
        /\ orders \in [Orders -> OrderRecord]
    BY <1>2 DEF Save, InPhase, SerialInv, FulfilmentTypeInv, FulfilmentTypeOK, TypeOK, Request,
                Event, DecisionFits, Unsaved
  <2>2. /\ [p \in Orders |-> orders'[p].status] =
               [[p \in Orders |-> orders[p].status] EXCEPT ![o] = q.next.status]
        /\ [p \in Orders |-> orders'[p].courierId] =
               [[p \in Orders |-> orders[p].courierId] EXCEPT ![o] = q.next.courierId]
    BY <2>1
  <2>3. q.next.courierId = orders[o].courierId =>
            [p \in Orders |-> orders'[p].courierId] = [p \in Orders |-> orders[p].courierId]
    BY <2>1
  <2>4. ASSUME NEW from, orders[o].status \in from PROVE Lifecycle!Move(o, from, q.next.status)
    BY <2>1, <2>2, <2>4 DEF Lifecycle!Move
  <2>5. CASE q.next.courierId = orders[o].courierId /\ q.next.status # "COURIER_ASSIGNED"
    <3>1. \/ Lifecycle!Create(o) \/ Lifecycle!Accept(o) \/ Lifecycle!Dispatch(o)
          \/ Lifecycle!PickUp(o) \/ Lifecycle!Deliver(o) \/ Lifecycle!Cancel(o)
      BY <2>1, <2>3, <2>4, <2>5
         DEF LifecycleStep, Lifecycle!Create, Lifecycle!Accept, Lifecycle!Dispatch,
             Lifecycle!PickUp, Lifecycle!Deliver, Lifecycle!Cancel
    <3> QED BY <2>1, <3>1 DEF Lifecycle!Next
  <2>6. CASE /\ orders[o].status = "DISPATCH_PENDING" /\ q.next.status = "COURIER_ASSIGNED"
             /\ q.next.courierId \in Couriers
    <3>1. Lifecycle!Assign(o, q.next.courierId)
      BY <2>2, <2>4, <2>6 DEF Lifecycle!Assign
    <3> QED BY <2>1, <2>6, <3>1 DEF Lifecycle!Next
  <2> QED BY <2>1, <2>5, <2>6 DEF LifecycleStep
<1>3. UNCHANGED orders \/ Save(s)
  <2>1. [Next]_vars \/ Restart
    BY OrdersStep DEF SerialInv
  <2>2. ASSUME Start(s) PROVE UNCHANGED orders
    BY <2>2 DEF Start, CreateOrder, MerchantAcceptOrder, HandleMerchantDecisionTimeout,
                RequestDispatch, AssignCourier, MarkPickedUp, MarkDelivered,
                RequestCancellation, Decide
  <2>3. ASSUME Continue(s) PROVE UNCHANGED orders \/ Save(s)
    BY <2>3 DEF Continue, PublishCancelRequested, ProjectCancelRequested, Publish, ProjectEvent
  <2> QED BY <2>1, <2>2, <2>3 DEF Next, vars, Restart
<1> QED BY <1>1, <1>2, <1>3

LEMMA SerialHolderKept ==
    ASSUME SerialInv, [FulfilmentNext]_fulfilmentVars, NEW s \in Slots, Slots = {s},
           NEW o \in Orders, jobs[o].courierId # Null
    PROVE  jobs'[o].courierId = jobs[o].courierId
<1> PICK r : r = route[s]
  OBVIOUS
<1>0. jobs \in [Orders -> Job]
  BY DEF SerialInv, FulfilmentTypeInv, FulfilmentTypeOK
<1>1. CASE SyncSaveJob(s)
  <2>1. jobs' = [jobs EXCEPT ![r.missing] = [status |-> "AVAILABLE", courierId |-> Null]]
    BY <1>1 DEF SyncSaveJob
  <2>2. jobs[r.missing].status = "ABSENT"
    BY <1>1 DEF SyncSaveJob, InRoute, SerialInv, RouteFits
  <2>3. o # r.missing
    BY <2>2 DEF SerialInv, UnclaimedJobs
  <2> QED BY <1>0, <2>1, <2>3
<1>2. CASE SaveJob(s)
  <2>1. jobs' = [jobs EXCEPT ![r.order] = [status |-> SavedStatus[r.op], courierId |-> r.courier]]
    BY <1>2 DEF SaveJob
  <2>2. jobs[r.order].courierId \in {Null, r.courier}
    BY <1>2 DEF SaveJob, InRoute, SerialInv, RouteFits, Holder
  <2>3. CASE o = r.order
    BY <1>0, <2>1, <2>2, <2>3
  <2>4. CASE o # r.order
    BY <1>0, <2>1, <2>4
  <2> QED BY <2>3, <2>4
<1>3. UNCHANGED jobs \/ SyncSaveJob(s) \/ SaveJob(s)
  BY DEF FulfilmentNext, OrderRoute, OrderOnly, DispatchRequest, StartCourierRoute, StartRoute,
         ContinueRoute, SyncFindJob, ListJobs, AcceptJob, PickupJob, DropoffJob, DecideJob,
         CallOrderService, Assigned, Restart, fulfilmentVars
<1> QED BY <1>1, <1>2, <1>3

-----------------------------------------------------------------------------
(* What a serial server promises, whatever the number of orders, couriers    *)
(* and restarts.                                                             *)

\* The inductive invariant: what a request or a route has read of an order and
\* its job is still so when it saves, because nothing ran in between.
THEOREM SerialInvariantHolds ==
    ASSUME NEW s \in Slots, Slots = {s}
    PROVE  FulfilmentSpec => []SerialInv
<1>1. SerialInv /\ [FulfilmentNext]_fulfilmentVars => SerialInv'
  BY SerialPreserved
<1> QED BY <1>1, SerialInit, PTL DEF FulfilmentSpec

\* The order is picked up or delivered only by the courier whose job says so,
\* also when the server stops between the save of the job and of the order.
THEOREM SerialJobLeadsOrder ==
    ASSUME NEW s \in Slots, Slots = {s}
    PROVE  FulfilmentSpec => []JobLeadsOrder
<1>1. SerialInv => JobLeadsOrder
  BY DEF SerialInv
<1>2. FulfilmentSpec => []SerialInv
  BY SerialInvariantHolds
<1> QED BY <1>1, <1>2, PTL

\* acceptJob, pickupJob, dropoffJob and the sync never take a job away from the
\* courier who accepted it.
THEOREM SerialJobHolderKept ==
    ASSUME NEW s \in Slots, Slots = {s}
    PROVE  FulfilmentSpec => JobHolderKept
<1>1. SerialInv /\ [FulfilmentNext]_fulfilmentVars =>
          [\A o \in Orders : jobs[o].courierId # Null => jobs'[o].courierId = jobs[o].courierId]_jobs
  BY SerialHolderKept
<1>2. FulfilmentSpec => []SerialInv
  BY SerialInvariantHolds
<1> QED BY <1>1, <1>2, PTL DEF FulfilmentSpec, JobHolderKept

\* Every order that a serial server stores follows the lifecycle: the handlers
\* with their awaits, the courier routes and the restarts implement
\* OrderLifecycle.
THEOREM SerialImplementsLifecycle ==
    ASSUME NEW s \in Slots, Slots = {s}
    PROVE  FulfilmentSpec => ImplementsLifecycle
<1>1. FulfilmentInit => Lifecycle!Init
  BY DEF FulfilmentInit, Init, AbsentOrder, Lifecycle!Init
<1>2. SerialInv /\ [FulfilmentNext]_fulfilmentVars => [Lifecycle!Next]_(Lifecycle!vars)
  BY SerialRefines
<1>3. FulfilmentSpec => []SerialInv
  BY SerialInvariantHolds
<1> QED BY <1>1, <1>2, <1>3, PTL DEF FulfilmentSpec, ImplementsLifecycle, Lifecycle!Spec

-----------------------------------------------------------------------------
(* One request at a time, and no dispatch client: couriers are assigned by   *)
(* accepting a job, and by nothing else.                                     *)

\* The part of OneActiveAssignment that is about one record and its job: a
\* courier is named by the job before the order.
JobNames(order, job) == order.courierId # Null => job.courierId = order.courierId

\* Without a dispatch client only an accepted job assigns a courier.
RouteClaimed(r) ==
    /\ r.op # "dispatch"
    /\ r.phase = "order" /\ r.op = "accept" =>
           jobs[r.order] = [status |-> "ACCEPTED", courierId |-> r.courier]

\* Slot s has decided on a record and not saved it.
Unfinished(s) == req[s] # Idle /\ req[s].phase \in Unsaved

AssignmentInv ==
    /\ SerialInv
    /\ \A o \in Orders : JobNames(orders[o], jobs[o])
    /\ \A s \in Slots : /\ Unfinished(s) => JobNames(req[s].next, jobs[req[s].event.orderId])
                        /\ route[s] # Idle => RouteClaimed(route[s])

Agrees(order, job) == job.status \in JobOfOrder[order.status]

\* The request of slot s has still to bring order o to its job.
Behind(s, o) ==
    \/ InRoute(s, "order") /\ route[s].order = o
    \/ Unfinished(s) /\ req[s].event.orderId = o

\* The orders that a sync has yet to look up are pending still, and a saved
\* job is where its order is or where the route's call takes it.
RouteAgrees(r) ==
    /\ r.phase = "sync" =>
           \A o \in Orders : o \in r.left \/ o = r.missing => orders[o].status = "DISPATCH_PENDING"
    /\ r.phase = "order" => \/ Agrees(orders[r.order], jobs[r.order])
                            \/ OrderGuard(r.op, r.order, r.courier)

Agreement ==
    /\ \A o \in Orders : Agrees(orders[o], jobs[o]) \/ \E s \in Slots : Behind(s, o)
    /\ \A s \in Slots : /\ Unfinished(s) => Agrees(req[s].next, jobs[req[s].event.orderId])
                        /\ route[s] # Idle => RouteAgrees(route[s])

AgreementInv == AssignmentInv /\ (restarts = 0 => Agreement)

LEMMA JobOfStatus ==
    /\ JobOfOrder["ABSENT"] = {"ABSENT"} /\ JobOfOrder["CREATED"] = {"ABSENT"}
    /\ JobOfOrder["MERCHANT_ACCEPTED"] = {"ABSENT"}
    /\ JobOfOrder["DISPATCH_PENDING"] = {"ABSENT", "AVAILABLE"}
    /\ JobOfOrder["COURIER_ASSIGNED"] = {"ACCEPTED"}
    /\ JobOfOrder["PICKED_UP"] = {"PICKED_UP"} /\ JobOfOrder["DELIVERED"] = {"DROPPED_OFF"}
    /\ JobOfOrder["CANCELLED"] = JobStatus
BY DEF JobOfOrder, Status

\* What a job says of the order that agrees with it.
LEMMA StatusOfJob ==
    ASSUME NEW order \in OrderRecord, NEW job \in Job, Agrees(order, job)
    PROVE  /\ job.status = "AVAILABLE" => order.status \in {"DISPATCH_PENDING", "CANCELLED"}
           /\ job.status = "ACCEPTED" => order.status \in {"COURIER_ASSIGNED", "CANCELLED"}
           /\ job.status = "PICKED_UP" => order.status \in {"PICKED_UP", "CANCELLED"}
<1>1. order.status \in Status
  BY DEF OrderRecord
<1> QED BY <1>1, JobOfStatus DEF Agrees, Status

\* Without its courier a record's step of the lifecycle leaves the job right.
LEMMA PlainStepAgrees ==
    ASSUME AgreementInv, NEW o \in Orders, NEW next,
           LifecycleStep(orders[o], next), next.status \notin CourierStatus
    PROVE  /\ JobNames(next, jobs[o])
           /\ Agrees(orders[o], jobs[o]) => Agrees(next, jobs[o])
<1>1. jobs[o] \in Job /\ jobs[o].status \in JobStatus
  BY DEF AgreementInv, AssignmentInv, SerialInv, FulfilmentTypeInv, FulfilmentTypeOK, Job
<1>2. next.courierId = orders[o].courierId
  BY DEF LifecycleStep, CourierStatus
<1>3. JobNames(next, jobs[o])
  BY <1>2 DEF AgreementInv, AssignmentInv, JobNames
<1>4. ASSUME Agrees(orders[o], jobs[o]) PROVE Agrees(next, jobs[o])
  BY <1>1, <1>4, JobOfStatus DEF LifecycleStep, CourierStatus, Agrees
<1> QED BY <1>3, <1>4

\* A handler of the order service decides: the slot is behind in its order.
LEMMA DecidedAgrees ==
    ASSUME AgreementInv, SerialInv', NEW s \in Slots, Slots = {s},
           NEW o \in Orders, NEW next, Decided(s, o, next),
           UNCHANGED <<jobs, restarts>>, route'[s] = Idle,
           InRoute(s, "order") => route[s].order = o,
           JobNames(next, jobs[o]),
           restarts = 0 => Agrees(next, jobs[o])
    PROVE  AgreementInv'
<1> PICK phase \in Unsaved, type \in EventType, by \in Couriers \cup Canceller \cup {Null} :
        Decide(s, phase, o, next, type, by)
  BY DEF Decided
<1>1. req[s] = Idle /\ orders' = orders /\ jobs' = jobs /\ restarts' = restarts
  BY DEF Decided, Decide
<1>2. /\ req'[s].phase \in Unsaved /\ req'[s].next = next /\ req'[s].event.orderId = o
  BY DEF Decide, AgreementInv, AssignmentInv, SerialInv, FulfilmentTypeInv, FulfilmentTypeOK, TypeOK
<1>3. AssignmentInv'
  BY <1>1, <1>2 DEF AgreementInv, AssignmentInv, Unfinished
<1>4. req'[s] # Idle
  <2> DEFINE q == [phase |-> phase, next |-> next,
                   event |-> [type |-> type, orderId |-> o, by |-> by]]
  <2>1. q \in Request
    BY DEF Decided, Request, Phase, Unsaved, Event
  <2>2. req'[s] = q
    BY DEF Decide, AgreementInv, AssignmentInv, SerialInv, FulfilmentTypeInv, FulfilmentTypeOK, TypeOK
  <2> HIDE DEF q
  <2> QED BY <2>1, <2>2, OrchestrationAssumption
<1>5. ASSUME restarts = 0 PROVE Agreement'
  <2>1. ASSUME NEW p \in Orders PROVE Agrees(orders[p], jobs[p])' \/ Behind(s, p)'
    <3>1. CASE p = o
      BY <1>2, <1>4, <3>1 DEF Behind, Unfinished
    <3>2. CASE p # o
      <4>1. ~Behind(s, p)
        BY <1>1, <3>2 DEF Behind, Unfinished
      <4>2. Agrees(orders[p], jobs[p])
        BY <1>5, <4>1 DEF AgreementInv, Agreement
      <4> QED BY <1>1, <4>2 DEF Agrees
    <3> QED BY <3>1, <3>2
  <2>2. Agrees(next, jobs[o])'
    BY <1>1, <1>5 DEF Agrees
  <2>3. Agrees(req[s].next, jobs[req[s].event.orderId])'
    BY <1>2, <2>2 DEF Agrees
  <2> QED BY <2>1, <2>3 DEF Agreement
<1> QED BY <1>1, <1>3, <1>5 DEF AgreementInv

\* A step of a route while the order service rests.
LEMMA RouteStepAgrees ==
    ASSUME AgreementInv, SerialInv', NEW s \in Slots, Slots = {s},
           req[s] = Idle, UNCHANGED vars, restarts' = restarts,
           NEW r \in Route \cup {Idle}, route'[s] = r,
           \A o \in Orders : JobNames(orders[o], jobs'[o]),
           r # Idle => RouteClaimed(r)',
           restarts = 0 =>
               /\ r # Idle => RouteAgrees(r)'
               /\ \A o \in Orders : \/ Agrees(orders[o], jobs'[o])
                                    \/ r # Idle /\ r.phase = "order" /\ r.order = o
    PROVE  AgreementInv'
<1>1. req' = req /\ orders' = orders
  BY DEF vars
<1>2. route'[s] # Idle => RouteClaimed(route[s])'
  BY DEF RouteClaimed
<1>3. AssignmentInv'
  BY <1>1, <1>2 DEF AgreementInv, AssignmentInv, JobNames, Unfinished
<1>4. ASSUME restarts = 0 PROVE Agreement'
  <2>1. ASSUME NEW o \in Orders PROVE Agrees(orders[o], jobs[o])' \/ Behind(s, o)'
    BY <1>1, <1>4 DEF Agrees, Behind, InRoute
  <2>2. route'[s] # Idle => RouteAgrees(route[s])'
    BY <1>4 DEF RouteAgrees
  <2> QED BY <1>1, <2>1, <2>2 DEF Agreement, Unfinished
<1> QED BY <1>3, <1>4 DEF AgreementInv

\* A job keeps its courier, so it never leaves the order's.
LEMMA JobStillNames ==
    ASSUME AgreementInv, [FulfilmentNext]_fulfilmentVars, NEW s \in Slots, Slots = {s},
           NEW o \in Orders
    PROVE  JobNames(orders[o], jobs'[o])
<1>1. SerialInv /\ JobNames(orders[o], jobs[o])
  BY DEF AgreementInv, AssignmentInv
<1>2. jobs[o].courierId # Null => jobs'[o].courierId = jobs[o].courierId
  BY <1>1, SerialHolderKept
<1> QED BY <1>1, <1>2 DEF JobNames

\* The order service goes on: its save ends the difference.
LEMMA ContinueAgrees ==
    ASSUME AgreementInv, SerialInv', NEW s \in Slots, Slots = {s}, Continue(s), OrderOnly
    PROVE  AgreementInv'
<1> PICK q : q = req[s]
  OBVIOUS
<1> PICK o : o = q.event.orderId
  OBVIOUS
<1>0. /\ q \in Request /\ q # Idle /\ o \in Orders
      /\ orders \in [Orders -> OrderRecord]
      /\ route[s] = Idle
  <2>1. q \in Request /\ q # Idle /\ o \in Orders /\ orders \in [Orders -> OrderRecord]
    BY DEF Continue, PublishCancelRequested, ProjectCancelRequested, Save, Publish, ProjectEvent,
           InPhase, AgreementInv, AssignmentInv, SerialInv, FulfilmentTypeInv, FulfilmentTypeOK,
           TypeOK, Request, Event
  <2>2. ASSUME route[s] # Idle PROVE FALSE
    <3>1. route[s].phase = "assign" /\ route[s].op # "dispatch"
      BY <2>1, <2>2 DEF AgreementInv, AssignmentInv, SerialInv, RouteClaimed
    <3>2. RouteOK(route[s])
      BY <2>2 DEF AgreementInv, AssignmentInv, SerialInv, FulfilmentTypeInv, RoutesOK
    <3> QED BY <3>1, <3>2 DEF RouteOK
  <2> QED BY <2>1, <2>2
<1>1. route'[s] = Idle /\ jobs' = jobs /\ restarts' = restarts
  BY <1>0 DEF OrderOnly
<1>2. CASE Save(s)
  <2>1. q.phase = "save" /\ orders' = [orders EXCEPT ![o] = q.next] /\ Unfinished(s)
    BY <1>0, <1>2 DEF Save, InPhase, Unfinished, Unsaved
  <2>2. req'[s].phase = "publish"
    BY <1>0, <1>2
       DEF Save, EnterPhase, Request, AgreementInv, AssignmentInv, SerialInv, FulfilmentTypeInv,
           FulfilmentTypeOK, TypeOK
  <2>3. ~Unfinished(s)'
    BY <2>2 DEF Unfinished, Unsaved
  <2>4. ASSUME NEW p \in Orders PROVE JobNames(orders[p], jobs[p])'
    <3>1. JobNames(orders[p], jobs[p]) /\ JobNames(q.next, jobs[o])
      BY <2>1 DEF AgreementInv, AssignmentInv
    <3>2. orders'[p] = IF p = o THEN q.next ELSE orders[p]
      BY <1>0, <2>1
    <3> QED BY <1>1, <3>1, <3>2 DEF JobNames
  <2>5. ASSUME restarts = 0, NEW p \in Orders PROVE Agrees(orders[p], jobs[p])'
    <3>1. orders'[p] = IF p = o THEN q.next ELSE orders[p]
      BY <1>0, <2>1
    <3>2. Agrees(q.next, jobs[o])
      BY <2>1, <2>5 DEF AgreementInv, Agreement
    <3>3. CASE p # o
      <4>1. ~Behind(s, p)
        BY <1>0, <3>3 DEF Behind, InRoute
      <4>2. Agrees(orders[p], jobs[p])
        BY <2>5, <4>1 DEF AgreementInv, Agreement
      <4> QED BY <1>1, <3>1, <3>3, <4>2 DEF Agrees
    <3>4. CASE p = o
      BY <1>1, <3>1, <3>2, <3>4 DEF Agrees
    <3> QED BY <3>3, <3>4
  <2>6. AssignmentInv'
    BY <1>1, <2>3, <2>4 DEF AssignmentInv
  <2>7. restarts = 0 => Agreement'
    BY <1>1, <2>3, <2>5 DEF Agreement
  <2> QED BY <1>1, <2>6, <2>7 DEF AgreementInv
<1>3. CASE ~Save(s)
  <2>1. orders' = orders
    BY <1>3 DEF Continue, PublishCancelRequested, ProjectCancelRequested, Publish, ProjectEvent
  <2>2. \/ ~Unfinished(s) /\ ~Unfinished(s)'
        \/ /\ Unfinished(s) /\ Unfinished(s)'
           /\ req'[s].next = q.next /\ req'[s].event = q.event
    <3>1. CASE PublishCancelRequested(s) \/ ProjectCancelRequested(s)
      <4> PICK phase : phase = IF PublishCancelRequested(s) THEN "requested" ELSE "save"
        OBVIOUS
      <4>1. q.phase \in Unsaved /\ req' = [req EXCEPT ![s].phase = phase] /\ phase \in Unsaved
        BY <3>1 DEF PublishCancelRequested, ProjectCancelRequested, InPhase, EnterPhase, Unsaved
      <4>2. /\ req'[s].phase = phase /\ req'[s].next = q.next /\ req'[s].event = q.event
            /\ req'[s] \in Request
        BY <1>0, <4>1
           DEF Request, AgreementInv, AssignmentInv, SerialInv, FulfilmentTypeInv,
               FulfilmentTypeOK, TypeOK, Unsaved, Phase
      <4> QED BY <1>0, <4>1, <4>2, OrchestrationAssumption DEF Unfinished
    <3>2. CASE Publish(s) \/ ProjectEvent(s)
      <4>1. q.phase \in {"publish", "project"} /\ (req'[s] = Idle \/ req'[s].phase = "project")
        BY <1>0, <3>2
           DEF Publish, ProjectEvent, InPhase, EnterPhase, Request, AgreementInv, AssignmentInv,
               SerialInv, FulfilmentTypeInv, FulfilmentTypeOK, TypeOK
      <4> QED BY <4>1 DEF Unfinished, Unsaved
    <3> QED BY <1>3, <3>1, <3>2 DEF Continue
  <2>3. AssignmentInv'
    BY <1>1, <2>1, <2>2 DEF AgreementInv, AssignmentInv, JobNames
  <2>4. ASSUME restarts = 0 PROVE Agreement'
    <3>1. ASSUME NEW p \in Orders PROVE Agrees(orders[p], jobs[p])' \/ Behind(s, p)'
      <4>1. Agrees(orders[p], jobs[p]) \/ Behind(s, p)
        BY <2>4 DEF AgreementInv, Agreement
      <4> QED BY <1>0, <1>1, <2>1, <2>2, <4>1 DEF Agrees, Behind, InRoute
    <3>2. Unfinished(s)' => Agrees(req[s].next, jobs[req[s].event.orderId])'
      BY <1>1, <2>2, <2>4 DEF AgreementInv, Agreement, Agrees
    <3> QED BY <1>1, <3>1, <3>2 DEF Agreement
  <2> QED BY <1>1, <2>3, <2>4 DEF AgreementInv
<1> QED BY <1>2, <1>3

\* Without a dispatch client no route waits for one, and a route has the slot
\* to itself until it answers.
LEMMA RouteAlone ==
    ASSUME AgreementInv, NEW s \in Slots, Slots = {s}, route[s] # Idle
    PROVE  /\ route[s] \in Route /\ RouteOK(route[s]) /\ RouteFits(route[s])
           /\ RouteClaimed(route[s])
           /\ req[s] = Idle
           /\ route[s].phase # "assign"
           /\ restarts = 0 => RouteAgrees(route[s])
           /\ \A o \in Orders : restarts = 0 =>
                  \/ Agrees(orders[o], jobs[o])
                  \/ route[s].phase = "order" /\ route[s].order = o
<1>1. /\ route[s] \in Route /\ RouteOK(route[s]) /\ RouteFits(route[s])
      /\ RouteClaimed(route[s])
  BY DEF AgreementInv, AssignmentInv, SerialInv, FulfilmentTypeInv, FulfilmentTypeOK, RoutesOK
<1>2. route[s].phase # "assign"
  BY <1>1 DEF RouteOK, RouteClaimed
<1>3. req[s] = Idle
  BY <1>2 DEF AgreementInv, AssignmentInv, SerialInv
<1>4. restarts = 0 => RouteAgrees(route[s])
  BY DEF AgreementInv, Agreement
<1>5. ASSUME NEW o \in Orders, restarts = 0
      PROVE  Agrees(orders[o], jobs[o]) \/ (route[s].phase = "order" /\ route[s].order = o)
  BY <1>3, <1>5 DEF AgreementInv, Agreement, Behind, Unfinished, InRoute
<1> QED BY <1>1, <1>2, <1>3, <1>4, <1>5

\* The route saves the job, and so has the order to move.
LEMMA SaveJobAgrees ==
    ASSUME AgreementInv, SerialInv', [FulfilmentNext]_fulfilmentVars,
           NEW s \in Slots, Slots = {s}, SaveJob(s)
    PROVE  AgreementInv'
<1> PICK r : r = route[s]
  OBVIOUS
<1> PICK d : d = [r EXCEPT !.phase = "order"]
  OBVIOUS
<1> PICK job : job = [status |-> SavedStatus[r.op], courierId |-> r.courier]
  OBVIOUS
<1>1. /\ r # Idle /\ r.phase = "save" /\ r \in Route /\ RouteOK(r) /\ RouteFits(r) /\ RouteClaimed(r)
      /\ req[s] = Idle
      /\ r.op \in CourierOps /\ r.order \in Orders /\ r.courier \in Couriers
      /\ route \in [Slots -> Route \cup {Idle}] /\ jobs \in [Orders -> Job]
      /\ orders \in [Orders -> OrderRecord]
  BY RouteAlone
     DEF SaveJob, InRoute, RouteOK, CourierOps, AgreementInv, AssignmentInv, SerialInv,
         FulfilmentTypeInv, FulfilmentTypeOK, TypeOK
<1>2. /\ route'[s] = d /\ UNCHANGED vars /\ restarts' = restarts
      /\ jobs' = [jobs EXCEPT ![r.order] = job]
  BY <1>1 DEF SaveJob, RouteOnly
<1>3. /\ d \in Route /\ d.phase = "order" /\ d.op = r.op /\ d.order = r.order
      /\ d.courier = r.courier
  BY <1>1 DEF Route
<1>4. jobs'[r.order] = job /\ \A o \in Orders \ {r.order} : jobs'[o] = jobs[o]
  BY <1>1, <1>2
<1>5. /\ r.op = "accept" => job = [status |-> "ACCEPTED", courierId |-> r.courier]
      /\ job.status = SavedStatus[r.op]
  BY DEF SavedStatus
<1>6. RouteClaimed(d)'
  BY <1>1, <1>3, <1>4, <1>5 DEF RouteClaimed
<1>7. \A o \in Orders : JobNames(orders[o], jobs'[o])
  BY JobStillNames
<1>8. ASSUME restarts = 0
      PROVE  Agrees(orders[r.order], job) \/ OrderGuard(r.op, r.order, r.courier)
  <2> PICK n : n = orders[r.order]
    OBVIOUS
  <2>1. Agrees(n, jobs[r.order]) /\ n \in OrderRecord /\ jobs[r.order] \in Job
    BY <1>1, <1>8, RouteAlone
  <2>2. JobNames(n, jobs[r.order]) /\ Consistent(n)
    BY <1>1 DEF AgreementInv, AssignmentInv, SerialInv, RecordConsistent
  <2>3. job.status \in JobStatus
    BY <1>1 DEF SavedStatus, JobStatus, CourierOps
  <2>4. CASE n.status = "CANCELLED"
    BY <2>3, <2>4, JobOfStatus DEF Agrees
  <2>5. CASE n.status # "CANCELLED" /\ r.op = "accept"
    <3>1. n.status = "DISPATCH_PENDING"
      BY <1>1, <2>1, <2>5, StatusOfJob DEF RouteFits
    <3> QED BY <2>5, <3>1 DEF OrderGuard
  <2>6. CASE n.status # "CANCELLED" /\ r.op = "pickup"
    <3>1. n.status = "COURIER_ASSIGNED" /\ jobs[r.order].courierId = r.courier
      BY <1>1, <2>1, <2>6, StatusOfJob DEF RouteFits, Holder
    <3>2. n.courierId = r.courier
      BY <2>2, <3>1 DEF JobNames, Consistent
    <3> QED BY <2>6, <3>1, <3>2 DEF OrderGuard
  <2>7. CASE n.status # "CANCELLED" /\ r.op = "dropoff"
    <3>1. n.status = "PICKED_UP" /\ jobs[r.order].courierId = r.courier
      BY <1>1, <2>1, <2>7, StatusOfJob DEF RouteFits, Holder
    <3>2. n.courierId = r.courier
      BY <2>2, <3>1 DEF JobNames, Consistent
    <3> QED BY <2>7, <3>1, <3>2 DEF OrderGuard
  <2> QED BY <1>1, <2>4, <2>5, <2>6, <2>7 DEF CourierOps
<1>9. restarts = 0 => RouteAgrees(d)'
  BY <1>2, <1>3, <1>4, <1>8 DEF RouteAgrees, vars, Agrees, OrderGuard
<1>10. restarts = 0 => \A o \in Orders : \/ Agrees(orders[o], jobs'[o])
                                         \/ d # Idle /\ d.phase = "order" /\ d.order = o
  <2>1. d # Idle
    BY <1>3, FulfilmentAssumption
  <2> QED BY <1>1, <1>3, <1>4, <2>1, RouteAlone
<1> QED BY <1>1, <1>2, <1>3, <1>6, <1>7, <1>9, <1>10, RouteStepAgrees

\* The other steps of a courier route.
LEMMA ContinueRouteAgrees ==
    ASSUME AgreementInv, SerialInv', [FulfilmentNext]_fulfilmentVars,
           NEW s \in Slots, Slots = {s}, ContinueRoute(s)
    PROVE  AgreementInv'
<1> PICK r : r = route[s]
  OBVIOUS
<1> USE FulfilmentAssumption, OrchestrationAssumption
<1>0. /\ \A phase : InRoute(s, phase) =>
             /\ r # Idle /\ r.phase = phase
             /\ r \in Route /\ RouteOK(r) /\ RouteFits(r) /\ RouteClaimed(r)
             /\ req[s] = Idle
             /\ restarts = 0 => RouteAgrees(r)
             /\ \A o \in Orders : restarts = 0 =>
                    Agrees(orders[o], jobs[o]) \/ (phase = "order" /\ r.order = o)
      /\ jobs \in [Orders -> Job]
      /\ route \in [Slots -> Route \cup {Idle}]
      /\ orders \in [Orders -> OrderRecord]
  BY RouteAlone
     DEF InRoute, AgreementInv, AssignmentInv, SerialInv, FulfilmentTypeInv, FulfilmentTypeOK, TypeOK
<1>1. \A o \in Orders : JobNames(orders[o], jobs'[o])
  BY JobStillNames
<1>2. ASSUME NEW o \in Orders, SyncFindJob(s, o) PROVE AgreementInv'
  <2> PICK m : m = IF jobs[o].status = "ABSENT" THEN o ELSE Null
    OBVIOUS
  <2> PICK d : d = [r EXCEPT !.left = @ \ {o}, !.missing = m]
    OBVIOUS
  <2>1. InRoute(s, "sync") /\ r.missing = Null /\ o \in r.left
    BY <1>2 DEF SyncFindJob
  <2>2. route'[s] = d /\ jobs' = jobs /\ UNCHANGED vars /\ restarts' = restarts /\ req[s] = Idle
    BY <1>0, <1>2, <2>1 DEF SyncFindJob, RouteOnly
  <2>3. /\ d \in Route /\ d.phase = "sync" /\ d.missing = m /\ d.left = r.left \ {o}
        /\ d.op = r.op
    <3>1. r \in Route /\ r.phase = "sync"
      BY <1>0, <2>1
    <3>2. d \in Route
      BY <3>1 DEF Route
    <3>3. d.phase = r.phase /\ d.missing = m /\ d.left = r.left \ {o} /\ d.op = r.op
      BY <3>1 DEF Route
    <3> QED BY <3>1, <3>2, <3>3
  <2>4. RouteClaimed(d)'
    BY <1>0, <2>1, <2>3 DEF RouteClaimed
  <2>5. restarts = 0 => RouteAgrees(d)'
    BY <1>0, <2>1, <2>2, <2>3 DEF RouteAgrees, vars
  <2>6. restarts = 0 => \A p \in Orders : Agrees(orders[p], jobs'[p])
    BY <1>0, <2>1, <2>2
  <2> QED BY <1>1, <2>2, <2>3, <2>4, <2>5, <2>6, RouteStepAgrees
<1>3. CASE SyncSaveJob(s)
  <2> PICK d : d = [r EXCEPT !.missing = Null]
    OBVIOUS
  <2> PICK o : o = r.missing
    OBVIOUS
  <2>1. InRoute(s, "sync") /\ o # Null
    BY <1>3 DEF SyncSaveJob
  <2>2. /\ route'[s] = d /\ UNCHANGED vars /\ restarts' = restarts /\ req[s] = Idle
        /\ jobs' = [jobs EXCEPT ![o] = [status |-> "AVAILABLE", courierId |-> Null]]
    BY <1>0, <1>3, <2>1 DEF SyncSaveJob, RouteOnly
  <2>3. /\ d \in Route /\ d.phase = "sync" /\ d.missing = Null /\ d.left = r.left
        /\ d.op = r.op /\ o \in Orders
    BY <1>0, <2>1 DEF Route
  <2>4. RouteClaimed(d)'
    BY <1>0, <2>1, <2>3 DEF RouteClaimed
  <2>5. restarts = 0 => RouteAgrees(d)'
    BY <1>0, <2>1, <2>2, <2>3 DEF RouteAgrees, vars
  <2>6. ASSUME restarts = 0, NEW p \in Orders PROVE Agrees(orders[p], jobs'[p])
    <3>1. CASE p = o
      <4>1. orders[p].status = "DISPATCH_PENDING"
        BY <1>0, <2>1, <2>6, <3>1 DEF RouteAgrees
      <4>2. jobs'[p].status = "AVAILABLE"
        BY <1>0, <2>2, <2>3, <3>1
      <4> QED BY <4>1, <4>2, JobOfStatus DEF Agrees
    <3>2. CASE p # o
      BY <1>0, <2>1, <2>2, <2>6, <3>2
    <3> QED BY <3>1, <3>2
  <2> QED BY <1>1, <2>2, <2>3, <2>4, <2>5, <2>6, RouteStepAgrees
<1>4. ASSUME route' = [route EXCEPT ![s] = Idle], RouteOnly, UNCHANGED jobs, InRoute(s, "sync")
      PROVE  AgreementInv'
  <2>1. /\ route'[s] = Idle /\ UNCHANGED vars /\ restarts' = restarts /\ req[s] = Idle
        /\ restarts = 0 => \A o \in Orders : Agrees(orders[o], jobs'[o])
    BY <1>0, <1>4 DEF RouteOnly
  <2> QED BY <1>1, <2>1, RouteStepAgrees
<1>5. CASE ListJobs(s)
  BY <1>4, <1>5 DEF ListJobs, Synced, Answer
<1>6. ASSUME NEW op \in CourierOps, NEW holder, NEW from, NEW to, DecideJob(s, op, holder, from, to),
             op = "accept" => to = "ACCEPTED"
      PROVE  AgreementInv'
  <2>1. InRoute(s, "sync") /\ r.op = op /\ UNCHANGED jobs /\ RouteOnly
    BY <1>6 DEF DecideJob, Synced
  <2>2. CASE Answer(s)
    BY <1>4, <2>1, <2>2 DEF Answer
  <2>3. ASSUME NEW phase \in {"order", "save"}, route' = [route EXCEPT ![s].phase = phase],
               phase = "order" => jobs[r.order].status = to /\ jobs[r.order].courierId = r.courier
        PROVE  AgreementInv'
    <3> PICK d : d = [r EXCEPT !.phase = phase]
      OBVIOUS
    <3>1. /\ route'[s] = d /\ UNCHANGED vars /\ jobs' = jobs /\ restarts' = restarts
          /\ req[s] = Idle
      BY <1>0, <2>1, <2>3 DEF RouteOnly
    <3>2. /\ d \in Route /\ d.phase = phase /\ d.op = op /\ d.order = r.order
          /\ d.courier = r.courier
      BY <1>0, <2>1 DEF Route
    <3>3. r.order \in Orders /\ jobs[r.order] \in Job
      BY <1>0, <2>1 DEF RouteOK, CourierOps
    <3>4. RouteClaimed(d)'
      BY <1>6, <2>3, <3>1, <3>2, <3>3 DEF RouteClaimed, CourierOps, Job
    <3>5. restarts = 0 => \A o \in Orders : Agrees(orders[o], jobs'[o])
      BY <1>0, <2>1, <3>1
    <3>6. restarts = 0 => RouteAgrees(d)'
      BY <2>3, <3>1, <3>2, <3>3, <3>5 DEF RouteAgrees, vars, Agrees
    <3> QED BY <1>1, <3>1, <3>2, <3>4, <3>5, <3>6, RouteStepAgrees
  <2>4. \/ Answer(s)
        \/ \E phase \in {"order", "save"} :
               /\ route' = [route EXCEPT ![s].phase = phase]
               /\ phase = "order" =>
                      jobs[r.order].status = to /\ jobs[r.order].courierId = r.courier
    BY <1>6 DEF DecideJob
  <2> QED BY <2>2, <2>3, <2>4
<1>7. CASE SaveJob(s)
  BY <1>7, SaveJobAgrees
<1>8. CASE CallOrderService(s)
  <2>1. /\ InRoute(s, "order") /\ route'[s] = Idle /\ UNCHANGED <<jobs, restarts>>
        /\ r.order \in Orders /\ r.courier \in Couriers /\ req[s] = Idle
        /\ RouteOK(r) /\ RouteClaimed(r) /\ RouteFits(r) /\ r.phase = "order"
    BY <1>0, <1>8 DEF CallOrderService, RouteOK, Answer
  <2>2. CASE ~OrderGuard(r.op, r.order, r.courier) /\ UNCHANGED vars
    <3>1. restarts = 0 => \A o \in Orders : Agrees(orders[o], jobs'[o])
      BY <1>0, <2>1, <2>2 DEF RouteAgrees
    <3> QED BY <1>1, <2>1, <2>2, <3>1, RouteStepAgrees
  <2>3. ASSUME NEW next, Decided(s, r.order, next), next.courierId = r.courier,
               jobs[r.order].courierId = r.courier,
               \/ next.status = "COURIER_ASSIGNED" /\ jobs[r.order].status = "ACCEPTED"
               \/ next.status = "PICKED_UP" /\ jobs[r.order].status = "PICKED_UP"
               \/ next.status = "DELIVERED" /\ jobs[r.order].status = "DROPPED_OFF"
        PROVE  AgreementInv'
    <3>1. JobNames(next, jobs[r.order]) /\ Agrees(next, jobs[r.order])
      BY <2>3, JobOfStatus DEF JobNames, Agrees
    <3>2. InRoute(s, "order") => route[s].order = r.order
      OBVIOUS
    <3> QED BY <2>1, <2>3, <3>1, <3>2, DecidedAgrees
  <2>4. SerialInv
    BY DEF AgreementInv, AssignmentInv
  <2>5. CASE r.op = "accept" /\ AssignCourier(s, r.order, r.courier)
    BY <2>1, <2>3, <2>4, <2>5, CourierDecisions DEF RouteClaimed
  <2>6. CASE r.op = "pickup" /\ MarkPickedUp(s, r.order, r.courier)
    BY <2>1, <2>3, <2>4, <2>6, CourierDecisions DEF RouteFits
  <2>7. CASE r.op = "dropoff" /\ MarkDelivered(s, r.order, r.courier)
    BY <2>1, <2>3, <2>4, <2>7, CourierDecisions DEF RouteFits
  <2> QED BY <1>8, <2>1, <2>2, <2>5, <2>6, <2>7 DEF CallOrderService, OrderCall, RouteClaimed
<1>9. ~Assigned(s)
  BY RouteAlone DEF Assigned, InRoute
<1>10. CASE Continue(s) /\ OrderOnly
  BY <1>10, ContinueAgrees
<1> QED BY <1>2, <1>3, <1>5, <1>6, <1>7, <1>8, <1>9, <1>10
        DEF ContinueRoute, AcceptJob, PickupJob, DropoffJob, CourierOps

LEMMA AgreementPreserved ==
    ASSUME AgreementInv, [FulfilmentNext]_fulfilmentVars, NEW s \in Slots, Slots = {s},
           DispatchClient = FALSE
    PROVE  AgreementInv'
<1> USE FulfilmentAssumption
<1>0. SerialInv /\ SerialInv'
  BY SerialPreserved DEF AgreementInv, AssignmentInv
<1>1. CASE UNCHANGED fulfilmentVars
  <2>1. UNCHANGED <<orders, req, jobs, route, restarts>>
    BY <1>1 DEF fulfilmentVars
  <2>2. AssignmentInv'
    BY <1>0, <2>1 DEF AgreementInv, AssignmentInv, JobNames, Unfinished, RouteClaimed
  <2>3. Agreement' <=> Agreement
    BY <2>1 DEF Agreement, Agrees, Behind, Unfinished, InRoute, RouteAgrees, OrderGuard
  <2> QED BY <2>1, <2>2, <2>3 DEF AgreementInv
<1>2. CASE Restart
  <2>1. /\ UNCHANGED <<orders, jobs>> /\ req'[s] = Idle /\ route'[s] = Idle
        /\ restarts' = restarts + 1 /\ restarts \in Nat
    BY <1>0, <1>2 DEF Restart, SerialInv, FulfilmentTypeInv, FulfilmentTypeOK
  <2>2. AssignmentInv'
    BY <1>0, <2>1 DEF AgreementInv, AssignmentInv, JobNames, Unfinished
  <2>3. restarts' # 0
    BY <2>1
  <2> QED BY <2>2, <2>3 DEF AgreementInv
\* A free slot leaves no order behind.
<1>3. Free(s) => \A o \in Orders : restarts = 0 => Agrees(orders[o], jobs[o])
  BY DEF Free, AgreementInv, Agreement, Behind, Unfinished, InRoute
<1>4. ASSUME NEW o \in Orders, NEW next, Free(s), Decided(s, o, next),
             next.status \notin CourierStatus, UNCHANGED <<jobs, restarts>>, route'[s] = Idle
      PROVE  AgreementInv'
  <2>1. LifecycleStep(orders[o], next)
    BY <1>4 DEF Decided
  <2>2. JobNames(next, jobs[o]) /\ (restarts = 0 => Agrees(next, jobs[o]))
    BY <1>3, <1>4, <2>1, PlainStepAgrees
  <2>3. InRoute(s, "order") => route[s].order = o
    BY <1>4 DEF Free, InRoute
  <2> QED BY <1>0, <1>4, <2>2, <2>3, DecidedAgrees
<1>5. ASSUME NEW o \in Orders, OrderRoute(s, o) PROVE AgreementInv'
  <2>1. PICK next : Decided(s, o, next) /\ next.status \notin CourierStatus
    BY <1>0, <1>5, OtherDecisions DEF OrderRoute
  <2>2. Free(s) /\ UNCHANGED <<jobs, restarts>> /\ route'[s] = Idle
    BY <1>5 DEF OrderRoute, OrderOnly, Free
  <2> QED BY <1>4, <2>1, <2>2
<1>6. ASSUME NEW o \in Orders, DispatchRequest(s, o) PROVE AgreementInv'
  <2>1. PICK next : Decided(s, o, next) /\ next.status \notin CourierStatus
    BY <1>0, <1>6, OtherDecisions DEF DispatchRequest
  <2>2. Free(s) /\ UNCHANGED <<jobs, restarts>> /\ route'[s] = Idle
    BY <1>0, <1>6 DEF DispatchRequest, SerialInv, FulfilmentTypeInv, FulfilmentTypeOK
  <2> QED BY <1>4, <2>1, <2>2
<1>7. ASSUME StartCourierRoute(s) PROVE AgreementInv'
  <2> PICK r : r = route'[s]
    OBVIOUS
  <2>1. /\ jobs' = jobs /\ UNCHANGED vars /\ restarts' = restarts /\ req[s] = Idle /\ Free(s)
        /\ r.phase = "sync" /\ r.missing = Null /\ r.left = PendingOrders
        /\ r.op \in CourierOps \cup {"list"}
    BY <1>0, <1>7 DEF StartCourierRoute, StartRoute, Free, RouteOnly, SerialInv, FulfilmentTypeInv,
                      FulfilmentTypeOK, CourierOps
  <2>2. r \in Route \cup {Idle}
    BY <1>0 DEF SerialInv, FulfilmentTypeInv, FulfilmentTypeOK
  <2>3. RouteClaimed(r)'
    BY <2>1 DEF RouteClaimed, CourierOps
  <2>4. restarts = 0 => RouteAgrees(r)'
    BY <2>1 DEF RouteAgrees, PendingOrders, vars
  <2>5. \A o \in Orders : JobNames(orders[o], jobs'[o])
    BY JobStillNames
  <2>6. restarts = 0 => \A o \in Orders : Agrees(orders[o], jobs'[o])
    BY <1>3, <2>1
  <2> QED BY <1>0, <2>1, <2>2, <2>3, <2>4, <2>5, <2>6, RouteStepAgrees
<1>8. ASSUME ContinueRoute(s) PROVE AgreementInv'
  BY <1>0, <1>8, ContinueRouteAgrees
<1> QED BY <1>1, <1>2, <1>5, <1>6, <1>7, <1>8 DEF FulfilmentNext

LEMMA AgreementInit == FulfilmentInit => AgreementInv
<1> SUFFICES ASSUME FulfilmentInit PROVE AgreementInv
  OBVIOUS
<1>1. \A o \in Orders : JobNames(orders[o], jobs[o]) /\ Agrees(orders[o], jobs[o])
  BY JobOfStatus DEF FulfilmentInit, Init, AbsentOrder, AbsentJob, JobNames, Agrees
<1>2. \A s \in Slots : req[s] = Idle /\ route[s] = Idle
  BY DEF FulfilmentInit, Init
<1> QED BY <1>1, <1>2, SerialInit DEF AgreementInv, AssignmentInv, Agreement, Unfinished

\* The inductive invariant of the two theorems below.
THEOREM AgreementHolds ==
    ASSUME NEW s \in Slots, Slots = {s}, DispatchClient = FALSE
    PROVE  FulfilmentSpec => []AgreementInv
<1>1. AgreementInv /\ [FulfilmentNext]_fulfilmentVars => AgreementInv'
  BY AgreementPreserved
<1> QED BY <1>1, AgreementInit, PTL DEF FulfilmentSpec

\* Where no dispatch client assigns couriers, the order and its job never name
\* two: assignCourier is called for the courier whose acceptance is saved, and
\* a restart leaves at most a job whose order names nobody yet.
THEOREM SerialOneAssignment ==
    ASSUME NEW s \in Slots, Slots = {s}, DispatchClient = FALSE
    PROVE  FulfilmentSpec => []OneActiveAssignment
<1>1. AgreementInv => OneActiveAssignment
  BY DEF AgreementInv, AssignmentInv, JobNames, OneActiveAssignment
<1>2. FulfilmentSpec => []AgreementInv
  BY AgreementHolds
<1> QED BY <1>1, <1>2, PTL

\* Between requests order and job tell one story until a restart cuts a route
\* off: every job that a route saves, the order follows within the request, and
\* the routes' silent refusals hide no difference.
THEOREM SerialOrdersAgree ==
    ASSUME NEW s \in Slots, Slots = {s}, DispatchClient = FALSE
    PROVE  FulfilmentSpec => []AgreeBetweenRequests
<1>1. AgreementInv => AgreeBetweenRequests
  BY DEF AgreementInv, Agreement, Agrees, Behind, Unfinished, InRoute, Free, AgreeBetweenRequests
<1>2. FulfilmentSpec => []AgreementInv
  BY AgreementHolds
<1> QED BY <1>1, <1>2, PTL

-----------------------------------------------------------------------------
(* Any number of requests at once, between restarts. *)

\* Without restarts the routes do nothing to orders, events and timelines that
\* the handlers of OrderOrchestration do not do, so all that is proved of those
\* holds behind the routes as well.
THEOREM RoutesImplementOrchestration ==
    ASSUME MaxRestarts = 0
    PROVE  FulfilmentSpec => Spec
<1>1. FulfilmentInit => Init
  BY DEF FulfilmentInit
<1>2. FulfilmentTypeInv /\ [FulfilmentNext]_fulfilmentVars => [Next]_vars
  <2> SUFFICES ASSUME FulfilmentTypeInv, [FulfilmentNext]_fulfilmentVars PROVE [Next]_vars
    OBVIOUS
  <2>1. ~Restart
    BY DEF Restart, FulfilmentTypeInv, FulfilmentTypeOK
  <2> QED BY <2>1, OrdersStep
<1> QED BY <1>1, <1>2, FulfilmentTypeAlways, PTL DEF FulfilmentSpec, Spec

Released(o) == Announcing(EventOf(o, "dispatch.assignment.requested.v1", Null))

\* The orders a sync has still to look up, or found without a job, and the
\* orders whose job is about to be saved, were released.
RouteReleased(r) ==
    /\ r.phase = "sync" => \A o \in Orders : o \in r.left \/ o = r.missing => Released(o)
    /\ r.phase = "save" => jobs[r.order].status # "ABSENT"

ReleaseInv ==
    /\ FulfilmentTypeInv
    /\ IInv
    /\ JobWasReleased
    /\ \A s \in Slots : route[s] # Idle => RouteReleased(route[s])

LEMMA ReleasedPersists ==
    ASSUME TypeOK, [Next]_vars, NEW o \in Orders, Released(o)
    PROVE  Released(o)'
<1> PICK e : e = EventOf(o, "dispatch.assignment.requested.v1", Null)
  OBVIOUS
<1>1. Announcing(e)
  BY DEF Released
<1>2. ASSUME UNCHANGED vars PROVE Announcing(e)'
  BY <1>1, <1>2 DEF vars, Announcing, InPhase
<1>3. ASSUME NEW s \in Slots, Start(s) PROVE Announcing(e)'
  <2>1. req[s] = Idle /\ events' = events /\ \E q : req' = [req EXCEPT ![s] = q]
    BY <1>3 DEF Start, CreateOrder, MerchantAcceptOrder, HandleMerchantDecisionTimeout,
                RequestDispatch, AssignCourier, MarkPickedUp, MarkDelivered,
                RequestCancellation, Decide
  <2>2. \A t \in Slots : req[t] # Idle => req'[t] = req[t]
    BY <2>1 DEF TypeOK
  <2> QED BY <1>1, <2>1, <2>2 DEF Announcing, InPhase
<1>4. ASSUME NEW s \in Slots, Continue(s) PROVE Announcing(e)'
  BY <1>1, <1>4, AnnouncingPersists
<1>5. Announcing(e)'
  BY <1>2, <1>3, <1>4 DEF Next
<1> QED BY <1>5 DEF Released, EventOf

LEMMA PendingReleased ==
    ASSUME IInv
    PROVE  \A o \in PendingOrders : Released(o)
BY DEF IInv, Auditable, StatusEvent, PendingOrders, Released

\* A step that saves at most one job, of an order that was released or has one.
LEMMA ReleaseStep ==
    ASSUME ReleaseInv, [FulfilmentNext]_fulfilmentVars, [Next]_vars,
           NEW s \in Slots, NEW r \in Route \cup {Idle},
           route' = [route EXCEPT ![s] = r], r # Idle => RouteReleased(r)',
           \A o \in Orders :
               \/ jobs'[o] = jobs[o]
               \/ jobs'[o].status # "ABSENT" /\ (Released(o) \/ jobs[o].status # "ABSENT")
    PROVE  ReleaseInv'
<1>1. FulfilmentTypeInv' /\ IInv'
  BY FulfilmentTypePreserved, InvariantInductive DEF ReleaseInv
<1>2. \A o \in Orders : Released(o) => Released(o)'
  BY ReleasedPersists DEF ReleaseInv, IInv
<1>3. JobWasReleased'
  BY <1>2 DEF ReleaseInv, JobWasReleased, Released
<1>4. \A o \in Orders : jobs[o].status # "ABSENT" => jobs'[o].status # "ABSENT"
  OBVIOUS
<1>5. ASSUME NEW t \in Slots, route'[t] # Idle PROVE RouteReleased(route[t])'
  <2> PICK d : d = route'[t]
    OBVIOUS
  <2>1. CASE t = s
    BY <1>5, <2>1 DEF ReleaseInv, FulfilmentTypeInv, FulfilmentTypeOK, RouteReleased
  <2>2. CASE t # s
    <3>1. d = route[t] /\ d # Idle /\ RouteOK(d) /\ RouteReleased(d)
      BY <1>5, <2>2 DEF ReleaseInv, FulfilmentTypeInv, FulfilmentTypeOK, RoutesOK
    <3>2. RouteReleased(d)'
      BY <1>2, <1>4, <3>1 DEF RouteReleased, RouteOK, CourierOps
    <3> QED BY <3>2
  <2> QED BY <2>1, <2>2
<1> QED BY <1>1, <1>3, <1>5 DEF ReleaseInv

LEMMA ReleasePreserved ==
    ASSUME MaxRestarts = 0, ReleaseInv, [FulfilmentNext]_fulfilmentVars
    PROVE  ReleaseInv'
<1>0. ~Restart
  BY DEF Restart, ReleaseInv, FulfilmentTypeInv, FulfilmentTypeOK
<1>1. [Next]_vars
  BY <1>0, OrdersStep DEF ReleaseInv
<1>2. \A o \in Orders : Released(o) => Released(o)'
  BY <1>1, ReleasedPersists DEF ReleaseInv, IInv
<1>3. CASE UNCHANGED fulfilmentVars
  <2>1. FulfilmentTypeInv' /\ IInv'
    BY <1>1, FulfilmentTypePreserved, InvariantInductive DEF ReleaseInv
  <2>2. UNCHANGED <<jobs, route>>
    BY <1>3 DEF fulfilmentVars
  <2>3. JobWasReleased' /\ (\A s \in Slots : route'[s] # Idle => RouteReleased(route[s])')
    BY <1>2, <2>2 DEF ReleaseInv, JobWasReleased, Released, RouteReleased
  <2> QED BY <2>1, <2>3 DEF ReleaseInv
<1>4. ASSUME NEW s \in Slots,
             \/ \E o \in Orders : OrderRoute(s, o) \/ DispatchRequest(s, o)
             \/ StartCourierRoute(s) \/ ContinueRoute(s)
      PROVE  ReleaseInv'
  <2> PICK r : r = route'[s]
    OBVIOUS
  <2>1. r \in Route \cup {Idle}
    BY FulfilmentTypePreserved DEF ReleaseInv, FulfilmentTypeInv, FulfilmentTypeOK
  <2>2. route' = [route EXCEPT ![s] = r]
    <3>1. \E d : route' = [route EXCEPT ![s] = d]
      BY <1>4 DEF OrderRoute, OrderOnly, DispatchRequest, StartCourierRoute, StartRoute,
                  ContinueRoute, SyncFindJob, SyncSaveJob, ListJobs, AcceptJob, PickupJob,
                  DropoffJob, DecideJob, SaveJob, CallOrderService, Assigned, Answer,
                  ReleaseInv, FulfilmentTypeInv, FulfilmentTypeOK
    <3> QED BY <3>1 DEF ReleaseInv, FulfilmentTypeInv, FulfilmentTypeOK
  <2>3. \A phase : InRoute(s, phase) =>
            /\ route[s] \in Route /\ RouteOK(route[s]) /\ RouteReleased(route[s])
            /\ route[s].phase = phase /\ jobs \in [Orders -> Job]
    BY RouteInOrder DEF InRoute, ReleaseInv, FulfilmentTypeInv, FulfilmentTypeOK
  <2>4. CASE \E o \in Orders : SyncFindJob(s, o)
    <3> PICK o \in Orders : SyncFindJob(s, o)
      BY <2>4
    <3>1. /\ r.phase = "sync" /\ jobs' = jobs
          /\ r.left \subseteq route[s].left /\ r.missing \in {o, Null} /\ o \in route[s].left
      BY <2>2, <2>3 DEF SyncFindJob, RouteOnly, Route, ReleaseInv, FulfilmentTypeInv, FulfilmentTypeOK
    <3>2. RouteReleased(r)'
      <4>1. \A p \in Orders : p \in r.left \/ p = r.missing => Released(p)
        BY <2>3, <3>1, FulfilmentAssumption DEF SyncFindJob, RouteReleased
      <4> QED BY <1>2, <3>1, <4>1 DEF RouteReleased
    <3> QED BY <1>1, <2>1, <2>2, <3>1, <3>2, ReleaseStep
  <2>5. CASE SyncSaveJob(s)
    <3> PICK o : o = route[s].missing
      OBVIOUS
    <3>1. /\ o \in Orders /\ Released(o)
          /\ r.phase = "sync" /\ r.left = route[s].left /\ r.missing = Null
          /\ jobs' = [jobs EXCEPT ![o] = [status |-> "AVAILABLE", courierId |-> Null]]
      BY <2>2, <2>3, <2>5 DEF SyncSaveJob, RouteReleased, Route,
                                   ReleaseInv, FulfilmentTypeInv, FulfilmentTypeOK
    <3>2. RouteReleased(r)'
      <4>1. \A p \in Orders : p \in r.left \/ p = r.missing => Released(p)
        BY <2>3, <2>5, <3>1, FulfilmentAssumption DEF SyncSaveJob, RouteReleased
      <4> QED BY <1>2, <3>1, <4>1 DEF RouteReleased
    <3>3. \A p \in Orders :
              \/ jobs'[p] = jobs[p]
              \/ jobs'[p].status # "ABSENT" /\ Released(p)
      BY <2>3, <2>5, <3>1 DEF SyncSaveJob
    <3> QED BY <1>1, <2>1, <2>2, <3>2, <3>3, ReleaseStep
  <2>6. CASE SaveJob(s)
    <3> PICK o : o = route[s].order
      OBVIOUS
    <3> PICK op : op = route[s].op
      OBVIOUS
    <3>1. /\ o \in Orders /\ op \in CourierOps /\ jobs[o].status # "ABSENT"
          /\ r.phase = "order"
          /\ jobs' = [jobs EXCEPT ![o] = [status |-> SavedStatus[op],
                                         courierId |-> route[s].courier]]
      BY <2>2, <2>3, <2>6 DEF SaveJob, RouteReleased, RouteOK, CourierOps, Route,
                                   ReleaseInv, FulfilmentTypeInv, FulfilmentTypeOK
    <3>2. SavedStatus[op] # "ABSENT"
      BY <3>1 DEF SavedStatus, CourierOps
    <3>3. \A p \in Orders :
              \/ jobs'[p] = jobs[p]
              \/ jobs'[p].status # "ABSENT" /\ jobs[p].status # "ABSENT"
      BY <2>3, <2>6, <3>1, <3>2 DEF SaveJob
    <3>4. RouteReleased(r)'
      BY <3>1 DEF RouteReleased
    <3> QED BY <1>1, <2>1, <2>2, <3>3, <3>4, ReleaseStep
  <2>7. CASE AcceptJob(s) \/ PickupJob(s) \/ DropoffJob(s)
    <3>1. jobs' = jobs /\ \/ r = Idle
                          \/ r.phase = "order"
                          \/ r.phase = "save" /\ r.order = route[s].order /\ jobs[r.order].status # "ABSENT"
      BY <2>2, <2>3, <2>7 DEF AcceptJob, PickupJob, DropoffJob, DecideJob, Synced, Answer, Route,
                             ReleaseInv, FulfilmentTypeInv, FulfilmentTypeOK
    <3>2. r # Idle => RouteReleased(r)'
      BY <3>1 DEF RouteReleased
    <3> QED BY <1>1, <2>1, <2>2, <3>1, <3>2, ReleaseStep
  <2>8. CASE StartCourierRoute(s)
    <3>1. jobs' = jobs /\ r.phase = "sync" /\ r.left = PendingOrders /\ r.missing = Null
      <4>1. PICK op, o, c : StartRoute(s, op, o, c)
        BY <2>8 DEF StartCourierRoute
      <4>2. r = [op |-> op, phase |-> "sync", order |-> o, courier |-> c,
                 left |-> PendingOrders, missing |-> Null]
        BY <2>2, <4>1 DEF StartRoute, ReleaseInv, FulfilmentTypeInv, FulfilmentTypeOK
      <4>3. jobs' = jobs
        BY <4>1 DEF StartRoute
      <4> QED BY <4>2, <4>3
    <3>2. \A p \in Orders : p \in r.left \/ p = r.missing => Released(p)
      BY <3>1, PendingReleased, FulfilmentAssumption DEF ReleaseInv
    <3>3. RouteReleased(r)'
      BY <1>2, <3>1, <3>2 DEF RouteReleased
    <3> QED BY <1>1, <2>1, <2>2, <3>1, <3>3, ReleaseStep
  <2>9. CASE \/ \E o \in Orders : OrderRoute(s, o) \/ DispatchRequest(s, o)
             \/ ListJobs(s) \/ CallOrderService(s) \/ Assigned(s) \/ (Continue(s) /\ OrderOnly)
    <3>1. /\ jobs' = jobs
          /\ r = Idle \/ r = route[s] \/ r.phase \in {"assign", "order"}
      <4>1. CASE \E o \in Orders : OrderRoute(s, o)
        BY <2>2, <4>1 DEF OrderRoute, OrderOnly, ReleaseInv, FulfilmentTypeInv, FulfilmentTypeOK
      <4>2. CASE \E o \in Orders : DispatchRequest(s, o)
        BY <2>2, <4>2 DEF DispatchRequest, ReleaseInv, FulfilmentTypeInv, FulfilmentTypeOK
      <4>3. CASE ListJobs(s) \/ CallOrderService(s)
        BY <2>2, <4>3 DEF ListJobs, CallOrderService, Answer, ReleaseInv, FulfilmentTypeInv, FulfilmentTypeOK
      <4>4. CASE Assigned(s)
        <5>1. jobs' = jobs /\ route[s] # Idle
          BY <4>4 DEF Assigned, InRoute
        <5>2. route \in [Slots -> Route \cup {Idle}] /\ route[s] \in Route
          BY <5>1 DEF ReleaseInv, FulfilmentTypeInv, FulfilmentTypeOK
        <5>3. CASE Answer(s)
          BY <2>2, <5>1, <5>2, <5>3 DEF Answer
        <5>4. CASE \E c \in Couriers :
                     route' = [route EXCEPT ![s].phase = "order", ![s].courier = c]
          BY <2>2, <5>1, <5>2, <5>4 DEF Route
        <5> QED BY <4>4, <5>3, <5>4, <5>1 DEF Assigned
      <4>5. CASE Continue(s) /\ OrderOnly
        BY <2>2, <4>5 DEF OrderOnly, ReleaseInv, FulfilmentTypeInv, FulfilmentTypeOK
      <4> QED BY <2>9, <4>1, <4>2, <4>3, <4>4, <4>5
    <3>2. CASE r = Idle \/ r.phase \in {"assign", "order"}
      <4>1. r # Idle => RouteReleased(r)'
        BY <3>2 DEF RouteReleased
      <4> QED BY <1>1, <2>1, <2>2, <3>1, <4>1, ReleaseStep
    <3>3. CASE r = route[s] /\ r # Idle
      <4>1. RouteReleased(r)
        BY <3>3 DEF ReleaseInv
      <4>2. RouteReleased(r)'
        BY <1>2, <3>1, <4>1 DEF RouteReleased
      <4> QED BY <1>1, <2>1, <2>2, <3>1, <4>2, ReleaseStep
    <3> QED BY <3>1, <3>2, <3>3
  <2> QED BY <1>4, <2>4, <2>5, <2>6, <2>7, <2>8, <2>9 DEF ContinueRoute
<1>5. CASE FulfilmentNext
  BY <1>0, <1>4, <1>5 DEF FulfilmentNext
<1> QED BY <1>3, <1>5

LEMMA ReleaseInit == FulfilmentInit => ReleaseInv
<1> SUFFICES ASSUME FulfilmentInit PROVE ReleaseInv
  OBVIOUS
<1>1. FulfilmentTypeInv /\ IInv
  BY FulfilmentTypeInit, InvariantInductive DEF FulfilmentInit
<1> QED BY <1>1 DEF FulfilmentInit, ReleaseInv, JobWasReleased, AbsentJob

\* Until a restart, whatever routes run at once, every job has the dispatch
\* request of its order behind it.
THEOREM JobsWereReleased ==
    ASSUME MaxRestarts = 0
    PROVE  FulfilmentSpec => []JobWasReleased
<1>1. ReleaseInv /\ [FulfilmentNext]_fulfilmentVars => ReleaseInv'
  BY ReleasePreserved
<1>2. ReleaseInv => JobWasReleased
  BY DEF ReleaseInv
<1> QED BY <1>1, <1>2, ReleaseInit, PTL DEF FulfilmentSpec

=============================================================================
