------------------------- MODULE CourierFulfilment -------------------------
(***************************************************************************)
(* Orders and courier jobs together: CourierJobService, and the routes of  *)
(* server.ts that call it and then OrderService within one request.        *)
(*                                                                         *)
(* A job is a second record of the same delivery, with the order's id.     *)
(* Every courier route first creates the missing jobs of the orders it     *)
(* lists as DISPATCH_PENDING, then reads and saves the job, then calls the *)
(* order service, whose silent refusal the route does not notice.  Each    *)
(* of these is an await: the state of a route between two of them is       *)
(* route[s], and once it calls the order service the request continues as  *)
(* req[s] of OrderOrchestration.  A restart of core-api forgets every      *)
(* request and keeps the stored records.                                   *)
(***************************************************************************)
EXTENDS OrderOrchestration

CONSTANTS
    DispatchClient,  \* createServer was given a dispatchAssignmentClient
    MaxRestarts      \* bound on the restarts of core-api

VARIABLES
    jobs,     \* CourierJobRepository: job id, which is the order id -> job
    route,    \* slot -> what its route still has to do, or Idle
    restarts

fulfilmentVars == <<orders, req, events, timeline, jobs, route, restarts>>

\* "ABSENT" says that findById returns null.
JobStatus == {"ABSENT", "AVAILABLE", "ACCEPTED", "PICKED_UP", "DROPPED_OFF"}
Job == [status : JobStatus, courierId : Couriers \cup {Null}]
AbsentJob == [status |-> "ABSENT", courierId |-> Null]

\* A route in progress.  "left" are the listed orders whose job is not yet
\* looked up, "missing" the one whose lookup found no job.
Route == [op      : {"list", "accept", "pickup", "dropoff", "dispatch"},
          phase   : {"sync", "save", "assign", "order"},
          order   : Orders \cup {Null},
          courier : Couriers \cup {Null},
          left    : SUBSET Orders,
          missing : Orders \cup {Null}]

ASSUME FulfilmentAssumption ==
    /\ DispatchClient \in BOOLEAN /\ MaxRestarts \in Nat
    /\ Null \notin Orders /\ Idle \notin Route

FulfilmentInit ==
    /\ Init
    /\ jobs = [o \in Orders |-> AbsentJob]
    /\ route = [s \in Slots |-> Idle]
    /\ restarts = 0

Free(s) == req[s] = Idle /\ route[s] = Idle

\* The rest of a handler that only calls the order service.
OrderOnly == UNCHANGED <<jobs, route, restarts>>
RouteOnly == UNCHANGED <<vars, restarts>>

Answer(s) == route' = [route EXCEPT ![s] = Idle]

-----------------------------------------------------------------------------
(* syncDispatchPendingOrders, which every courier route awaits first. *)

\* Mutant of PendingOrders: orders count as pending once the merchant accepted.
AcceptedOrPendingOrders ==
    {o \in Orders : orders[o].status \in {"MERCHANT_ACCEPTED", "DISPATCH_PENDING"}}

PendingOrders == {o \in Orders : orders[o].status = "DISPATCH_PENDING"}

StartRoute(s, op, o, c) ==
    /\ Free(s)
    /\ route' = [route EXCEPT ![s] = [op |-> op, phase |-> "sync", order |-> o, courier |-> c,
                                      left |-> PendingOrders, missing |-> Null]]
    /\ RouteOnly /\ UNCHANGED jobs

InRoute(s, phase) == route[s] # Idle /\ route[s].phase = phase

SyncFindJob(s, o) ==
    /\ InRoute(s, "sync")
    /\ route[s].missing = Null
    /\ o \in route[s].left
    /\ route' = [route EXCEPT ![s].left = @ \ {o},
                              ![s].missing = IF jobs[o].status = "ABSENT" THEN o ELSE Null]
    /\ RouteOnly /\ UNCHANGED jobs

SyncSaveJob(s) ==
    /\ InRoute(s, "sync")
    /\ route[s].missing # Null
    /\ jobs' = [jobs EXCEPT ![route[s].missing] = [status |-> "AVAILABLE", courierId |-> Null]]
    /\ route' = [route EXCEPT ![s].missing = Null]
    /\ RouteOnly

Synced(s, op) ==
    /\ InRoute(s, "sync")
    /\ route[s].op = op
    /\ route[s].left = {}
    /\ route[s].missing = Null

-----------------------------------------------------------------------------
(* The job service: read the job, then save it. *)

\* listAvailableJobs, listJobs and getJob only read once they have synced.
ListJobs(s) == Synced(s, "list") /\ Answer(s) /\ RouteOnly /\ UNCHANGED jobs

\* Mutant of DecideJob: the route ignores the job service's refusal.
DecideAndGoOn(s, op, holder, from, to) ==
    LET job == jobs[route[s].order]
        allowed == job.status = from /\ job.courierId = holder
    IN /\ Synced(s, op)
       /\ route' = [route EXCEPT ![s].phase = IF allowed THEN "save" ELSE "order"]
       /\ RouteOnly /\ UNCHANGED jobs

\* The job is in the state the step starts from and is to be saved; or the
\* same courier took the step before, and the route goes on to the order; or
\* the job is missing or in conflict, and the route answers 404 or 409.
DecideJob(s, op, holder, from, to) ==
    LET job == jobs[route[s].order]
        done == job.status = to /\ job.courierId = route[s].courier
        allowed == job.status = from /\ job.courierId = holder
    IN /\ Synced(s, op)
       /\ IF done \/ allowed
          THEN route' = [route EXCEPT ![s].phase = IF done THEN "order" ELSE "save"]
          ELSE Answer(s)
       /\ RouteOnly /\ UNCHANGED jobs

AcceptJob(s) == DecideJob(s, "accept", Null, "AVAILABLE", "ACCEPTED")

\* Mutant of PickupJob: any courier may pick up an accepted job.
PickupAnyJob(s) == DecideJob(s, "pickup", jobs[route[s].order].courierId, "ACCEPTED", "PICKED_UP")

PickupJob(s) == DecideJob(s, "pickup", route[s].courier, "ACCEPTED", "PICKED_UP")

DropoffJob(s) == DecideJob(s, "dropoff", route[s].courier, "PICKED_UP", "DROPPED_OFF")

\* Mutant of SavedStatus: a dropped-off job takes the order's status.
SavedOrderStatus == [accept |-> "ACCEPTED", pickup |-> "PICKED_UP", dropoff |-> "DELIVERED"]

SavedStatus == [accept |-> "ACCEPTED", pickup |-> "PICKED_UP", dropoff |-> "DROPPED_OFF"]

SaveJob(s) ==
    /\ InRoute(s, "save")
    /\ jobs' = [jobs EXCEPT ![route[s].order] = [status |-> SavedStatus[route[s].op],
                                                  courierId |-> route[s].courier]]
    /\ route' = [route EXCEPT ![s].phase = "order"]
    /\ RouteOnly

-----------------------------------------------------------------------------
(* The order service, called by the routes. *)

OrderGuard(op, o, c) ==
    CASE op = "pickup"  -> orders[o].status = "COURIER_ASSIGNED" /\ orders[o].courierId = c
      [] op = "dropoff" -> orders[o].status = "PICKED_UP" /\ orders[o].courierId = c
      [] OTHER          -> orders[o].status = "DISPATCH_PENDING"

OrderCall(s, op, o, c) ==
    \/ op \in {"accept", "dispatch"} /\ AssignCourier(s, o, c)
    \/ op = "pickup" /\ MarkPickedUp(s, o, c)
    \/ op = "dropoff" /\ MarkDelivered(s, o, c)

\* Mutant of CallOrderService: the route answers and forgets the order.
AnswerWithoutOrder(s) ==
    /\ InRoute(s, "order")
    /\ Answer(s)
    /\ RouteOnly /\ UNCHANGED jobs

\* The order moves with the job, or the service returns the order as it is;
\* the route answers 200 with the job either way.
CallOrderService(s) ==
    LET r == route[s] IN
    /\ InRoute(s, "order")
    /\ \/ OrderCall(s, r.op, r.order, r.courier)
       \/ ~OrderGuard(r.op, r.order, r.courier) /\ UNCHANGED vars
    /\ Answer(s)
    /\ UNCHANGED <<jobs, restarts>>

\* POST /orders/{id}/dispatch-request, with candidates in its body when the
\* server has a dispatch client: then the assignment is asked for once the
\* order is pending, after this call or since an earlier one.
DispatchRequest(s, o) ==
    /\ Free(s)
    /\ \/ RequestDispatch(s, o)
       \/ orders[o].status = "DISPATCH_PENDING" /\ DispatchClient /\ UNCHANGED vars
    /\ route' = [route EXCEPT ![s] =
                    IF DispatchClient
                    THEN [op |-> "dispatch", phase |-> "assign", order |-> o, courier |-> Null,
                          left |-> {}, missing |-> Null]
                    ELSE Idle]
    /\ UNCHANGED <<jobs, restarts>>

\* The client answers with a courier; with no courier, or with an error, the
\* route has nothing more to change.
Assigned(s) ==
    /\ InRoute(s, "assign")
    /\ req[s] = Idle
    /\ \/ \E c \in Couriers : route' = [route EXCEPT ![s].phase = "order", ![s].courier = c]
       \/ Answer(s)
    /\ RouteOnly /\ UNCHANGED jobs

\* The routes that call the order service and nothing else.
OrderRoute(s, o) ==
    /\ Free(s)
    /\ \/ \E k \in Checkouts : CreateOrder(s, o, k)
       \/ MerchantAcceptOrder(s, o)
       \/ HandleMerchantDecisionTimeout(s, o)
       \/ \E a \in Actors : RequestCancellation(s, o, a)
    /\ OrderOnly

\* Events whose flush the bus may not have finished.
JustPublished ==
    {req[s].event : s \in {t \in Slots : InPhase(t, "project")}} \cup
    {CancelRequested(req[s].event) : s \in {t \in Slots : InPhase(t, "requested")}}

\* The process ends and starts again: requests are gone, the document store
\* is not.  The restarted server reads the event log back from the outbox,
\* which may lack an event whose flush the restart cut off.
Restart ==
    /\ restarts < MaxRestarts
    /\ restarts' = restarts + 1
    /\ req' = [s \in Slots |-> Idle]
    /\ route' = [s \in Slots |-> Idle]
    /\ \E lost \in SUBSET (JustPublished \ timeline) : events' = events \ lost
    /\ UNCHANGED <<orders, timeline, jobs>>

-----------------------------------------------------------------------------

StartCourierRoute(s) ==
    \/ StartRoute(s, "list", Null, Null)
    \/ \E op \in {"accept", "pickup", "dropoff"}, o \in Orders, c \in Couriers :
           StartRoute(s, op, o, c)

ContinueRoute(s) ==
    \/ \E o \in Orders : SyncFindJob(s, o)
    \/ SyncSaveJob(s) \/ ListJobs(s)
    \/ AcceptJob(s) \/ PickupJob(s) \/ DropoffJob(s) \/ SaveJob(s)
    \/ CallOrderService(s) \/ Assigned(s)
    \/ Continue(s) /\ OrderOnly

FulfilmentNext ==
    \/ \E s \in Slots : \/ \E o \in Orders : OrderRoute(s, o) \/ DispatchRequest(s, o)
                        \/ StartCourierRoute(s)
                        \/ ContinueRoute(s)
    \/ Restart

FulfilmentSpec == FulfilmentInit /\ [][FulfilmentNext]_fulfilmentVars

\* As in OrderOrchestration: an accepted request runs on, arrivals are free.
FulfilmentFairSpec ==
    FulfilmentSpec /\ \A s \in Slots : WF_fulfilmentVars(ContinueRoute(s))

-----------------------------------------------------------------------------

FulfilmentTypeOK ==
    /\ TypeOK
    /\ jobs \in [Orders -> Job]
    /\ route \in [Slots -> Route \cup {Idle}]
    /\ restarts \in 0..MaxRestarts

\* The order is never ahead of its job: it is picked up or delivered only by
\* the courier whose job says so.  The order of the two saves makes this
\* survive a restart between them, when requests are served one at a time.
JobLeadsOrder ==
    \A o \in Orders :
        LET order == orders[o]  job == jobs[o] IN
        /\ order.status = "PICKED_UP" =>
               job.courierId = order.courierId /\ job.status \in {"PICKED_UP", "DROPPED_OFF"}
        /\ order.status = "DELIVERED" =>
               job.courierId = order.courierId /\ job.status = "DROPPED_OFF"

\* "One active assignment at a time per order": the order and its job do not
\* name two couriers.
OneActiveAssignment ==
    \A o \in Orders :
        jobs[o].courierId # Null /\ orders[o].courierId # Null
            => jobs[o].courierId = orders[o].courierId

\* Couriers are only ever shown orders that were released to dispatch: however
\* routes interleave, and also after the order was cancelled, a job has the
\* dispatch request of its order behind it.
JobWasReleased ==
    \A o \in Orders : jobs[o].status # "ABSENT" =>
        Announcing(EventOf(o, "dispatch.assignment.requested.v1", Null))

JobOfOrder == [st \in Status |->
    CASE st = "COURIER_ASSIGNED" -> {"ACCEPTED"}
      [] st = "PICKED_UP" -> {"PICKED_UP"}
      [] st = "DELIVERED" -> {"DROPPED_OFF"}
      [] st = "CANCELLED" -> JobStatus
      [] st = "DISPATCH_PENDING" -> {"ABSENT", "AVAILABLE"}
      [] OTHER -> {"ABSENT"}]

\* Between requests, until a restart cuts one of them off, order and job tell
\* the same story, except that a cancelled order leaves its job as it was.
AgreeBetweenRequests ==
    restarts = 0 /\ (\A s \in Slots : Free(s)) =>
        \A o \in Orders : jobs[o].status \in JobOfOrder[orders[o].status]

\* A job once accepted stays with its courier.
JobHolderKept ==
    [][\A o \in Orders : jobs[o].courierId # Null => jobs'[o].courierId = jobs[o].courierId]_jobs

\* A dropped-off job ends in a delivered order, or the order was cancelled,
\* unless a restart cuts the route off between the two records.
DropoffDelivers ==
    \A o \in Orders :
        jobs[o].status = "DROPPED_OFF" ~>
            orders[o].status \in {"DELIVERED", "CANCELLED"} \/ restarts > 0
=============================================================================
