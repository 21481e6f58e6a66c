# FleetFeast in TLA+

FleetFeast is a food-delivery platform: a TypeScript modular monolith
(`core-api`), BFFs and a realtime gateway in front of it, a dispatch engine in
Go, web and mobile clients. This directory models its services and the way a
request, an event and an order take through them, checks them with TLC on small
instances, and proves with TLAPS every safety property that the passing runs check
but three, which are about finite tables of routes. The theorems hold for every
value of the constants, some for one request at a time (section 6).

Paths below are relative to `src/`; *modules* stands for
`core-api/src/modules` and *repositories* for
`core-api/src/platform/persistence/repositories`.

## 1. The system

### Where the concurrency is

core-api is one Node process. Between two `await`s a handler is atomic; at an
`await`, any other request may run. Every repository call is an `await` over
`DocumentStore` (`core-api/src/platform/persistence/document-store.ts`), whose
`put` replaces one whole document. There are no transactions, no locks and no
compare-and-set, so "read, check, await, save" is the shape of nearly every
handler, and most hazards in `PROJECT.json` are a form of it. A restart loses
what the process holds (requests in flight, in-memory maps) and keeps the
documents.

The BFFs and the realtime gateway are Node processes of their own whose state is
in memory; their handlers change it between awaits. The dispatch engine is a
stateless computation and an in-memory tracker. The courier app has a queue in a
file of its own.

### Components

| part | state | correct when | modelled in |
|---|---|---|---|
| Order orchestration (`modules/order-orchestration/order-service.ts`) | orders | records never mix two handlers, announced steps have their causes, the lifecycle is followed, one terminal state is reached | `OrderLifecycle`, `OrderOrchestration` |
| Order timeline (`order-timeline-service.ts`) | entries per order | it follows the log, and a rebuild loses nothing | `OrderOrchestration`, `EventOutbox` |
| Courier jobs (`modules/dispatch/courier-job-service.ts`) | a job per order | jobs exist for released orders only, keep their courier, lead the order | `CourierFulfilment` |
| Payments (`modules/payments`) | intents, refunds, audit records, a key map in memory | money is captured for accepted orders only, refunds are backed, nothing is published twice, everything is audited | `Payments` |
| Request handler (`core-api/src/server.ts`) | none | every request takes its own route and is answered for what it is | `HttpApi`, `HttpValidation`; the courier and dispatch routes in `CourierFulfilment` |
| Event bus, outbox and broker (`platform/events`, `platform/broker`) | the log, its stored copy, subscribers | every event is stored, sent and projected, once | `EventOutbox` |
| Realtime relay and gateway (`platform/realtime`, `app-services/realtime-gateway`, `realtime-feed.tsx`) | channels, sockets, push registrations | a published envelope reaches who listens, and push covers the rest | `EventOutbox`, `RealtimeGateway` |
| Notifications (`modules/notifications`) | queue, attempts, dead letters, receipts, templates | one notification per key, retries that end | `Notifications` |
| Settlement (`modules/settlement`) | batches, imports, reconciliations, journals, statements | a run settles once, exceptions explain variances, journals balance | `Settlement` |
| Support (`modules/support`) | tickets, escalations, interventions | every breached ticket is escalated, once | `Support` |
| Risk and compliance (`modules/risk-compliance`) | hash chain, reviews, rules | the chain verifies, a review is decided once, a rule survives a restart | `Compliance` |
| Identity and sessions (`modules/identity`) | users, sessions, refresh families | e-mails are unique, a replay kills its family | `Sessions` |
| App sessions (`packages/app-auth`, `auth-session-manager.ts`) | sessions in the BFF, one session in the app | an app stays signed in unless there is a reason | `AppSessions` |
| BFF routes (`app-services/*-bff`) | none | what they let through core-api takes | `BffApi` |
| Consumer ordering, pricing, catalog (`modules/consumer-ordering`, `pricing-promotions`, `merchant-catalog`) | menus, opening hours, availability, delivery zones, baskets, quotes, checkouts | an order costs what its basket was quoted, a store is shown as it is found | `Storefront`, `DeliveryZones` |
| Dispatch engine and telemetry (`dispatch-engine`, `courier-telemetry-service.ts`) | last observation per courier | the best courier is chosen, the newest observation kept | `DispatchEngine` |
| Mobile offline queue (`apps/mobile/shared-kmp`) | actions in a file | nothing done offline is lost or sent out of order | `OfflineQueue` |

Observability, the geo abstraction, the shared contracts and the user interfaces
have no control worth a property. `PROJECT.json` lists each part with its status
and every hazard at its line.

### How they interact

    app -> BFF (session, checks) -> core-api route (steps, checks, authorization)
    route -> CourierJobService -> job documents
         \-> OrderService      -> order documents -> event bus -> timeline
         \-> dispatch client   -> dispatch engine (a courier, none, or an error)
         \-> PaymentService    -> reads orders; intents, refunds, audit records
         \-> the other services, each over its own documents
    event bus -> outbox -> broker
             \-> realtime relay -> gateway -> sockets, or push
    support intervention -> OrderService, PaymentService

## 2. The modules

| module | stands for |
|---|---|
| `OrderLifecycle` | the abstract specification: the status and courier of each order, and the transitions the guards of `OrderService` allow |
| `OrderOrchestration` | `OrderService` as its pieces between awaits |
| `CourierFulfilment` | the courier and dispatch routes, `CourierJobService`, restarts; extends `OrderOrchestration` |
| `Payments` | `PaymentService`, beside orders that move as in `OrderLifecycle` |
| `Handlers` | what the services below have in common: handlers in slots, awaits, restarts |
| `Notifications`, `Settlement`, `Support`, `Compliance` | the back office |
| `EventOutbox`, `RealtimeGateway` | events on their way |
| `Sessions`, `AppSessions` | identities and sessions of core-api, and those of BFFs and apps |
| `HttpValidation`, `HttpApi`, `BffApi` | payload checks, the routes of core-api, the routes of the BFFs over them |
| `Storefront`, `DeliveryZones` | catalog to order |
| `DispatchEngine`, `OfflineQueue` | the engine and telemetry, the courier app's queue |
| `MC*` | instances for TLC: symmetry sets and, where services are checked together, their composition |
| `*Proofs` | the theorems: one module each for orders, jobs and payments; `BackOfficeProofs` over `MCBackOffice`, `EventsProofs` over `MCEvents`, and `FrontDoorProofs` (core-api's identities and sessions), `AppProofs` (sessions of BFFs and apps, the queue) and `ServiceProofs` (catalog, dispatch) over `MCFrontDoor` |

**OrderOrchestration.** `orders` is the repository, `req[s]` what slot `s` has
decided and not finished: the record it will save and the event it will then
publish. All handlers share their awaits, so `MerchantAcceptOrder`,
`RequestDispatch` and the others are the first piece (read, guard, build the
record) and `Save`, `Publish`, `ProjectEvent` the rest; `RequestCancellation`
additionally publishes and projects `order.cancel_requested.v1` *before* it
saves. `Save` writes the whole record built from the earlier read, which is what
makes lost updates possible. A refusal changes nothing and is the step the
guard forbids.

**CourierFulfilment.** `route[s]` is a route up to its call of the order
service; from there the request goes on as `req[s]`. `StartRoute` lists the
pending orders; `SyncFindJob` and `SyncSaveJob` are the awaits of
`syncDispatchPendingOrders`, order by order; `DecideJob` reads the job and
decides to save it, to go on (a repetition by the same courier) or to answer 404
or 409; `SaveJob`; `CallOrderService`, whose silent refusal the route does not
notice. `DispatchRequest` and `Assigned` are the dispatch-request route with the
client's answer. `Restart` forgets `req` and `route` and cuts events off the log
whose flush to the outbox may not have finished.

**Payments.** `call[s]` is a handler in flight: `CapturePayment` looks at the
key map, `CaptureReadsIntent` and `CaptureReadsOrder` are its two reads,
`SaveRecord`, `PublishEvent` (which first remembers the key) and
`AppendAuditRecord` the rest, shared by all handlers. `ConfirmCashCollection`
of a differing amount publishes and audits a second time. `published` and
`accepted` are history variables.

**Handlers, and the modules that extend it.** A handler in flight is a record in
`call[s]`: the phase that says where it awaits, its subject, and what it read so
far. `Begin`, `Await`, `Continue` and `Answer` are its steps, `Restart` ends all
of them. `overlapped` is history: the subjects (a key, a ticket, a family) on
which two handlers ever ran at once. It lets a property say exactly what the
code does promise: that something happens once *unless* two handlers overlapped.
The records a handler may be (`SettlementCall`, `ComplianceCall`, `OutboxCall`,
`RegisterCall`, `SessionCall`) are defined beside the variables, each kind with
the fields its pieces read.

Services that share no state are composed by one MC module: `part`, chosen in
the initial state, says which of them the behaviour is about, so their state
spaces add up instead of multiplying. `MCBackOffice` composes the back office
so, `MCEvents` four configurations of the bus and the gateway, `MCFrontDoor` what
apps reach. Services that do share state (jobs and orders, bus and timeline and
relay, BFF routes and core-api routes, basket and quote and checkout and order)
are modelled together.

**Back office.** `Notifications`: a fanout looks its keys up and saves, item by
item, across awaits; a failed delivery is retried at most three times with
back-off and then a dead letter. `Settlement`: `BatchFinds`, `BatchSaves` and
`BatchPublishes` are the pieces of a scheduled run, imports likewise, `Reconcile`
keeps what `ReconciliationOf` computes of two lists of records (cases and totals),
`PostJournal` refuses what does not balance. `Support`: an evaluation lists the breached tickets once and then
awaits at each; an intervention calls the order and payment services, whose
answers are inputs. `Compliance`: `AuditReadsLatest` and the append; `VerifyChain`
recomputes the chain over what the store gives back, which with a JSONB column
may have other key orders; a rule changes in memory first and is stored after, and
`RulePut` may fail: the memory then keeps a rule the store does not have, which the
history variable `unstored` remembers of its action until the restart. In the same
way `ImportSaves` may fail and leave a reconciliation without its import
(`failedSaves` counts that, up to the bound `MaxFailedSaves`), and `AuditAppends`
without changing anything.

**Events.** `Publish` appends to the log, starts the relay and a task;
`PutInOutbox`, `SendToBroker` and the projection follow; `Hydrate` reads the outbox
of a starting server and gives its events to the relay once more. A rebuild
goes over the live log entry by entry. `RealtimeGateway` keeps the sets of
sockets by channel with sockets that may be dead before they close, chooses
between sockets and push, and models the client's feed.

**Requests.** `HttpValidation` has classes of JSON values instead of values:
`Fails(check)` says what a route's validator does with a request that has one
deviating field. `HttpApi` gives, for each of core-api's routes, its pattern, its
steps in their order (decode the path, authorize, parse the body, validate) and
its checks; `StatusOf` is the catch block. `BffApi` does the same for the three
BFFs, with the list of calls a route makes: each call must find its route in
`HttpApi` and pass its checks there.

**Sessions, AppSessions.** `MarkUsed` and `RevokeFamily` of core-api read and
write back whole records, so each is two steps. In the BFFs a refresh is one
step on memory; the wire between app and BFF loses requests and answers, and an
app may ask twice at once. `TakesAnswer` is the session manager's replacement of
its session by whatever arrives.

**Storefront.** `Quote` computes subtotal, tax, fees and discount in cents, with
the code's rounding; a checkout compares the quote's hash, an order reads the
checkout. `WithinHours` is the evaluation of opening hours, across midnight too, and
in UTC: the code stores a schedule's timezone and does not use it
(`store-status-service.ts:54`). `EvaluateOrderability` is an answer to who asks, the
discovery of stores and the status route; nothing between basket and order does.
`Discovered` and `Viewed` are the two ways the code picks the menu of a store: a
fold over the list and a stable sort.

**DeliveryZones.** Zones are boxes in a list whose order depends on the store;
`validatePoint` takes the first that holds a point, or the three nearest. A zone
stored again keeps its place or is `MovedToEnd`. The stable sort by distance is
`RankOf`: how many zones it puts before a zone; the zones of ranks 0, 1 and 2 are
offered. What is compared is the distance rounded to six decimals
(`delivery-zone-service.ts:32`): `Grains` gives the number of grains it is rounded
to, by comparing squares, and zones of equal numbers keep their order in the list. `Grain`
is one such decimal in the units of the coordinates. The square root and the sums
are exact in the model and doubles in the code, with errors of about 10^-14 of a
degree; only a distance that close to a half grain could be rounded otherwise.

**DispatchEngine.** `ScoreCandidates`, `Assign` (with its escalation) and
`Reassign` are operators on
integers, numbers that come over an int32
wire, and `Ingest` of an observation. In the code a score is a sum of doubles
(`engine.go:209`), and not always the exact one: 4945 m, three orders and a pressure
of 0.03 make 14.999... where 15 is exact, and the minimum. With pressures in whole
percent an exact score is a whole number of hundredths, and the computed one is off by
far less. `Errors` gives every error a request's scores may have: a third of a
hundredth up or down, or none, the same for the same numbers, and none where all
terms are quarters, which doubles hold exactly (`ExactScore`). That
decides what the error can decide in the code, two equal scores and one at the
minimum, and nothing else. `BestCourierAssigned` is the reference: what
the assignment must be, without scores.

**OfflineQueue.** Enqueue, lease, complete and exception handling as the app
calls them; each save empties the file and then writes it, and the app can be
killed before, between and after.

**Abstractions.** Timestamps, addresses, texts and reason codes are left out
where no property is about them. In the order modules events are compared by type,
order and the courier or canceller in them, so a repeated identical event is one
element of `events`; the timeline key (order, time, type) is taken to be unique.
All payment methods but CASH take the same path and are one, CARD. An id that
`randomUUID` hands out is a value nobody uses. A hash is the record it digests.
In `Payments` orders change in one step: the overwritten orders of section 5 are
outside its environment. The `payment.audit_recorded.v1` published after each audit
record (`payment-service.ts:434`) is left out, because no service handles it. A call of the store that
is rejected ends its handler, as a restart ends all of them. It is modelled for rules,
imports and audit events; elsewhere the store answers, and what a rejected call would
leave in the documents is what a restart between the same two steps leaves. A property that
leaves restarts out leaves rejected calls out as well. Roundings in `Storefront` are exact, where JavaScript's
numbers could differ at an exact half. A request deviates from a valid one in one
field at most.

## 3. Fairness

Requests arrive when clients choose, so no action that starts a handler is fair.
A request that was accepted runs on: the event loop resumes a handler whose
awaited call answered, and nothing in the code waits for another request. That is
`WF(Continue(s))` for each slot of orders and payments and `WF(ContinueRoute(s))`
for routes; `WF(SlaContinues(s))` for an SLA evaluation; and for the bus weak
fairness of `Hydrate`, of each event's task and relay, and of each handler. The
store, the broker, the payment provider and the dispatch client are taken to
answer or to fail, `fetch` to settle or to time out. Restarts are bounded, and
nothing is assumed about when they happen. The gateway, the front door and the
app's queue are checked for safety only: nothing makes a client ask again.

All runs switch the deadlock check off: ids and bounds are used up, and a server
that nobody calls rests.

## 4. What the passing runs check

| run | instance | properties |
|---|---|---|
| `OrderRaces` | 1 order, 2 couriers, consumer and support, 2 slots, fair | `TypeOK`, `RecordConsistent`, `Auditable`, `TimelineCaughtUp`, `EventuallyOnTimeline` |
| `FulfilmentSerial` | 2 orders, 2 couriers, 1 slot, dispatch client, 1 restart | `FulfilmentTypeOK`, `JobLeadsOrder`, `JobHolderKept`, `ImplementsLifecycle` |
| `FulfilmentFair` | 2 orders, 2 couriers, 1 slot, no dispatch client, 1 restart, fair | `OneActiveAssignment`, `AgreeBetweenRequests`, `DropoffDelivers` |
| `FulfilmentRaces` | 1 order, 2 couriers, 2 slots, dispatch client | `JobWasReleased` |
| `PaymentRaces` | 1 order, intent, refund and key, amounts 1 and 2, 2 slots, fair | `TypeOK`, `CapturedAfterAcceptance`, `RefundsBacked`, `KeyMeansCaptured`, `Audited`, `CaptureEventuallyAudited` |
| `PaymentRestart` | 2 intents, 2 keys, 1 refund, 1 slot, 1 restart | `PublishedOnce` |
| `BackOffice` | 12 parts, 2 slots, 1 restart, fair | `BackOfficeTypeOK`, `OnceUnlessOverlapped`, `ReconciliationExplained`, `ChainVerifies`, `PolicySurvivesRestart`, `BreachEscalated` |
| `Events` | 4 parts, 3 events, 2 slots, 1 restart, 2 sockets, fair | `EventsTypeOK`, `BrokerFollowsOutbox`, `TimelineRebuilt`, `PublicationsReach`, `EventuallyEverywhere` |
| `FrontDoor` | 12 parts, 2 slots, 1 restart, 2 requests under way | `IdentitiesUnique`, `FamiliesDie`, `AppSessionUsable`, `HttpAnswers`, `RoutesReachable`, `BffCallsAccepted`, `StorefrontTrue`, `DispatchSound`, `QueueKeepsItsWord` |

Orders, jobs and payments:

- `RecordConsistent`: although each save overwrites the record, no race leaves
  one that mixes two handlers. It holds because every handler writes all the
  fields it decided on from one read.
- `Auditable`: every stored status and every announced event has the chain of
  events behind it that the log must show, with the same courier or actor.
- `TimelineCaughtUp`, `EventuallyOnTimeline`: the timeline is the log up to the
  handlers in flight, and misses nothing in the end.
- `JobLeadsOrder`, `JobHolderKept`: with one request at a time the order of the
  two saves keeps the job ahead of the order even when a restart separates them,
  and a job never changes hands. With two slots TLC refutes both: overlapping
  accepts and syncs overwrite each other's jobs. The runs say what the code
  promises, and the one slot is part of the claim.
- `ImplementsLifecycle`: with one slot, every save is a transition of
  `OrderLifecycle`. With two it is not, as `OrderTerminal` shows.
- `OneActiveAssignment`, `AgreeBetweenRequests`, `DropoffDelivers`: without the
  dispatch client order and job name one courier and tell one story between
  requests, and a dropoff delivers. The last two hold up to a restart between
  the two saves, and their definitions say so.
- `JobWasReleased`: however routes race, and although a cancelled order may
  still get a job, no order that was never released has one.
- `CapturedAfterAcceptance`, `RefundsBacked`, `KeyMeansCaptured`, `Audited`,
  `CaptureEventuallyAudited`: what holds of money and trail with overlapping
  handlers, the last two without restarts.
- `PublishedOnce`: one handler at a time, a restart that empties the key map
  causes no second publication of a capture or a refund, because the stored
  status is checked as well.

Back office:

- `OnceUnlessOverlapped`: a notification per key, a batch and an import per run,
  an escalation per ticket, a decision per review: none happens twice unless two
  handlers worked on that subject at once, whatever a restart cut off. A run may have
  one reconciliation more for every restart and every failed save of its import.
- `ReconciliationExplained`: the exception cases add up to the difference of the
  totals within the tolerance, for lists with missing and repeated entities.
- `ChainVerifies`: the audit chain verifies unless two appends overlapped or the
  store reordered keys; even a forked chain names an earlier event.
- `PolicySurvivesRestart`: decisions are monotone in the amount, always; and they are
  those a restarted process takes, with two exceptions. One is while a rule of the
  action is being stored. The other is a rule whose storing failed when
  the store has none for its action (section 5): where the store has another, that one
  decides.
- `BreachEscalated`: a listed breach is escalated unless the process restarts.

Events:

- `BrokerFollowsOutbox`: the stream has an event at most once and only if stored;
  one that is missing is on its way or was cut off by the end of the process.
- `TimelineRebuilt`: a finished rebuild has projected all it went through; entries
  are not repeated, and are stored events, unless it ran beside a publisher.
- `PublicationsReach`: a channel hears an event after the one before it, and again
  only after a restart; the gateway's sets list exactly the sockets not closed,
  every socket that listens gets each envelope in order, push covers the rest.
- `EventuallyEverywhere`: unless the process ends, what was published is stored,
  sent and projected, also when it was published before hydration.

Front door:

- `IdentitiesUnique`, `FamiliesDie`: no two users share an e-mail or phone, and a
  used refresh token stays dead however whole-record writes fall, unless
  registrations, or refreshes of one family, overlapped.
- `AppSessionUsable`: an app with nothing on its way can refresh, unless its session
  expired or was forgotten, an answer was lost, or it asked twice at once.
- `HttpAnswers`: what a client left out or mistyped is never an internal error
  (two exceptions, section 5), and nothing invalid or unauthorized reaches a
  service.
- `RoutesReachable`: no route hides a later one, but `available` where a job id goes.
- `BffCallsAccepted`: what a BFF's checks let through passes core-api's (two
  exceptions, section 5).
- `StorefrontTrue`: menu versions stay as answered; the menu a store is discovered
  with is the one its page shows, also when two were updated in one millisecond;
  a store is reported orderable between both minutes of its hours, which may cross
  midnight (of orders this says nothing, see section 5); who is served nowhere is
  offered zones that serve, none farther than one passed over by more than the
  rounding of a distance; and an order's hash and total are those of a quote of its
  own basket.
- `DispatchSound`: the assignment is the best eligible courier by distance and load,
  if one is above the minimum, or at it with a score that doubles hold exactly,
  a reassignment never the one who gave the order back, an escalation as the
  attempt says; telemetry keeps the newest observation.
- `QueueKeepsItsWord`: an enqueued intent is there once, sent at most as often as
  the policy says and not before those ahead of it are settled; exceptions are a
  send that was cut off and a file torn by a kill.

**Bounds.** Two slots are enough for a race between a read and a save, the only
kind the store allows; a third handler adds another overwrite of the same kind,
and the proofs cover any number. Two orders matter where a sync walks over
several, two couriers where one may take the other's job, two amounts where a
refund is smaller than or a collection differs from an intent. One restart
separates any two saves. In the back office, two entities of which either side may lack one
or list one twice (two records a side, `MaxRecords`), amounts 0, 2 and 3 with tolerances 0 and 1 (within, at and beyond it), two
tickets of issue types with different service levels, three audit events (a
fork needs two), rules and amounts just at and above a limit. Events: one with
a status and no courier, one with both, one without status; two sockets of one
room and two users, of whose senders one is configured. Front door: three
refresh tokens (a rotation, its replay and a successor), two requests of an app
under way, a price and a discount that need rounding, times of day at the ends of
opening and of the day, two menus of a store and a clock that may stand still, baskets of up to two lines
(`MaxLines`), four zones
(one more than is offered) and a `Grain` of which two different distances make
the same number, distances and loads below, at and above the engine's cut with pressures
that put one (4945 m, 3 orders, 3 percent) exactly at it,
an `Int32Limit` that one distance exceeds, two attempts and one kill. One failed save
of an import per run. `Many` (= 2,
"or more") bounds counts of publications. The cfg files name every other bound.
Where a run uses symmetry, it checks no liveness property.

`FrontDoor` is the largest run: 3.1 million distinct states, more than two minutes.

Each property is also broken by a mutant of the code it is about (a forgotten
early return, policy or comparison, a save without announcement, a check read
in the wrong order): these are the definitions marked "Mutant of" and belong to
no `Next`. A property that is a conjunction over services has a mutant in more
than one of them.

## 5. Where code and documents disagree

Each of these runs checks one property that a document states, and TLC
finds a behaviour of the code that violates it.

| run | what happens | what is said |
|---|---|---|
| `OrderTerminal` | a cancellation read the order before the pickup and saves after the delivery; both end states are announced | "Exactly one terminal state", `docs/requirements/functional-requirements-ddd.md:260` |
| `FulfilmentTwoCouriers` | the dispatch client assigns one courier while the job is on offer, another accepts the job | "One active assignment at a time per order", `functional-requirements-ddd.md:286` |
| `PaymentDoubleCapture` | two overlapping captures with one key are both published | "Captures and refunds are idempotent", `functional-requirements-ddd.md:312` |

Other deviations met while modelling. The models have them as the code does; no
run is about them alone, and where a property would fail it names the exception.

Orders and payments:

- `POST /orders` repeated with one checkout creates two orders; idempotency is
  "Required" (`docs/architecture/api-and-event-contracts-v1.md:168`). A repeated
  quick-create of the consumer BFF makes another order for the same reason.
- The job of a cancelled order is offered, accepted and worked on.
- Refunds are compared with the captured amount one by one, so several can exceed
  it together. An authorization takes the client's amount.
- A checkout reads neither the quote's age nor the basket again: a quote keeps its
  price after the basket changed (`functional-requirements-ddd.md:188`, `:198`,
  `:235`), and unavailable items are not looked at again (`:212`).

Requests:

- A JSON body `null` and a path id that does not decode are answered 500.
- Validators take non-integer amounts where the contract says integer minor units
  (`api-and-event-contracts-v1.md:109`).
- The ops BFF returns the promises of its exchange and refresh without awaiting
  them, so a rejected one is a 500 instead of a 401. It passes a dispatch payload on
  unchecked.
- The consumer BFF accepts modifier prices below zero; core-api does not, which
  ends a quick-create half-way, with a basket left behind.
- Two registrations at once can share an e-mail. A lost answer or two refreshes at
  once end an app's session, and so does a restart of a BFF.

Events:

- An event stored by a process that ended before sending it never reaches the
  broker: hydration replays to subscribers only.
- A rebuild beside a publisher can put an event on a durable timeline that is not
  stored yet, and an entry twice on a memory timeline.
- A socket whose peer is gone counts as listening and suppresses push; a push
  sender that is not configured drops silently.

Back office:

- A rule that `PersistentRiskPolicyRepository.upsertRule` could not store is in the
  memory already: its client is answered with an error, and if the store has no rule
  of the action, the process decides by it until the restart forgets it.
- An import whose save fails leaves its reconciliation in the store, and the next try
  makes another.

Catalog, dispatch, queue:

- An order of a paused or closed store goes through: only the discovery of stores and
  the status route call `evaluateOrderability`, `createCheckout`
  (`checkout-service.ts:37`) and `createOrder` (`order-service.ts:69`) do not.
  FR-MERCHANTCATALOG-002 says "Block order creation when store unavailable."
  (`functional-requirements-ddd.md:221`).
- Opening hours are taken as UTC whatever the schedule's timezone is, as a comment in
  `store-status-service.ts:54` says.
- Of zones whose distances differ by less than their rounding the first listed is
  offered first, and with more than three a nearer one may be passed over.
- A courier whose score is exactly the engine's minimum is refused or taken by
  the rounding of doubles, and among equals the higher id can win.
- Two overlapping menu updates lose one. A quote hash leaves out the items.
- A zone whose limits are the wrong way round is stored, never serves, and is offered
  as an alternative. In Postgres, which lists by the last update, storing a zone
  again can change which of two overlapping zones a point belongs to.
- The engine can refuse to assign when a candidate is listed twice, distances of
  2^31 and more wrap to negative on the wire and win, and with self-delivery
  under pressure support is queued without an escalation.
- A kill between emptying and writing the queue's file loses all actions. An action
  in flight when the app was killed, or whose dispatch threw, is never leased
  again, and later actions go past it.

## 6. What is proved

The theorems hold for all sets of orders, couriers, ids, keys, amounts, users,
events, sockets and the like, and any number of slots, unless the table says
otherwise; those about services composed by an MC module are theorems of the
composition, whatever `part` it is. They rest on the named assumptions of the
modules, which TLC evaluates on every run:

- `Null` and `Idle` stand for absence: neither is an order, an intent, a key, a
  rule, a user, a menu or its record, a basket, a message, an observation's time,
  or the record of a handler in flight. Couriers and those who cancel are different values; every
  actor has a cancellation policy.
- The slots are a finite set, and bounds are natural numbers.
- Amounts are positive numbers; the rules' amounts have a greatest one
  (`MAX_SAFE_INTEGER` in the code). Amounts to reconcile are integers, tolerances and
  unit prices natural numbers. The limits of zones are even, so that the middle of two
  is a number; points are natural numbers and the grain a positive one. Times of day are minutes of a day. Couriers of
  the engine are numbers above 0, which stands for the empty id that no route
  takes (`core-api/src/server.ts:918`).
- A retry policy allows at least one attempt (its default is 5, and every
  construction of it allows two or more).

| theorem | statement |
|---|---|
| `OrderOrchestrationProofs` | |
| `TypeCorrect`, `RecordsStayConsistent`, `OrdersAreAuditable`, `TimelineFollowsLog` | `Spec => []P` for `TypeOK`, `RecordConsistent`, `Auditable`, `TimelineCaughtUp` |
| `InvariantHolds` | the inductive invariant `IInv` of the above |
| `CourierFulfilmentProofs` | |
| `FulfilmentTypeCorrect` | `[]FulfilmentTypeOK`, restarts included |
| `SerialInvariantHolds`, `SerialJobLeadsOrder`, `SerialJobHolderKept`, `SerialImplementsLifecycle` | `SerialInv` and what follows from it, for `Slots = {s}`, restarts included |
| `AgreementHolds`, `SerialOneAssignment`, `SerialOrdersAgree` | `AgreementInv`, and from it `[]OneActiveAssignment` and `[]AgreeBetweenRequests`, for `Slots = {s}` without a dispatch client (the configuration of `FulfilmentFair`), restarts included |
| `RoutesImplementOrchestration` | `FulfilmentSpec => Spec` for `MaxRestarts = 0` |
| `JobsWereReleased` | `[]JobWasReleased` for `MaxRestarts = 0` |
| `PaymentsProofs` | |
| `TypeCorrect`, `CapturesFollowAcceptance`, `RefundsAreBacked`, `KeysStandForCaptures` | `Spec => []P` for the invariants of `PaymentRaces`, restarts included |
| `InvariantHolds` | the inductive invariant `IInv` of the above |
| `TransitionsAreAudited` | `[]Audited` for `MaxRestarts = 0` |
| `SerialServerPublishesOnce` | `[]PublishedOnce` for `Slots = {s}`, restarts included |
| `BackOfficeProofs` | |
| `AuditChainVerifies`, `PolicyDurable` | `Spec => []P` for `ChainVerifies`, `PolicySurvivesRestart` |
| `BackOfficeTypesKept`, `DifferencesExplained` | `[]BackOfficeTypeOK`, `[]ReconciliationExplained`, for lists of any length |
| `FanoutsNotifyOnce`, `RunsSettledOnce`, `TicketsEscalatedOnce`, `ReviewsDecidedOnce`, `BackOfficeOnce` | the four parts of `OnceUnlessOverlapped`, and it as a whole |
| `EventsProofs` | |
| `EventsInvariant` | the inductive invariant `EventsInv` of the following |
| `EventsTyped`, `BrokerFollows`, `TimelineKeepsTheLog`, `PublicationsReachAll` | `Spec => []P` for all invariants of `Events`: `EventsTypeOK`, `BrokerFollowsOutbox`, `TimelineRebuilt`, `PublicationsReach` |
| `FrontDoorProofs` | |
| `RegistrationsUnique` | `[]IdentitiesUnique` |
| `RefreshFamiliesAreKilled` | `[]RefreshFamiliesDie`: the part of `FamiliesDie` about core-api |
| `AppProofs` | |
| `AllFamiliesDie`, `SessionsStayUsable`, `QueueKeepsWhatItTook` | `Spec => []P` for `FamiliesDie`, `AppSessionUsable`, `QueueKeepsItsWord` |
| `ServiceProofs` | |
| `DispatchIsSound` | `[]DispatchSound` |
| `StorefrontIsTrue` | `[]StorefrontTrue`: menus, hours, browsing, zones and prices |
| `VersionsAreKept`, `StoresOpenInHours` | `[]VersionsKept` and `[]OpenInHours`: two parts of it |

**Orders.** `RecordConsistent` and `Auditable` are not inductive: a save stores
what was decided earlier. `IInv` adds `DecisionsOK` (the decided record is
consistent, its event announces that record, and the causes of the event are
announced already) and `CreationAnnounced` (an order's creation is announced
before anything else about it). The invariant never says that a decided
record still fits the stored one, which is why it survives every overwrite: what
is announced stays announced (`AnnouncingPersists`).

**Fulfilment, one request at a time.** Here a decision does fit what is stored
until it is saved. `SerialInv` says so of requests (`DecisionFits`: the record is
a `LifecycleStep` from the stored one, and does not overtake the job) and of
routes (`RouteFits`: what the route read of the job is still so, and a route that
calls the order service has saved the job). A restart only forgets decisions, and
so keeps it. The refinement follows: `Save` is the step of `OrderLifecycle`
that `DecisionFits` names, everything else a stutter.

**Order and job, one request at a time.** Without a dispatch client only
`assignCourier`, called for the courier whose acceptance was saved, names a
courier in an order. `AssignmentInv` says that the job names the courier before
the order does, in what is stored and in what is decided; `Agreement` says that an
order that does not agree with its job has the rest of a request behind it. A
restart ends that request, which is why `Agreement` is claimed for `restarts = 0`
and `AssignmentInv` always: a restart only forgets decisions.

**Fulfilment, any concurrency.** Without restarts the routes do to orders,
events and timeline only what `OrderOrchestration` does, so its theorems hold
behind the routes. `JobsWereReleased` uses this: `ReleaseInv` says of every route
that the orders it has still to look up were released and that a job it is about
to save exists, and release is never undone.

**Payments.** `IInv` says of each handler what its checks still mean when it
saves (`CallOK`): a new intent's id is used by nobody else (`CreatedOnce`); a
capture writes the stored intent with the status CAPTURED, whichever status it
has by then, and its order is in `accepted`; a refund is backed. It is kept
because stored records only grow (`Grows`: an intent changes into the captured
one or not at all). `Audited` has an invariant of its own, without restarts.
`PublishedOnce` adds `OnceInv` for a single handler: what it read is still stored,
what is published is stored as captured or completed (`StoredFirst`), and what is
about to be saved is not. A restart only drops the handler, and the early return
of a captured intent, not the lost key map, is what keeps a repetition silent.

**The back office.** All of it rests on one idea: what a handler found when it
looked is still so when it saves, if it is alone on its subject, and a subject not
in `overlapped` was always worked on alone (`OverlapSeen`). `ReadTip` says so of
the last event of the audit chain, `ReviewHandlerOK` of a review, `FanoutInv` of
a key, `PayoutInv` and the import's invariant of a run, and the evaluation's of
each ticket still to visit. Beyond overlaps some things hold always, and need
invariants of their own: an append names an event that is stored (`Stored`), so
even a forked chain points back. `PolicyInv` says of an action
without a stored rule that the memory has the default one, or one that is about to be
stored or failed to be (`Explained`); monotonicity of decisions follows from the
order of a rule's two limits. The types of the twelve services
(`StateTypes`) are inductive together with those of the handlers in flight; the
recursion of `Delay` is solved for the attempts that the code's limit of retries
allows (`DelayValues`).

**Sums.** A total is a fold over a set, and what a fold computes is an induction
over data. `Adds(f, S, g)` says the same without one: `g` gives each subset of
`S` a partial sum, 0 for the empty one and, whichever element `x` is taken as the
last, `f[x]` more than without it. There is such a table for every finite set
(`AddsExists`), and the fold is its value (`TotalIs`). The induction over finite
sets behind both, `FiniteInduct`, is a lemma about a set of sets, shown by a
smallest counterexample. From there sums of two functions (`SumsAdd`), over
renamed indices (`Reindexed`) and with zeros added (`Widened`) are arguments about
tables. `DifferencesExplained` splits the variances into those of the exception
cases and the others, each within the tolerance (`SplitTotal`, `TotalBounded`).

**Events.** An event that is not stored has its task or its handler in flight, or
lost its process (`LogOK`, `StoresOK`); a rebuild that runs alone therefore
projects stored events only, and it has projected every entry below its
index (`RebuildsOK`). A relay's next channel has heard the event less often than
the one before it (`RelayOK`), so each channel hears it after the one before.
A channel's set lists the sockets that joined and have not closed (`Lists`); an
envelope put in front of a feed is newer than all in it (`FeedOK`).

**Identities and sessions.** A registration looked an e-mail and a phone up; that
nobody has them holds still of every user stored since, but for one whose
registration overlapped. Every write of a stored refresh token, by `markUsed` or
`revokeFamily`, is of a copy that was used up, so a token that is used up stays so
even where the writes overwrite each other (`ActsOn`). A handler alone on a
family works on the one token of it that is not dead, and a revocation that
missed a token has overlapped with what issued it (`TokenCallAlone`).

**App sessions and the queue.** A session of an app is its own and usable, or the
answer that replaces it is on its way, or one of the excuses of the property has
happened. In the queue, an action is leased only when nothing before it waits;
`sends` is below the number of attempts while it is leased, and at most that
afterwards; memory and file are equal except while a save is under way.

**Storefront.** A menu that an update is about to save has one version more than
the stored one and its versions in front (`UpdateOK`), unless another update of it
met it. The menu a store is discovered with and the menu its page shows are both
the first of those updated last (`DiscoveredIsViewed`), a fold and a sort that
are told apart by nothing else. Opening hours are the circle of the day's minutes
(`AroundTheClock`). Sorting zones by distance is a strict order of their places
(`NearerOrders`), so every place has a rank of its own (`Ranks`), and what is
offered has the lowest ones; a number of grains exists for every distance (`Rounded`),
and one that is not larger is of a distance at most a grain longer (`RoundedNearer`). For prices, `OrderingInv` says of every handler that
what it read is still what is stored (`ReadOK`), and of stored quotes that they
cost what their basket does now, unless that was updated since (`Current`); the
arithmetic of a quote is `QuotesAddUp`, over subtotals that are sums as above.

**Dispatch.** Whatever the error, a courier whose score passes the minimum is
eligible and its cost within the limit that the property names (`CutOff`), one
below the limit, or at it without an error, passes (`Sure`), a higher score is
not of a higher cost (`Scores`), and a top score exists (`TopIsBest`, by a
minimal counterexample: the naturals are well founded). Accepted
observations are all at or before the tracker's last.

The inductive invariants were also checked with TLC on the instances of
section 4.

**Only model-checked.**

- Liveness: `EventuallyOnTimeline`, `DropoffDelivers`, `CaptureEventuallyAudited`,
  `BreachEscalated`, `EventuallyEverywhere`. It is out of the prover's reach.
- `HttpAnswers`, `RoutesReachable`, `BffCallsAccepted`: they are about the code's own
  tables of routes and checks, which are finite and which TLC goes through
  completely. There is no larger instance to generalise to.
- Where a theorem names one slot, no dispatch client or no restart, the property
  does not hold, or is not claimed, beyond that.

## 7. What is not modelled

- Estimates of preparation time and the queries that list stores, orders or
  couriers, which change nothing. The estimate takes the menu with the most
  versions, where the store's page takes the one updated last; no property relates
  them.
- The maps of feature flags of the BFFs, rate and estimate fields of answers, and
  the texts and ids of templates.
- Signatures and passwords: a token verifies or it does not.
- Payment events in the outbox of `CourierFulfilment`'s restart: `EventOutbox` is
  the model of what a restart leaves of the log, and has them.
- Postgres, Redis and the push providers beyond the calls made to them:
  each is atomic, and answers or fails.
- Observability, geo, contracts, user interfaces, infrastructure: no state, or none
  that a property could be about.

## 8. Next

Every safety property of the passing runs that is not about a finite table of the
code has a theorem. What is left, in order of what it adds:

1. The properties that hold for one request at a time, for requests that overlap
   on different orders: `SerialInv` per order instead of per server.
2. The tables of `HttpApi` and `BffApi` as consequences of rules about patterns
   and checks, so that a new route needs a new row only.
3. Hazards without a property: the job of a cancelled order, an order with a
   courier and no job, a repeated `POST /orders`. The code has no handling that a
   property could be about.
