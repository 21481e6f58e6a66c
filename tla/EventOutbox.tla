---------------------------- MODULE EventOutbox ----------------------------
(***************************************************************************)
(* The event bus of core-api, what hangs on it, and the order timeline.    *)
(*                                                                         *)
(* With a document store the bus is DurableEventBus: publish waits for the *)
(* hydration of the log from the outbox, appends to the log, starts the    *)
(* subscribers, and then stores the event in the outbox and sends it to    *)
(* the broker.  Without one (part = "memory") it is InMemoryEventBus: only *)
(* the log and the subscribers.  The one subscriber is the realtime relay, *)
(* which posts an event to one channel after the other.                    *)
(*                                                                         *)
(* publish returns no promise; a store or a broker that fails leaves a     *)
(* rejected promise nobody handles, which ends the process: it is one of   *)
(* the causes of Restart here.                                             *)
(***************************************************************************)
EXTENDS Handlers, Sequences, SequencesExt, FiniteSets

CONSTANTS Events   \* the events of one order: an event stands for its type

ASSUME EventsAssumption ==
    Events \subseteq {"order.created.v1", "dispatch.assignment.completed.v1",
                      "order.delivered.v1", "payment.captured.v1"}

VARIABLES
    hydrating,     \* the outbox has not been read yet
    waiting,       \* events published before that, in order
    events,        \* InMemoryEventBus.events
    task,          \* event -> where its publish task awaits
    relay,         \* event -> channels its relay has still to post to
    outbox,        \* stored events, in the order they are listed
    broker,        \* event -> times it was added to the broker's stream
    heard,         \* event -> channel -> times the gateway got it
    timeline,      \* entries of the timeline repository, by event
    rebuilt        \* history: events a finished rebuild has gone through

processVars == <<hydrating, waiting, events, task, relay>>
storeVars == <<outbox, broker, heard, timeline, rebuilt>>
outboxVars == <<processVars, storeVars>>

\* How the server is configured: "durable" has a document store, "memory" a
\* realtime gateway, "relay" both.  Rebuilds are left out of "relay": they wait
\* for the relays and do not see how they ended.
Durable == part \in {"durable", "relay"}
Relayed == part \in {"memory", "relay"}

\* eventStatusMap: the events that have a status on the timeline.
OnTimeline(e) == e # "payment.captured.v1"

\* mapDomainEventToRealtimePublications: order and assignment events go to the
\* consumer and the merchant, and to the courier when they name one.
Channels == {"consumer.order", "merchant.order", "courier.job"}
Publications(e) ==
    CASE e = "order.created.v1" -> <<"consumer.order", "merchant.order">>
      [] e = "payment.captured.v1" -> <<>>
      [] OTHER -> <<"consumer.order", "merchant.order", "courier.job">>

\* A publish task awaits the hydration, the outbox or the broker.
Pending == {"waiting", "put", "broker"}
PendingTasks == {e \in Events : task[e] \in Pending}
RunningRelays == {e \in Events : relay[e] # <<>>}

\* A handler that published an event, or a rebuild: what it awaits in flush,
\* and how far a rebuild is in the log.
OutboxCall == [phase : {"hydration", "tasks", "relays", "project", "rebuild"},
               subject : {<<"timeline">>} \cup {<<"event", e>> : e \in Events},
               waitFor : SUBSET Events, index : Nat]

ASSUME OutboxAssumption == Idle \notin OutboxCall

EventOutboxInit ==
    /\ hydrating = Durable
    /\ waiting = <<>> /\ events = <<>>
    /\ task = [e \in Events |-> "none"]
    /\ relay = [e \in Events |-> <<>>]
    /\ outbox = <<>>
    /\ broker = [e \in Events |-> 0]
    /\ heard = [e \in Events |-> [c \in Channels |-> 0]]
    /\ timeline = <<>> /\ rebuilt = {}

-----------------------------------------------------------------------------
(* Publishing *)

\* Each event happens once; one that was lost with the process is not repeated.
Unpublished(e) == task[e] = "none"

\* InMemoryEventBus.publish: the log, and the subscribers up to their await.
Log(published) ==
    /\ events' = events \o published
    /\ relay' = [e \in Events |-> IF Contains(published, e) /\ Relayed
                                THEN Publications(e) ELSE relay[e]]

\* publish, up to the first await of the publish task.
Publish(e) ==
    IF hydrating
    THEN /\ waiting' = Append(waiting, e)
         /\ task' = [task EXCEPT ![e] = "waiting"]
         /\ UNCHANGED <<hydrating, events, relay>>
    ELSE /\ Log(<<e>>)
         /\ task' = [task EXCEPT ![e] = IF Durable THEN "put" ELSE "done"]
         /\ UNCHANGED <<hydrating, waiting>>

\* flush awaits the hydration, then the publish tasks there are, then the
\* subscriber tasks there are; the memory bus has only the last.  tasks and
\* relays are those there are once the handler has published.
Flushing(subject, tasks, relays) ==
    CASE hydrating -> [phase |-> "hydration", subject |-> subject, waitFor |-> {}, index |-> 1]
      [] Durable /\ ~hydrating ->
            [phase |-> "tasks", subject |-> subject, waitFor |-> tasks, index |-> 1]
      [] OTHER -> [phase |-> "relays", subject |-> subject, waitFor |-> relays, index |-> 1]

RebuildRuns == \E t \in Slots : call[t] # Idle /\ call[t].subject = <<"timeline">>

\* OrderService.publishEvent: publish, await flush, project.
PublishOrderEvent(s, e) ==
    /\ Unpublished(e) /\ OnTimeline(e)
    /\ Publish(e)
    /\ BeginBeside(s, Flushing(<<"event", e>>, PendingTasks', RunningRelays'), RebuildRuns)
    /\ UNCHANGED storeVars

\* Every other service publishes and goes on.  The bus treats the event like the
\* others, so a bound leaves it out where handlers await the store as well.
PublishOtherEvent(e) ==
    /\ part = "memory"
    /\ Unpublished(e) /\ ~OnTimeline(e)
    /\ Publish(e)
    /\ UNCHANGED <<handlerVars, storeVars>>

\* Mutant of Hydrate: the tasks that waited for the hydration are forgotten.
HydrateForgets ==
    /\ hydrating
    /\ hydrating' = FALSE
    /\ waiting' = <<>>
    /\ Log(outbox)
    /\ call' = [s \in Slots |-> IF At(s, "hydration") THEN [call[s] EXCEPT !.phase = "tasks"]
                                ELSE call[s]]
    /\ UNCHANGED <<part, overlapped, restarts, task, storeVars>>

\* hydrateFromOutbox: the stored events enter the log and reach the subscribers
\* again; then the publish tasks that waited, and the flushes, go on.
Hydrate ==
    /\ hydrating
    /\ hydrating' = FALSE
    /\ waiting' = <<>>
    /\ Log(outbox \o waiting)
    /\ task' = [e \in Events |-> IF task[e] = "waiting" THEN "put" ELSE task[e]]
    /\ call' = [s \in Slots |->
                  IF At(s, "hydration") THEN [call[s] EXCEPT !.phase = "tasks",
                                                             !.waitFor = ToSet(waiting)]
                  ELSE call[s]]
    /\ UNCHANGED <<part, overlapped, restarts, storeVars>>

\* Mutant of PutInOutbox: the event goes to the broker before it is stored.
PutAfterBroker(e) ==
    /\ task[e] = "put"
    /\ broker' = [broker EXCEPT ![e] = @ + 1]
    /\ task' = [task EXCEPT ![e] = "broker"]
    /\ UNCHANGED <<handlerVars, hydrating, waiting, events, relay, outbox, heard, timeline, rebuilt>>

\* persistAndPublish: the outbox first, then the broker.
PutInOutbox(e) ==
    /\ task[e] = "put"
    /\ outbox' = Append(outbox, e)
    /\ task' = [task EXCEPT ![e] = "broker"]
    /\ UNCHANGED <<handlerVars, hydrating, waiting, events, relay, broker, heard, timeline, rebuilt>>

SendToBroker(e) ==
    /\ task[e] = "broker"
    /\ broker' = [broker EXCEPT ![e] = @ + 1]
    /\ task' = [task EXCEPT ![e] = "done"]
    /\ UNCHANGED <<handlerVars, hydrating, waiting, events, relay, outbox, heard, timeline, rebuilt>>

-----------------------------------------------------------------------------
(* The realtime relay *)

\* Mutant of RelayPosts: an error is passed over and the next channel tried.
RelayGoesOn(e, arrives, answered) ==
    /\ relay[e] # <<>>
    /\ answered => arrives
    /\ heard' = IF arrives THEN [heard EXCEPT ![e][Head(relay[e])] = @ + 1] ELSE heard
    /\ relay' = [relay EXCEPT ![e] = Tail(@)]
    /\ UNCHANGED <<handlerVars, hydrating, waiting, events, task, outbox, broker, timeline, rebuilt>>

\* The gateway gets the post and answers; or the answer is an error or lost,
\* with or without the post having arrived: the relay of the event ends, and
\* the bus swallows the error.
RelayPosts(e, arrives, answered) ==
    /\ relay[e] # <<>>
    /\ answered => arrives
    /\ heard' = IF arrives THEN [heard EXCEPT ![e][Head(relay[e])] = @ + 1] ELSE heard
    /\ relay' = [relay EXCEPT ![e] = IF answered THEN Tail(@) ELSE <<>>]
    /\ UNCHANGED <<handlerVars, hydrating, waiting, events, task, outbox, broker, timeline, rebuilt>>

-----------------------------------------------------------------------------
(* The timeline *)

\* A durable repository keeps one entry per event, the other one appends.
WithEntry(e) == IF Durable /\ Contains(timeline, e) THEN timeline ELSE Append(timeline, e)

FlushTasksDone(s) ==
    /\ At(s, "tasks")
    /\ call[s].waitFor \cap PendingTasks = {}
    /\ Continue(s, [call[s] EXCEPT !.phase = "relays", !.waitFor = RunningRelays])
    /\ UNCHANGED outboxVars

\* Flushed: an event is projected next, a rebuild clears the repository, which
\* a durable one ignores.
FlushDone(s) ==
    /\ At(s, "relays")
    /\ call[s].waitFor \cap RunningRelays = {}
    /\ Await(s, IF call[s].subject = <<"timeline">> THEN "rebuild" ELSE "project")
    /\ UNCHANGED outboxVars

ProjectEvent(s) ==
    /\ At(s, "project")
    /\ timeline' = WithEntry(call[s].subject[2])
    /\ Answer(s)
    /\ UNCHANGED <<processVars, outbox, broker, heard, rebuilt>>

\* toTimelineEntry makes entries of these places of the log.
LoggedAt == {i \in DOMAIN events : OnTimeline(events[i])}
LoggedEvents == {events[i] : i \in LoggedAt}

\* The rebuild route flushes a durable bus first.  Over a memory repository
\* nothing is awaited that another request could use, so it is one step there:
\* the entries of the log, in its order.
Rebuild(s) ==
    IF Durable
    THEN /\ part = "durable"
         /\ ~RebuildRuns   \* a bound: the operator waits for the answer
         /\ BeginBeside(s, Flushing(<<"timeline">>, PendingTasks, {}), ~Quiet)
         /\ UNCHANGED outboxVars
    ELSE /\ \E at \in Bijection(1..Cardinality(LoggedAt), LoggedAt) :
              /\ \A i, j \in DOMAIN at : i < j => at[i] < at[j]
              /\ timeline' = [i \in DOMAIN at |-> events[at[i]]]
         /\ rebuilt' = LoggedEvents
         /\ overlapped' = IF Quiet THEN overlapped ELSE overlapped \cup {<<"timeline">>}
         /\ UNCHANGED <<part, call, restarts, processVars, outbox, broker, heard>>

\* Mutant of RebuildAppends: the first event of the log is passed over.
RebuildSkipsFirst(s) ==
    /\ At(s, "rebuild") /\ call[s].index <= Len(events)
    /\ LET e == events[call[s].index]
       IN timeline' = IF OnTimeline(e) /\ call[s].index > 1 THEN WithEntry(e) ELSE timeline
    /\ Continue(s, [call[s] EXCEPT !.index = @ + 1])
    /\ UNCHANGED <<processVars, outbox, broker, heard, rebuilt>>

\* rebuildFromEventLog goes through the log as it grows, an await per entry.
RebuildAppends(s) ==
    /\ At(s, "rebuild") /\ call[s].index <= Len(events)
    /\ LET e == events[call[s].index]
       IN timeline' = IF OnTimeline(e) THEN WithEntry(e) ELSE timeline
    /\ Continue(s, [call[s] EXCEPT !.index = @ + 1])
    /\ UNCHANGED <<processVars, outbox, broker, heard, rebuilt>>

RebuildEnds(s) ==
    /\ At(s, "rebuild") /\ call[s].index > Len(events)
    /\ rebuilt' = rebuilt \cup LoggedEvents
    /\ Answer(s)
    /\ UNCHANGED <<processVars, outbox, broker, heard, timeline>>

\* A new process: an empty log that hydrates, no tasks.  Without a document
\* store nothing survives.
ProcessRestarts ==
    /\ Restart
    /\ hydrating' = Durable /\ waiting' = <<>> /\ events' = <<>>
    /\ task' = [e \in Events |-> IF task[e] \in Pending THEN "lost" ELSE task[e]]
    /\ relay' = [e \in Events |-> <<>>]
    /\ timeline' = IF Durable THEN timeline ELSE <<>>
    /\ rebuilt' = IF Durable THEN rebuilt ELSE {}
    /\ UNCHANGED <<outbox, broker, heard>>

-----------------------------------------------------------------------------

\* What the process goes on with on its own.
TaskSteps(e) == PutInOutbox(e) \/ SendToBroker(e)
RelaySteps(e) == \E arrives, answered \in BOOLEAN : RelayPosts(e, arrives, answered)
HandlerSteps(s) ==
    \/ FlushTasksDone(s) \/ FlushDone(s) \/ ProjectEvent(s)
    \/ RebuildAppends(s) \/ RebuildEnds(s)

EventOutboxNext ==
    \/ \E s \in Slots :
         \/ \E e \in Events : PublishOrderEvent(s, e)
         \/ Rebuild(s)
         \/ HandlerSteps(s)
    \/ \E e \in Events : PublishOtherEvent(e) \/ TaskSteps(e) \/ RelaySteps(e)
    \/ Hydrate
    \/ ProcessRestarts

-----------------------------------------------------------------------------

EventOutboxTypeOK ==
    /\ hydrating \in BOOLEAN
    /\ task \in [Events -> Pending \cup {"none", "done", "lost"}]
    /\ ToSet(waiting) = {e \in Events : task[e] = "waiting"}
    /\ broker \in [Events -> Nat]
    /\ heard \in [Events -> [Channels -> Nat]]
    /\ ToSet(outbox) \subseteq Events
    /\ \A s \in Slots : call[s] # Idle => call[s] \in OutboxCall

\* The broker's stream follows the outbox: an event is in it at most once and
\* only if it is stored, and a stored event is missing from it only while its
\* task is on the way or because the process ended between the two.  The outbox
\* is not replayed into the broker, so such an event never gets there.
BrokerFollowsOutbox ==
    Durable => \A e \in Events :
        /\ broker[e] <= 1
        /\ broker[e] > 0 => Contains(outbox, e)
        /\ Contains(outbox, e) /\ broker[e] = 0 =>
              task[e] = "broker" \/ (task[e] = "lost" /\ restarts > 0)

\* The timeline and the log: what a finished rebuild has gone through is on the
\* timeline whatever ran beside it, and a durable timeline has one entry for an
\* event.  Unless a rebuild ran beside a handler that was publishing, a memory
\* timeline has no entry twice, and a durable one only entries whose events are
\* stored: a rebuild also projects events the outbox does not hold yet.
TimelineRebuilt ==
    part # "gateway" =>
        /\ rebuilt \subseteq ToSet(timeline)
        /\ Durable \/ overlapped = {} => IsInjective(timeline)
        /\ Durable /\ overlapped = {} => ToSet(timeline) \subseteq ToSet(outbox)

\* A channel never hears an event more often than the channel before it, and
\* hears it again only after a restart replayed the outbox to the relay.
RelayedInOrder ==
    part # "gateway" => \A e \in Events :
        LET to == Publications(e)
        IN /\ \A i \in 2..Len(to) : heard[e][to[i]] <= heard[e][to[i - 1]]
           /\ \A c \in Channels : heard[e][c] <= IF Durable THEN 1 + restarts ELSE 1

\* Unless the process ends, an event that was published is stored, reaches the
\* broker and is projected, also one published before the log was hydrated.
EventuallyEverywhere ==
    \A e \in Events, n \in 0..MaxRestarts :
        (task[e] \in Pending /\ restarts = n)
            ~> \/ restarts > n
               \/ /\ Contains(outbox, e) /\ broker[e] = 1
                  /\ OnTimeline(e) => Contains(timeline, e)
=============================================================================
