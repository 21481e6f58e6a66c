--------------------------- MODULE Notifications ---------------------------
(***************************************************************************)
(* NotificationFanoutService and the template, retry and receipt services. *)
(*                                                                         *)
(* A fanout resolves a template and then, channel by channel, looks an     *)
(* idempotency key up, saves a queue item and publishes it, each across an *)
(* await.  Nothing delivers a queued item here: the worker that would is   *)
(* outside the repository and reports failures and receipts over HTTP,     *)
(* naming the attempt itself.  resolveTemplate also publishes an event     *)
(* of its own, which no state here depends on.                             *)
(***************************************************************************)
EXTENDS Handlers, Sequences, FiniteSets

CONSTANTS
    Topics,        \* the event types fanouts are asked for
    Entities,      \* the orders, assignments and tickets notified about
    Locales        \* locales clients ask for, known ones and others

ASSUME NotificationsAssumption ==
    Topics \subseteq {"order.created.v1", "dispatch.assignment.completed.v1",
                      "support.ticket_escalated.v1"}

VARIABLES
    queue,         \* idempotency key -> items saved under it, up to Many
    queuedEvents,  \* history: notification.queued.v1 per idempotency key
    retries,       \* retry records: entity, attempt and delay
    deadLetters,   \* dead letters: entity, last attempt and reason
    receipts       \* delivery receipts: entity and status

notificationVars == <<queue, queuedEvents, retries, deadLetters, receipts>>

\* Items of one key are counted up to Many, which means "or more".
Many == 2
Plus(n) == IF n = Many THEN Many ELSE n + 1

\* eventSubscriptions: the channels of an event, in the order they are tried.
Channels == [e \in {"order.created.v1", "dispatch.assignment.completed.v1",
                    "support.ticket_escalated.v1"} |->
    CASE e = "order.created.v1" -> <<"PUSH", "SMS">>
      [] e = "dispatch.assignment.completed.v1" -> <<"PUSH">>
      [] e = "support.ticket_escalated.v1" -> <<"EMAIL">>]
EventTypes == DOMAIN Channels
Channel == {"PUSH", "SMS", "EMAIL"}
ActorTypes == {"consumer", "courier", "merchant_operator", "support_agent"}

DefaultActorType(e) ==
    CASE e = "dispatch.assignment.completed.v1" -> "courier"
      [] e = "support.ticket_escalated.v1" -> "support_agent"
      [] OTHER -> "consumer"

\* templateCatalog: the locales an event and an actor have a template in.
HasTemplate(e, actor) == e \in EventTypes /\ actor = DefaultActorType(e)
TemplateLocales(e) == IF e = "order.created.v1" THEN {"en-US", "es-US"} ELSE {"en-US"}
\* resolveTemplate: the locale asked for, or the default one.
TemplateKey(e, locale) ==
    <<e, IF locale \in TemplateLocales(e) THEN locale ELSE "en-US">>

IdempotencyKeys == Channel \X (EventTypes \X {"en-US", "es-US"}) \X Entities

\* A fanout works on one template for one entity; channels are those left.
FanoutCall == [phase : {"find", "save", "publish"},
               subject : {"fanout"} \X (EventTypes \X {"en-US", "es-US"}) \X Entities,
               channels : Seq(Channel)]
KeyOf(c) == <<Head(c.channels), c.subject[2], c.subject[3]>>

maxRetries == 3
baseDelaySeconds == 10
maxBackoffSeconds == 300
\* The delay before a retry doubles with every attempt, up to a greatest one.
Delay[attempt \in 0..maxRetries] ==
    IF attempt = 0 THEN baseDelaySeconds ELSE 2 * Delay[attempt - 1]
Backoff(attempt) ==
    IF Delay[attempt] < maxBackoffSeconds THEN Delay[attempt] ELSE maxBackoffSeconds

NotificationsInit ==
    /\ queue = [k \in IdempotencyKeys |-> 0]
    /\ queuedEvents = [k \in IdempotencyKeys |-> 0]
    /\ retries = {} /\ deadLetters = {} /\ receipts = {}

-----------------------------------------------------------------------------

\* fanout: without an actor type the event's default is used; an actor the
\* event has no template for ends the request.
Fanout(s, e, entity, actor, locale) ==
    /\ HasTemplate(e, IF actor = Null THEN DefaultActorType(e) ELSE actor)
    /\ Begin(s, [phase |-> "find", subject |-> <<"fanout", TemplateKey(e, locale), entity>>,
                 channels |-> Channels[e]])
    /\ UNCHANGED notificationVars

NextChannel(s) ==
    IF Len(call[s].channels) = 1 THEN Answer(s)
    ELSE Continue(s, [call[s] EXCEPT !.phase = "find", !.channels = Tail(@)])

\* Mutant of FanoutFinds: the key is not looked up.
FanoutFindsNothing(s) ==
    /\ At(s, "find")
    /\ Await(s, "save")
    /\ UNCHANGED notificationVars

\* hasIdempotencyKey: a key already queued is passed over.
FanoutFinds(s) ==
    /\ At(s, "find")
    /\ IF queue[KeyOf(call[s])] > 0 THEN NextChannel(s) ELSE Await(s, "save")
    /\ UNCHANGED notificationVars

\* save keeps one item for each notificationId, so a key can be saved again.
FanoutSaves(s) ==
    /\ At(s, "save")
    /\ queue' = [queue EXCEPT ![KeyOf(call[s])] = Plus(@)]
    /\ Await(s, "publish")
    /\ UNCHANGED <<queuedEvents, retries, deadLetters, receipts>>

FanoutPublishes(s) ==
    /\ At(s, "publish")
    /\ queuedEvents' = [queuedEvents EXCEPT ![KeyOf(call[s])] = Plus(@)]
    /\ NextChannel(s)
    /\ UNCHANGED <<queue, retries, deadLetters, receipts>>

\* Mutant of HandleFailure: one retry too many.
HandleFailureOnceMore(entity, currentAttempt, retriable) ==
    /\ IF retriable /\ currentAttempt <= maxRetries
       THEN /\ retries' = retries \cup {[entity |-> entity, attempt |-> currentAttempt + 1,
                                         delaySeconds |-> Backoff(currentAttempt)]}
            /\ UNCHANGED deadLetters
       ELSE /\ deadLetters' = deadLetters \cup
                  {[entity |-> entity, finalAttempt |-> currentAttempt,
                    reason |-> IF retriable THEN "RETRY_CAP_REACHED" ELSE "NON_RETRIABLE"]}
            /\ UNCHANGED retries
    /\ UNCHANGED <<handlerVars, queue, queuedEvents, receipts>>

\* handleFailure: the record is stored; its event follows in the same handler
\* and nothing reads it, so the handler is one step.
HandleFailure(entity, currentAttempt, retriable) ==
    /\ IF retriable /\ currentAttempt < maxRetries
       THEN /\ retries' = retries \cup {[entity |-> entity, attempt |-> currentAttempt + 1,
                                         delaySeconds |-> Backoff(currentAttempt)]}
            /\ UNCHANGED deadLetters
       ELSE /\ deadLetters' = deadLetters \cup
                  {[entity |-> entity, finalAttempt |-> currentAttempt,
                    reason |-> IF retriable THEN "RETRY_CAP_REACHED" ELSE "NON_RETRIABLE"]}
            /\ UNCHANGED retries
    /\ UNCHANGED <<handlerVars, queue, queuedEvents, receipts>>

RecordReceipt(entity, status) ==
    /\ receipts' = receipts \cup {[entity |-> entity, status |-> status]}
    /\ UNCHANGED <<handlerVars, queue, queuedEvents, retries, deadLetters>>

\* The attempts a worker can name: none yet, or the one it was told to make.
AttemptsOf(entity) == {0} \cup {r.attempt : r \in {x \in retries : x.entity = entity}}

NotificationsNext ==
    \/ \E s \in Slots :
         \/ \E e \in Topics, x \in Entities, a \in ActorTypes \cup {Null}, l \in Locales :
               Fanout(s, e, x, a, l)
         \/ FanoutFinds(s)
         \/ FanoutSaves(s)
         \/ FanoutPublishes(s)
    \/ Restart /\ UNCHANGED notificationVars

\* What is reported about deliveries shares no state with the fanouts and is
\* not compared with what was queued.
DeliveriesNext ==
    \E x \in Entities :
       \/ \E n \in AttemptsOf(x), retriable \in BOOLEAN : HandleFailure(x, n, retriable)
       \/ \E status \in {"SENT", "DELIVERED", "FAILED", "ACKNOWLEDGED"} : RecordReceipt(x, status)

-----------------------------------------------------------------------------

NotificationsTypeOK ==
    /\ queue \in [IdempotencyKeys -> 0..Many]
    /\ queuedEvents \in [IdempotencyKeys -> 0..Many]
    /\ \A s \in Slots : call[s] # Idle =>
         /\ call[s] \in FanoutCall
         /\ call[s].channels # <<>>
    /\ \A r \in retries : r.entity \in Entities /\ r.attempt \in 1..maxRetries
                            /\ r.delaySeconds \in baseDelaySeconds..maxBackoffSeconds
    /\ \A d \in deadLetters : d.entity \in Entities /\ d.finalAttempt \in 0..maxRetries
    /\ \A r \in receipts : r.entity \in Entities

\* "Notification sends must be idempotent per (channel, template, entityId)":
\* an item is queued, and announced, more than once for a key only if two
\* fanouts of that template and entity overlapped, also when a restart cut one
\* of them off; an item is never announced without having been queued.
NotifiedOnce ==
    \A k \in IdempotencyKeys :
        /\ queuedEvents[k] <= queue[k]
        /\ queue[k] > 1 => <<"fanout", k[2], k[3]>> \in overlapped
=============================================================================
