---------------------------- MODULE EventsProofs ----------------------------
(***************************************************************************)
(* Proofs about the event bus, the realtime relay, the order timeline and  *)
(* the realtime gateway: for any events of the order, sockets, channels,   *)
(* concurrent handlers and restarts.                                       *)
(***************************************************************************)
EXTENDS MCEvents, FiniteSetTheorems, SequenceTheorems, TLAPS

-----------------------------------------------------------------------------
(* Sequences as the sets of their elements.                                  *)

LEMMA ContainsEmpty == \A e : ~Contains(<<>>, e)
BY DEF Contains

LEMMA ContainsOne == \A e, x : Contains(<<x>>, e) <=> e = x
BY DEF Contains

LEMMA ContainsAppend ==
    ASSUME NEW S, NEW q \in Seq(S), NEW x \in S
    PROVE  /\ Append(q, x) \in Seq(S)
           /\ \A e : Contains(Append(q, x), e) <=> Contains(q, e) \/ e = x
<1> DEFINE n == Len(q)
<1>1. n \in Nat /\ Append(q, x) \in Seq(S) /\ Len(Append(q, x)) = n + 1
  BY LenProperties
<1>2. \A i \in 1..n : Append(q, x)[i] = q[i]
  OBVIOUS
<1>3. Append(q, x)[n + 1] = x
  OBVIOUS
<1> HIDE DEF n
<1>4. 1..(n + 1) = 1..n \cup {n + 1}
  BY <1>1
<1> QED BY <1>1, <1>2, <1>3, <1>4 DEF Contains, n

LEMMA ContainsConcat ==
    ASSUME NEW S, NEW q \in Seq(S), NEW t \in Seq(S)
    PROVE  /\ q \o t \in Seq(S)
           /\ \A e : Contains(q \o t, e) <=> Contains(q, e) \/ Contains(t, e)
<1>1. ASSUME NEW e, Contains(q, e) PROVE Contains(q \o t, e)
  BY <1>1, ConcatProperties, LenProperties DEF Contains
<1>2. ASSUME NEW e, Contains(t, e) PROVE Contains(q \o t, e)
  <2> PICK i \in 1..Len(t) : t[i] = e
    BY <1>2 DEF Contains
  <2>1. Len(q) \in Nat /\ Len(t) \in Nat
    BY LenProperties
  <2>2. Len(q) + i \in 1..Len(q) + Len(t) /\ ~(Len(q) + i <= Len(q)) /\ (Len(q) + i) - Len(q) = i
    BY <2>1
  <2>3. (q \o t)[Len(q) + i] = e /\ Len(q \o t) = Len(q) + Len(t)
    BY <2>2, ConcatProperties
  <2> QED BY <2>2, <2>3 DEF Contains
<1>3. ASSUME NEW e, Contains(q \o t, e) PROVE Contains(q, e) \/ Contains(t, e)
  <2> PICK i \in 1..Len(q) + Len(t) : (q \o t)[i] = e
    BY <1>3, ConcatProperties DEF Contains
  <2>1. CASE i <= Len(q)
    BY <2>1, ConcatProperties, LenProperties DEF Contains
  <2>2. CASE i > Len(q)
    <3> i - Len(q) \in 1..Len(t)
      BY <2>2, LenProperties
    <3> QED BY <2>2, ConcatProperties, LenProperties DEF Contains
  <2> QED BY <2>1, <2>2, LenProperties
<1> QED BY <1>1, <1>2, <1>3, ConcatProperties

LEMMA ContainsToSet ==
    ASSUME NEW S, NEW q \in Seq(S)
    PROVE  /\ ToSet(q) \subseteq S
           /\ \A e : Contains(q, e) <=> e \in ToSet(q)
<1> DOMAIN q = 1..Len(q) /\ \A i \in 1..Len(q) : q[i] \in S
  BY LenProperties
<1> QED BY DEF Contains, ToSet

-----------------------------------------------------------------------------
(* The shape of the bus.                                                     *)

\* A step of the bus, by what it does.
BusStep ==
    \/ \E s \in Slots, e \in Events : PublishOrderEvent(s, e)
    \/ \E s \in Slots : Rebuild(s)
    \/ \E s \in Slots : FlushTasksDone(s) \/ FlushDone(s) \/ ProjectEvent(s)
    \/ \E s \in Slots : RebuildAppends(s) \/ RebuildEnds(s)
    \/ \E e \in Events : PublishOtherEvent(e) \/ PutInOutbox(e) \/ SendToBroker(e)
    \/ \E e \in Events, arrives, answered \in BOOLEAN : RelayPosts(e, arrives, answered)
    \/ Hydrate
    \/ ProcessRestarts
    \/ UNCHANGED <<handlerVars, outboxVars>>

LEMMA StepOfBus == part # "gateway" /\ [Next]_vars => BusStep
BY DEF Next, vars, BusStep, EventOutboxNext, HandlerSteps, TaskSteps, RelaySteps

LEMMA PartKept == [Next]_vars => part' = part
<1> USE DEF BeginBeside, Continue, Await, Answer, Restart, handlerVars
<1>1. BusStep => part' = part
  BY DEF BusStep, PublishOrderEvent, Rebuild, FlushTasksDone, FlushDone, ProjectEvent,
         RebuildAppends, RebuildEnds, PublishOtherEvent, PutInOutbox, SendToBroker, RelayPosts,
         Hydrate, ProcessRestarts
<1>2. GatewayNext => part' = part
  BY DEF GatewayNext, Connect, Drops, Closed, Register, Unregister, PublishToChannel,
         GatewayRestarts
<1> QED BY <1>1, <1>2, StepOfBus DEF Next, vars

\* The events that wait for the hydration are those whose task does.
WaitingKnown == \A e \in Events : Contains(waiting, e) <=> task[e] = "waiting"

TaskStates == Pending \cup {"none", "done", "lost"}

LogOK ==
    /\ hydrating \in BOOLEAN /\ (hydrating => Durable)
    /\ waiting \in Seq(Events) /\ events \in Seq(Events)
    /\ task \in [Events -> TaskStates]
    /\ WaitingKnown

StoresOK ==
    /\ outbox \in Seq(Events) /\ broker \in [Events -> Nat]
    /\ timeline \in Seq(Events) /\ rebuilt \subseteq Events

\* Only a rebuild is about the timeline, and only a durable bus makes it wait.
PhaseFits(h) ==
    /\ h.subject = <<"timeline">> => Durable /\ h.phase # "project"
    /\ h.phase = "rebuild" => h.subject = <<"timeline">>
    /\ h.index >= 1
    /\ h.phase # "rebuild" => h.index = 1

CallsOK ==
    /\ call \in [Slots -> OutboxCall \cup {Idle}] /\ restarts \in Nat
    /\ \A s \in Slots : call[s] # Idle => PhaseFits(call[s])

BusOK == LogOK /\ StoresOK /\ CallsOK

\* Where a handler that flushes waits.
LEMMA FlushingIsACall ==
    ASSUME NEW subject \in {<<"timeline">>} \cup {<<"event", e>> : e \in Events},
           NEW tasks \in SUBSET Events, NEW relays \in SUBSET Events
    PROVE  /\ Flushing(subject, tasks, relays) \in OutboxCall
           /\ Flushing(subject, tasks, relays).subject = subject
           /\ Flushing(subject, tasks, relays).phase \in {"hydration", "tasks", "relays"}
           /\ Flushing(subject, tasks, relays).index = 1
BY DEF Flushing, OutboxCall

LEMMA WithEntryKeeps ==
    ASSUME NEW e \in Events, timeline \in Seq(Events)
    PROVE  /\ WithEntry(e) \in Seq(Events)
           /\ \A x : Contains(WithEntry(e), x) <=> Contains(timeline, x) \/ x = e
BY ContainsAppend DEF WithEntry

LEMMA PublishKeeps ==
    ASSUME LogOK, NEW e \in Events, Unpublished(e), Publish(e), part' = part
    PROVE  LogOK'
<1>1. CASE hydrating
  <2>1. /\ waiting' \in Seq(Events)
        /\ \A x : Contains(waiting', x) <=> Contains(waiting, x) \/ x = e
    <3>1. waiting' = Append(waiting, e) /\ waiting \in Seq(Events)
      BY <1>1 DEF Publish, LogOK
    <3>2. /\ Append(waiting, e) \in Seq(Events)
          /\ \A x : Contains(Append(waiting, e), x) <=> Contains(waiting, x) \/ x = e
      BY <3>1, ContainsAppend
    <3> QED BY <3>1, <3>2, Zenon
  <2>2. task' = [task EXCEPT ![e] = "waiting"] /\ hydrating' = hydrating /\ events' = events
    BY <1>1 DEF Publish
  <2> QED BY <1>1, <2>1, <2>2 DEF LogOK, WaitingKnown, TaskStates, Pending, Durable
<1>2. CASE ~hydrating
  <2>1. <<e>> \in Seq(Events) /\ events' = events \o <<e>>
    BY <1>2 DEF Publish, Log
  <2>2. events' \in Seq(Events)
    BY <2>1, ContainsConcat DEF LogOK
  <2>3. \E to \in {"put", "done"} : task' = [task EXCEPT ![e] = to]
    BY <1>2 DEF Publish
  <2>4. hydrating' = hydrating /\ waiting' = waiting
    BY <1>2 DEF Publish
  <2> QED BY <2>2, <2>3, <2>4 DEF LogOK, WaitingKnown, TaskStates, Pending, Unpublished, Durable
<1> QED BY <1>1, <1>2

LEMMA LogKept == LogOK /\ part' = part /\ processVars' = processVars => LogOK'
BY DEF LogOK, WaitingKnown, processVars, Durable

LEMMA StoresKept == StoresOK /\ UNCHANGED <<outbox, broker, timeline, rebuilt>> => StoresOK'
BY DEF StoresOK

LEMMA BusOKStep == part # "gateway" /\ BusOK /\ BusStep => BusOK'
<1> SUFFICES ASSUME part # "gateway", BusOK, BusStep PROVE BusOK'
  OBVIOUS
<1> USE DEF BusOK
<1>1. ASSUME NEW s \in Slots, NEW e \in Events, PublishOrderEvent(s, e) PROVE BusOK'
  <2> DEFINE h == Flushing(<<"event", e>>, PendingTasks', RunningRelays')
  <2>1. Publish(e) /\ BeginBeside(s, h, RebuildRuns)
        /\ storeVars' = storeVars /\ Unpublished(e)
    BY <1>1 DEF PublishOrderEvent
  <2>2. PendingTasks' \in SUBSET Events /\ RunningRelays' \in SUBSET Events
    BY DEF PendingTasks, RunningRelays
  <2>3. h \in OutboxCall
    BY <2>2, FlushingIsACall
  <2>4. LogOK'
    BY <2>1, PublishKeeps DEF BeginBeside
  <2>5. h.subject # <<"timeline">> /\ h.phase # "rebuild" /\ h.index = 1
    BY <2>2, FlushingIsACall DEF h
  <2>6. CallsOK'
    BY <2>1, <2>3, <2>5 DEF BeginBeside, CallsOK, PhaseFits, Durable
  <2> QED BY <2>1, <2>4, <2>6 DEF storeVars, StoresOK
<1>2. ASSUME NEW s \in Slots, Rebuild(s) PROVE BusOK'
  <2>1. CASE Durable
    <3> DEFINE h == Flushing(<<"timeline">>, PendingTasks, {})
    <3>1. BeginBeside(s, h, ~Quiet) /\ outboxVars' = outboxVars
      BY <1>2, <2>1 DEF Rebuild
    <3>2. h \in OutboxCall /\ h.phase \in {"hydration", "tasks", "relays"}
             /\ h.index = 1
      BY FlushingIsACall DEF PendingTasks
    <3> HIDE DEF h
    <3>3. CallsOK'
      BY <2>1, <3>1, <3>2 DEF BeginBeside, CallsOK, PhaseFits, Durable
    <3> QED BY <3>1, <3>3, LogKept, StoresKept DEF BeginBeside, outboxVars, storeVars
  <2>2. CASE ~Durable
    <3>1. PICK at \in Bijection(1..Cardinality(LoggedAt), LoggedAt) :
             timeline' = [i \in DOMAIN at |-> events[at[i]]]
      BY <1>2, <2>2 DEF Rebuild
    <3>2. at \in [1..Cardinality(LoggedAt) -> LoggedAt]
      BY DEF Bijection, Injection
    <3>3. DOMAIN events = 1..Len(events) /\ \A i \in DOMAIN events : events[i] \in Events
      BY LenProperties DEF LogOK
    <3>4. IsFiniteSet(LoggedAt) /\ Cardinality(LoggedAt) \in Nat
      <4>1. Len(events) \in Nat /\ LoggedAt \subseteq 1..Len(events)
        BY <3>3, LenProperties DEF LoggedAt, LogOK
      <4>2. IsFiniteSet(1..Len(events))
        BY <4>1, FS_Interval
      <4> QED BY <4>1, <4>2, FS_Subset, FS_CardinalityType
    <3>5. timeline' \in Seq(Events)
      <4>1. timeline' \in [1..Cardinality(LoggedAt) -> Events]
        BY <3>1, <3>2, <3>3 DEF LoggedAt
      <4> QED BY <4>1, <3>4, SeqDef
    <3>6. /\ rebuilt' = LoggedEvents /\ part' = part /\ call' = call /\ restarts' = restarts
          /\ processVars' = processVars /\ outbox' = outbox /\ broker' = broker
      BY <1>2, <2>2 DEF Rebuild
    <3>7. LoggedEvents \subseteq Events
      BY <3>3 DEF LoggedEvents, LoggedAt
    <3>8. CallsOK' /\ StoresOK'
      BY <3>5, <3>6, <3>7 DEF StoresOK, CallsOK, PhaseFits, Durable
    <3> QED BY <3>6, <3>8, LogKept
  <2> QED BY <2>1, <2>2
<1>3. ASSUME NEW s \in Slots, FlushTasksDone(s) \/ FlushDone(s) PROVE BusOK'
  <2>1. call[s] \in OutboxCall
    BY <1>3 DEF FlushTasksDone, FlushDone, At, CallsOK
  <2>2. RunningRelays \in SUBSET Events
    BY DEF RunningRelays
  <2>3. PhaseFits(call[s])
    BY <1>3 DEF FlushTasksDone, FlushDone, At, CallsOK
  <2>4. PICK h \in OutboxCall : Continue(s, h) /\ PhaseFits(h)
    <3>1. CASE FlushTasksDone(s)
      <4> DEFINE h == [call[s] EXCEPT !.phase = "relays", !.waitFor = RunningRelays]
      <4>1. h \in OutboxCall /\ PhaseFits(h)
        BY <2>1, <2>2, <2>3, <3>1 DEF OutboxCall, PhaseFits, FlushTasksDone, At
      <4>2. Continue(s, h)
        BY <3>1 DEF FlushTasksDone
      <4> QED BY <4>1, <4>2
    <3>2. CASE FlushDone(s)
      <4> DEFINE h == [call[s] EXCEPT !.phase = IF call[s].subject = <<"timeline">>
                                                THEN "rebuild" ELSE "project"]
      <4>1. h \in OutboxCall /\ PhaseFits(h)
        BY <2>1, <2>2, <2>3, <3>2 DEF OutboxCall, PhaseFits, FlushDone, At
      <4>2. Continue(s, h)
        BY <3>2 DEF FlushDone, Await
      <4> QED BY <4>1, <4>2
    <3> QED BY <1>3, <3>1, <3>2
  <2>5. outboxVars' = outboxVars
    BY <1>3 DEF FlushTasksDone, FlushDone
  <2>6. CallsOK'
    BY <2>4 DEF Continue, CallsOK, PhaseFits, Durable
  <2> QED BY <2>4, <2>5, <2>6, LogKept, StoresKept DEF Continue, outboxVars, storeVars
<1>4. ASSUME NEW s \in Slots, ProjectEvent(s) PROVE BusOK'
  <2>1. call[s] \in OutboxCall /\ call[s].subject # <<"timeline">>
    BY <1>4 DEF ProjectEvent, At, CallsOK, PhaseFits
  <2>2. PICK e \in Events : call[s].subject = <<"event", e>>
    BY <2>1 DEF OutboxCall
  <2>3. timeline' \in Seq(Events)
    BY <1>4, <2>2, WithEntryKeeps DEF ProjectEvent, StoresOK
  <2>4. Answer(s) /\ UNCHANGED <<processVars, outbox, broker, heard, rebuilt>>
    BY <1>4 DEF ProjectEvent
  <2> QED BY <2>3, <2>4 DEF Answer, Continue, CallsOK, PhaseFits, processVars, LogOK, WaitingKnown,
                            StoresOK, Durable
<1>5. ASSUME NEW s \in Slots, RebuildAppends(s) PROVE BusOK'
  <2>1. call[s] \in OutboxCall /\ PhaseFits(call[s])
    BY <1>5 DEF RebuildAppends, At, CallsOK
  <2> DEFINE h == [call[s] EXCEPT !.index = @ + 1]
  <2>2. call[s].index + 1 \in Nat /\ call[s].index \in Nat
    BY <2>1 DEF OutboxCall
  <2>3. h = [call[s] EXCEPT !.index = call[s].index + 1]
    BY <2>1 DEF OutboxCall
  <2>4. h \in OutboxCall /\ h.phase = call[s].phase /\ h.subject = call[s].subject
        /\ h.index = call[s].index + 1
    BY <2>1, <2>2, <2>3 DEF OutboxCall
  <2>5. Continue(s, h) /\ UNCHANGED <<processVars, outbox, broker, heard, rebuilt>>
    BY <1>5 DEF RebuildAppends
  <2> HIDE DEF h
  <2>6. timeline' \in Seq(Events)
    <3>1. call[s].index \in 1..Len(events)
      BY <1>5, <2>1, <2>2, LenProperties DEF RebuildAppends, PhaseFits, LogOK
    <3>2. events[call[s].index] \in Events
      BY <3>1, LenProperties DEF LogOK
    <3> QED BY <1>5, <3>2, WithEntryKeeps DEF RebuildAppends, StoresOK
  <2>7. PhaseFits(h)
    BY <1>5, <2>1, <2>2, <2>4 DEF PhaseFits, RebuildAppends, At
  <2>8. CallsOK'
    BY <2>4, <2>5, <2>7 DEF Continue, CallsOK, PhaseFits, Durable
  <2>9. StoresOK'
    BY <2>5, <2>6 DEF StoresOK
  <2> QED BY <2>5, <2>8, <2>9, LogKept DEF Continue
<1>6. ASSUME NEW s \in Slots, RebuildEnds(s) PROVE BusOK'
  <2>1. LoggedEvents \subseteq Events
    <3> DOMAIN events = 1..Len(events) /\ \A i \in DOMAIN events : events[i] \in Events
      BY LenProperties DEF LogOK
    <3> QED BY DEF LoggedEvents, LoggedAt
  <2>2. Answer(s) /\ rebuilt' = rebuilt \cup LoggedEvents
        /\ UNCHANGED <<processVars, outbox, broker, heard, timeline>>
    BY <1>6 DEF RebuildEnds
  <2> QED BY <2>1, <2>2 DEF Answer, Continue, CallsOK, PhaseFits, processVars, LogOK, WaitingKnown,
                            StoresOK, Durable
<1>7. ASSUME NEW e \in Events, PublishOtherEvent(e) PROVE BusOK'
  <2>1. Publish(e) /\ Unpublished(e) /\ UNCHANGED <<part, call, overlapped, restarts>>
        /\ UNCHANGED storeVars
    BY <1>7 DEF PublishOtherEvent, handlerVars
  <2>2. LogOK'
    BY <2>1, PublishKeeps
  <2> QED BY <2>1, <2>2 DEF CallsOK, PhaseFits, StoresOK, storeVars, Durable
<1>8. ASSUME NEW e \in Events, PutInOutbox(e) PROVE BusOK'
  <2>1. outbox' \in Seq(Events)
    BY <1>8, ContainsAppend DEF PutInOutbox, StoresOK
  <2> QED BY <1>8, <2>1 DEF PutInOutbox, handlerVars, CallsOK, PhaseFits, StoresOK, LogOK,
                            WaitingKnown, TaskStates, Pending, Durable
<1>9. ASSUME NEW e \in Events, SendToBroker(e) PROVE BusOK'
  <2>1. broker' = [broker EXCEPT ![e] = broker[e] + 1] /\ broker[e] + 1 \in Nat
    BY <1>9 DEF SendToBroker, StoresOK
  <2>2. broker' \in [Events -> Nat]
    BY <2>1 DEF StoresOK
  <2> QED BY <1>9, <2>2 DEF SendToBroker, handlerVars, CallsOK, PhaseFits, StoresOK, LogOK,
                            WaitingKnown, TaskStates, Pending, Durable
<1>10. ASSUME NEW e \in Events, NEW arrives \in BOOLEAN, NEW answered \in BOOLEAN,
              RelayPosts(e, arrives, answered)
       PROVE  BusOK'
  BY <1>10 DEF RelayPosts, handlerVars, CallsOK, PhaseFits, StoresOK, LogOK, WaitingKnown, Durable
<1>11. ASSUME Hydrate PROVE BusOK'
  <2>1. waiting' \in Seq(Events) /\ \A e : ~Contains(waiting', e)
    BY <1>11, ContainsEmpty, EmptySeq DEF Hydrate
  <2>2. events' \in Seq(Events)
    BY <1>11, ContainsConcat DEF Hydrate, Log, LogOK, StoresOK
  <2>3. task' \in [Events -> TaskStates] /\ \A e \in Events : task'[e] # "waiting"
    BY <1>11 DEF Hydrate, TaskStates, Pending, LogOK
  <2>4. LogOK'
    BY <1>11, <2>1, <2>2, <2>3 DEF Hydrate, LogOK, WaitingKnown, Durable
  <2>5. ToSet(waiting) \in SUBSET Events
    BY ContainsToSet DEF LogOK
  <2>6. CallsOK'
    BY <1>11, <2>5 DEF Hydrate, CallsOK, PhaseFits, At, OutboxCall, Durable
  <2> QED BY <1>11, <2>4, <2>6 DEF Hydrate, StoresOK, storeVars
<1>12. ASSUME ProcessRestarts PROVE BusOK'
  <2>1. waiting' \in Seq(Events) /\ \A e : ~Contains(waiting', e)
    BY <1>12, ContainsEmpty, EmptySeq DEF ProcessRestarts
  <2>2. task' \in [Events -> TaskStates] /\ \A e \in Events : task'[e] # "waiting"
    BY <1>12 DEF ProcessRestarts, TaskStates, Pending, LogOK
  <2>3. LogOK'
    BY <1>12, <2>1, <2>2, EmptySeq DEF ProcessRestarts, Restart, LogOK, WaitingKnown, Durable
  <2>4. CallsOK'
    BY <1>12 DEF ProcessRestarts, Restart, CallsOK
  <2>5. timeline' \in Seq(Events) /\ rebuilt' \subseteq Events
    BY <1>12, EmptySeq DEF ProcessRestarts, StoresOK
  <2> QED BY <1>12, <2>3, <2>4, <2>5 DEF ProcessRestarts, StoresOK
<1>13. ASSUME UNCHANGED <<handlerVars, outboxVars>> PROVE BusOK'
  BY <1>13 DEF handlerVars, outboxVars, processVars, storeVars, CallsOK, PhaseFits, StoresOK, LogOK,
               WaitingKnown, Durable
<1> QED BY <1>1, <1>2, <1>3, <1>4, <1>5, <1>6, <1>7, <1>8, <1>9, <1>10, <1>11, <1>12, <1>13
        DEF BusStep

-----------------------------------------------------------------------------
(* The outbox and the broker.                                                *)

\* How far the publish task of an event says that it has come.
Followed(e) ==
    CASE task[e] = "none" -> ~Contains(outbox, e) /\ broker[e] = 0
      [] task[e] \in {"waiting", "put"} -> Durable /\ ~Contains(outbox, e) /\ broker[e] = 0
      [] task[e] = "broker" -> Durable /\ Contains(outbox, e) /\ broker[e] = 0
      [] task[e] = "done" -> IF Durable THEN Contains(outbox, e) /\ broker[e] = 1
                             ELSE broker[e] = 0
      [] OTHER -> broker[e] = 0 /\ restarts > 0

AllFollowed == \A e \in Events : Followed(e)

LEMMA FollowedKept ==
    ASSUME AllFollowed, part' = part, restarts' = restarts,
           task' = task, outbox' = outbox, broker' = broker
    PROVE  AllFollowed'
BY DEF AllFollowed, Followed, Durable

LEMMA AllFollowedStep == part # "gateway" /\ BusOK /\ AllFollowed /\ BusStep => AllFollowed'
<1> SUFFICES ASSUME part # "gateway", BusOK, AllFollowed, BusStep PROVE AllFollowed'
  OBVIOUS
<1> task \in [Events -> TaskStates] /\ outbox \in Seq(Events) /\ broker \in [Events -> Nat]
    /\ restarts \in Nat /\ (hydrating => Durable)
  BY DEF BusOK, LogOK, StoresOK, CallsOK
<1>1. ASSUME NEW e \in Events, Unpublished(e), Publish(e), UNCHANGED <<part, restarts, outbox, broker>>
      PROVE  AllFollowed'
  <2>1. PICK to \in {"waiting", "put", "done"} :
           task' = [task EXCEPT ![e] = to] /\ (to = "done" <=> ~Durable)
    BY <1>1 DEF Publish
  <2> QED BY <1>1, <2>1 DEF AllFollowed, Followed, Unpublished, Durable
<1>2. ASSUME NEW s \in Slots, NEW e \in Events, PublishOrderEvent(s, e) PROVE AllFollowed'
  BY <1>1, <1>2 DEF PublishOrderEvent, BeginBeside, storeVars
<1>3. ASSUME NEW e \in Events, PublishOtherEvent(e) PROVE AllFollowed'
  BY <1>1, <1>3 DEF PublishOtherEvent, handlerVars, storeVars
<1>4. ASSUME NEW e \in Events, PutInOutbox(e) PROVE AllFollowed'
  <2>1. task[e] = "put" /\ task' = [task EXCEPT ![e] = "broker"] /\ outbox' = Append(outbox, e)
        /\ broker' = broker /\ part' = part /\ restarts' = restarts
    BY <1>4 DEF PutInOutbox, handlerVars
  <2>2. \A x : Contains(outbox', x) <=> Contains(outbox, x) \/ x = e
    BY <2>1, ContainsAppend
  <2> QED BY <2>1, <2>2 DEF AllFollowed, Followed, Durable
<1>5. ASSUME NEW e \in Events, SendToBroker(e) PROVE AllFollowed'
  <2>1. task[e] = "broker" /\ task' = [task EXCEPT ![e] = "done"] /\ outbox' = outbox
        /\ broker' = [broker EXCEPT ![e] = @ + 1] /\ part' = part /\ restarts' = restarts
    BY <1>5 DEF SendToBroker, handlerVars
  <2>2. broker[e] = 0 /\ broker'[e] = 1 /\ \A x \in Events \ {e} : broker'[x] = broker[x]
    BY <2>1 DEF AllFollowed, Followed
  <2> QED BY <2>1, <2>2 DEF AllFollowed, Followed, Durable
<1>6. ASSUME Hydrate PROVE AllFollowed'
  <2>1. \A e \in Events : task'[e] = IF task[e] = "waiting" THEN "put" ELSE task[e]
    BY <1>6 DEF Hydrate
  <2> QED BY <1>6, <2>1 DEF AllFollowed, Followed, Hydrate, storeVars, Durable
<1>7. ASSUME ProcessRestarts PROVE AllFollowed'
  <2>1. \A e \in Events : task'[e] = IF task[e] \in Pending THEN "lost" ELSE task[e]
    BY <1>7 DEF ProcessRestarts
  <2>2. restarts' > 0 /\ part' = part /\ outbox' = outbox /\ broker' = broker
    BY <1>7 DEF ProcessRestarts, Restart
  <2>3. ASSUME NEW e \in Events, task[e] \in Pending PROVE Followed(e)'
    <3>1. task'[e] = "lost" /\ broker[e] = 0
      BY <2>1, <2>3 DEF AllFollowed, Followed, Pending
    <3> QED BY <2>2, <3>1 DEF Followed
  <2>4. ASSUME NEW e \in Events, task[e] \notin Pending PROVE Followed(e)'
    <3>1. task'[e] = task[e] /\ Followed(e)
      BY <2>1, <2>4 DEF AllFollowed
    <3> QED BY <2>2, <2>4, <3>1 DEF Followed, Pending, Durable
  <2> QED BY <2>3, <2>4 DEF AllFollowed
<1>8. ASSUME NEW s \in Slots,
             \/ Rebuild(s) \/ FlushTasksDone(s) \/ FlushDone(s)
             \/ ProjectEvent(s) \/ RebuildAppends(s) \/ RebuildEnds(s)
      PROVE  AllFollowed'
  BY <1>8, FollowedKept DEF Rebuild, FlushTasksDone, FlushDone, ProjectEvent, RebuildAppends,
       RebuildEnds, BeginBeside, Await, Answer, Continue, outboxVars, processVars, storeVars
<1>9. ASSUME NEW e \in Events, NEW arrives \in BOOLEAN, NEW answered \in BOOLEAN,
             RelayPosts(e, arrives, answered)
      PROVE  AllFollowed'
  BY <1>9, FollowedKept DEF RelayPosts, handlerVars
<1>10. ASSUME UNCHANGED <<handlerVars, outboxVars>> PROVE AllFollowed'
  BY <1>10, FollowedKept DEF handlerVars, outboxVars, processVars, storeVars
<1> QED BY <1>2, <1>3, <1>4, <1>5, <1>6, <1>7, <1>8, <1>9, <1>10 DEF BusStep

-----------------------------------------------------------------------------
(* The realtime relay.                                                       *)

LEMMA PublicationsType ==
    ASSUME NEW e
    PROVE  /\ Publications(e) \in Seq(Channels)
           /\ \A i, j \in 1..Len(Publications(e)) :
                 Publications(e)[i] = Publications(e)[j] => i = j
<1> DEFINE two == <<"consumer.order", "merchant.order">>
           three == <<"consumer.order", "merchant.order", "courier.job">>
<1>1. two \in Seq(Channels) /\ three \in Seq(Channels) /\ <<>> \in Seq(Channels)
  BY DEF Channels
<1>2. 1..0 = {} /\ 1..2 = {1, 2} /\ 1..3 = {1, 2, 3}
  OBVIOUS
<1>3. Len(<<>>) = 0 /\ Len(two) = 2 /\ Len(three) = 3
  OBVIOUS
<1>4. /\ \A i, j \in {1, 2} : two[i] = two[j] => i = j
      /\ \A i, j \in {1, 2, 3} : three[i] = three[j] => i = j
  OBVIOUS
<1>5. Publications(e) \in {<<>>, two, three}
  BY DEF Publications
<1> HIDE DEF two, three
<1>6. CASE Publications(e) = <<>>
  <2>1. 1..Len(Publications(e)) = {}
    BY <1>2, <1>3, <1>6
  <2> QED BY <1>1, <1>6, <2>1
<1>7. CASE Publications(e) = two
  <2>1. 1..Len(Publications(e)) = {1, 2}
    BY <1>2, <1>3, <1>7
  <2> QED BY <1>1, <1>4, <1>7, <2>1, Zenon
<1>8. CASE Publications(e) = three
  <2>1. 1..Len(Publications(e)) = {1, 2, 3}
    BY <1>2, <1>3, <1>8
  <2> QED BY <1>1, <1>4, <1>8, <2>1, Zenon
<1> QED BY <1>5, <1>6, <1>7, <1>8

\* What is left of the posts of an event from its n-th channel on.
From(e, n) == SubSeq(Publications(e), n, Len(Publications(e)))

LEMMA FromSteps ==
    ASSUME NEW e, NEW n \in 1..Len(Publications(e))
    PROVE  /\ From(e, n) # <<>> /\ From(e, n) \in Seq(Channels)
           /\ Head(From(e, n)) = Publications(e)[n]
           /\ Tail(From(e, n)) = IF n = Len(Publications(e)) THEN <<>> ELSE From(e, n + 1)
<1> DEFINE to == Publications(e)
<1>1. to \in Seq(Channels) /\ Len(to) \in Nat /\ DOMAIN to = 1..Len(to)
  BY PublicationsType, LenProperties
<1> HIDE DEF to
<1>2. n \in 1..Len(to) /\ Len(to) \in n..Len(to)
  BY <1>1 DEF to
<1>3. Head(SubSeq(to, n, Len(to))) = to[n]
      /\ Tail(SubSeq(to, n, Len(to))) = SubSeq(to, n + 1, Len(to))
  BY <1>1, <1>2, HeadTailOfSubSeq
<1>4. \A i \in n..Len(to) : to[i] \in Channels
  BY <1>1, <1>2, ElementOfSeq
<1>5. SubSeq(to, n, Len(to)) \in Seq(Channels) /\ Len(SubSeq(to, n, Len(to))) = Len(to) - n + 1
  BY <1>1, <1>2, <1>4, SubSeqProperties
<1>6. SubSeq(to, n, Len(to)) # <<>>
  <2>1. Len(to) - n + 1 # 0
    BY <1>1, <1>2
  <2> QED BY <1>5, <2>1, EmptySeq
<1>7. n = Len(to) => SubSeq(to, n + 1, Len(to)) = <<>>
  BY <1>1, <1>2, SubSeqEmpty
<1> QED BY <1>3, <1>5, <1>6, <1>7 DEF From, to

\* How often a channel can have heard of an event.
Cap == IF Durable THEN 1 + restarts ELSE 1

\* The relay of an event has still to post to its n-th channel and those after
\* it, which have heard less than that one or than they can.
Posting(e, n) ==
    /\ relay[e] = From(e, n)
    /\ \A i \in n..Len(Publications(e)) : heard[e][Publications(e)[i]] < Cap
    /\ n > 1 => heard[e][Publications(e)[n]] < heard[e][Publications(e)[n - 1]]

RelayOK(e) ==
    /\ \A i \in 2..Len(Publications(e)) :
          heard[e][Publications(e)[i]] <= heard[e][Publications(e)[i - 1]]
    /\ \A c \in Channels : heard[e][c] <= Cap
    /\ relay[e] = <<>> \/ \E n \in 1..Len(Publications(e)) : Posting(e, n)
    /\ hydrating => relay[e] = <<>> /\ \A c \in Channels : heard[e][c] <= restarts
    /\ task[e] = "none" => relay[e] = <<>> /\ \A c \in Channels : heard[e][c] = 0

HeardOK == heard \in [Events -> [Channels -> Nat]] /\ DOMAIN relay = Events
RelaysOK == HeardOK /\ \A e \in Events : RelayOK(e)

LEMMA RelaysKept ==
    ASSUME RelaysOK, UNCHANGED <<part, restarts, hydrating, heard, relay>>,
           \A e \in Events : task'[e] = "none" => task[e] = "none"
    PROVE  RelaysOK'
BY DEF RelaysOK, HeardOK, RelayOK, Posting, Cap, Durable

\* The relay of an event starts: no channel has heard of it as often as it can.
LEMMA RelayStarts ==
    ASSUME NEW e \in Events, HeardOK, RelayOK(e), UNCHANGED <<part, restarts, heard>>,
           ~hydrating', task'[e] # "none", relay'[e] = Publications(e),
           \A c \in Channels : heard[e][c] < Cap
    PROVE  RelayOK(e)'
<1>1. Publications(e) \in Seq(Channels) /\ Len(Publications(e)) \in Nat
  BY PublicationsType, LenProperties
<1>2. CASE Publications(e) = <<>>
  BY <1>2 DEF RelayOK, Cap, Durable
<1>3. CASE Publications(e) # <<>>
  <2>1. 1 \in 1..Len(Publications(e))
    BY <1>1, <1>3, EmptySeq
  <2>2. From(e, 1) = Publications(e)
    BY <1>1, SubSeqFull DEF From
  <2>3. \A i \in 1..Len(Publications(e)) : Publications(e)[i] \in Channels
    BY <1>1, ElementOfSeq
  <2>4. Posting(e, 1)'
    BY <2>2, <2>3 DEF Posting, Cap, Durable
  <2> QED BY <2>1, <2>4 DEF RelayOK, Cap, Durable
<1> QED BY <1>2, <1>3

\* A relay that has ended leaves the channels in order.
LEMMA RelayEnds ==
    ASSUME NEW e \in Events, HeardOK, RelayOK(e), UNCHANGED <<part, restarts, heard, hydrating>>,
           task'[e] = "none" => task[e] = "none", relay'[e] = <<>>
    PROVE  RelayOK(e)'
BY DEF RelayOK, Cap, Durable

\* A channel hears of the event: the next one of the relay.
LEMMA ChannelHears ==
    ASSUME NEW e \in Events, HeardOK, RelayOK(e), ~hydrating, ~hydrating',
           UNCHANGED <<part, restarts>>, restarts \in Nat, task'[e] # "none",
           NEW n \in 1..Len(Publications(e)), Posting(e, n),
           heard' = [heard EXCEPT ![e][Publications(e)[n]] = @ + 1],
           relay'[e] \in {<<>>, Tail(relay[e])}, DOMAIN relay' = Events
    PROVE  HeardOK' /\ RelayOK(e)'
<1> DEFINE to == Publications(e)
           h == heard[e]
<1>1. to \in Seq(Channels) /\ Len(to) \in Nat /\ \A i \in 1..Len(to) : to[i] \in Channels
  BY PublicationsType, LenProperties, ElementOfSeq
<1>2. \A i, j \in 1..Len(to) : to[i] = to[j] => i = j
  BY PublicationsType
<1>3. h \in [Channels -> Nat] /\ to[n] \in Channels /\ h[to[n]] + 1 \in Nat
  BY <1>1 DEF HeardOK
<1>4. heard' = [heard EXCEPT ![e] = [h EXCEPT ![to[n]] = h[to[n]] + 1]]
  BY <1>3 DEF HeardOK
<1> DEFINE g == [h EXCEPT ![to[n]] = h[to[n]] + 1]
<1>5. g \in [Channels -> Nat] /\ g[to[n]] = h[to[n]] + 1
      /\ \A c \in Channels : c # to[n] => g[c] = h[c]
  BY <1>3
<1>6. HeardOK' /\ heard'[e] = g
  BY <1>4, <1>5 DEF HeardOK
<1>7. /\ \A i \in 2..Len(to) : h[to[i]] <= h[to[i - 1]]
      /\ \A c \in Channels : h[c] <= Cap
      /\ \A i \in n..Len(to) : h[to[i]] < Cap
      /\ n > 1 => h[to[n]] < h[to[n - 1]]
      /\ relay[e] = From(e, n)
  BY DEF RelayOK, Posting
<1>8. Cap \in Nat /\ Cap' = Cap
  BY DEF Cap, Durable
<1> HIDE DEF g, h, to
<1>9. \A i \in 1..Len(to) : g[to[i]] = IF i = n THEN h[to[i]] + 1 ELSE h[to[i]]
  BY <1>1, <1>2, <1>5 DEF to
<1>10. \A i \in 1..Len(to) : h[to[i]] \in Nat
  BY <1>1, <1>3
<1>11. \A i \in 2..Len(to) : g[to[i]] <= g[to[i - 1]]
  <2> SUFFICES ASSUME NEW i \in 2..Len(to) PROVE g[to[i]] <= g[to[i - 1]]
    OBVIOUS
  <2>1. i \in 1..Len(to) /\ i - 1 \in 1..Len(to) /\ n \in 1..Len(to)
    BY <1>1 DEF to
  <2>2. h[to[i]] <= h[to[i - 1]] /\ (i = n => h[to[i]] < h[to[i - 1]])
    BY <1>7, <2>1
  <2> QED BY <1>9, <1>10, <2>1, <2>2
<1>12. \A c \in Channels : g[c] <= Cap
  <2> SUFFICES ASSUME NEW c \in Channels PROVE g[c] <= Cap
    OBVIOUS
  <2>1. CASE c = to[n]
    <3>1. h[to[n]] < Cap /\ h[to[n]] \in Nat
      BY <1>1, <1>3, <1>7 DEF to
    <3> QED BY <1>5, <1>8, <2>1, <3>1
  <2>2. CASE c # to[n]
    BY <1>5, <1>7, <2>2
  <2> QED BY <2>1, <2>2
<1>13. relay'[e] = <<>> \/ \E m \in 1..Len(to) : Posting(e, m)'
  <2>1. CASE n = Len(to) \/ relay'[e] = <<>>
    BY <1>7, <2>1, FromSteps DEF to
  <2>2. CASE n # Len(to) /\ relay'[e] # <<>>
    <3>1. relay'[e] = From(e, n + 1) /\ n \in Nat /\ n + 1 \in 1..Len(to)
      <4>1. n \in Nat /\ n + 1 \in 1..Len(to)
        BY <1>1, <2>2 DEF to
      <4>2. relay'[e] = Tail(From(e, n))
        BY <1>7, <2>2
      <4> QED BY <2>2, <4>1, <4>2, FromSteps DEF to
    <3>2. \A i \in (n + 1)..Len(to) : g[to[i]] < Cap
      <4> SUFFICES ASSUME NEW i \in (n + 1)..Len(to) PROVE g[to[i]] < Cap
        OBVIOUS
      <4> i \in 1..Len(to) /\ i \in n..Len(to) /\ i # n
        BY <1>1, <3>1
      <4> QED BY <1>7, <1>9
    <3>3. g[to[n + 1]] < g[to[(n + 1) - 1]]
      <4>1. n + 1 \in 2..Len(to) /\ (n + 1) - 1 = n /\ n \in 1..Len(to) /\ n + 1 # n
        BY <1>1, <3>1
      <4>2. h[to[n + 1]] <= h[to[n]]
        BY <1>7, <4>1
      <4> QED BY <1>9, <1>10, <3>1, <4>1, <4>2
    <3>4. Posting(e, n + 1)'
      BY <1>6, <1>8, <3>1, <3>2, <3>3 DEF Posting, to
    <3> QED BY <3>1, <3>4
  <2> QED BY <2>1, <2>2
<1> QED BY <1>6, <1>8, <1>11, <1>12, <1>13 DEF RelayOK, to


\* Events published now have not been heard of, and those that enter the log
\* when it is hydrated not as often as they can.
LEMMA LogStartsRelays ==
    ASSUME RelaysOK, BusOK, NEW q \in Seq(Events), Log(q), ~hydrating',
           UNCHANGED <<part, restarts, heard>>,
           \A e \in Events : Contains(q, e) =>
               task'[e] # "none" /\ \A c \in Channels : heard[e][c] < Cap,
           \A e \in Events : ~Contains(q, e) =>
               (task'[e] = "none" => task[e] = "none") /\ (hydrating => relay[e] = <<>>)
    PROVE  RelaysOK'
<1>1. HeardOK'
  BY DEF Log, RelaysOK, HeardOK
<1>2. ASSUME NEW e \in Events PROVE RelayOK(e)'
  <2>1. RelayOK(e) /\ HeardOK
    BY DEF RelaysOK
  <2>2. CASE Contains(q, e) /\ Relayed
    BY <2>1, <2>2, RelayStarts DEF Log
  <2>3. CASE Contains(q, e) /\ ~Relayed
    BY <2>1, <2>3 DEF Log, RelayOK, Posting, Cap, Durable
  <2>4. CASE ~Contains(q, e)
    BY <2>1, <2>4 DEF Log, RelayOK, Posting, Cap, Durable
  <2> QED BY <2>2, <2>3, <2>4
<1> QED BY <1>1, <1>2 DEF RelaysOK

LEMMA RelaysOKStep ==
    part # "gateway" /\ BusOK /\ AllFollowed /\ RelaysOK /\ BusStep => RelaysOK'
<1> SUFFICES ASSUME part # "gateway", BusOK, AllFollowed, RelaysOK, BusStep PROVE RelaysOK'
  OBVIOUS
<1> restarts \in Nat /\ (hydrating => Durable) /\ task \in [Events -> TaskStates]
  BY DEF BusOK, CallsOK, LogOK
<1>1. ASSUME NEW e \in Events, Unpublished(e), Publish(e), UNCHANGED <<part, restarts, heard>>
      PROVE  RelaysOK'
  <2>1. CASE hydrating
    BY <1>1, <2>1, RelaysKept DEF Publish, Unpublished
  <2>2. CASE ~hydrating
    <3>1. \E to \in {"put", "done"} : task' = [task EXCEPT ![e] = to]
      BY <2>2, <1>1 DEF Publish
    <3>2. Log(<<e>>) /\ hydrating' = hydrating /\ <<e>> \in Seq(Events)
      BY <2>2, <1>1 DEF Publish
    <3>3. \A c \in Channels : heard[e][c] = 0
      BY <1>1 DEF Unpublished, RelaysOK, RelayOK
    <3>4. 0 < Cap
      BY DEF Cap
    <3> QED BY <1>1, <2>2, <3>1, <3>2, <3>3, <3>4, ContainsOne, LogStartsRelays
  <2> QED BY <2>1, <2>2
<1>2. ASSUME NEW s \in Slots, NEW e \in Events, PublishOrderEvent(s, e) PROVE RelaysOK'
  BY <1>1, <1>2 DEF PublishOrderEvent, BeginBeside, storeVars
<1>3. ASSUME NEW e \in Events, PublishOtherEvent(e) PROVE RelaysOK'
  BY <1>1, <1>3 DEF PublishOtherEvent, handlerVars, storeVars
<1>4. ASSUME NEW e \in Events, PutInOutbox(e) \/ SendToBroker(e) PROVE RelaysOK'
  BY <1>4, RelaysKept DEF PutInOutbox, SendToBroker, handlerVars
<1>5. ASSUME Hydrate PROVE RelaysOK'
  <2>1. Log(outbox \o waiting) /\ ~hydrating' /\ hydrating /\ Durable
        /\ UNCHANGED <<part, restarts, heard>>
    BY <1>5 DEF Hydrate, storeVars
  <2>2. outbox \o waiting \in Seq(Events)
        /\ \A e : Contains(outbox \o waiting, e) <=> Contains(outbox, e) \/ Contains(waiting, e)
    BY ContainsConcat DEF BusOK, LogOK, StoresOK
  <2>3. \A e \in Events : task'[e] = IF task[e] = "waiting" THEN "put" ELSE task[e]
    BY <1>5 DEF Hydrate
  <2>4. \A e \in Events : Contains(outbox \o waiting, e) => task[e] # "none"
    BY <2>2 DEF AllFollowed, Followed, BusOK, LogOK, WaitingKnown
  <2>5. ASSUME NEW e \in Events, NEW c \in Channels PROVE heard[e][c] < Cap
    <3>1. heard[e][c] <= restarts /\ heard[e][c] \in Nat
      BY <2>1 DEF RelaysOK, RelayOK, HeardOK
    <3>2. Cap = 1 + restarts
      BY <2>1 DEF Cap
    <3> QED BY <3>1, <3>2
  <2>6. \A e \in Events : hydrating => relay[e] = <<>>
    BY DEF RelaysOK, RelayOK
  <2> QED BY <2>1, <2>2, <2>3, <2>4, <2>5, <2>6, LogStartsRelays
<1>6. ASSUME ProcessRestarts PROVE RelaysOK'
  <2>1. restarts' = restarts + 1 /\ part' = part /\ heard' = heard
        /\ relay' = [e \in Events |-> <<>>] /\ hydrating' = Durable
        /\ task' = [e \in Events |-> IF task[e] \in Pending THEN "lost" ELSE task[e]]
    BY <1>6 DEF ProcessRestarts, Restart
  <2>2. Cap <= Cap' /\ (Durable => Cap = restarts') /\ Cap \in Nat /\ Cap' \in Nat
    BY <2>1 DEF Cap, Durable
  <2>3. ASSUME NEW e \in Events PROVE RelayOK(e)'
    <3>1. RelayOK(e) /\ heard[e] \in [Channels -> Nat]
      BY DEF RelaysOK, HeardOK
    <3>2. \A c \in Channels : heard'[e][c] <= Cap'
      <4> TAKE c \in Channels
      <4>1. heard[e][c] \in Nat /\ heard[e][c] <= Cap
        BY <3>1 DEF RelayOK
      <4> QED BY <2>1, <2>2, <4>1
    <3>3. relay'[e] = <<>>
      BY <2>1
    <3>4. hydrating' => \A c \in Channels : heard'[e][c] <= restarts'
      BY <2>1, <2>2, <3>1 DEF RelayOK
    <3>5. task'[e] = "none" => task[e] = "none"
      BY <2>1
    <3> QED BY <2>1, <3>1, <3>2, <3>3, <3>4, <3>5 DEF RelayOK
  <2> QED BY <2>1, <2>3 DEF RelaysOK, HeardOK
<1>7. ASSUME NEW e \in Events, NEW arrives \in BOOLEAN, NEW answered \in BOOLEAN,
             RelayPosts(e, arrives, answered)
      PROVE  RelaysOK'
  <2>1. /\ relay[e] # <<>> /\ (answered => arrives)
        /\ heard' = IF arrives THEN [heard EXCEPT ![e][Head(relay[e])] = @ + 1] ELSE heard
        /\ relay' = [relay EXCEPT ![e] = IF answered THEN Tail(relay[e]) ELSE <<>>]
        /\ UNCHANGED <<part, restarts, hydrating, task>>
    BY <1>7 DEF RelayPosts, handlerVars, RelaysOK, HeardOK
  <2>2. ~hydrating /\ task[e] # "none" /\ HeardOK /\ RelayOK(e)
    BY <2>1 DEF RelaysOK, RelayOK
  <2>3. PICK n \in 1..Len(Publications(e)) : Posting(e, n)
    BY <2>1, <2>2 DEF RelayOK
  <2>4. Head(relay[e]) = Publications(e)[n]
    BY <2>3, FromSteps DEF Posting
  <2>5. HeardOK' /\ RelayOK(e)'
    <3>1. CASE arrives
      BY <2>1, <2>2, <2>3, <2>4, <3>1, ChannelHears DEF RelaysOK, HeardOK
    <3>2. CASE ~arrives
      BY <2>1, <2>2, <3>2, RelayEnds DEF RelaysOK, HeardOK
    <3> QED BY <3>1, <3>2
  <2>6. \A x \in Events \ {e} : heard'[x] = heard[x] /\ relay'[x] = relay[x]
    BY <2>1 DEF RelaysOK, HeardOK
  <2>7. ASSUME NEW x \in Events \ {e} PROVE RelayOK(x)'
    BY <2>1, <2>6 DEF RelaysOK, RelayOK, Posting, Cap, Durable
  <2> QED BY <2>5, <2>7 DEF RelaysOK
<1>8. ASSUME NEW s \in Slots,
             \/ Rebuild(s) \/ FlushTasksDone(s) \/ FlushDone(s)
             \/ ProjectEvent(s) \/ RebuildAppends(s) \/ RebuildEnds(s)
      PROVE  RelaysOK'
  BY <1>8, RelaysKept DEF Rebuild, FlushTasksDone, FlushDone, ProjectEvent, RebuildAppends,
       RebuildEnds, BeginBeside, Await, Answer, Continue, outboxVars, processVars, storeVars
<1>9. ASSUME UNCHANGED <<handlerVars, outboxVars>> PROVE RelaysOK'
  BY <1>9, RelaysKept DEF handlerVars, outboxVars, processVars, storeVars
<1> QED BY <1>2, <1>3, <1>4, <1>5, <1>6, <1>7, <1>8, <1>9 DEF BusStep

-----------------------------------------------------------------------------
(* The realtime gateway.                                                     *)

SocketStates == {"new", "open", "dead", "closing", "closed"}

\* Whom a channel's set should list.
Listening(r) == {k \in Sockets : roomOf[k] = r /\ socket[k] \in {"open", "dead", "closing"}}

Lists ==
    /\ \A r \in Rooms : SubscribersOf(r) = Listening(r)
    /\ \A r \in DOMAIN subscribers : subscribers[r] # {}

SocketsOK ==
    /\ socket \in [Sockets -> SocketStates] /\ roomOf \in [Sockets -> Rooms \cup {Null}]
    /\ DOMAIN subscribers \subseteq Rooms /\ Lists

\* The envelopes of a feed are among those published, the newest in front.
FeedOK(f) ==
    /\ f \in Seq(Nat) /\ Len(f) <= FeedLength
    /\ \A i \in 1..Len(f) : f[i] <= published
    /\ \A i \in 2..Len(f) : f[i] < f[i - 1]

LastReached ==
    last # Null =>
        /\ last.received = last.listening
        /\ last.listening # {} \/ last.targets = last.registered \/ last.gone # {}

GatewayOK ==
    /\ SocketsOK /\ LastReached
    /\ registrations \in [Rooms -> [Users -> Providers \cup {Null}]]
    /\ published \in 0..MaxPublications
    /\ DOMAIN feed = Sockets /\ \A k \in Sockets : FeedOK(feed[k])

LEMMA WithSubscribersGives ==
    ASSUME NEW r, NEW new, NEW map, map = WithSubscribers(r, new)
    PROVE  /\ DOMAIN map \subseteq DOMAIN subscribers \cup {r}
           /\ r \in DOMAIN map <=> new # {}
           /\ new # {} => map[r] = new
           /\ \A x : x # r => (x \in DOMAIN map <=> x \in DOMAIN subscribers)
           /\ \A x \in DOMAIN subscribers : x # r => map[x] = subscribers[x]
BY DEF WithSubscribers

\* A channel's set becomes what it should be; the other channels keep theirs.
LEMMA ListsRewritten ==
    ASSUME Lists, NEW r \in Rooms, NEW now, now = Listening(r)',
           subscribers' = WithSubscribers(r, now),
           \A x \in Rooms \ {r} : Listening(x)' = Listening(x)
    PROVE  Lists' /\ DOMAIN subscribers' \subseteq DOMAIN subscribers \cup {r}
<1> DEFINE map == subscribers'
<1>1. /\ DOMAIN map \subseteq DOMAIN subscribers \cup {r}
      /\ r \in DOMAIN map <=> now # {}
      /\ now # {} => map[r] = now
      /\ \A x : x # r => (x \in DOMAIN map <=> x \in DOMAIN subscribers)
      /\ \A x \in DOMAIN subscribers : x # r => map[x] = subscribers[x]
  BY WithSubscribersGives
<1>2. SubscribersOf(r)' = now
  BY <1>1 DEF SubscribersOf
<1>3. \A x \in Rooms \ {r} : SubscribersOf(x)' = SubscribersOf(x)
  BY <1>1 DEF SubscribersOf
<1>4. \A x \in DOMAIN map : map[x] # {}
  BY <1>1 DEF Lists
<1>5. \A x \in Rooms : SubscribersOf(x)' = Listening(x)'
  BY <1>2, <1>3 DEF Lists
<1> QED BY <1>1, <1>4, <1>5 DEF Lists

LEMMA SocketsKept ==
    ASSUME SocketsOK, UNCHANGED <<socket, roomOf, subscribers>>
    PROVE  SocketsOK'
BY DEF SocketsOK, Lists, Listening, SubscribersOf

LEMMA SocketsStep ==
    ASSUME SocketsOK, GatewayNext
    PROVE  SocketsOK'
<1>1. ASSUME NEW k \in Sockets, NEW r \in Rooms \cup {Null}, Connect(k, r) PROVE SocketsOK'
  <2>1. socket[k] = "new" /\ roomOf' = [roomOf EXCEPT ![k] = r]
    BY <1>1 DEF Connect
  <2>2. CASE r = Null
    <3>1. socket' = [socket EXCEPT ![k] = "closed"] /\ subscribers' = subscribers
      BY <1>1, <2>2 DEF Connect
    <3>2. \A x \in Rooms : Listening(x)' = Listening(x)
      BY <2>1, <3>1 DEF Listening, SocketsOK
    <3> QED BY <2>1, <3>1, <3>2 DEF SocketsOK, SocketStates, Lists, SubscribersOf
  <2>3. CASE r # Null
    <3>1. socket' = [socket EXCEPT ![k] = "open"]
          /\ subscribers' = WithSubscribers(r, SubscribersOf(r) \cup {k}) /\ r \in Rooms
      BY <1>1, <2>3 DEF Connect
    <3>2. Listening(r)' = Listening(r) \cup {k}
      BY <2>1, <3>1 DEF Listening, SocketsOK
    <3>3. \A x \in Rooms \ {r} : Listening(x)' = Listening(x)
      BY <2>1, <3>1 DEF Listening, SocketsOK
    <3>4. Lists' /\ DOMAIN subscribers' \subseteq DOMAIN subscribers \cup {r}
      BY <3>1, <3>2, <3>3, ListsRewritten DEF SocketsOK, Lists
    <3> QED BY <2>1, <3>1, <3>4 DEF SocketsOK, SocketStates
  <2> QED BY <2>2, <2>3
<1>2. ASSUME NEW k \in Sockets, NEW state \in {"dead", "closing"}, Drops(k, state) PROVE SocketsOK'
  <2>1. socket[k] \in {"open", "dead"} /\ socket' = [socket EXCEPT ![k] = state]
        /\ roomOf' = roomOf /\ subscribers' = subscribers
    BY <1>2 DEF Drops
  <2>2. \A x \in Rooms : Listening(x)' = Listening(x)
    BY <2>1 DEF Listening, SocketsOK
  <2> QED BY <2>1, <2>2 DEF SocketsOK, SocketStates, Lists, SubscribersOf
<1>3. ASSUME NEW k \in Sockets, Closed(k) PROVE SocketsOK'
  <2> DEFINE r == roomOf[k]
  <2>1. socket[k] = "closing" /\ socket' = [socket EXCEPT ![k] = "closed"] /\ roomOf' = roomOf
        /\ subscribers' = IF r \in DOMAIN subscribers
                          THEN WithSubscribers(r, subscribers[r] \ {k}) ELSE subscribers
    BY <1>3 DEF Closed
  <2>2. \A x \in Rooms \ {r} : Listening(x)' = Listening(x)
    BY <2>1 DEF Listening, SocketsOK
  <2>3. r \in Rooms => Listening(r)' = Listening(r) \ {k} /\ k \in Listening(r)
    BY <2>1 DEF Listening, SocketsOK
  <2>4. CASE r \in DOMAIN subscribers
    <3>1. r \in Rooms /\ subscribers[r] = Listening(r)
      BY <2>4 DEF SocketsOK, Lists, SubscribersOf
    <3>2. Lists' /\ DOMAIN subscribers' \subseteq DOMAIN subscribers \cup {r}
      BY <2>1, <2>2, <2>3, <2>4, <3>1, ListsRewritten DEF SocketsOK
    <3> QED BY <2>1, <3>1, <3>2 DEF SocketsOK, SocketStates
  <2>5. CASE r \notin DOMAIN subscribers
    <3>1. r \notin Rooms
      BY <2>3, <2>5 DEF SocketsOK, Lists, SubscribersOf
    <3> QED BY <2>1, <2>2, <2>5, <3>1 DEF SocketsOK, SocketStates, Lists, SubscribersOf
  <2> QED BY <2>4, <2>5
<1>4. ASSUME GatewayRestarts PROVE SocketsOK'
  <2>1. /\ socket' = [k \in Sockets |-> IF socket[k] = "new" THEN "new" ELSE "closed"]
        /\ subscribers' = [r \in {} |-> {}] /\ roomOf' = roomOf
    BY <1>4 DEF GatewayRestarts
  <2>2. \A x \in Rooms : Listening(x)' = {}
    BY <2>1 DEF Listening
  <2> QED BY <2>1, <2>2 DEF SocketsOK, SocketStates, Lists, SubscribersOf
<1>5. ASSUME NEW r \in Rooms, NEW u \in Users,
             (\E provider \in Providers : Register(r, u, provider)) \/ Unregister(r, u)
      PROVE  SocketsOK'
  BY <1>5, SocketsKept DEF Register, Unregister
<1>6. ASSUME NEW r \in Rooms, NEW failed \in SUBSET Users, PublishToChannel(r, failed)
      PROVE  SocketsOK'
  BY <1>6, SocketsKept DEF PublishToChannel
<1> QED BY <1>1, <1>2, <1>3, <1>4, <1>5, <1>6 DEF GatewayNext


\* A client's feed with one more envelope.
LEMMA FeedGrows ==
    ASSUME published \in Nat, NEW k \in Sockets, FeedOK(feed[k]), published' = published + 1,
           NEW h, h = FeedWith(k, published + 1)
    PROVE  FeedOK(h)'
<1> DEFINE f == feed[k]
           m == published + 1
           n == IF Len(f) < FeedLength THEN Len(f) + 1 ELSE FeedLength
           g == <<m>> \o f
<1>1. f \in Seq(Nat) /\ Len(f) \in Nat /\ m \in Nat /\ <<m>> \in Seq(Nat) /\ Len(<<m>>) = 1
      /\ <<m>>[1] = m
  BY LenProperties DEF FeedOK
<1>2. FeedLength \in Nat /\ FeedLength >= 1 /\ Len(f) <= FeedLength
  BY GatewayAssumption DEF FeedOK
<1>3. n \in Nat /\ n >= 1 /\ n <= FeedLength /\ n <= Len(f) + 1
  BY <1>1, <1>2
<1>4. /\ g \in Seq(Nat) /\ Len(g) = 1 + Len(f)
      /\ \A i \in 1..(1 + Len(f)) : g[i] = IF i <= 1 THEN <<m>>[i] ELSE f[i - 1]
  BY <1>1, ConcatProperties
<1>5. g[1] = m /\ \A i \in 2..(1 + Len(f)) : g[i] = f[i - 1]
  BY <1>1, <1>4
<1>0. h = SubSeq(g, 1, n)
  BY DEF FeedWith
<1> HIDE DEF g, n, f
<1>6. /\ h \in Seq(Nat) /\ Len(h) = n
      /\ \A i \in 1..n : h[i] = g[i]
  <2>1. \A i \in 1..n : g[i] \in Nat
    BY <1>1, <1>3, <1>4, ElementOfSeq
  <2>2. /\ h \in Seq(Nat) /\ Len(h) = IF 1 <= n THEN n - 1 + 1 ELSE 0
        /\ \A i \in 1..(n - 1 + 1) : h[i] = g[1 + i - 1]
    BY <1>0, <1>3, <2>1, SubSeqProperties
  <2>3. n - 1 + 1 = n /\ \A i \in 1..n : 1 + i - 1 = i
    BY <1>3
  <2> QED BY <1>3, <2>2, <2>3
<1>7. /\ \A i \in 1..Len(f) : f[i] <= published /\ f[i] \in Nat
      /\ \A i \in 2..Len(f) : f[i] < f[i - 1]
  BY <1>1, ElementOfSeq DEF FeedOK, f
<1>8. \A i \in 1..Len(h) : h[i] <= m
  <2> SUFFICES ASSUME NEW i \in 1..Len(h) PROVE h[i] <= m
    OBVIOUS
  <2>1. CASE i = 1
    BY <1>1, <1>3, <1>5, <1>6, <2>1
  <2>2. CASE i # 1
    <3>1. i \in 1..n /\ i \in 2..(1 + Len(f)) /\ i - 1 \in 1..Len(f)
      BY <1>1, <1>3, <1>6, <2>2
    <3>2. h[i] = f[i - 1]
      BY <1>5, <1>6, <3>1
    <3> QED BY <1>7, <3>1, <3>2
  <2> QED BY <2>1, <2>2
<1>9. \A i \in 2..Len(h) : h[i] < h[i - 1]
  <2> SUFFICES ASSUME NEW i \in 2..Len(h) PROVE h[i] < h[i - 1]
    OBVIOUS
  <2>1. i \in 1..n /\ i - 1 \in 1..n /\ i \in 2..(1 + Len(f)) /\ i - 1 \in 1..Len(f)
    BY <1>1, <1>3, <1>6
  <2>2. h[i] = f[i - 1] /\ h[i - 1] = g[i - 1]
    BY <1>5, <1>6, <2>1
  <2>3. CASE i = 2
    <3>1. h[i - 1] = m /\ f[i - 1] <= published /\ f[i - 1] \in Nat
      BY <1>5, <1>7, <2>1, <2>2, <2>3
    <3> QED BY <2>2, <3>1
  <2>4. CASE i # 2
    <3>1. i - 1 \in 2..Len(f) /\ i - 1 \in 2..(1 + Len(f))
      BY <1>1, <2>1, <2>4
    <3>2. h[i - 1] = f[(i - 1) - 1]
      BY <1>5, <2>2, <3>1
    <3> QED BY <1>7, <2>2, <3>1, <3>2
  <2> QED BY <2>3, <2>4
<1> QED BY <1>2, <1>3, <1>6, <1>8, <1>9 DEF FeedOK


LEMMA GatewayOKStep == GatewayOK /\ GatewayNext => GatewayOK'
<1> SUFFICES ASSUME GatewayOK, GatewayNext PROVE GatewayOK'
  OBVIOUS
<1>1. SocketsOK'
  BY SocketsStep DEF GatewayOK
<1>2. CASE \E r \in Rooms, failed \in SUBSET Users : PublishToChannel(r, failed)
  <2>1. PICK r \in Rooms, failed \in SUBSET Users : PublishToChannel(r, failed)
    BY <1>2
  <2> DEFINE sent == SendsTo(r)
             received == {k \in sent : socket[k] = "open"}
             targets == IF sent # {} THEN {} ELSE {u \in Users : registrations[r][u] # Null}
             gone == {k \in sent : socket[k] = "dead"}
             registered == {u \in Users : registrations[r][u] # Null}
             listening == {k \in Sockets : socket[k] = "open" /\ roomOf[k] = r}
  <2>2. /\ published < MaxPublications /\ published' = published + 1
        /\ last'.received = received /\ last'.listening = listening /\ last'.gone = gone
        /\ last'.targets = targets /\ last'.registered = registered
        /\ feed' = [k \in Sockets |-> IF k \in received THEN FeedWith(k, published + 1) ELSE feed[k]]
        /\ registrations' = registrations
    BY <2>1 DEF PublishToChannel
  <2>3. published' \in 0..MaxPublications /\ published \in Nat
    BY <2>2, GatewayAssumption DEF GatewayOK
  <2>4. sent = {k \in Sockets : roomOf[k] = r /\ socket[k] \in {"open", "dead"}}
    BY DEF SendsTo, SeemsOpen, GatewayOK, SocketsOK, Lists, Listening
  <2>5. received = listening /\ (sent # {} => received # {} \/ gone # {})
        /\ (sent = {} => targets = registered)
    BY <2>4
  <2>6. LastReached'
    BY <2>2, <2>5 DEF LastReached
  <2>7. ASSUME NEW k \in Sockets PROVE FeedOK(feed[k])'
    <3>1. FeedOK(feed[k])
      BY DEF GatewayOK
    <3>2. CASE k \in received
      <4>1. feed'[k] = FeedWith(k, published + 1)
        BY <2>2, <3>2
      <4> QED BY <2>2, <2>3, <3>1, <4>1, FeedGrows
    <3>3. CASE k \notin received
      <4>1. feed'[k] = feed[k]
        BY <2>2, <3>3
      <4>2. \A n \in Nat : n <= published => n <= published'
        BY <2>2, <2>3
      <4>3. \A i \in 1..Len(feed[k]) : feed[k][i] \in Nat
        BY <3>1, ElementOfSeq DEF FeedOK
      <4> QED BY <3>1, <4>1, <4>2, <4>3 DEF FeedOK
    <3> QED BY <3>2, <3>3
  <2> QED BY <1>1, <2>2, <2>3, <2>6, <2>7 DEF GatewayOK
<1>3. CASE ~ \E r \in Rooms, failed \in SUBSET Users : PublishToChannel(r, failed)
  <2>1. feed' = feed /\ published' = published /\ last' = last
    BY <1>3 DEF GatewayNext, Connect, Drops, Closed, Register, Unregister, GatewayRestarts
  <2>2. registrations' \in [Rooms -> [Users -> Providers \cup {Null}]]
    <3>1. CASE registrations' = registrations
      BY <3>1 DEF GatewayOK
    <3>2. CASE \E r \in Rooms, u \in Users, to \in Providers \cup {Null} :
                   registrations' = [registrations EXCEPT ![r][u] = to]
      BY <3>2 DEF GatewayOK
    <3>3. CASE GatewayRestarts
      BY <3>3 DEF GatewayRestarts
    <3> QED BY <1>3, <3>1, <3>2, <3>3 DEF GatewayNext, Connect, Drops, Closed, Register, Unregister
  <2> QED BY <1>1, <2>1, <2>2 DEF GatewayOK, LastReached, FeedOK
<1> QED BY <1>2, <1>3

LEMMA GatewayOKInit == GatewayInit => GatewayOK
<1> SUFFICES ASSUME GatewayInit PROVE GatewayOK
  OBVIOUS
<1> USE DEF GatewayInit
<1>1. SocketsOK
  BY DEF SocketsOK, SocketStates, Lists, Listening, SubscribersOf
<1>2. <<>> \in Seq(Nat) /\ Len(<<>>) = 0
  BY EmptySeq
<1>3. \A k \in Sockets : FeedOK(feed[k])
  BY <1>2, GatewayAssumption DEF FeedOK
<1> QED BY <1>1, <1>3, GatewayAssumption DEF GatewayOK, LastReached

-----------------------------------------------------------------------------
(* Rebuilds of the timeline.                                                 *)

\* Before the place a rebuild has reached, the log is on the timeline.
Reached(s) ==
    At(s, "rebuild") =>
        /\ call[s].index <= Len(events) + 1
        /\ \A i \in 1..Len(events) :
              i < call[s].index /\ OnTimeline(events[i]) => Contains(timeline, events[i])

RebuildsOK ==
    /\ \A s \in Slots : Reached(s)
    /\ \A e \in rebuilt : Contains(timeline, e)
    /\ Durable => IsInjective(timeline)

LEMMA WithEntryOnce ==
    ASSUME Durable, timeline \in Seq(Events), IsInjective(timeline), NEW e \in Events
    PROVE  IsInjective(WithEntry(e))
<1>1. CASE Contains(timeline, e)
  BY <1>1 DEF WithEntry
<1>2. CASE ~Contains(timeline, e)
  <2> DEFINE n == Len(timeline)
  <2>1. n \in Nat /\ DOMAIN timeline = 1..n
    BY LenProperties
  <2>2. /\ DOMAIN Append(timeline, e) = 1..(n + 1)
        /\ Append(timeline, e)[n + 1] = e
        /\ \A i \in 1..n : Append(timeline, e)[i] = timeline[i]
    BY <2>1
  <2>3. \A i \in 1..n : timeline[i] # e
    BY <1>2 DEF Contains
  <2>4. 1..(n + 1) = 1..n \cup {n + 1}
    BY <2>1
  <2> HIDE DEF n
  <2>5. IsInjective(Append(timeline, e))
    BY <2>1, <2>2, <2>3, <2>4 DEF IsInjective
  <2> QED BY <1>2, <2>5 DEF WithEntry
<1> QED BY <1>1, <1>2

\* The log and the timeline grow, and no rebuild goes on.
LEMMA ReachedKept ==
    ASSUME BusOK, NEW s \in Slots, Reached(s),
           events' = events \/ \E q \in Seq(Events) : events' = events \o q,
           \A e : Contains(timeline, e) => Contains(timeline', e),
           At(s, "rebuild")' => \/ call'[s].index = 1
                                \/ At(s, "rebuild") /\ call'[s].index = call[s].index
    PROVE  Reached(s)'
<1> SUFFICES ASSUME At(s, "rebuild")' PROVE Reached(s)'
  BY DEF Reached
<1>1. events \in Seq(Events) /\ Len(events) \in Nat
  BY LenProperties DEF BusOK, LogOK
<1>2. Len(events') \in Nat /\ Len(events) <= Len(events')
      /\ \A i \in 1..Len(events) : events'[i] = events[i]
  <2>1. CASE events' = events
    BY <1>1, <2>1
  <2>2. ASSUME NEW q \in Seq(Events), events' = events \o q PROVE <1>2
    <3>1. /\ Len(events') = Len(events) + Len(q) /\ Len(q) \in Nat
          /\ \A i \in 1..(Len(events) + Len(q)) : i <= Len(events) => events'[i] = events[i]
      BY <1>1, <2>2, ConcatProperties, LenProperties
    <3> QED BY <1>1, <3>1
  <2> QED BY <2>1, <2>2
<1>3. CASE call'[s].index = 1
  <2>1. 1 <= Len(events') + 1 /\ \A i \in 1..Len(events') : ~(i < 1)
    BY <1>2
  <2> QED BY <1>3, <2>1 DEF Reached
<1>4. CASE At(s, "rebuild") /\ call'[s].index = call[s].index
  <2>1. call[s].index \in Nat /\ call[s].index <= Len(events) + 1
    BY <1>4 DEF Reached, At, BusOK, CallsOK, OutboxCall
  <2>2. call[s].index <= Len(events') + 1
    BY <1>1, <1>2, <2>1
  <2>3. ASSUME NEW i \in 1..Len(events'), i < call[s].index, OnTimeline(events'[i])
        PROVE  Contains(timeline', events'[i])
    <3>1. i \in 1..Len(events)
      BY <1>1, <1>2, <2>1, <2>3
    <3>2. events'[i] = events[i]
      BY <1>2, <3>1
    <3> QED BY <1>4, <2>3, <3>1, <3>2 DEF Reached
  <2> QED BY <1>4, <2>2, <2>3 DEF Reached
<1> QED BY <1>3, <1>4

LEMMA RebuildsKept ==
    ASSUME BusOK, RebuildsOK, part' = part, rebuilt' = rebuilt, timeline' = timeline,
           events' = events \/ \E q \in Seq(Events) : events' = events \o q,
           \A s \in Slots : At(s, "rebuild")' =>
               \/ call'[s].index = 1
               \/ At(s, "rebuild") /\ call'[s].index = call[s].index
    PROVE  RebuildsOK'
<1>1. \A s \in Slots : Reached(s)'
  BY ReachedKept DEF RebuildsOK
<1> QED BY <1>1 DEF RebuildsOK, Durable

LEMMA RebuildsOKStep == part # "gateway" /\ BusOK /\ RebuildsOK /\ BusStep => RebuildsOK'
<1> SUFFICES ASSUME part # "gateway", BusOK, RebuildsOK, BusStep PROVE RebuildsOK'
  OBVIOUS
<1> call \in [Slots -> OutboxCall \cup {Idle}] /\ timeline \in Seq(Events) /\ events \in Seq(Events)
    /\ \A s \in Slots : call[s] # Idle => PhaseFits(call[s])
  BY DEF BusOK, LogOK, StoresOK, CallsOK
<1>1. ASSUME NEW e \in Events, Publish(e)
      PROVE  events' = events \/ \E q \in Seq(Events) : events' = events \o q
  <2> <<e>> \in Seq(Events)
    OBVIOUS
  <2> QED BY <1>1 DEF Publish, Log
<1>2. ASSUME NEW s \in Slots, NEW e \in Events, PublishOrderEvent(s, e) PROVE RebuildsOK'
  <2> DEFINE h == Flushing(<<"event", e>>, PendingTasks', RunningRelays')
  <2>1. h.index = 1
    BY FlushingIsACall DEF PendingTasks, RunningRelays
  <2> HIDE DEF h
  <2>2. BeginBeside(s, h, RebuildRuns) /\ Publish(e) /\ rebuilt' = rebuilt /\ timeline' = timeline
    BY <1>2 DEF PublishOrderEvent, h, storeVars
  <2> QED BY <1>1, <2>1, <2>2, RebuildsKept DEF BeginBeside, At
<1>3. ASSUME NEW e \in Events, PublishOtherEvent(e) PROVE RebuildsOK'
  <2> Publish(e) /\ part' = part /\ call' = call /\ rebuilt' = rebuilt /\ timeline' = timeline
    BY <1>3 DEF PublishOtherEvent, handlerVars, storeVars
  <2> QED BY <1>1, RebuildsKept DEF At
<1>4. ASSUME NEW e \in Events, PutInOutbox(e) \/ SendToBroker(e) PROVE RebuildsOK'
  BY <1>4, RebuildsKept DEF PutInOutbox, SendToBroker, handlerVars, At
<1>5. ASSUME NEW e \in Events, NEW arrives \in BOOLEAN, NEW answered \in BOOLEAN,
             RelayPosts(e, arrives, answered)
      PROVE  RebuildsOK'
  BY <1>5, RebuildsKept DEF RelayPosts, handlerVars, At
<1>6. ASSUME Hydrate PROVE RebuildsOK'
  <2>1. outbox \o waiting \in Seq(Events) /\ events' = events \o (outbox \o waiting)
        /\ part' = part /\ rebuilt' = rebuilt /\ timeline' = timeline
    BY <1>6, ContainsConcat DEF Hydrate, Log, storeVars, BusOK, LogOK, StoresOK
  <2>2. \A s \in Slots : call'[s] = IF At(s, "hydration")
                                    THEN [call[s] EXCEPT !.phase = "tasks", !.waitFor = ToSet(waiting)]
                                    ELSE call[s]
    BY <1>6 DEF Hydrate
  <2>3. ASSUME NEW s \in Slots, At(s, "rebuild")'
        PROVE  At(s, "rebuild") /\ call'[s].index = call[s].index
    BY <2>2, <2>3 DEF At, OutboxCall
  <2> QED BY <2>1, <2>3, RebuildsKept
<1>7. ASSUME ProcessRestarts PROVE RebuildsOK'
  <2>1. \A s \in Slots : call'[s] = Idle
    BY <1>7 DEF ProcessRestarts, Restart
  <2>2. part' = part /\ timeline' = (IF Durable THEN timeline ELSE <<>>)
        /\ rebuilt' = (IF Durable THEN rebuilt ELSE {})
    BY <1>7 DEF ProcessRestarts, Restart
  <2> QED BY <2>1, <2>2 DEF RebuildsOK, Reached, At, Durable
<1>8. ASSUME NEW s \in Slots, Rebuild(s) PROVE RebuildsOK'
  <2>1. CASE Durable
    <3> DEFINE h == Flushing(<<"timeline">>, PendingTasks, {})
    <3>1. h.index = 1
      BY FlushingIsACall DEF PendingTasks
    <3> HIDE DEF h
    <3>2. BeginBeside(s, h, ~Quiet) /\ outboxVars' = outboxVars
      BY <1>8, <2>1 DEF Rebuild, h
    <3> QED BY <3>1, <3>2, RebuildsKept DEF BeginBeside, At, outboxVars, processVars, storeVars
  <2>2. CASE ~Durable
    <3>1. PICK at \in Bijection(1..Cardinality(LoggedAt), LoggedAt) :
             timeline' = [i \in DOMAIN at |-> events[at[i]]]
      BY <1>8, <2>2 DEF Rebuild
    <3>2. at \in [1..Cardinality(LoggedAt) -> LoggedAt]
          /\ \A j \in LoggedAt : \E i \in 1..Cardinality(LoggedAt) : at[i] = j
      BY DEF Bijection, Injection, Surjection
    <3>3. part' = part /\ call' = call /\ rebuilt' = LoggedEvents
      BY <1>8, <2>2 DEF Rebuild
    <3>4. timeline' \in Seq(Events)
      BY <1>8, BusOKStep DEF BusStep, BusOK, StoresOK
    <3>5. ASSUME NEW e \in LoggedEvents PROVE Contains(timeline', e)
      <4>1. PICK j \in LoggedAt : e = events[j]
        BY DEF LoggedEvents
      <4>2. PICK i \in DOMAIN at : at[i] = j
        BY <3>2
      <4>3. timeline'[i] = e /\ i \in DOMAIN timeline'
        BY <3>1, <4>1, <4>2
      <4> QED BY <3>4, <4>3, LenProperties DEF Contains
    <3>6. \A t \in Slots : ~At(t, "rebuild")
      BY <2>2 DEF PhaseFits, At
    <3>7. (\A t \in Slots : Reached(t))'
      BY <3>3, <3>6 DEF Reached, At
    <3>8. (Durable => IsInjective(timeline))'
      BY <2>2, <3>3 DEF Durable
    <3>9. (\A e \in rebuilt : Contains(timeline, e))'
      BY <3>3, <3>5
    <3>10. (/\ \A t \in Slots : Reached(t)
            /\ \A e \in rebuilt : Contains(timeline, e)
            /\ Durable => IsInjective(timeline))'
      BY <3>7, <3>8, <3>9, Zenon
    <3> QED BY <3>10 DEF RebuildsOK
  <2> QED BY <2>1, <2>2
<1>9. ASSUME NEW s \in Slots, FlushTasksDone(s) \/ FlushDone(s) PROVE RebuildsOK'
  <2>1. call[s] \in OutboxCall /\ call[s].index = 1 /\ outboxVars' = outboxVars /\ part' = part
    BY <1>9 DEF FlushTasksDone, FlushDone, At, PhaseFits, Await, Continue
  <2>2. PICK h : call' = [call EXCEPT ![s] = h] /\ h.index = 1
    <3>1. CASE FlushTasksDone(s)
      <4> DEFINE h == [call[s] EXCEPT !.phase = "relays", !.waitFor = RunningRelays]
      <4>1. call' = [call EXCEPT ![s] = h]
        BY <3>1 DEF FlushTasksDone, Continue
      <4>2. h.index = 1
        BY <2>1 DEF OutboxCall
      <4> QED BY <4>1, <4>2
    <3>2. CASE FlushDone(s)
      <4>1. PICK p : call' = [call EXCEPT ![s] = [call[s] EXCEPT !.phase = p]]
        BY <3>2 DEF FlushDone, Await, Continue
      <4>2. [call[s] EXCEPT !.phase = p].index = 1
        BY <2>1 DEF OutboxCall
      <4> QED BY <4>1, <4>2
    <3> QED BY <1>9, <3>1, <3>2
  <2> QED BY <2>1, <2>2, RebuildsKept DEF At, outboxVars, processVars, storeVars
<1>10. ASSUME NEW s \in Slots, ProjectEvent(s) PROVE RebuildsOK'
  <2>1. call[s] \in OutboxCall /\ call[s].subject # <<"timeline">>
    BY <1>10 DEF ProjectEvent, At, PhaseFits
  <2>2. PICK e \in Events : call[s].subject = <<"event", e>>
    BY <2>1 DEF OutboxCall
  <2>3. timeline' = WithEntry(e) /\ call' = [call EXCEPT ![s] = Idle] /\ events' = events
        /\ rebuilt' = rebuilt /\ part' = part
    BY <1>10, <2>2 DEF ProjectEvent, Answer, Continue, processVars
  <2>4. \A x : Contains(timeline, x) => Contains(timeline', x)
    BY <2>3, WithEntryKeeps
  <2>5. \A t \in Slots : Reached(t)'
    BY <2>3, <2>4, ReachedKept DEF RebuildsOK, At
  <2> QED BY <2>3, <2>4, <2>5, WithEntryOnce DEF RebuildsOK, Durable
<1>11. ASSUME NEW s \in Slots, RebuildAppends(s) PROVE RebuildsOK'
  <2> DEFINE n == call[s].index
             e == events[n]
  <2>1. call[s] \in OutboxCall /\ n \in 1..Len(events) /\ At(s, "rebuild") /\ Len(events) \in Nat
        /\ n \in Nat
    BY <1>11, LenProperties DEF RebuildAppends, At, PhaseFits, OutboxCall
  <2>2. e \in Events
    BY <2>1, ElementOfSeq
  <2>3. call' = [call EXCEPT ![s] = [call[s] EXCEPT !.index = n + 1]]
        /\ timeline' = (IF OnTimeline(e) THEN WithEntry(e) ELSE timeline)
        /\ events' = events /\ rebuilt' = rebuilt /\ part' = part
    BY <1>11, <2>1 DEF RebuildAppends, Continue, processVars, OutboxCall
  <2>4. /\ \A x : Contains(timeline, x) => Contains(timeline', x)
        /\ OnTimeline(e) => Contains(timeline', e)
    BY <2>2, <2>3, WithEntryKeeps
  <2>5. ASSUME NEW t \in Slots, t # s PROVE Reached(t)'
    BY <2>3, <2>4, <2>5, ReachedKept DEF RebuildsOK, At
  <2>6. Reached(s)'
    <3>1. call'[s].index = n + 1 /\ n + 1 <= Len(events) + 1
      BY <2>1, <2>3 DEF OutboxCall
    <3>2. \A i \in 1..Len(events) : i < n + 1 => i < n \/ i = n
      BY <2>1
    <3>3. \A i \in 1..Len(events) : i < n /\ OnTimeline(events[i]) => Contains(timeline, events[i])
      BY <2>1 DEF RebuildsOK, Reached
    <3> QED BY <2>3, <2>4, <3>1, <3>2, <3>3 DEF Reached
  <2>7. Durable => IsInjective(timeline')
    BY <2>2, <2>3, WithEntryOnce DEF RebuildsOK
  <2> QED BY <2>3, <2>4, <2>5, <2>6, <2>7 DEF RebuildsOK, Durable
<1>12. ASSUME NEW s \in Slots, RebuildEnds(s) PROVE RebuildsOK'
  <2>1. call[s] \in OutboxCall /\ At(s, "rebuild") /\ call[s].index > Len(events)
        /\ Len(events) \in Nat /\ call[s].index \in Nat /\ DOMAIN events = 1..Len(events)
    BY <1>12, LenProperties DEF RebuildEnds, At, OutboxCall
  <2>2. call' = [call EXCEPT ![s] = Idle] /\ rebuilt' = rebuilt \cup LoggedEvents
        /\ events' = events /\ timeline' = timeline /\ part' = part
    BY <1>12 DEF RebuildEnds, Answer, Continue, processVars
  <2>3. \A i \in 1..Len(events) : OnTimeline(events[i]) => Contains(timeline, events[i])
    BY <2>1 DEF RebuildsOK, Reached
  <2>4. \A e \in LoggedEvents : Contains(timeline, e)
    BY <2>1, <2>3 DEF LoggedEvents, LoggedAt
  <2> QED BY <2>2, <2>4 DEF RebuildsOK, Reached, At, Durable
<1>13. ASSUME UNCHANGED <<handlerVars, outboxVars>> PROVE RebuildsOK'
  BY <1>13, RebuildsKept DEF handlerVars, outboxVars, processVars, storeVars, At
<1> QED BY <1>2, <1>3, <1>4, <1>5, <1>6, <1>7, <1>8, <1>9, <1>10, <1>11, <1>12, <1>13 DEF BusStep

-----------------------------------------------------------------------------
(* The timeline and the outbox.                                              *)

\* The handler in a slot published this event, or is a rebuild.
For(s, e) == call[s] # Idle /\ call[s].subject = <<"event", e>>
Rebuilds(s) == call[s] # Idle /\ call[s].subject = <<"timeline">>

\* A handler past its flush can rely on the event being stored.
Attends(s, e) ==
    /\ task[e] \notin {"none", "lost"}
    /\ call[s].phase = "hydration" => task[e] = "waiting"
    /\ call[s].phase = "tasks" => e \in call[s].waitFor \/ Contains(outbox, e)
    /\ call[s].phase \in {"relays", "project"} => Contains(outbox, e)

AllAttend == \A s \in Slots, e \in Events : For(s, e) => Attends(s, e)

\* An event that is not stored yet has its handler in flight.
Attended == \A e \in Events : task[e] \in {"waiting", "put"} => \E s \in Slots : For(s, e)

LogStored == \A e \in Events : Contains(events, e) => Contains(outbox, e) \/ task[e] = "put"

RebuildsAlone == \A s, t \in Slots : Rebuilds(s) /\ call[t] # Idle => Rebuilds(t)
OnlyStored == \A e \in Events : Contains(timeline, e) => Contains(outbox, e)

DurableOK ==
    Durable =>
        /\ AllAttend /\ Attended /\ LogStored
        /\ overlapped = {} => RebuildsAlone /\ OnlyStored

LEMMA DurableKept ==
    ASSUME BusOK, DurableOK, UNCHANGED <<part, events, outbox, timeline>>,
           UNCHANGED <<overlapped, call>>,
           \A e \in Events : \/ task'[e] = task[e]
                             \/ task[e] = "broker" /\ task'[e] = "done"
    PROVE  DurableOK'
<1> SUFFICES ASSUME Durable PROVE DurableOK'
  BY DEF DurableOK, Durable
<1>1. AllAttend'
  BY DEF DurableOK, AllAttend, For, Attends
<1>2. Attended' /\ LogStored'
  BY DEF DurableOK, Attended, LogStored, For
<1>3. overlapped' = {} => RebuildsAlone' /\ OnlyStored'
  BY DEF DurableOK, RebuildsAlone, OnlyStored, Rebuilds
<1> QED BY <1>1, <1>2, <1>3 DEF DurableOK

\* A handler goes on, or answers when its event is stored.
LEMMA DurableCallStep ==
    ASSUME BusOK, DurableOK, Durable, NEW s \in Slots, NEW h, call[s] # Idle,
           call' = [call EXCEPT ![s] = h],
           UNCHANGED <<part, overlapped, events, outbox, task>>,
           h # Idle => h.subject = call[s].subject,
           \A e \in Events : For(s, e) =>
               IF h = Idle THEN task[e] \notin {"waiting", "put"} ELSE Attends(s, e)',
           overlapped = {} => OnlyStored'
    PROVE  DurableOK'
<1>0. call \in [Slots -> OutboxCall \cup {Idle}]
  BY DEF BusOK, CallsOK
<1>1. AllAttend'
  <2> SUFFICES ASSUME NEW t \in Slots, NEW e \in Events, For(t, e)' PROVE Attends(t, e)'
    BY DEF AllAttend
  <2>1. CASE t = s
    BY <1>0, <2>1 DEF For
  <2>2. CASE t # s
    BY <1>0, <2>2 DEF For, DurableOK, AllAttend, Attends
  <2> QED BY <2>1, <2>2
<1>2. Attended'
  <2> SUFFICES ASSUME NEW e \in Events, task[e] \in {"waiting", "put"}
               PROVE  \E t \in Slots : For(t, e)'
    BY DEF Attended
  <2>1. PICK t \in Slots : For(t, e)
    BY DEF DurableOK, Attended
  <2>2. For(t, e)'
    BY <1>0, <2>1 DEF For
  <2> QED BY <2>2
<1>3. overlapped' = {} => RebuildsAlone'
  BY <1>0 DEF DurableOK, RebuildsAlone, Rebuilds
<1> QED BY <1>1, <1>2, <1>3 DEF DurableOK, LogStored, Durable

LEMMA DurableOKStep ==
    part # "gateway" /\ BusOK /\ AllFollowed /\ RebuildsOK /\ DurableOK /\ BusStep => DurableOK'
<1> SUFFICES ASSUME part # "gateway", BusOK, AllFollowed, RebuildsOK, DurableOK, BusStep, Durable
             PROVE  DurableOK'
  <2> BusStep => part' = part
    BY DEF BusStep, BeginBeside, Continue, Await, Answer, Restart, handlerVars, PublishOrderEvent,
           Rebuild, FlushTasksDone, FlushDone, ProjectEvent, RebuildAppends, RebuildEnds,
           PublishOtherEvent, PutInOutbox, SendToBroker, RelayPosts, Hydrate, ProcessRestarts
  <2> QED BY DEF DurableOK, Durable
<1> call \in [Slots -> OutboxCall \cup {Idle}] /\ timeline \in Seq(Events) /\ events \in Seq(Events)
    /\ outbox \in Seq(Events) /\ waiting \in Seq(Events) /\ task \in [Events -> TaskStates]
    /\ \A s \in Slots : call[s] # Idle => PhaseFits(call[s])
  BY DEF BusOK, LogOK, StoresOK, CallsOK
<1> Idle \notin OutboxCall
  BY OutboxAssumption
<1>1. AllAttend /\ Attended /\ LogStored /\ (overlapped = {} => RebuildsAlone /\ OnlyStored)
  BY DEF DurableOK
<1>2. \A e \in Events : task[e] \in {"waiting", "put"} => ~Contains(outbox, e)
  BY DEF AllFollowed, Followed
<1>3. ASSUME NEW s \in Slots, NEW e \in Events, PublishOrderEvent(s, e) PROVE DurableOK'
  <2> DEFINE h == Flushing(<<"event", e>>, PendingTasks', RunningRelays')
  <2>1. /\ h \in OutboxCall /\ h.subject = <<"event", e>>
        /\ h.phase = IF hydrating THEN "hydration" ELSE "tasks"
        /\ ~hydrating => h.waitFor = PendingTasks'
    <3>0. PendingTasks' \in SUBSET Events /\ RunningRelays' \in SUBSET Events
      BY DEF PendingTasks, RunningRelays
    <3>1. h \in OutboxCall /\ h.subject = <<"event", e>>
      BY <3>0, FlushingIsACall
    <3>2. h.phase = (IF hydrating THEN "hydration" ELSE "tasks")
          /\ (~hydrating => h.waitFor = PendingTasks')
      BY Zenon DEF Flushing
    <3> QED BY <3>1, <3>2
  <2>2. BeginBeside(s, h, RebuildRuns) /\ Publish(e) /\ task[e] = "none" /\ outbox' = outbox
        /\ timeline' = timeline
    BY <1>3 DEF PublishOrderEvent, h, storeVars, Unpublished
  <2>3. task' = [task EXCEPT ![e] = IF hydrating THEN "waiting" ELSE "put"]
    BY <2>2 DEF Publish
  <2>4. e \in PendingTasks' /\ task'[e] = IF hydrating THEN "waiting" ELSE "put"
    BY <2>3 DEF PendingTasks, Pending
  <2> HIDE DEF h
  <2>5. call[s] = Idle /\ call' = [call EXCEPT ![s] = h] /\ part' = part
        /\ overlapped' = (IF RebuildRuns THEN overlapped \cup {h.subject} ELSE overlapped)
    BY <2>2 DEF BeginBeside
  <2>6. AllAttend'
    <3> SUFFICES ASSUME NEW t \in Slots, NEW x \in Events, For(t, x)' PROVE Attends(t, x)'
      BY DEF AllAttend
    <3>1. CASE t = s
      <4>1. x = e /\ call'[t] = h
        BY <2>1, <2>5, <3>1 DEF For
      <4> QED BY <2>1, <2>4, <4>1 DEF Attends
    <3>2. CASE t # s
      <4>1. call'[t] = call[t] /\ For(t, x) /\ Attends(t, x)
        BY <1>1, <2>5, <3>2 DEF For, AllAttend
      <4>2. x # e
        BY <2>2, <4>1 DEF Attends
      <4>3. task'[x] = task[x]
        BY <2>3, <4>2
      <4> QED BY <2>2, <4>1, <4>3 DEF Attends
    <3> QED BY <3>1, <3>2
  <2>7. Attended'
    <3> SUFFICES ASSUME NEW x \in Events, task'[x] \in {"waiting", "put"}
                 PROVE  \E t \in Slots : For(t, x)'
      BY DEF Attended
    <3>1. CASE x = e
      BY <2>1, <2>5, <3>1 DEF For
    <3>2. CASE x # e
      <4>1. PICK t \in Slots : For(t, x)
        BY <1>1, <2>3, <3>2 DEF Attended
      <4>2. For(t, x)'
        <5>1. t # s
          BY <2>5, <4>1 DEF For
        <5>2. call'[t] = call[t]
          BY <2>5, <5>1
        <5> QED BY <4>1, <5>2 DEF For
      <4> QED BY <4>2
    <3> QED BY <3>1, <3>2
  <2>8. LogStored'
    <3>1. CASE hydrating
      BY <1>1, <2>2, <2>3, <3>1 DEF LogStored, Publish
    <3>2. CASE ~hydrating
      <4> <<e>> \in Seq(Events)
        OBVIOUS
      <4>1. events' = events \o <<e>>
        BY <2>2, <3>2 DEF Publish, Log
      <4>2. \A x : Contains(events', x) <=> Contains(events, x) \/ x = e
        BY <4>1, ContainsConcat, ContainsOne
      <4>3. ASSUME NEW x \in Events, Contains(events', x)
            PROVE  Contains(outbox', x) \/ task'[x] = "put"
        <5>1. CASE x = e
          BY <1>1, <2>2, <2>3, <3>2, <5>1
        <5>2. CASE x # e
          <6>1. Contains(outbox, x) \/ task[x] = "put"
            BY <1>1, <4>2, <4>3, <5>2 DEF LogStored
          <6> QED BY <1>1, <2>2, <2>3, <2>4, <5>2, <6>1
        <5> QED BY <5>1, <5>2
      <4> QED BY <4>3 DEF LogStored
    <3> QED BY <3>1, <3>2
  <2>9. overlapped' = {} => RebuildsAlone' /\ OnlyStored'
    <3> SUFFICES ASSUME overlapped' = {} PROVE RebuildsAlone' /\ OnlyStored'
      OBVIOUS
    <3>1. ~RebuildRuns /\ overlapped = {}
      BY <2>5
    <3>2. \A t \in Slots : ~Rebuilds(t)'
      BY <2>1, <2>5, <3>1 DEF RebuildRuns, Rebuilds
    <3> QED BY <1>1, <2>2, <3>1, <3>2 DEF RebuildsAlone, OnlyStored
  <2> QED BY <2>5, <2>6, <2>7, <2>8, <2>9 DEF DurableOK

<1>4. ASSUME NEW e \in Events, PublishOtherEvent(e) PROVE DurableOK'
  BY <1>4 DEF PublishOtherEvent, Durable
<1>5. ASSUME NEW e \in Events, PutInOutbox(e) PROVE DurableOK'
  <2>1. /\ task[e] = "put" /\ task' = [task EXCEPT ![e] = "broker"] /\ outbox' = Append(outbox, e)
        /\ part' = part /\ call' = call /\ overlapped' = overlapped /\ events' = events
        /\ timeline' = timeline
    BY <1>5 DEF PutInOutbox, handlerVars
  <2>2. \A x : Contains(outbox', x) <=> Contains(outbox, x) \/ x = e
    BY <2>1, ContainsAppend
  <2>3. AllAttend'
    BY <1>1, <2>1, <2>2 DEF AllAttend, For, Attends
  <2>4. Attended' /\ LogStored'
    BY <1>1, <2>1, <2>2 DEF Attended, LogStored, For
  <2> QED BY <1>1, <2>1, <2>2, <2>3, <2>4 DEF DurableOK, RebuildsAlone, OnlyStored, Rebuilds
<1>6. ASSUME NEW e \in Events, SendToBroker(e) PROVE DurableOK'
  BY <1>6, DurableKept DEF SendToBroker, handlerVars
<1>7. ASSUME NEW e \in Events, NEW arrives \in BOOLEAN, NEW answered \in BOOLEAN,
             RelayPosts(e, arrives, answered)
      PROVE  DurableOK'
  BY <1>7, DurableKept DEF RelayPosts, handlerVars
<1>8. ASSUME Hydrate PROVE DurableOK'
  <2>1. /\ events' = events \o (outbox \o waiting) /\ outbox' = outbox /\ timeline' = timeline
        /\ part' = part /\ overlapped' = overlapped
        /\ task' = [e \in Events |-> IF task[e] = "waiting" THEN "put" ELSE task[e]]
    BY <1>8 DEF Hydrate, Log, storeVars
  <2>2. \A s \in Slots : call'[s] = IF At(s, "hydration")
                                    THEN [call[s] EXCEPT !.phase = "tasks", !.waitFor = ToSet(waiting)]
                                    ELSE call[s]
    BY <1>8 DEF Hydrate
  <2>3. \A s \in Slots : call'[s] # Idle <=> call[s] # Idle
    <3> TAKE s \in Slots
    <3>1. CASE At(s, "hydration")
      <4>0. call[s] \in OutboxCall /\ ToSet(waiting) \in SUBSET Events
        BY <3>1, ContainsToSet DEF At
      <4>1. [call[s] EXCEPT !.phase = "tasks", !.waitFor = ToSet(waiting)] \in OutboxCall
        BY <4>0 DEF OutboxCall
      <4>2. call'[s] \in OutboxCall
        BY <2>2, <3>1, <4>1
      <4> QED BY <3>1, <4>2 DEF At
    <3>2. CASE ~At(s, "hydration")
      BY <2>2, <3>2
    <3> QED BY <3>1, <3>2
  <2>4. \A s \in Slots : call[s] # Idle => call'[s].subject = call[s].subject
    BY <2>2 DEF At, OutboxCall
  <2>5. AllAttend'
    <3> SUFFICES ASSUME NEW s \in Slots, NEW e \in Events, For(s, e)' PROVE Attends(s, e)'
      BY DEF AllAttend
    <3>1. For(s, e) /\ Attends(s, e)
      BY <1>1, <2>3, <2>4 DEF For, AllAttend
    <3>2. CASE At(s, "hydration")
      <4>1. call'[s].phase = "tasks" /\ call'[s].waitFor = ToSet(waiting)
        BY <2>2, <3>2 DEF At, OutboxCall
      <4>2. task[e] = "waiting"
        BY <3>1, <3>2 DEF Attends, At
      <4>3. e \in ToSet(waiting)
        BY <4>2, ContainsToSet DEF BusOK, LogOK, WaitingKnown
      <4> QED BY <2>1, <4>1, <4>2, <4>3 DEF Attends
    <3>3. CASE ~At(s, "hydration")
      BY <2>1, <2>2, <3>1, <3>3 DEF Attends, At, For
    <3> QED BY <3>2, <3>3
  <2>6. Attended'
    BY <1>1, <2>1, <2>3, <2>4 DEF Attended, For
  <2>7. LogStored'
    <3>1. \A x : Contains(events', x) <=> Contains(events, x) \/ Contains(outbox, x) \/ Contains(waiting, x)
      <4>1. outbox \o waiting \in Seq(Events)
            /\ \A x : Contains(outbox \o waiting, x) <=> Contains(outbox, x) \/ Contains(waiting, x)
        BY ContainsConcat
      <4> QED BY <2>1, <4>1, ContainsConcat
    <3> QED BY <1>1, <2>1, <3>1 DEF LogStored, BusOK, LogOK, WaitingKnown
  <2>8. overlapped = {} => RebuildsAlone' /\ OnlyStored'
    BY <1>1, <2>1, <2>3, <2>4 DEF RebuildsAlone, OnlyStored, Rebuilds
  <2> QED BY <2>1, <2>5, <2>6, <2>7, <2>8 DEF DurableOK
<1>9. ASSUME ProcessRestarts PROVE DurableOK'
  <2>1. \A s \in Slots : call'[s] = Idle
    BY <1>9 DEF ProcessRestarts, Restart
  <2>2. events' = <<>> /\ outbox' = outbox /\ timeline' = timeline /\ overlapped' = overlapped
        /\ part' = part
        /\ task' = [e \in Events |-> IF task[e] \in Pending THEN "lost" ELSE task[e]]
    BY <1>9 DEF ProcessRestarts, Restart
  <2>3. \A e \in Events : task'[e] \notin {"waiting", "put"}
    BY <2>2 DEF Pending
  <2>4. AllAttend' /\ Attended' /\ LogStored'
    BY <2>1, <2>2, <2>3, ContainsEmpty DEF AllAttend, Attended, LogStored, For
  <2> QED BY <1>1, <2>1, <2>2, <2>4 DEF DurableOK, RebuildsAlone, OnlyStored, Rebuilds
<1>10. ASSUME NEW s \in Slots, Rebuild(s) PROVE DurableOK'
  <2> DEFINE h == Flushing(<<"timeline">>, PendingTasks, {})
  <2>1. h \in OutboxCall /\ h.subject = <<"timeline">>
    BY FlushingIsACall DEF PendingTasks
  <2> HIDE DEF h
  <2>2. BeginBeside(s, h, ~Quiet) /\ outboxVars' = outboxVars
    BY <1>10 DEF Rebuild, h
  <2>3. call[s] = Idle /\ call' = [call EXCEPT ![s] = h] /\ part' = part
        /\ overlapped' = (IF ~Quiet THEN overlapped \cup {h.subject} ELSE overlapped)
        /\ events' = events /\ outbox' = outbox /\ timeline' = timeline /\ task' = task
    BY <2>2 DEF BeginBeside, outboxVars, processVars, storeVars
  <2>4. ASSUME NEW t \in Slots, NEW e \in Events
        PROVE  For(t, e)' <=> For(t, e)
    <3>1. <<"timeline">> # <<"event", e>>
      OBVIOUS
    <3> QED BY <2>1, <2>3, <3>1 DEF For
  <2>5. AllAttend'
    BY <1>1, <2>3, <2>4 DEF AllAttend, Attends, For
  <2>6. Attended' /\ LogStored'
    BY <1>1, <2>3, <2>4 DEF Attended, LogStored
  <2>7. overlapped' = {} => RebuildsAlone' /\ OnlyStored'
    <3> SUFFICES ASSUME overlapped' = {} PROVE RebuildsAlone' /\ OnlyStored'
      OBVIOUS
    <3>1. Quiet /\ overlapped = {}
      BY <2>3
    <3> QED BY <1>1, <2>1, <2>3, <3>1 DEF RebuildsAlone, OnlyStored, Rebuilds, Quiet
  <2> QED BY <2>3, <2>5, <2>6, <2>7 DEF DurableOK
<1>11. ASSUME NEW s \in Slots, FlushTasksDone(s) PROVE DurableOK'
  <2> DEFINE h == [call[s] EXCEPT !.phase = "relays", !.waitFor = RunningRelays]
  <2>1. call[s] # Idle /\ call[s].phase = "tasks" /\ call[s].waitFor \cap PendingTasks = {}
        /\ call' = [call EXCEPT ![s] = h] /\ UNCHANGED <<part, overlapped>>
        /\ outboxVars' = outboxVars
    BY <1>11 DEF FlushTasksDone, At, Continue
  <2>2. h.subject = call[s].subject /\ h.phase = "relays" /\ call'[s] = h
    BY <2>1 DEF OutboxCall
  <2>3. ASSUME NEW e \in Events, For(s, e) PROVE Attends(s, e)'
    <3>1. task[e] \notin {"none", "lost"} /\ (e \in call[s].waitFor \/ Contains(outbox, e))
      BY <1>1, <2>1, <2>3 DEF AllAttend, Attends
    <3>2. e \in call[s].waitFor => task[e] = "done"
      BY <2>1, <3>1 DEF PendingTasks, Pending, TaskStates
    <3>3. Contains(outbox, e)
      BY <3>1, <3>2 DEF AllFollowed, Followed
    <3> QED BY <2>1, <2>2, <3>1, <3>3 DEF Attends, outboxVars, processVars, storeVars
  <2>4. overlapped = {} => OnlyStored'
    BY <1>1, <2>1 DEF OnlyStored, outboxVars, processVars, storeVars
  <2>5. UNCHANGED <<part, overlapped, events, outbox, task>>
    BY <2>1 DEF outboxVars, processVars, storeVars
  <2>6. h # Idle
    <3>1. h \in OutboxCall
      BY <2>1 DEF OutboxCall, RunningRelays
    <3> QED BY <3>1
  <2> HIDE DEF h
  <2> QED BY <2>1, <2>2, <2>3, <2>4, <2>5, <2>6, DurableCallStep
<1>12. ASSUME NEW s \in Slots, FlushDone(s) PROVE DurableOK'
  <2> DEFINE h == [call[s] EXCEPT !.phase = IF call[s].subject = <<"timeline">>
                                            THEN "rebuild" ELSE "project"]
  <2>1. call[s] # Idle /\ call[s].phase = "relays"
        /\ call' = [call EXCEPT ![s] = h] /\ UNCHANGED <<part, overlapped>>
        /\ outboxVars' = outboxVars
    BY <1>12 DEF FlushDone, At, Continue, Await
  <2>2. h.subject = call[s].subject /\ h.phase \in {"rebuild", "project"} /\ call'[s] = h
    BY <2>1 DEF OutboxCall
  <2>3. ASSUME NEW e \in Events, For(s, e) PROVE Attends(s, e)'
    <3>1. task[e] \notin {"none", "lost"} /\ Contains(outbox, e)
      BY <1>1, <2>1, <2>3 DEF AllAttend, Attends
    <3> QED BY <2>1, <2>2, <3>1 DEF Attends, outboxVars, processVars, storeVars
  <2>4. overlapped = {} => OnlyStored'
    BY <1>1, <2>1 DEF OnlyStored, outboxVars, processVars, storeVars
  <2>5. UNCHANGED <<part, overlapped, events, outbox, task>>
    BY <2>1 DEF outboxVars, processVars, storeVars
  <2>6. h # Idle
    <3>1. h \in OutboxCall
      BY <2>1 DEF OutboxCall
    <3> QED BY <3>1
  <2> HIDE DEF h
  <2> QED BY <2>1, <2>2, <2>3, <2>4, <2>5, <2>6, DurableCallStep
<1>13. ASSUME NEW s \in Slots, ProjectEvent(s) PROVE DurableOK'
  <2>1. call[s] \in OutboxCall /\ call[s] # Idle /\ call[s].phase = "project"
        /\ call[s].subject # <<"timeline">>
    BY <1>13 DEF ProjectEvent, At, PhaseFits
  <2>2. PICK e \in Events : call[s].subject = <<"event", e>>
    BY <2>1 DEF OutboxCall
  <2>3. Contains(outbox, e)
    BY <1>1, <2>1, <2>2 DEF AllAttend, For, Attends
  <2>4. task[e] \notin {"waiting", "put"}
    BY <1>2, <2>3
  <2>5. timeline' = WithEntry(e) /\ call' = [call EXCEPT ![s] = Idle]
        /\ UNCHANGED <<part, overlapped, events, outbox, task>>
    BY <1>13, <2>2 DEF ProjectEvent, Answer, Continue, processVars
  <2>6. overlapped = {} => OnlyStored'
    BY <1>1, <2>3, <2>5, WithEntryKeeps DEF OnlyStored
  <2>7. \A x \in Events : For(s, x) => x = e
    BY <2>2 DEF For
  <2> QED BY <2>1, <2>4, <2>5, <2>6, <2>7, DurableCallStep
<1>14. ASSUME NEW s \in Slots, RebuildAppends(s) PROVE DurableOK'
  <2> DEFINE n == call[s].index
             e == events[n]
             h == [call[s] EXCEPT !.index = n + 1]
  <2>1. call[s] \in OutboxCall /\ call[s] # Idle /\ call[s].phase = "rebuild"
        /\ call[s].subject = <<"timeline">> /\ n \in Nat /\ n >= 1 /\ n <= Len(events)
    BY <1>14 DEF RebuildAppends, At, PhaseFits, OutboxCall
  <2>2. n \in 1..Len(events)
    BY <2>1, LenProperties
  <2>3. e \in Events /\ Contains(events, e)
    BY <2>2, ElementOfSeq DEF Contains
  <2>4. h \in OutboxCall /\ h.subject = call[s].subject
    <3>1. n + 1 \in Nat
      BY <2>1
    <3> QED BY <2>1, <3>1 DEF OutboxCall
  <2>5. timeline' = (IF OnTimeline(e) THEN WithEntry(e) ELSE timeline)
        /\ call' = [call EXCEPT ![s] = h] /\ UNCHANGED <<part, overlapped, events, outbox, task>>
    BY <1>14, <2>1 DEF RebuildAppends, Continue, processVars, OutboxCall
  <2>6. \A x \in Events : ~For(s, x)
    BY <2>1 DEF For
  <2>7. overlapped = {} => Contains(outbox, e)
    <3> SUFFICES ASSUME overlapped = {}, task[e] = "put" PROVE FALSE
      BY <1>1, <2>3 DEF LogStored
    <3>1. PICK t \in Slots : For(t, e)
      BY <1>1, <2>3 DEF Attended
    <3>2. Rebuilds(t)
      BY <1>1, <2>1, <3>1 DEF RebuildsAlone, Rebuilds, For
    <3> QED BY <3>1, <3>2 DEF For, Rebuilds
  <2>8. overlapped = {} => OnlyStored'
    BY <1>1, <2>3, <2>5, <2>7, WithEntryKeeps DEF OnlyStored
  <2>9. h # Idle
    BY <2>4
  <2> HIDE DEF h, e, n
  <2> QED BY <2>1, <2>4, <2>5, <2>6, <2>8, <2>9, DurableCallStep
<1>15. ASSUME NEW s \in Slots, RebuildEnds(s) PROVE DurableOK'
  <2>1. call[s] # Idle /\ call[s].subject = <<"timeline">>
    BY <1>15 DEF RebuildEnds, At, PhaseFits
  <2>2. \A x \in Events : ~For(s, x)
    BY <2>1 DEF For
  <2>3. call' = [call EXCEPT ![s] = Idle] /\ timeline' = timeline
        /\ UNCHANGED <<part, overlapped, events, outbox, task>>
    BY <1>15 DEF RebuildEnds, Answer, Continue, processVars
  <2>4. overlapped = {} => OnlyStored'
    BY <1>1, <2>3 DEF OnlyStored
  <2> QED BY <2>1, <2>2, <2>3, <2>4, DurableCallStep
<1>16. ASSUME UNCHANGED <<handlerVars, outboxVars>> PROVE DurableOK'
  BY <1>16, DurableKept DEF handlerVars, outboxVars, processVars, storeVars
<1> QED BY <1>3, <1>4, <1>5, <1>6, <1>7, <1>8, <1>9, <1>10, <1>11, <1>12, <1>13, <1>14, <1>15, <1>16
        DEF BusStep

-----------------------------------------------------------------------------
(* The timeline of a server without a store.                                 *)

Known(e) ==
    Contains(events, e) \/ Contains(timeline, e) \/ \E s \in Slots : For(s, e)

\* Each event is in one place of the log, and is projected by one handler.
MemoryOK ==
    ~Durable =>
        /\ IsInjective(events)
        /\ \A e \in Events : Known(e) => task[e] # "none"
        /\ \A s, t \in Slots, e \in Events : For(s, e) /\ For(t, e) => s = t
        /\ overlapped = {} =>
              /\ IsInjective(timeline)
              /\ \A s \in Slots, e \in Events : For(s, e) => ~Contains(timeline, e)

LEMMA AppendOnce ==
    ASSUME NEW q \in Seq(Events), IsInjective(q), NEW e \in Events, ~Contains(q, e)
    PROVE  IsInjective(Append(q, e))
<1> DEFINE n == Len(q)
<1>1. n \in Nat /\ DOMAIN q = 1..n
  BY LenProperties
<1>2. /\ DOMAIN Append(q, e) = 1..(n + 1)
      /\ Append(q, e)[n + 1] = e
      /\ \A i \in 1..n : Append(q, e)[i] = q[i]
  BY <1>1
<1>3. \A i \in 1..n : q[i] # e
  BY DEF Contains
<1>4. 1..(n + 1) = 1..n \cup {n + 1}
  BY <1>1
<1> HIDE DEF n
<1> QED BY <1>1, <1>2, <1>3, <1>4 DEF IsInjective

LEMMA MemoryKept ==
    ASSUME MemoryOK, part' = part, UNCHANGED <<overlapped, events, timeline, task>>,
           \A s \in Slots, e \in Events : For(s, e)' => For(s, e)
    PROVE  MemoryOK'
BY DEF MemoryOK, Known, Durable

LEMMA MemoryOKStep == part # "gateway" /\ BusOK /\ MemoryOK /\ BusStep => MemoryOK'
<1> SUFFICES ASSUME part # "gateway", BusOK, MemoryOK, BusStep, ~Durable
             PROVE  MemoryOK'
  <2> BusStep => part' = part
    BY DEF BusStep, BeginBeside, Continue, Await, Answer, Restart, handlerVars, PublishOrderEvent,
           Rebuild, FlushTasksDone, FlushDone, ProjectEvent, RebuildAppends, RebuildEnds,
           PublishOtherEvent, PutInOutbox, SendToBroker, RelayPosts, Hydrate, ProcessRestarts
  <2> QED BY DEF MemoryOK, Durable
<1> call \in [Slots -> OutboxCall \cup {Idle}] /\ timeline \in Seq(Events) /\ events \in Seq(Events)
    /\ task \in [Events -> TaskStates] /\ ~hydrating
    /\ \A s \in Slots : call[s] # Idle => PhaseFits(call[s])
  BY DEF BusOK, LogOK, StoresOK, CallsOK
<1> Idle \notin OutboxCall
  BY OutboxAssumption
<1>1. /\ IsInjective(events)
      /\ \A e \in Events : Known(e) => task[e] # "none"
      /\ \A s, t \in Slots, e \in Events : For(s, e) /\ For(t, e) => s = t
      /\ overlapped = {} => IsInjective(timeline)
      /\ overlapped = {} => \A s \in Slots, e \in Events : For(s, e) => ~Contains(timeline, e)
  BY DEF MemoryOK
<1>2. ASSUME NEW e \in Events, Unpublished(e), Publish(e)
      PROVE  /\ IsInjective(events') /\ \A x : Contains(events', x) <=> Contains(events, x) \/ x = e
             /\ task' = [task EXCEPT ![e] = "done"]
             /\ ~Known(e)
  <2>1. events' = events \o <<e>> /\ task' = [task EXCEPT ![e] = "done"]
    BY <1>2 DEF Publish, Log
  <2>2. events' = Append(events, e) /\ ~Known(e)
    BY <1>1, <1>2, <2>1 DEF Unpublished
  <2>3. ~Contains(events, e)
    BY <2>2 DEF Known
  <2>4. IsInjective(Append(events, e))
    BY <1>1, <2>3, AppendOnce
  <2>5. \A x : Contains(Append(events, e), x) <=> Contains(events, x) \/ x = e
    BY ContainsAppend
  <2> QED BY <2>1, <2>2, <2>4, <2>5
<1>3. ASSUME NEW s \in Slots, NEW e \in Events, PublishOrderEvent(s, e) PROVE MemoryOK'
  <2> DEFINE h == Flushing(<<"event", e>>, PendingTasks', RunningRelays')
  <2>0. PendingTasks' \in SUBSET Events /\ RunningRelays' \in SUBSET Events
    BY DEF PendingTasks, RunningRelays
  <2>1. h \in OutboxCall /\ h.subject = <<"event", e>>
    BY <2>0, FlushingIsACall
  <2>2. BeginBeside(s, h, RebuildRuns) /\ Publish(e) /\ Unpublished(e) /\ timeline' = timeline
    BY <1>3 DEF PublishOrderEvent, h, storeVars
  <2> HIDE DEF h
  <2>3. /\ call[s] = Idle /\ call' = [call EXCEPT ![s] = h] /\ part' = part
        /\ overlapped' = {} => overlapped = {}
    BY <2>2 DEF BeginBeside
  <2>4. \A t \in Slots, x \in Events : For(t, x)' <=> (t = s /\ x = e) \/ For(t, x)
    BY <2>1, <2>3 DEF For
  <2>5. ~Known(e) /\ task' = [task EXCEPT ![e] = "done"] /\ IsInjective(events')
        /\ \A x : Contains(events', x) <=> Contains(events, x) \/ x = e
    BY <1>2, <2>2
  <2>6. \A x \in Events : Known(x)' => Known(x) \/ x = e
    BY <2>2, <2>4, <2>5 DEF Known
  <2>7. \A x \in Events : Known(x)' => task'[x] # "none"
    BY <1>1, <2>5, <2>6
  <2>8. \A t, u \in Slots, x \in Events : For(t, x)' /\ For(u, x)' => t = u
    BY <1>1, <2>4, <2>5 DEF Known
  <2>9. overlapped' = {} => \A t \in Slots, x \in Events : For(t, x)' => ~Contains(timeline', x)
    BY <1>1, <2>2, <2>3, <2>4, <2>5 DEF Known
  <2> QED BY <1>1, <2>2, <2>3, <2>5, <2>7, <2>8, <2>9 DEF MemoryOK
<1>4. ASSUME NEW e \in Events, PublishOtherEvent(e) PROVE MemoryOK'
  <2>1. Publish(e) /\ Unpublished(e) /\ UNCHANGED <<part, call, overlapped, timeline>>
    BY <1>4 DEF PublishOtherEvent, handlerVars, storeVars
  <2>2. \A t \in Slots, x \in Events : For(t, x)' <=> For(t, x)
    BY <2>1 DEF For
  <2>3. ~Known(e) /\ task' = [task EXCEPT ![e] = "done"] /\ IsInjective(events')
        /\ \A x : Contains(events', x) <=> Contains(events, x) \/ x = e
    BY <1>2, <2>1
  <2>4. \A x \in Events : Known(x)' => Known(x) \/ x = e
    BY <2>1, <2>2, <2>3 DEF Known
  <2>5. \A x \in Events : Known(x)' => task'[x] # "none"
    BY <1>1, <2>3, <2>4
  <2> QED BY <1>1, <2>1, <2>2, <2>3, <2>5 DEF MemoryOK
<1>5. ASSUME NEW e \in Events, PutInOutbox(e) \/ SendToBroker(e) PROVE MemoryOK'
  <2>1. PICK to \in {"broker", "done"} : task' = [task EXCEPT ![e] = to]
    BY <1>5 DEF PutInOutbox, SendToBroker
  <2>2. UNCHANGED <<part, call, overlapped, events, timeline>>
    BY <1>5 DEF PutInOutbox, SendToBroker, handlerVars
  <2>3. \A x \in Events : task'[x] = "none" => task[x] = "none"
    BY <2>1
  <2>4. \A t \in Slots, x \in Events : For(t, x)' <=> For(t, x)
    BY <2>2 DEF For
  <2> QED BY <1>1, <2>2, <2>3, <2>4 DEF MemoryOK, Known
<1>6. ASSUME NEW e \in Events, NEW arrives \in BOOLEAN, NEW answered \in BOOLEAN,
             RelayPosts(e, arrives, answered)
      PROVE  MemoryOK'
  BY <1>6, MemoryKept DEF RelayPosts, handlerVars, For
<1>7. ASSUME Hydrate PROVE MemoryOK'
  BY <1>7 DEF Hydrate
<1>8. ASSUME ProcessRestarts PROVE MemoryOK'
  <2>1. \A s \in Slots : call'[s] = Idle
    BY <1>8 DEF ProcessRestarts, Restart
  <2>2. events' = <<>> /\ timeline' = <<>>
    BY <1>8 DEF ProcessRestarts
  <2>3. IsInjective(<<>>)
    BY DEF IsInjective
  <2> QED BY <2>1, <2>2, <2>3, ContainsEmpty DEF MemoryOK, Known, For
<1>9. ASSUME NEW s \in Slots, Rebuild(s) PROVE MemoryOK'
  <2>1. PICK at \in Bijection(1..Cardinality(LoggedAt), LoggedAt) :
           timeline' = [i \in DOMAIN at |-> events[at[i]]]
    BY <1>9 DEF Rebuild
  <2>2. at \in [1..Cardinality(LoggedAt) -> LoggedAt] /\ IsInjective(at)
    BY DEF Bijection, Injection
  <2>3. /\ part' = part /\ call' = call /\ events' = events /\ task' = task
        /\ overlapped' = (IF Quiet THEN overlapped ELSE overlapped \cup {<<"timeline">>})
    BY <1>9 DEF Rebuild, processVars
  <2>4. timeline' \in Seq(Events)
    BY <1>9, BusOKStep DEF BusStep, BusOK, StoresOK
  <2>5. IsInjective(timeline')
    BY <1>1, <2>1, <2>2 DEF IsInjective, LoggedAt
  <2>6. \A x : Contains(timeline', x) => Contains(events, x)
    <3> SUFFICES ASSUME NEW x, Contains(timeline', x) PROVE Contains(events, x)
      OBVIOUS
    <3>1. PICK i \in DOMAIN timeline' : timeline'[i] = x
      BY <2>4, LenProperties DEF Contains
    <3>2. at[i] \in DOMAIN events /\ events[at[i]] = x
      BY <2>1, <2>2, <3>1 DEF LoggedAt
    <3> QED BY <3>2, LenProperties DEF Contains
  <2>7. \A t \in Slots, x \in Events : For(t, x)' <=> For(t, x)
    BY <2>3 DEF For
  <2>8. \A x \in Events : Known(x)' => Known(x)
    BY <2>3, <2>6, <2>7 DEF Known
  <2>9. overlapped' = {} => \A t \in Slots, x \in Events : ~For(t, x)
    BY <2>3 DEF Quiet, For
  <2> QED BY <1>1, <2>3, <2>5, <2>7, <2>8, <2>9 DEF MemoryOK
<1>10. ASSUME NEW s \in Slots, FlushTasksDone(s) \/ FlushDone(s) PROVE MemoryOK'
  <2>1. call[s] \in OutboxCall /\ outboxVars' = outboxVars /\ part' = part
        /\ overlapped' = overlapped
    BY <1>10 DEF FlushTasksDone, FlushDone, At, Await, Continue
  <2>2. PICK h : call' = [call EXCEPT ![s] = h] /\ h.subject = call[s].subject
    <3>1. CASE FlushTasksDone(s)
      <4> DEFINE h == [call[s] EXCEPT !.phase = "relays", !.waitFor = RunningRelays]
      <4> call' = [call EXCEPT ![s] = h] /\ h.subject = call[s].subject
        BY <2>1, <3>1 DEF FlushTasksDone, Continue, OutboxCall
      <4> QED OBVIOUS
    <3>2. CASE FlushDone(s)
      <4> DEFINE h == [call[s] EXCEPT !.phase = IF call[s].subject = <<"timeline">>
                                                THEN "rebuild" ELSE "project"]
      <4> call' = [call EXCEPT ![s] = h] /\ h.subject = call[s].subject
        BY <2>1, <3>2 DEF FlushDone, Await, Continue, OutboxCall
      <4> QED OBVIOUS
    <3> QED BY <1>10, <3>1, <3>2
  <2>3. call[s] # Idle
    BY <2>1
  <2>4. \A t \in Slots, x \in Events : For(t, x)' => For(t, x)
    BY <2>2, <2>3 DEF For
  <2> QED BY <2>1, <2>4, MemoryKept DEF outboxVars, processVars, storeVars
<1>11. ASSUME NEW s \in Slots, ProjectEvent(s) PROVE MemoryOK'
  <2>1. call[s] \in OutboxCall /\ call[s] # Idle /\ call[s].subject # <<"timeline">>
    BY <1>11 DEF ProjectEvent, At, PhaseFits
  <2>2. PICK e \in Events : call[s].subject = <<"event", e>>
    BY <2>1 DEF OutboxCall
  <2>3. timeline' = Append(timeline, e) /\ call' = [call EXCEPT ![s] = Idle]
        /\ UNCHANGED <<part, overlapped, events, task>>
    BY <1>11, <2>2 DEF ProjectEvent, Answer, Continue, processVars, WithEntry
  <2>4. For(s, e)
    BY <2>1, <2>2 DEF For
  <2>5. \A x : Contains(timeline', x) <=> Contains(timeline, x) \/ x = e
    BY <2>3, ContainsAppend
  <2>6. \A t \in Slots, x \in Events : For(t, x)' <=> For(t, x) /\ t # s
    BY <2>3 DEF For
  <2>7. \A x \in Events : Known(x)' => Known(x)
    BY <2>3, <2>4, <2>5, <2>6 DEF Known
  <2>8. overlapped' = {} => IsInjective(timeline')
    BY <1>1, <2>3, <2>4, AppendOnce
  <2>9. overlapped' = {} => \A t \in Slots, x \in Events : For(t, x)' => ~Contains(timeline', x)
    BY <1>1, <2>3, <2>4, <2>5, <2>6
  <2> QED BY <1>1, <2>3, <2>6, <2>7, <2>8, <2>9 DEF MemoryOK
<1>12. ASSUME NEW s \in Slots, RebuildAppends(s) \/ RebuildEnds(s) PROVE MemoryOK'
  BY <1>12 DEF RebuildAppends, RebuildEnds, At, PhaseFits
<1>13. ASSUME UNCHANGED <<handlerVars, outboxVars>> PROVE MemoryOK'
  BY <1>13, MemoryKept DEF handlerVars, outboxVars, processVars, storeVars, For
<1> QED BY <1>3, <1>4, <1>5, <1>6, <1>7, <1>8, <1>9, <1>10, <1>11, <1>12, <1>13 DEF BusStep

-----------------------------------------------------------------------------
(* The inductive invariant, and what it says.                                *)

\* A behaviour is about the gateway or about the bus.
EventsInv ==
    IF part = "gateway" THEN GatewayOK
    ELSE BusOK /\ AllFollowed /\ RelaysOK /\ RebuildsOK /\ DurableOK /\ MemoryOK

LEMMA EventsInvInit == Init => EventsInv
<1> SUFFICES ASSUME Init PROVE EventsInv
  OBVIOUS
<1>1. CASE part = "gateway"
  BY <1>1, GatewayOKInit DEF Init, EventsInv
<1>2. CASE part # "gateway"
  <2>1. EventOutboxInit /\ restarts = 0 /\ call = [s \in Slots |-> Idle] /\ overlapped = {}
    BY DEF Init, HandlersInit
  <2> USE <2>1 DEF EventOutboxInit
  <2>2. <<>> \in Seq(Events) /\ \A e : ~Contains(<<>>, e)
    BY EmptySeq, ContainsEmpty
  <2>3. LogOK
    <3>1. hydrating \in BOOLEAN /\ (hydrating => Durable)
      <4>1. hydrating = (part \in {"durable", "relay"})
        BY DEF Durable
      <4>2. CASE Durable
        BY <4>1, <4>2, SMT DEF Durable
      <4>3. CASE ~Durable
        <5>1. (part \in {"durable", "relay"}) = FALSE
          BY <4>3 DEF Durable
        <5>2. hydrating = FALSE
          BY <4>1, <5>1, Zenon
        <5> QED BY <5>2
      <4> QED BY <4>2, <4>3
    <3>2. task \in [Events -> TaskStates] /\ \A e \in Events : task[e] # "waiting"
      BY DEF TaskStates
    <3>3. WaitingKnown
      BY <2>2, <3>2 DEF WaitingKnown
    <3> QED BY <2>2, <3>1, <3>2, <3>3 DEF LogOK
  <2>4. StoresOK /\ CallsOK
    BY <2>2 DEF StoresOK, CallsOK
  <2>5. AllFollowed
    BY <2>2 DEF AllFollowed, Followed
  <2>6. RelaysOK
    <3>1. heard \in [Events -> [Channels -> Nat]]
      OBVIOUS
    <3>2. ASSUME NEW e \in Events PROVE RelayOK(e)
      <4>1. \A c \in Channels : heard[e][c] = 0
        OBVIOUS
      <4>2. \A i \in 1..Len(Publications(e)) : Publications(e)[i] \in Channels
        BY PublicationsType, ElementOfSeq
      <4>3. Len(Publications(e)) \in Nat
        BY PublicationsType, LenProperties
      <4>4. \A i \in 2..Len(Publications(e)) : i \in 1..Len(Publications(e))
                                             /\ i - 1 \in 1..Len(Publications(e))
        BY <4>3
      <4>5. \A i \in 2..Len(Publications(e)) :
               heard[e][Publications(e)[i]] = 0 /\ heard[e][Publications(e)[i - 1]] = 0
        BY <4>1, <4>2, <4>4
      <4> QED BY <4>1, <4>5 DEF RelayOK, Cap
    <3> QED BY <3>1, <3>2 DEF RelaysOK, HeardOK
  <2>7. RebuildsOK
    <3> IsInjective(<<>>)
      BY DEF IsInjective
    <3> QED BY DEF RebuildsOK, Reached, At
  <2>8. DurableOK
    BY <2>2 DEF DurableOK, AllAttend, Attended, LogStored, RebuildsAlone, OnlyStored, For, Rebuilds
  <2>9. MemoryOK
    <3> IsInjective(<<>>)
      BY DEF IsInjective
    <3> QED BY <2>2 DEF MemoryOK, Known, For
  <2> QED BY <1>2, <2>3, <2>4, <2>5, <2>6, <2>7, <2>8, <2>9 DEF EventsInv, BusOK
<1> QED BY <1>1, <1>2

LEMMA EventsInvStep == EventsInv /\ [Next]_vars => EventsInv'
<1> SUFFICES ASSUME EventsInv, [Next]_vars PROVE EventsInv'
  OBVIOUS
<1>1. part' = part
  BY PartKept
<1>2. CASE part = "gateway"
  <2>1. GatewayOK
    BY <1>2 DEF EventsInv
  <2>2. CASE GatewayNext
    BY <1>1, <1>2, <2>1, <2>2, GatewayOKStep DEF EventsInv
  <2>3. CASE gatewayVars' = gatewayVars
    BY <1>1, <1>2, <2>1, <2>3, SocketsKept DEF EventsInv, GatewayOK, LastReached, FeedOK, gatewayVars
  <2> QED BY <1>2, <2>2, <2>3 DEF Next, vars
<1>3. CASE part # "gateway"
  <2>1. BusStep
    BY <1>3, StepOfBus
  <2>2. BusOK /\ AllFollowed /\ RelaysOK /\ RebuildsOK /\ DurableOK /\ MemoryOK
    BY <1>3 DEF EventsInv
  <2> QED BY <1>1, <1>3, <2>1, <2>2, BusOKStep, AllFollowedStep, RelaysOKStep, RebuildsOKStep,
             DurableOKStep, MemoryOKStep DEF EventsInv
<1> QED BY <1>2, <1>3

\* The inductive invariant of the bus and of the gateway.
THEOREM EventsInvariant == Spec => []EventsInv
BY EventsInvInit, EventsInvStep, PTL DEF Spec

\* The state of the bus and of the gateway keeps its shape; in particular the
\* events that wait for the hydration are those whose publish task does.
THEOREM EventsTyped == Spec => []EventsTypeOK
<1>1. EventsInv => EventsTypeOK
  <2> SUFFICES ASSUME EventsInv PROVE EventsTypeOK
    OBVIOUS
  <2>1. CASE part = "gateway"
    <3>1. \A k \in Sockets : Len(feed[k]) <= FeedLength
      BY <2>1 DEF EventsInv, GatewayOK, FeedOK
    <3> QED BY <2>1, <3>1 DEF EventsInv, GatewayOK, EventsTypeOK, GatewayTypeOK, SocketsOK, SocketStates
  <2>2. CASE part # "gateway"
    <3>1. BusOK /\ RelaysOK
      BY <2>2 DEF EventsInv
    <3>2. ToSet(waiting) = {e \in Events : task[e] = "waiting"} /\ ToSet(outbox) \subseteq Events
      BY <3>1, ContainsToSet DEF BusOK, LogOK, StoresOK, WaitingKnown
    <3> QED BY <2>2, <3>1, <3>2 DEF EventsTypeOK, EventOutboxTypeOK, BusOK, LogOK, StoresOK, CallsOK,
                                    TaskStates, RelaysOK, HeardOK
  <2> QED BY <2>1, <2>2
<1> QED BY <1>1, EventsInvariant, PTL

\* DurableEventBus.persistAndPublish: an event is in the broker's stream at most
\* once and only if it is stored, and a stored one is missing from it only while
\* its task is on the way or because the process ended between the two.
THEOREM BrokerFollows == Spec => []BrokerFollowsOutbox
<1>1. EventsInv => BrokerFollowsOutbox
  <2> SUFFICES ASSUME EventsInv, Durable, NEW e \in Events
               PROVE  /\ broker[e] <= 1
                      /\ broker[e] > 0 => Contains(outbox, e)
                      /\ Contains(outbox, e) /\ broker[e] = 0 =>
                            task[e] = "broker" \/ (task[e] = "lost" /\ restarts > 0)
    BY DEF BrokerFollowsOutbox
  <2>1. AllFollowed /\ BusOK
    BY DEF EventsInv, Durable
  <2>2. Followed(e) /\ task[e] \in TaskStates
    BY <2>1 DEF AllFollowed, BusOK, LogOK
  <2> QED BY <2>2 DEF Followed, TaskStates, Pending
<1> QED BY <1>1, EventsInvariant, PTL

\* OrderTimelineService: what a finished rebuild has gone through is on the
\* timeline; unless a rebuild ran beside a handler that was publishing, no event
\* has two entries and a durable timeline has entries of stored events only.
THEOREM TimelineKeepsTheLog == Spec => []TimelineRebuilt
<1>1. EventsInv => TimelineRebuilt
  <2> SUFFICES ASSUME EventsInv, part # "gateway"
               PROVE  /\ rebuilt \subseteq ToSet(timeline)
                      /\ Durable \/ overlapped = {} => IsInjective(timeline)
                      /\ Durable /\ overlapped = {} => ToSet(timeline) \subseteq ToSet(outbox)
    BY DEF TimelineRebuilt
  <2>1. BusOK /\ RebuildsOK /\ DurableOK /\ MemoryOK
    BY DEF EventsInv
  <2>2. /\ \A e : Contains(timeline, e) <=> e \in ToSet(timeline)
        /\ \A e : Contains(outbox, e) <=> e \in ToSet(outbox)
        /\ ToSet(timeline) \subseteq Events
    BY <2>1, ContainsToSet DEF BusOK, StoresOK
  <2> QED BY <2>1, <2>2 DEF RebuildsOK, DurableOK, MemoryOK, OnlyStored
<1> QED BY <1>1, EventsInvariant, PTL

\* From HttpRealtimeEventPublisher.publish to the clients' feeds: a channel never
\* hears an event more often than the one before it, nor again without a restart,
\* and an envelope reaches every socket that listens, in the order of publication.
THEOREM PublicationsReachAll == Spec => []PublicationsReach
<1>1. EventsInv => RelayedInOrder
  BY DEF EventsInv, RelayedInOrder, RelaysOK, RelayOK, Cap
<1>2. EventsInv => PublicationReaches
  <2> SUFFICES ASSUME EventsInv, part = "gateway" PROVE PublicationReaches
    BY DEF PublicationReaches
  <2>1. GatewayOK
    BY DEF EventsInv
  <2>2. \A r \in Rooms : SubscribersOf(r) = Listening(r)
                         /\ (r \in DOMAIN subscribers => subscribers[r] # {})
    BY <2>1 DEF GatewayOK, SocketsOK, Lists
  <2>3. \A k \in Sockets : \A i \in 2..Len(feed[k]) : feed[k][i] < feed[k][i - 1]
    BY <2>1 DEF GatewayOK, FeedOK
  <2> QED BY <2>1, <2>2, <2>3 DEF GatewayOK, LastReached, PublicationReaches, Listening
<1> QED BY <1>1, <1>2, EventsInvariant, PTL DEF PublicationsReach
=============================================================================
