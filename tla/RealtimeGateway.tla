-------------------------- MODULE RealtimeGateway --------------------------
(***************************************************************************)
(* The realtime gateway: sockets that listen to a channel, devices that    *)
(* registered for push notifications on it, and the publication of an      *)
(* envelope, which falls back to push when no socket of the channel is     *)
(* open.  All state is in the memory of the process.                       *)
(*                                                                         *)
(* A socket whose peer is gone stays OPEN to the server until the network  *)
(* reports it: it is "dead" here, and the server cannot tell.              *)
(***************************************************************************)
EXTENDS Handlers, Sequences, SequencesExt, FiniteSets

CONSTANTS
    Rooms,           \* realtime channels
    Sockets,         \* a client that reconnects uses another one
    Users,
    Configured,      \* push providers with an endpoint in the environment
    FeedLength,      \* envelopes a client's feed keeps: 10 in the code
    MaxPublications  \* bound on the envelopes published

Providers == {"apns", "fcm"}

ASSUME GatewayAssumption ==
    Configured \subseteq Providers /\ FeedLength \in Nat \ {0} /\ MaxPublications \in Nat

VARIABLES
    socket,          \* socket -> its state
    roomOf,          \* socket -> the channel it named
    subscribers,     \* the Map of channels to sets of sockets
    registrations,   \* channel -> user -> provider, or Null
    feed,            \* socket -> the client's envelopes, newest first
    published,       \* history: how many envelopes were published
    last             \* history: what happened to the last one, or Null

gatewayVars == <<socket, roomOf, subscribers, registrations, feed, published, last>>

GatewayInit ==
    /\ socket = [k \in Sockets |-> "new"]
    /\ roomOf = [k \in Sockets |-> Null]
    /\ subscribers = [r \in {} |-> {}]
    /\ registrations = [r \in Rooms |-> [u \in Users |-> Null]]
    /\ feed = [k \in Sockets |-> <<>>]
    /\ published = 0 /\ last = Null

-----------------------------------------------------------------------------

\* The sets of a Map whose empty sets are deleted.
SubscribersOf(r) == IF r \in DOMAIN subscribers THEN subscribers[r] ELSE {}
WithSubscribers(r, sockets) ==
    [x \in (DOMAIN subscribers \cup {r}) \ (IF sockets = {} THEN {r} ELSE {}) |->
        IF x = r THEN sockets ELSE subscribers[x]]

\* The upgrade names a channel; one that names none is closed and not listed.
Connect(k, r) ==
    /\ socket[k] = "new"
    /\ roomOf' = [roomOf EXCEPT ![k] = r]
    /\ IF r = Null
       THEN /\ socket' = [socket EXCEPT ![k] = "closed"]
            /\ UNCHANGED subscribers
       ELSE /\ socket' = [socket EXCEPT ![k] = "open"]
            /\ subscribers' = WithSubscribers(r, SubscribersOf(r) \cup {k})
    /\ UNCHANGED <<handlerVars, registrations, feed, published, last>>

\* The peer vanishes unnoticed, or the closing handshake begins.
Drops(k, state) ==
    /\ socket[k] = "open" \/ (socket[k] = "dead" /\ state = "closing")
    /\ socket' = [socket EXCEPT ![k] = state]
    /\ UNCHANGED <<handlerVars, roomOf, subscribers, registrations, feed, published, last>>

\* The close event: the socket leaves its channel's set.
Closed(k) ==
    /\ socket[k] = "closing"
    /\ socket' = [socket EXCEPT ![k] = "closed"]
    /\ subscribers' = IF roomOf[k] \in DOMAIN subscribers
                      THEN WithSubscribers(roomOf[k], subscribers[roomOf[k]] \ {k})
                      ELSE subscribers
    /\ UNCHANGED <<handlerVars, roomOf, registrations, feed, published, last>>

\* A user has one registration on a channel; the last one is kept.
Register(r, u, provider) ==
    /\ provider \in Providers
    /\ registrations' = [registrations EXCEPT ![r][u] = provider]
    /\ UNCHANGED <<handlerVars, socket, roomOf, subscribers, feed, published, last>>

Unregister(r, u) ==
    /\ registrations' = [registrations EXCEPT ![r][u] = Null]
    /\ UNCHANGED <<handlerVars, socket, roomOf, subscribers, feed, published, last>>

\* What the server takes for OPEN.
SeemsOpen(k) == socket[k] \in {"open", "dead"}

\* The routing notifier: the provider's sender posts, or is the one that does
\* nothing; a post can fail or time out, which is logged and not repeated.
Posts(r, targets) == {u \in targets : registrations[r][u] \in Configured}

\* Mutant of SendsTo: every listed socket counts.
SendsToListed(r) == SubscribersOf(r)

SendsTo(r) == {k \in SubscribersOf(r) : SeemsOpen(k)}

\* The client puts an envelope in front of its feed.
FeedWith(k, m) == SubSeq(<<m>> \o feed[k], 1,
                         IF Len(feed[k]) < FeedLength THEN Len(feed[k]) + 1 ELSE FeedLength)

\* publishToChannel: failed are the users whose push post fails, which the
\* others' do not depend on.
PublishToChannel(r, failed) ==
    LET sent == SendsTo(r)
        targets == IF sent # {} THEN {} ELSE {u \in Users : registrations[r][u] # Null}
        received == {k \in sent : socket[k] = "open"}
    IN /\ published < MaxPublications
       /\ failed \subseteq Posts(r, targets)
       /\ published' = published + 1
       /\ last' = [received |-> received, gone |-> {k \in sent : socket[k] = "dead"}, targets |-> targets,
                   registered |-> {u \in Users : registrations[r][u] # Null},
                   pushed |-> Posts(r, targets) \ failed,
                   listening |-> {k \in Sockets : socket[k] = "open" /\ roomOf[k] = r}]
       /\ feed' = [k \in Sockets |-> IF k \in received
                                     THEN FeedWith(k, published + 1) ELSE feed[k]]
       /\ UNCHANGED <<handlerVars, socket, roomOf, subscribers, registrations>>

\* A new gateway has no sockets and no registrations.
GatewayRestarts ==
    /\ Restart
    /\ socket' = [k \in Sockets |-> IF socket[k] = "new" THEN "new" ELSE "closed"]
    /\ subscribers' = [r \in {} |-> {}]
    /\ registrations' = [r \in Rooms |-> [u \in Users |-> Null]]
    /\ UNCHANGED <<roomOf, feed, published, last>>

GatewayNext ==
    \/ \E k \in Sockets :
         \/ \E r \in Rooms \cup {Null} : Connect(k, r)
         \/ \E state \in {"dead", "closing"} : Drops(k, state)
         \/ Closed(k)
    \/ \E r \in Rooms, u \in Users :
         \/ \E provider \in Providers : Register(r, u, provider)
         \/ Unregister(r, u)
    \/ \E r \in Rooms, failed \in SUBSET Users : PublishToChannel(r, failed)
    \/ GatewayRestarts

-----------------------------------------------------------------------------

GatewayTypeOK ==
    /\ socket \in [Sockets -> {"new", "open", "dead", "closing", "closed"}]
    /\ roomOf \in [Sockets -> Rooms \cup {Null}]
    /\ DOMAIN subscribers \subseteq Rooms
    /\ registrations \in [Rooms -> [Users -> Providers \cup {Null}]]
    /\ \A k \in Sockets : Len(feed[k]) <= FeedLength
    /\ published \in 0..MaxPublications

\* No socket is forgotten and no envelope is dropped in silence: a channel's
\* set, which exists only while it has a socket, lists exactly the sockets on it
\* that are not closed; every socket that listens gets the envelope, in the
\* order of publication; and where nobody listens the registered users are
\* tried, unless a socket whose peer is gone was counted as listening.
PublicationReaches ==
    part = "gateway" =>
        /\ \A r \in Rooms :
              /\ SubscribersOf(r) = {k \in Sockets : roomOf[k] = r
                                        /\ socket[k] \in {"open", "dead", "closing"}}
              /\ r \in DOMAIN subscribers => subscribers[r] # {}
        /\ last # Null =>
              /\ last.received = last.listening
              /\ \/ last.listening # {}
                 \/ last.targets = last.registered
                 \/ last.gone # {}
        /\ \A k \in Sockets : \A i \in 2..Len(feed[k]) : feed[k][i] < feed[k][i - 1]
=============================================================================
