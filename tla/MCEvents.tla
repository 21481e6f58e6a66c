------------------------------ MODULE MCEvents ------------------------------
(***************************************************************************)
(* Events on their way: the bus of a server with a document store          *)
(* ("durable"), with a realtime gateway ("memory") and with both           *)
(* ("relay"), and the realtime gateway ("gateway").                        *)
(***************************************************************************)
EXTENDS EventOutbox, RealtimeGateway

vars == <<handlerVars, outboxVars, gatewayVars>>

Init ==
    /\ \E name \in {"durable", "relay", "memory", "gateway"} : HandlersInit(name)
    /\ EventOutboxInit /\ GatewayInit

Next ==
    \/ part # "gateway" /\ EventOutboxNext /\ UNCHANGED gatewayVars
    \/ part = "gateway" /\ GatewayNext /\ UNCHANGED outboxVars

Spec == Init /\ [][Next]_vars

\* The store answers, fetch settles or times out, and Node goes on with what
\* awaited them.
FairSpec ==
    /\ Spec
    /\ WF_vars(part # "gateway" /\ Hydrate /\ UNCHANGED gatewayVars)
    /\ \A e \in Events :
         /\ WF_vars(part # "gateway" /\ TaskSteps(e) /\ UNCHANGED gatewayVars)
         /\ WF_vars(part # "gateway" /\ RelaySteps(e) /\ UNCHANGED gatewayVars)
    /\ \A s \in Slots : WF_vars(part # "gateway" /\ HandlerSteps(s) /\ UNCHANGED gatewayVars)

\* From the relay to the screen: channels hear of an event in order and no more
\* often than it was replayed, and an envelope reaches every socket that listens.
PublicationsReach == RelayedInOrder /\ PublicationReaches

\* The state of the bus and of the gateway keeps its shape.
EventsTypeOK ==
    /\ part # "gateway" => EventOutboxTypeOK
    /\ part = "gateway" => GatewayTypeOK
=============================================================================
