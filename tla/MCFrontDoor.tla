---------------------------- MODULE MCFrontDoor ----------------------------
(***************************************************************************)
(* What the apps reach: the BFFs and their sessions ("bff", "apps"), the   *)
(* request handler of core-api ("http"), its identities and sessions       *)
(* ("identity", "sessions"), its catalog and prices ("menus", "hours",     *)
(* "ordering", "zones"), the dispatch engine and telemetry ("engine",      *)
(* "telemetry"), and the courier app's own queue ("queue").                *)
(*                                                                         *)
(* They share no state, so a behaviour is about one of them, chosen in the *)
(* initial state.                                                          *)
(***************************************************************************)
EXTENDS Sessions, AppSessions, BffApi, Storefront, DeliveryZones, DispatchEngine, OfflineQueue, TLC

vars == <<handlerVars, sessionVars, appVars, httpVars, bffApiVars, storefrontVars,
          zones, dispatchEngineVars, offlineVars>>

\* Handlers and requests on their way are interchangeable.
Symmetric == Permutations(Slots) \cup Permutations(InFlight)

Init ==
    /\ \E name \in {"identity", "sessions", "apps", "http", "bff", "menus", "hours", "ordering",
                    "zones", "engine", "telemetry", "queue"} : HandlersInit(name)
    /\ SessionsInit /\ AppSessionsInit /\ HttpInit /\ BffInit
    /\ StorefrontInit /\ ZonesInit /\ DispatchEngineInit /\ OfflineQueueInit

OnlyApi == UNCHANGED <<storefrontVars, zones, dispatchEngineVars, offlineVars>>
NoApi == UNCHANGED <<sessionVars, appVars, httpVars, bffApiVars>>
OnlyStorefront == NoApi /\ UNCHANGED <<zones, dispatchEngineVars, offlineVars>>
OnlyZones == NoApi /\ UNCHANGED <<storefrontVars, dispatchEngineVars, offlineVars>>
OnlyDispatch == NoApi /\ UNCHANGED <<storefrontVars, zones, offlineVars>>
OnlyQueue == NoApi /\ UNCHANGED <<storefrontVars, zones, dispatchEngineVars>>

ApiNext ==
    \/ /\ \/ part = "identity" /\ IdentityNext
          \/ part = "sessions" /\ SessionsNext
       /\ UNCHANGED <<appVars, httpVars, bffApiVars>>
    \/ part = "apps" /\ AppSessionsNext /\ UNCHANGED <<sessionVars, httpVars, bffApiVars>>
    \/ part = "http" /\ HttpNext /\ UNCHANGED <<handlerVars, sessionVars, appVars, bffApiVars>>
    \/ part = "bff" /\ BffNext /\ UNCHANGED <<handlerVars, sessionVars, appVars, httpVars>>

ServiceNext ==
    \/ /\ \/ part = "menus" /\ MenusNext /\ UNCHANGED <<statusVars, orderingVars>>
          \/ part = "hours" /\ HoursNext /\ UNCHANGED <<menuVars, orderingVars>>
          \/ part = "ordering" /\ OrderingNext /\ UNCHANGED <<menuVars, statusVars>>
       /\ OnlyStorefront
    \/ part = "zones" /\ ZonesNext /\ OnlyZones
    \/ /\ \/ part = "engine" /\ EngineNext /\ UNCHANGED telemetryVars
          \/ part = "telemetry" /\ TelemetryNext /\ UNCHANGED engineVars
       /\ OnlyDispatch
    \/ part = "queue" /\ OfflineQueueNext /\ OnlyQueue

Next == (ApiNext /\ OnlyApi) \/ ServiceNext

Spec == Init /\ [][Next]_vars

\* A refresh token is good once, and a family whose token was replayed is dead:
\* the sessions of core-api and of the BFFs both keep that.
FamiliesDie == RefreshFamiliesDie /\ AppFamiliesDie

\* The storefront is true to its consumers: about its menus and their versions,
\* about its opening hours, about where it delivers and about what an order costs.
StorefrontTrue ==
    VersionsKept /\ BrowsingAgrees /\ OpenInHours /\ ZonesServe /\ OrdersPricedByTheirBasket

\* Dispatch rests on the best courier and on the newest observation.
DispatchSound == BestCourierAssigned /\ NewestObservationKept
=============================================================================
