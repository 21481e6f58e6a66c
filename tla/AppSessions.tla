---------------------------- MODULE AppSessions ----------------------------
(***************************************************************************)
(* The app sessions of the BFFs, and the session managers of the apps.     *)
(*                                                                         *)
(* A BFF exchanges an OIDC token for a session and rotates its refresh     *)
(* token; the sessions are in its memory, so a refresh is one step there   *)
(* and a restart forgets them all.  An app's session manager keeps one     *)
(* session and replaces it by whatever answer arrives; nothing stops the   *)
(* app from asking twice, and an answer may be lost.                       *)
(***************************************************************************)
EXTENDS Handlers, Sequences

CONSTANTS
    Clients, Devices,
    InFlight,            \* how many requests of one app are on their way at once
    MaxSessions          \* bound on the sessions issued

VARIABLES
    persona,             \* client -> the persona of its app; never changes
    sessions,            \* InMemoryRefreshSessionStore: the records in the order issued
    stale,               \* the records forgotten in a restart or past their expiry
    replayedFamilies,    \* history: the families a replay was answered for
    active,              \* client -> the session its manager keeps, or 0
    wire,                \* client -> request -> a message on its way, or Null
    doubted              \* history: the families refreshed twice at once, or whose answer was lost

appVars == <<persona, sessions, stale, replayedFamilies, active, wire, doubted>>
bffVars == <<sessions, stale, replayedFamilies>>

Personas == {"consumer", "courier", "merchant", "admin"}
AdminRoles == <<"system_admin", "support_agent", "finance_ops">>
\* The roles an identity claims; FALSE for a token that does not verify.
Claims == {{}, {"consumer", "courier"}, {"merchant_operator"}, {"finance_ops", "support_agent"}}

\* The role an exchange gives: without a roles claim anyone is a consumer or a
\* courier, and the first of the admin roles counts.
RoleFor(p, claims) ==
    CASE p \in {"consumer", "courier"} -> IF claims = {} \/ p \in claims THEN p ELSE Null
      [] p = "merchant" -> IF "merchant_operator" \in claims THEN "merchant_operator" ELSE Null
      [] p = "admin" ->
            LET admin == SelectSeq(AdminRoles, LAMBDA r : r \in claims)
            IN IF admin = <<>> THEN Null ELSE Head(admin)

AppMessage == [kind : {"exchange", "refresh"}, session : Nat]
    \cup [kind : {"answer"}, session : Nat, status : {200, 400, 401, 403, 500}, issued : Nat]

ASSUME AppSessionsAssumption == MaxSessions \in Nat /\ Null \notin AppMessage

\* A consumer's app is like a courier's, an admin's like a merchant's.
AppSessionsInit ==
    /\ persona \in [Clients -> IF part = "apps" THEN {"consumer", "admin"} ELSE {"consumer"}]
    /\ sessions = <<>> /\ stale = {} /\ replayedFamilies = {}
    /\ active = [c \in Clients |-> 0]
    /\ wire = [c \in Clients |-> [i \in InFlight |-> Null]]
    /\ doubted = {}

-----------------------------------------------------------------------------
(* The app *)

Sends(c, i, message) ==
    /\ wire[c][i] = Null
    /\ wire' = [wire EXCEPT ![c][i] = message]
    /\ UNCHANGED <<persona, bffVars, active>>

\* A refresh and its answer carry the session the app had when it asked, an
\* exchange none.  The device it names and the identity it proves are chosen
\* where the BFF looks at them.
Request(kind, session) == [kind |-> kind, session |-> session]
Reply(session, status, issued) ==
    [kind |-> "answer", session |-> session, status |-> status, issued |-> issued]

SignIn(c, i) ==
    /\ Sends(c, i, Request("exchange", 0))
    /\ UNCHANGED doubted

RefreshApp(c, i) ==
    /\ active[c] # 0
    /\ Sends(c, i, Request("refresh", active[c]))
    /\ doubted' = IF \E j \in InFlight : wire[c][j] # Null /\ wire[c][j].session = active[c]
                  THEN doubted \cup {sessions[active[c]].family} ELSE doubted

\* Mutant of TakesAnswer: a refresh forgets to keep the session it is answered.
TakesAnswerOfSignIn(c, i) ==
    /\ wire[c][i] # Null /\ wire[c][i].kind = "answer"
    /\ active' = IF wire[c][i].status = 200 /\ wire[c][i].session = 0
                 THEN [active EXCEPT ![c] = wire[c][i].issued] ELSE active
    /\ wire' = [wire EXCEPT ![c][i] = Null]
    /\ UNCHANGED <<persona, bffVars, doubted>>

\* An error is thrown to the app and changes nothing.
TakesAnswer(c, i) ==
    /\ wire[c][i] # Null /\ wire[c][i].kind = "answer"
    /\ active' = IF wire[c][i].status = 200 THEN [active EXCEPT ![c] = wire[c][i].issued] ELSE active
    /\ wire' = [wire EXCEPT ![c][i] = Null]
    /\ UNCHANGED <<persona, bffVars, doubted>>

\* A request or an answer is lost, and fetch fails.
Loses(c, i) ==
    /\ wire[c][i] # Null
    /\ wire' = [wire EXCEPT ![c][i] = Null]
    /\ doubted' = IF wire[c][i].kind = "answer" /\ wire[c][i].status = 200
                  THEN doubted \cup {sessions[wire[c][i].issued].family} ELSE doubted
    /\ UNCHANGED <<persona, bffVars, active>>

-----------------------------------------------------------------------------
(* The BFF *)

Live(t) == ~sessions[t].used /\ t \notin stale

\* mapAppAuthError, in the catch block of the routes.  The refresh routes of the
\* ops BFF return the promise without awaiting it, so what it throws is not
\* caught there and the framework answers 500.
AuthErrorStatus(p) == IF p \in {"merchant", "admin"} THEN 500 ELSE 401

AppRecord(c, role, device, family) ==
    [client |-> c, persona |-> persona[c], role |-> role, device |-> device, family |-> family,
     used |-> FALSE]

\* A malformed payload or a token that does not verify is refused before the
\* roles are looked at.
Exchanges(c, i) ==
    /\ wire[c][i] # Null /\ wire[c][i].kind = "exchange"
    /\ \/ /\ \E error \in {400, 401} : wire' = [wire EXCEPT ![c][i] = Reply(0, error, 0)]
          /\ UNCHANGED sessions
       \/ \E claims \in Claims, device \in Devices :
            LET role == RoleFor(persona[c], claims)
                new == Len(sessions) + 1
            IN IF role = Null
               THEN wire' = [wire EXCEPT ![c][i] = Reply(0, 403, 0)] /\ UNCHANGED sessions
               ELSE /\ Len(sessions) < MaxSessions
                    /\ sessions' = Append(sessions, AppRecord(c, role, device, new))
                    /\ wire' = [wire EXCEPT ![c][i] = Reply(0, 200, new)]
    /\ UNCHANGED <<persona, stale, replayedFamilies, active, doubted>>

\* revokeFamily marks every token of the family used.
Revoked(family) ==
    [t \in DOMAIN sessions |-> IF sessions[t].family = family
                               THEN [sessions[t] EXCEPT !.used = TRUE] ELSE sessions[t]]

Refuses(c, i) ==
    wire' = [wire EXCEPT ![c][i] = Reply(wire[c][i].session, AuthErrorStatus(persona[c]), 0)]

\* A malformed payload does not come as far as the session.
RefusesPayload(c, i) ==
    /\ wire[c][i] # Null /\ wire[c][i].kind = "refresh"
    /\ wire' = [wire EXCEPT ![c][i] = Reply(wire[c][i].session, 400, 0)]
    /\ UNCHANGED <<persona, bffVars, active, doubted>>

\* Mutant of RefreshSession: the session issued is bound to the device that asked.
RefreshSessionRebinds(c, i) ==
    /\ wire[c][i] # Null /\ wire[c][i].kind = "refresh"
    /\ \E device \in Devices :
         LET t == wire[c][i].session
             record == sessions[t]
             refused == t \in stale \/ (record.device # Null /\ record.device # device)
             new == Len(sessions) + 1
         IN \/ refused /\ Refuses(c, i) /\ UNCHANGED <<sessions, replayedFamilies>>
            \/ /\ ~refused /\ record.used
               /\ Refuses(c, i)
               /\ sessions' = Revoked(record.family)
               /\ replayedFamilies' = replayedFamilies \cup {record.family}
            \/ /\ ~refused /\ ~record.used /\ Len(sessions) < MaxSessions
               /\ sessions' = Append([sessions EXCEPT ![t].used = TRUE],
                                     AppRecord(c, record.role, device, record.family))
               /\ wire' = [wire EXCEPT ![c][i] = Reply(t, 200, new)]
               /\ UNCHANGED replayedFamilies
    /\ UNCHANGED <<persona, stale, active, doubted>>

\* A session bound to a device is refused to others before its use is looked at;
\* a used one ends its family; else it is used up and another issued.
RefreshSession(c, i) ==
    /\ wire[c][i] # Null /\ wire[c][i].kind = "refresh"
    /\ \E device \in Devices :
         LET t == wire[c][i].session
             record == sessions[t]
             refused == t \in stale \/ (record.device # Null /\ record.device # device)
             new == Len(sessions) + 1
         IN \/ refused /\ Refuses(c, i) /\ UNCHANGED <<sessions, replayedFamilies>>
            \/ /\ ~refused /\ record.used
               /\ Refuses(c, i)
               /\ sessions' = Revoked(record.family)
               /\ replayedFamilies' = replayedFamilies \cup {record.family}
            \/ /\ ~refused /\ ~record.used /\ Len(sessions) < MaxSessions
               /\ sessions' = Append([sessions EXCEPT ![t].used = TRUE],
                                     AppRecord(c, record.role, record.device, record.family))
               /\ wire' = [wire EXCEPT ![c][i] = Reply(t, 200, new)]
               /\ UNCHANGED replayedFamilies
    /\ UNCHANGED <<persona, stale, active, doubted>>

\* Fourteen days pass for a session.
AppSessionExpires(t) ==
    /\ t \in DOMAIN sessions \ stale
    /\ stale' = stale \cup {t}
    /\ UNCHANGED <<handlerVars, persona, sessions, replayedFamilies, active, wire, doubted>>

\* A restart forgets the sessions and fails what is on its way.
BffRestart ==
    /\ Restart
    /\ stale' = DOMAIN sessions
    /\ wire' = [c \in Clients |-> [i \in InFlight |-> Null]]
    /\ UNCHANGED <<persona, sessions, replayedFamilies, active, doubted>>

-----------------------------------------------------------------------------

AppSessionsNext ==
    \/ \E c \in Clients, i \in InFlight :
         /\ \/ SignIn(c, i) \/ RefreshApp(c, i) \/ TakesAnswer(c, i) \/ Loses(c, i)
            \/ Exchanges(c, i) \/ RefusesPayload(c, i) \/ RefreshSession(c, i)
         /\ UNCHANGED handlerVars
    \/ \E t \in DOMAIN sessions : AppSessionExpires(t)
    \/ BffRestart

-----------------------------------------------------------------------------

\* A refresh token is good once: a family never has two live tokens, one whose
\* replay was answered has none, and every token of a family is its client's, on
\* the device and with the role of the sign-in.
AppFamiliesDie ==
    \A t \in DOMAIN sessions :
        /\ sessions[t].family \in replayedFamilies => ~Live(t)
        /\ \A r \in DOMAIN sessions \ {t} : sessions[r].family = sessions[t].family =>
              /\ ~Live(r) \/ ~Live(t)
              /\ [sessions[r] EXCEPT !.used = TRUE] = [sessions[t] EXCEPT !.used = TRUE]

\* An app keeps a session of its own, and one that has no request on its way
\* keeps one it can refresh, unless the session expired or was forgotten, or the
\* app asked twice at once or lost an answer: a refused device or a failed
\* request costs it nothing.
AppSessionUsable ==
    \A c \in Clients : active[c] # 0 =>
        /\ sessions[active[c]].client = c
        /\ (\A i \in InFlight : wire[c][i] = Null) =>
            \/ Live(active[c])
            \/ active[c] \in stale
            \/ sessions[active[c]].family \in doubted
=============================================================================
