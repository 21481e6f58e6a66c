-------------------------- MODULE FrontDoorProofs --------------------------
(***************************************************************************)
(* Proofs about the registrations and refresh tokens of core-api, for any  *)
(* users, tokens, concurrent handlers and restarts.                        *)
(***************************************************************************)
EXTENDS MCFrontDoor, FiniteSetTheorems, SequenceTheorems, TLAPS

-----------------------------------------------------------------------------
(* The parts.                                                                *)

\* A behaviour stays about its part, and leaves the state of the others alone.
LEMMA IdentitySteps ==
    ASSUME [Next]_vars, part = "identity" PROVE IdentityNext \/ UNCHANGED vars
BY DEF Next, ApiNext, ServiceNext

LEMMA SessionsSteps ==
    ASSUME [Next]_vars, part = "sessions" PROVE SessionsNext \/ UNCHANGED vars
BY DEF Next, ApiNext, ServiceNext

LEMMA AppsSteps ==
    ASSUME [Next]_vars, part = "apps" PROVE AppSessionsNext \/ UNCHANGED vars
BY DEF Next, ApiNext, ServiceNext

LEMMA QueueSteps ==
    ASSUME [Next]_vars, part = "queue" PROVE OfflineQueueNext \/ UNCHANGED vars
BY DEF Next, ApiNext, ServiceNext

\* Every other part.
LEMMA OthersLeave ==
    ASSUME [Next]_vars, part \notin {"identity", "sessions", "apps", "queue"}
    PROVE  UNCHANGED <<sessionVars, appVars, offlineVars>>
BY DEF Next, ApiNext, ServiceNext, OnlyApi, OnlyStorefront, OnlyZones, OnlyDispatch, NoApi, vars

LEMMA SessionsLeave ==
    ASSUME [Next]_vars, part \in {"identity", "sessions"}
    PROVE  UNCHANGED <<appVars, offlineVars>>
BY DEF Next, ApiNext, ServiceNext, OnlyApi, vars

LEMMA AppsLeave ==
    ASSUME [Next]_vars, part = "apps"
    PROVE  UNCHANGED <<sessionVars, offlineVars>>
BY DEF Next, ApiNext, ServiceNext, OnlyApi, vars

LEMMA QueueLeaves ==
    ASSUME [Next]_vars, part = "queue"
    PROVE  UNCHANGED <<sessionVars, appVars>>
BY DEF Next, ApiNext, ServiceNext, OnlyQueue, NoApi, vars

LEMMA PartKept == ASSUME [Next]_vars PROVE part' = part
<1> USE DEF Begin, BeginBeside, Continue, Await, Answer, Restart, Goes, handlerVars
<1>1. IdentityNext => part' = part
  BY DEF IdentityNext, Register, FindsEmail, FindsPhone, SavesUser, AnnouncesUser, SessionsRestart
<1>2. SessionsNext => part' = part
  BY DEF SessionsNext, Login, Refresh, RevokesOne, Authenticates, GetsRecord, ReadsToMark, MarksUsed,
         FindsById, SavesSession, AnswersSession, ListsFamily, Expires, SessionsRestart
<1>3. AppSessionsNext => part' = part
  BY DEF AppSessionsNext, AppSessionExpires, BffRestart
<1>4. MenusNext => part' = part
  BY DEF MenusNext, CreateMenu, UpdateMenu, FindsMenu, SavesMenu
<1>5. HoursNext => part' = part
  BY DEF HoursNext, SetStatus, EvaluateOrderability
<1>6. OrderingNext => part' = part
  <2>1. \A item, available : SetAvailability(item, available) => part' = part
    BY DEF SetAvailability
  <2>2. \A b : CreateBasket(b) => part' = part
    BY DEF CreateBasket
  <2>3. \A s, b, x : UpdateBasket(s, b, x) \/ GenerateQuote(s, b, x) => part' = part
    BY DEF UpdateBasket, GenerateQuote
  <2>4. \A s, b, q, hash : CreateCheckout(s, b, q, hash) \/ CreateOrder(s, q, hash) => part' = part
    BY DEF CreateCheckout, CreateOrder
  <2>5. \A s : ChecksItem(s) => part' = part
    BY DEF ChecksItem
  <2>6. \A s : SavesBasket(s) \/ SavesQuote(s) \/ SavesCheckout(s) \/ SavesOrder(s) => part' = part
    BY DEF SavesBasket, SavesQuote, SavesCheckout, SavesOrder
  <2> HIDE DEF Begin, BeginBeside, Continue, Await, Answer, Restart, Goes
  <2> QED BY <2>1, <2>2, <2>3, <2>4, <2>5, <2>6 DEF OrderingNext
<1>7. ZonesNext => part' = part
  BY DEF ZonesNext, upsertZone
<1>8. EngineNext \/ TelemetryNext => part' = part
  BY DEF EngineNext, ReceiveDispatch, Decide, TelemetryNext, TelemetryRestart
<1>9. OfflineQueueNext => part' = part
  BY DEF OfflineQueueNext
<1> HIDE DEF Begin, BeginBeside, Continue, Await, Answer, Restart, Goes
<1> QED BY <1>1, <1>2, <1>3, <1>4, <1>5, <1>6, <1>7, <1>8, <1>9 DEF Next, ApiNext, ServiceNext, vars


-----------------------------------------------------------------------------
(* Registrations.                                                            *)

Parallel(s, t) ==
    \/ call[s].subject \in overlapped \/ call[t].subject \in overlapped
    \/ call[s].user.email # call[t].user.email /\ call[s].user.phone # call[t].user.phone

\* What a registration has looked up still holds, of every user stored since it
\* looked whose registration ran beside it unnoticed.
LookedUp(s) ==
    \A u \in Known :
        \/ u \in overlapped \/ call[s].subject \in overlapped
        \/ /\ users[u].email # call[s].user.email
           /\ call[s].phase = "saveUser" => users[u].phone # call[s].user.phone

RegistrationOK(s) ==
    /\ call[s].phase # "announce" => call[s].subject \notin Known
    /\ call[s].phase = "announce" =>
          call[s].subject \in Known /\ call[s].subject \notin Range(registered)
    /\ call[s].phase \in {"findByPhone", "saveUser"} => LookedUp(s)

IdentityInv ==
    /\ users \in [Users -> User \cup {Null}]
    /\ registered \in Seq(Users)
    /\ call \in [Slots -> RegisterCall \cup {Idle}]
    /\ \A s \in Slots : call[s] # Idle => RegistrationOK(s)
    /\ \A s, t \in Slots : s # t /\ call[s] # Idle /\ call[t] # Idle =>
          call[s].subject # call[t].subject /\ Parallel(s, t)
    /\ IdentitiesUnique

\* A registration goes on, as the same one.
LEMMA RegistrationGoesOn ==
    ASSUME IdentityInv, NEW s \in Slots, call[s] # Idle, NEW h, Continue(s, h),
           h = Idle \/ \E p \in {"findByPhone", "saveUser", "announce"} : h = [call[s] EXCEPT !.phase = p]
    PROVE  /\ call' \in [Slots -> RegisterCall \cup {Idle}] /\ call'[s] = h
           /\ h # Idle => h.subject = call[s].subject /\ h.user = call[s].user
           /\ \A t \in Slots : t # s => call'[t] = call[t]
           /\ \A r, t \in Slots : r # t /\ call'[r] # Idle /\ call'[t] # Idle =>
                 call'[r].subject # call'[t].subject /\ Parallel(r, t)'
           /\ part' = part /\ overlapped' = overlapped /\ restarts' = restarts
<1> USE DEF IdentityInv
<1>1. call' = [call EXCEPT ![s] = h] /\ part' = part /\ overlapped' = overlapped /\ restarts' = restarts
  BY DEF Continue
<1>2. call[s] \in RegisterCall
  OBVIOUS
<1>3. h # Idle => h \in RegisterCall /\ h.subject = call[s].subject /\ h.user = call[s].user
  BY <1>2 DEF RegisterCall
<1>4. call' \in [Slots -> RegisterCall \cup {Idle}] /\ call'[s] = h
  BY <1>1, <1>3
<1>5. \A t \in Slots : t # s => call'[t] = call[t]
  BY <1>1
<1>6. \A t \in Slots : call'[t] # Idle =>
         call[t] # Idle /\ call'[t].subject = call[t].subject /\ call'[t].user = call[t].user
  BY <1>3, <1>4, <1>5
<1> QED BY <1>1, <1>3, <1>4, <1>5, <1>6 DEF Parallel

LEMMA IdentityKept == ASSUME IdentityInv, [Next]_vars, part = "identity" PROVE IdentityInv'
<1> USE SessionsAssumption
<1> USE DEF IdentityInv
<1>1. ASSUME NEW s \in Slots, NEW id \in Users, NEW user \in User, Register(s, id, user)
      PROVE  IdentityInv'
  <2> DEFINE h == [phase |-> "findByEmail", subject |-> id, user |-> user]
  <2>1. h \in RegisterCall /\ h.phase = "findByEmail" /\ h.subject = id /\ h.user = user /\ h # Idle
    BY DEF RegisterCall
  <2>2. /\ call[s] = Idle /\ call' = [call EXCEPT ![s] = h] /\ users' = users /\ registered' = registered
        /\ id \notin Known /\ \A t \in Slots : call[t] # Idle => call[t].subject # id
        /\ overlapped \subseteq overlapped'
        /\ \/ id \in overlapped'
           \/ \A t \in Slots : call[t] # Idle =>
                 call[t].user.email # user.email /\ call[t].user.phone # user.phone
    BY <1>1 DEF Register, BeginBeside, sessionVars
  <2> HIDE DEF h
  <2>3. /\ call' \in [Slots -> RegisterCall \cup {Idle}] /\ call'[s] = h
        /\ \A t \in Slots : t # s => call'[t] = call[t]
    BY <2>1, <2>2
  <2>4. Known' = Known
    BY <2>2 DEF Known
  <2>5. ASSUME NEW t \in Slots, call'[t] # Idle PROVE RegistrationOK(t)'
    BY <2>1, <2>2, <2>3, <2>4, <2>5 DEF RegistrationOK, LookedUp
  <2>6. ASSUME NEW t \in Slots, t # s, call'[t] # Idle
        PROVE  call'[s].subject # call'[t].subject /\ Parallel(s, t)' /\ Parallel(t, s)'
    BY <2>1, <2>2, <2>3, <2>6 DEF Parallel
  <2>7. ASSUME NEW t \in Slots, NEW r \in Slots, r # t, t # s, r # s, call'[t] # Idle, call'[r] # Idle
        PROVE  call'[r].subject # call'[t].subject /\ Parallel(r, t)'
    BY <2>1, <2>2, <2>3, <2>7 DEF Parallel
  <2>8. IdentitiesUnique'
    BY <2>2, <2>4 DEF IdentitiesUnique
  <2> QED BY <2>2, <2>3, <2>5, <2>6, <2>7, <2>8
<1>2. ASSUME NEW s \in Slots, FindsEmail(s) PROVE IdentityInv'
  <2> PICK h : /\ Continue(s, h)
               /\ h = Idle \/ h = [call[s] EXCEPT !.phase = "findByPhone"]
               /\ h # Idle => \A u \in Known : users[u].email # call[s].user.email
    BY <1>2 DEF FindsEmail, Answer, Await
  <2>1. call[s] # Idle /\ call[s] \in RegisterCall /\ call[s].phase = "findByEmail"
        /\ users' = users /\ registered' = registered
    BY <1>2 DEF FindsEmail, At, sessionVars
  <2>2. h # Idle => h.phase = "findByPhone"
    BY <2>1 DEF RegisterCall
  <2>3. Known' = Known
    BY <2>1 DEF Known
  <2>4. /\ call' \in [Slots -> RegisterCall \cup {Idle}] /\ call'[s] = h /\ overlapped' = overlapped
        /\ h # Idle => h.subject = call[s].subject /\ h.user = call[s].user
        /\ \A t \in Slots : t # s => call'[t] = call[t]
        /\ \A r, t \in Slots : r # t /\ call'[r] # Idle /\ call'[t] # Idle =>
              call'[r].subject # call'[t].subject /\ Parallel(r, t)'
    <3>1. h = Idle \/ \E p \in {"findByPhone", "saveUser", "announce"} : h = [call[s] EXCEPT !.phase = p]
      OBVIOUS
    <3> QED BY <2>1, <3>1, RegistrationGoesOn
  <2>5. RegistrationOK(s)
    BY <2>1
  <2>6. ASSUME NEW t \in Slots, call'[t] # Idle PROVE RegistrationOK(t)'
    BY <2>1, <2>2, <2>3, <2>4, <2>5, <2>6 DEF RegistrationOK, LookedUp
  <2>7. IdentitiesUnique'
    BY <2>1, <2>3, <2>4 DEF IdentitiesUnique
  <2> QED BY <2>1, <2>4, <2>6, <2>7
<1>3. ASSUME NEW s \in Slots, FindsPhone(s) PROVE IdentityInv'
  <2> PICK h : /\ Continue(s, h)
               /\ h = Idle \/ h = [call[s] EXCEPT !.phase = "saveUser"]
               /\ h # Idle => \A u \in Known : users[u].phone # call[s].user.phone
    BY <1>3 DEF FindsPhone, Answer, Await
  <2>1. call[s] # Idle /\ call[s] \in RegisterCall /\ call[s].phase = "findByPhone"
        /\ users' = users /\ registered' = registered
    BY <1>3 DEF FindsPhone, At, sessionVars
  <2>2. h # Idle => h.phase = "saveUser"
    BY <2>1 DEF RegisterCall
  <2>3. Known' = Known
    BY <2>1 DEF Known
  <2>4. /\ call' \in [Slots -> RegisterCall \cup {Idle}] /\ call'[s] = h /\ overlapped' = overlapped
        /\ h # Idle => h.subject = call[s].subject /\ h.user = call[s].user
        /\ \A t \in Slots : t # s => call'[t] = call[t]
        /\ \A r, t \in Slots : r # t /\ call'[r] # Idle /\ call'[t] # Idle =>
              call'[r].subject # call'[t].subject /\ Parallel(r, t)'
    <3>1. h = Idle \/ \E p \in {"findByPhone", "saveUser", "announce"} : h = [call[s] EXCEPT !.phase = p]
      OBVIOUS
    <3> QED BY <2>1, <3>1, RegistrationGoesOn
  <2>5. RegistrationOK(s)
    BY <2>1
  <2>6. ASSUME NEW t \in Slots, call'[t] # Idle PROVE RegistrationOK(t)'
    BY <2>1, <2>2, <2>3, <2>4, <2>5, <2>6 DEF RegistrationOK, LookedUp
  <2>7. IdentitiesUnique'
    BY <2>1, <2>3, <2>4 DEF IdentitiesUnique
  <2> QED BY <2>1, <2>4, <2>6, <2>7
<1>4. ASSUME NEW s \in Slots, SavesUser(s) PROVE IdentityInv'
  <2> DEFINE h == [call[s] EXCEPT !.phase = "announce"]
             new == call[s].subject
  <2>1. /\ call[s] # Idle /\ call[s] \in RegisterCall /\ call[s].phase = "saveUser"
        /\ users' = [users EXCEPT ![new] = call[s].user] /\ registered' = registered
        /\ Continue(s, h)
    BY <1>4 DEF SavesUser, At, Await
  <2>2. h.phase = "announce" /\ new \in Users /\ call[s].user \in User /\ call[s].user # Null
    BY <2>1 DEF RegisterCall
  <2>3. users' \in [Users -> User \cup {Null}] /\ users'[new] = call[s].user
        /\ \A u \in Users : u # new => users'[u] = users[u]
    BY <2>1, <2>2
  <2>4. Known' = Known \cup {new} /\ new \notin Known
    BY <2>1, <2>2, <2>3 DEF Known, RegistrationOK
  <2>5. LookedUp(s)
    BY <2>1 DEF RegistrationOK
  <2>6. ASSUME NEW u \in Known
        PROVE  \/ u \in overlapped \/ new \in overlapped
               \/ users[u].email # call[s].user.email /\ users[u].phone # call[s].user.phone
    BY <2>1, <2>5, <2>6 DEF LookedUp
  <2> HIDE DEF h
  <2>7. /\ call'[s] = h /\ overlapped' = overlapped
        /\ \A t \in Slots : t # s => call'[t] = call[t]
    BY <2>1, RegistrationGoesOn DEF h
  <2>8. new \notin Range(registered)
    BY <2>4 DEF IdentitiesUnique
  <2>9. h # Idle => h.subject = new
    BY <2>1, RegistrationGoesOn DEF h
  <2>10. ASSUME NEW t \in Slots, call'[t] # Idle PROVE RegistrationOK(t)'
    <3>1. CASE t = s
      BY <2>1, <2>2, <2>4, <2>7, <2>8, <2>9, <2>10, <3>1 DEF RegistrationOK
    <3>2. CASE t # s
      <4>1. call'[t] = call[t] /\ call[t].subject # new /\ Parallel(s, t)
        BY <2>1, <2>7, <2>10, <3>2
      <4>2. LookedUp(t) => LookedUp(t)'
        BY <2>3, <2>4, <2>7, <4>1 DEF LookedUp, Parallel, Known
      <4> QED BY <2>1, <2>4, <2>10, <4>1, <4>2 DEF RegistrationOK
    <3> QED BY <3>1, <3>2
  <2>11. IdentitiesUnique'
    <3>1. \A u, v \in Known' :
             \/ u = v \/ u \in overlapped \/ v \in overlapped
             \/ users'[u].email # users'[v].email /\ users'[u].phone # users'[v].phone
      BY <2>3, <2>4, <2>6 DEF IdentitiesUnique, Known
    <3> QED BY <2>1, <2>4, <2>7, <3>1 DEF IdentitiesUnique
  <2> QED BY <2>1, <2>3, <2>10, <2>11, RegistrationGoesOn DEF h
<1>5. ASSUME NEW s \in Slots, AnnouncesUser(s) PROVE IdentityInv'
  <2> DEFINE new == call[s].subject
  <2>1. /\ call[s] # Idle /\ call[s] \in RegisterCall /\ call[s].phase = "announce"
        /\ users' = users /\ registered' = Append(registered, new) /\ Continue(s, Idle)
    BY <1>5 DEF AnnouncesUser, At, Answer
  <2>2. new \in Users /\ new \in Known /\ new \notin Range(registered)
    BY <2>1 DEF RegisterCall, RegistrationOK
  <2> HIDE DEF new
  <2>3. /\ registered' \in Seq(Users) /\ DOMAIN registered' = DOMAIN registered \cup {Len(registered) + 1}
        /\ Len(registered) + 1 \notin DOMAIN registered
        /\ registered'[Len(registered) + 1] = new
        /\ \A i \in DOMAIN registered : registered'[i] = registered[i]
    BY <2>1, <2>2
  <2>4. IsInjective(registered') /\ Range(registered') = Range(registered) \cup {new}
    BY <2>2, <2>3 DEF IdentitiesUnique, IsInjective, Range
  <2>5. Known' = Known
    BY <2>1 DEF Known
  <2>6. IdentitiesUnique'
    BY <2>1, <2>2, <2>4, <2>5, RegistrationGoesOn DEF IdentitiesUnique
  <2>7. ASSUME NEW t \in Slots, call'[t] # Idle PROVE RegistrationOK(t)'
    <3>1. t # s /\ call'[t] = call[t] /\ call[t].subject # new
      BY <2>1, <2>7, RegistrationGoesOn DEF new
    <3>2. overlapped' = overlapped
      BY <2>1, RegistrationGoesOn
    <3> QED BY <2>1, <2>4, <2>5, <2>7, <3>1, <3>2 DEF RegistrationOK, LookedUp
  <2> QED BY <2>1, <2>3, <2>6, <2>7, RegistrationGoesOn
<1>6. ASSUME SessionsRestart PROVE IdentityInv'
  BY <1>6 DEF SessionsRestart, Restart, sessionVars, IdentitiesUnique, Known
<1>7. ASSUME UNCHANGED vars PROVE IdentityInv'
  BY <1>7 DEF vars, handlerVars, sessionVars, IdentitiesUnique, Known, RegistrationOK, LookedUp, Parallel
<1> QED BY <1>1, <1>2, <1>3, <1>4, <1>5, <1>6, <1>7, IdentitySteps DEF IdentityNext


\* Away from the registrations there is at most one user, and nobody registers.
NobodyRegisters == registered = <<>> /\ \A u, v \in Known : u = v

LEMMA IdentityInvInit == Init => IF part = "identity" THEN IdentityInv ELSE NobodyRegisters
<1> SUFFICES ASSUME Init PROVE IF part = "identity" THEN IdentityInv ELSE NobodyRegisters
  OBVIOUS
<1>1. call = [s \in Slots |-> Idle] /\ registered = <<>>
  BY DEF Init, HandlersInit, SessionsInit
<1>2. CASE part = "identity"
  <2>1. users = [u \in Users |-> Null]
    BY <1>2 DEF Init, SessionsInit
  <2> QED BY <1>1, <1>2, <2>1 DEF IdentityInv, IdentitiesUnique, IsInjective, Range, Known
<1>3. CASE part # "identity"
  <2>1. \A u \in Users : users[u] # Null => u = CHOOSE v \in Users : TRUE
    BY <1>3 DEF Init, SessionsInit
  <2> QED BY <1>1, <1>3, <2>1 DEF NobodyRegisters, Known
<1> QED BY <1>2, <1>3

LEMMA NobodyRegistersKept ==
    ASSUME NobodyRegisters, [Next]_vars, part # "identity" PROVE NobodyRegisters'
<1>1. SessionsNext => users' = users /\ registered' = registered
  BY DEF SessionsNext, Login, Refresh, RevokesOne, Authenticates, GetsRecord, ReadsToMark, MarksUsed,
         FindsById, SavesSession, AnswersSession, ListsFamily, Expires, SessionsRestart,
         sessionVars, identityVars
<1>2. users' = users /\ registered' = registered
  BY <1>1, SessionsSteps, AppsLeave, QueueLeaves, OthersLeave DEF sessionVars, vars
<1> QED BY <1>2 DEF NobodyRegisters, Known

\* No two users share an e-mail or a phone and none is announced twice, unless
\* their registrations overlapped: for any number of users and handlers.
THEOREM RegistrationsUnique == Spec => []IdentitiesUnique
<1> DEFINE Inv == IF part = "identity" THEN IdentityInv ELSE NobodyRegisters
<1>1. Init => Inv
  BY IdentityInvInit
<1>2. Inv /\ [Next]_vars => Inv'
  BY IdentityKept, NobodyRegistersKept, PartKept
<1>3. Inv => IdentitiesUnique
  BY DEF IdentityInv, NobodyRegisters, IdentitiesUnique, IsInjective, Range
<1> QED BY <1>1, <1>2, <1>3, PTL DEF Spec


-----------------------------------------------------------------------------
(* Refresh tokens.                                                           *)

UsedUp(t) == tokens[t].used \/ tokens[t].revoked
OfFamily(f) == {t \in DOMAIN tokens : tokens[t].family = f}

\* A handler works on a token of its family; one that issues a session has used
\* its token up.
TokenCallOK(s) ==
    LET c == call[s]
    IN /\ c.phase # "login" /\ ~(c.phase = "saveSession" /\ c.token = 0) =>
             c.token \in OfFamily(c.subject)
       /\ c.phase = "saveSession" /\ c.token = 0 => c.subject = 0
       /\ c.phase = "mark" => c.copy.family = c.subject
       /\ c.phase = "revoke" => \A t \in DOMAIN c.copies :
             t \in OfFamily(c.subject) /\ c.copies[t].family = c.subject
       /\ c.phase \in {"findById", "saveSession"} /\ c.token # 0 => UsedUp(c.token)

\* One that is alone on its family: its token is its last and was never exchanged.
TokenCallAlone(s) ==
    LET c == call[s]
    IN c.subject \notin overlapped =>
         /\ c.phase \in {"findToMark", "mark"} =>
               /\ exchanged[c.token] = 0 /\ c.subject \notin replayed
               /\ \A r \in OfFamily(c.subject) \ {c.token} : Dead(r)
         /\ c.phase \in {"findById", "saveSession"} /\ c.token # 0 =>
               /\ exchanged[c.token] = 0 /\ c.subject \notin replayed
               /\ \A r \in OfFamily(c.subject) : Dead(r)
         /\ c.phase = "revoke" => \A r \in OfFamily(c.subject) : r \in DOMAIN c.copies \/ Dead(r)

FamilyOK(f) ==
    f \notin overlapped => \A t \in OfFamily(f) :
        /\ exchanged[t] <= 1
        /\ f \in replayed => Dead(t)
        /\ \A r \in OfFamily(f) \ {t} : Dead(r) \/ Dead(t)

TokensTyped ==
    /\ tokens \in Seq(Token) /\ Len(tokens) <= MaxTokens
    /\ exchanged \in [1..MaxTokens -> Nat]
    /\ held \subseteq DOMAIN tokens /\ replayed \subseteq DOMAIN tokens
    /\ \A t \in DOMAIN tokens :
          tokens[t].family \in DOMAIN tokens /\ (exchanged[t] > 0 => UsedUp(t))
    /\ \A t \in 1..MaxTokens : t \notin DOMAIN tokens => exchanged[t] = 0

TokenCallsSeen ==
    \A s, t \in Slots : s # t /\ call[s] # Idle /\ call[t] # Idle =>
        call[s].subject # call[t].subject \/ call[s].subject = 0 \/ call[s].subject \in overlapped

SessionsInv ==
    /\ TokensTyped
    /\ call \in [Slots -> SessionCall \cup {Idle}]
    /\ \A s \in Slots : call[s] # Idle => TokenCallOK(s) /\ TokenCallAlone(s)
    /\ TokenCallsSeen
    /\ \A f \in DOMAIN tokens : FamilyOK(f)

\* What a handler of family f may do to the tokens.
ActsOn(f) ==
    /\ DOMAIN tokens \subseteq DOMAIN tokens'
    /\ \A t \in DOMAIN tokens :
          /\ tokens'[t].family = tokens[t].family
          /\ UsedUp(t) => UsedUp(t)'
          /\ tokens[t].family # f => exchanged'[t] = exchanged[t]
    /\ \A t \in DOMAIN tokens' : t \notin DOMAIN tokens => tokens'[t].family = f
    /\ expired \subseteq expired' /\ overlapped \subseteq overlapped'
    /\ replayed' \subseteq replayed \cup {f}

LEMMA ActsOnDead ==
    ASSUME NEW f, ActsOn(f) PROVE \A t \in DOMAIN tokens : Dead(t) => Dead(t)'
BY DEF ActsOn, Dead, UsedUp

LEMMA ActsOnFamily ==
    ASSUME NEW f, ActsOn(f), NEW g, g # f PROVE OfFamily(g)' = OfFamily(g)
BY DEF ActsOn, OfFamily

\* A handler that another family's handler passes by.
LEMMA TokenCallPassed ==
    ASSUME NEW f, ActsOn(f), NEW s \in Slots, call'[s] = call[s], call[s] \in SessionCall,
           TokenCallOK(s), TokenCallAlone(s), call[s].subject # f \/ f \in overlapped
    PROVE  (TokenCallOK(s) /\ TokenCallAlone(s))'
<1> DEFINE c == call[s]
<1>1. call'[s] = c /\ \A t : t \in OfFamily(c.subject) => t \in OfFamily(c.subject)' /\ t \in DOMAIN tokens
  BY DEF OfFamily, ActsOn
<1>2. TokenCallOK(s)'
  BY <1>1 DEF TokenCallOK, ActsOn
<1>3. CASE c.subject \notin overlapped
  <2>1. OfFamily(c.subject)' = OfFamily(c.subject) /\ c.subject # f
    BY <1>3, ActsOnFamily
  <2>2. \A t \in OfFamily(c.subject) : exchanged'[t] = exchanged[t]
    BY <2>1 DEF ActsOn, OfFamily
  <2>3. c.subject \notin replayed => c.subject \notin replayed'
    BY <2>1 DEF ActsOn
  <2>4. \A t \in OfFamily(c.subject) : Dead(t) => Dead(t)'
    BY <1>1, ActsOnDead
  <2>5. c.phase # "login" /\ ~(c.phase = "saveSession" /\ c.token = 0) => c.token \in OfFamily(c.subject)
    BY DEF TokenCallOK
  <2>6. c.phase \in {"findToMark", "mark"} =>
            /\ exchanged'[c.token] = 0 /\ c.subject \notin replayed'
            /\ \A r \in OfFamily(c.subject)' \ {c.token} : Dead(r)'
    BY <1>3, <2>1, <2>2, <2>3, <2>4, <2>5 DEF TokenCallAlone
  <2>7. c.phase \in {"findById", "saveSession"} /\ c.token # 0 =>
            /\ exchanged'[c.token] = 0 /\ c.subject \notin replayed'
            /\ \A r \in OfFamily(c.subject)' : Dead(r)'
    BY <1>3, <2>1, <2>2, <2>3, <2>4, <2>5 DEF TokenCallAlone
  <2>8. c.phase = "revoke" => \A r \in OfFamily(c.subject)' : r \in DOMAIN c.copies \/ Dead(r)'
    BY <1>3, <2>1, <2>4 DEF TokenCallAlone
  <2> QED BY <1>1, <1>2, <2>6, <2>7, <2>8 DEF TokenCallAlone
<1>4. CASE c.subject \in overlapped
  BY <1>1, <1>2, <1>4 DEF TokenCallAlone, ActsOn
<1> QED BY <1>3, <1>4

LEMMA FamilyPassed ==
    ASSUME NEW f, ActsOn(f), NEW g, g # f, FamilyOK(g) PROVE FamilyOK(g)'
<1> SUFFICES ASSUME g \notin overlapped PROVE FamilyOK(g)'
  BY DEF FamilyOK, ActsOn
<1>1. OfFamily(g)' = OfFamily(g)
  BY ActsOnFamily
<1>2. \A t \in OfFamily(g) : exchanged'[t] = exchanged[t] /\ (Dead(t) => Dead(t)')
  BY ActsOnDead DEF OfFamily, ActsOn
<1>3. g \in replayed' => g \in replayed
  BY DEF ActsOn
<1> QED BY <1>1, <1>2, <1>3 DEF FamilyOK

\* What is left to show of a step: its own handler and its own family.
SessionMove(s, h, f) ==
    /\ h \in SessionCall \cup {Idle}
    /\ call' = [call EXCEPT ![s] = h]
    /\ ActsOn(f) /\ TokensTyped' /\ FamilyOK(f)'
    /\ h # Idle => (TokenCallOK(s) /\ TokenCallAlone(s))'
    /\ \A t \in Slots \ {s} : call[t] # Idle => call[t].subject # f \/ f \in overlapped
    /\ \A t \in Slots \ {s} : h # Idle /\ call[t] # Idle =>
           call[t].subject # h.subject \/ h.subject = 0 \/ h.subject \in overlapped'

LEMMA SessionStep ==
    ASSUME SessionsInv, NEW s \in Slots, NEW h, NEW f, SessionMove(s, h, f)
    PROVE  SessionsInv'
<1> USE DEF SessionsInv, SessionMove
<1>1. /\ call' \in [Slots -> SessionCall \cup {Idle}] /\ call'[s] = h
      /\ \A t \in Slots \ {s} : call'[t] = call[t]
  OBVIOUS
<1>2. ASSUME NEW t \in Slots, call'[t] # Idle PROVE (TokenCallOK(t) /\ TokenCallAlone(t))'
  BY <1>1, <1>2, TokenCallPassed
<1>3. overlapped \subseteq overlapped'
  BY DEF ActsOn
<1>4. TokenCallsSeen'
  BY <1>1, <1>3 DEF TokenCallsSeen
<1>5. ASSUME NEW g \in DOMAIN tokens' PROVE FamilyOK(g)'
  <2>1. CASE g = f
    BY <2>1
  <2>2. CASE g # f /\ g \in DOMAIN tokens
    BY <2>2, FamilyPassed
  <2>3. CASE g # f /\ g \notin DOMAIN tokens
    <3>1. OfFamily(g) = {}
      BY <2>3 DEF OfFamily, TokensTyped
    <3> QED BY <2>3, <3>1, ActsOnFamily DEF FamilyOK
  <2> QED BY <2>1, <2>2, <2>3
<1> QED BY <1>1, <1>2, <1>4, <1>5


LEMMA TokenNumbers ==
    ASSUME TokensTyped
    PROVE  /\ DOMAIN tokens = 1..Len(tokens) /\ Len(tokens) \in Nat /\ DOMAIN tokens \subseteq 1..MaxTokens
           /\ Len(tokens) + 1 \notin DOMAIN tokens /\ Len(tokens) + 1 # 0
<1>1. tokens \in Seq(Token) /\ Len(tokens) <= MaxTokens
  BY DEF TokensTyped
<1>2. DOMAIN tokens = 1..Len(tokens) /\ Len(tokens) \in Nat
  BY <1>1, LenProperties
<1>3. Len(tokens) + 1 \notin 1..Len(tokens) /\ Len(tokens) + 1 # 0
  BY <1>2
<1>4. 1..Len(tokens) \subseteq 1..MaxTokens
  BY <1>1, <1>2, SessionsAssumption
<1> QED BY <1>2, <1>3, <1>4

\* A family that no token names has none.
LEMMA NoFamily == ASSUME TokensTyped, NEW f, f \notin DOMAIN tokens PROVE OfFamily(f) = {}
<1>1. \A t \in DOMAIN tokens : tokens[t].family \in DOMAIN tokens
  BY DEF TokensTyped
<1> QED BY <1>1 DEF OfFamily

LEMMA TokenSubjects ==
    ASSUME SessionsInv, NEW s \in Slots, call[s] # Idle
    PROVE  call[s].subject = 0 \/ call[s].subject \in DOMAIN tokens
<1> DEFINE c == call[s]
<1>1. c \in SessionCall /\ TokenCallOK(s)
  BY DEF SessionsInv
<1>2. CASE c.phase = "login"
  BY <1>1, <1>2 DEF SessionCall, LoginCall, RefreshCall, MarkCall, RevokeCall, IssueCall
<1>3. CASE c.phase = "saveSession" /\ c.token = 0
  BY <1>1, <1>3 DEF TokenCallOK
<1>4. CASE c.phase # "login" /\ ~(c.phase = "saveSession" /\ c.token = 0)
  BY <1>1, <1>4 DEF TokenCallOK, OfFamily, SessionsInv, TokensTyped
<1> QED BY <1>2, <1>3, <1>4

\* A step that only looks.
LEMMA SessionLooks ==
    ASSUME SessionsInv, NEW s \in Slots, NEW h \in SessionCall \cup {Idle},
           call' = [call EXCEPT ![s] = h], UNCHANGED sessionVars, overlapped \subseteq overlapped',
           h # Idle => (TokenCallOK(s) /\ TokenCallAlone(s))',
           \A t \in Slots \ {s} : h # Idle /\ call[t] # Idle =>
               call[t].subject # h.subject \/ h.subject = 0 \/ h.subject \in overlapped'
    PROVE  SessionsInv'
<1> PICK f : f = Len(tokens) + 1
  OBVIOUS
<1>1. TokensTyped /\ f \notin DOMAIN tokens /\ f # 0
  <2>1. TokensTyped
    BY DEF SessionsInv
  <2> QED BY <2>1, TokenNumbers
<1>2. TokensTyped'
  BY <1>1 DEF sessionVars, TokensTyped, UsedUp
<1>3. ActsOn(f)
  BY DEF sessionVars, ActsOn, UsedUp
<1>4. FamilyOK(f)'
  <2>1. OfFamily(f) = {}
    BY <1>1, NoFamily
  <2>2. OfFamily(f)' = {}
    BY <2>1 DEF OfFamily, sessionVars
  <2> QED BY <2>2 DEF FamilyOK
<1>5. \A t \in Slots \ {s} : call[t] # Idle => call[t].subject # f
  BY <1>1, TokenSubjects
<1>6. h \in SessionCall \cup {Idle} /\ call' = [call EXCEPT ![s] = h]
  OBVIOUS
<1>7. SessionMove(s, h, f)
  BY <1>2, <1>3, <1>4, <1>5, <1>6 DEF SessionMove
<1> QED BY <1>7, SessionStep

\* A handler that goes on with its family.
LEMMA SessionGoesOn ==
    ASSUME SessionsInv, NEW s \in Slots, call[s] # Idle, NEW h, Continue(s, h), UNCHANGED sessionVars,
           h \in SessionCall \cup {Idle}, h # Idle => h.subject = call[s].subject,
           h # Idle => (TokenCallOK(s) /\ TokenCallAlone(s))'
    PROVE  SessionsInv'
<1>1. call' = [call EXCEPT ![s] = h] /\ overlapped' = overlapped
  BY DEF Continue
<1>2. \A t \in Slots \ {s} : h # Idle /\ call[t] # Idle =>
         call[t].subject # h.subject \/ h.subject = 0 \/ h.subject \in overlapped'
  BY <1>1 DEF SessionsInv, TokenCallsSeen
<1> QED BY <1>1, <1>2, SessionLooks

LEMMA LoginKept == ASSUME SessionsInv, NEW s \in Slots, NEW u \in Users, Login(s, u) PROVE SessionsInv'
<1> DEFINE h == [phase |-> "login", subject |-> 0, user |-> u]
<1>1. h \in SessionCall /\ h.phase = "login" /\ h.subject = 0
  BY DEF SessionCall, LoginCall
<1>2. call' = [call EXCEPT ![s] = h] /\ overlapped' = overlapped /\ UNCHANGED sessionVars
  BY DEF Login, BeginBeside
<1>3. call'[s] = h
  BY <1>2 DEF SessionsInv
<1> HIDE DEF h
<1>4. (TokenCallOK(s) /\ TokenCallAlone(s))'
  BY <1>1, <1>3 DEF TokenCallOK, TokenCallAlone
<1> QED BY <1>1, <1>2, <1>4, SessionLooks

LEMMA AuthenticatesKept == ASSUME SessionsInv, NEW s \in Slots, Authenticates(s) PROVE SessionsInv'
<1>1. call[s] # Idle /\ call[s].phase = "login" /\ call[s] \in SessionCall
  BY DEF Authenticates, At, SessionsInv
<1>2. call[s].user \in Users /\ call[s].subject = 0
  BY <1>1 DEF SessionCall, LoginCall, RefreshCall, MarkCall, RevokeCall, IssueCall
<1> DEFINE h == [phase |-> "saveSession", subject |-> 0, user |-> call[s].user, token |-> 0]
<1>3. UNCHANGED sessionVars /\ (Continue(s, h) \/ Continue(s, Idle))
  BY DEF Authenticates, Answer
<1>4. h \in SessionCall /\ h.phase = "saveSession" /\ h.subject = 0 /\ h.token = 0
  BY <1>2, SessionsAssumption DEF SessionCall, IssueCall
<1> HIDE DEF h
<1>5. ASSUME Continue(s, h) PROVE SessionsInv'
  <2>1. call'[s] = h
    BY <1>5 DEF SessionsInv, Continue
  <2>2. (TokenCallOK(s) /\ TokenCallAlone(s))'
    BY <1>4, <2>1 DEF TokenCallOK, TokenCallAlone
  <2> QED BY <1>1, <1>2, <1>3, <1>4, <1>5, <2>2, SessionGoesOn
<1>6. ASSUME Continue(s, Idle) PROVE SessionsInv'
  BY <1>1, <1>3, <1>6, SessionGoesOn
<1> QED BY <1>3, <1>5, <1>6

LEMMA RefreshKept ==
    ASSUME SessionsInv, NEW s \in Slots, NEW t \in DOMAIN tokens, Refresh(s, t) PROVE SessionsInv'
<1> DEFINE h == [phase |-> "get", subject |-> tokens[t].family, token |-> t]
<1>1. TokensTyped /\ tokens[t].family \in DOMAIN tokens
  BY DEF SessionsInv, TokensTyped
<1> DOMAIN tokens \subseteq 1..MaxTokens
  BY <1>1, TokenNumbers
<1>2. h \in SessionCall /\ h.phase = "get" /\ h.subject = tokens[t].family /\ h.token = t
  BY <1>1 DEF SessionCall, RefreshCall
<1>3. /\ call' = [call EXCEPT ![s] = h] /\ UNCHANGED sessionVars /\ overlapped \subseteq overlapped'
      /\ (\E r \in Slots : call[r] # Idle /\ call[r].subject = h.subject) => h.subject \in overlapped'
  BY DEF Refresh, Begin, BeginBeside, Busy
<1>4. call'[s] = h
  BY <1>3 DEF SessionsInv
<1> HIDE DEF h
<1>5. (TokenCallOK(s) /\ TokenCallAlone(s))'
  BY <1>2, <1>3, <1>4 DEF TokenCallOK, TokenCallAlone, OfFamily, sessionVars
<1> QED BY <1>2, <1>3, <1>5, SessionLooks


\* A handler that knows its token: what it is in every phase but the first ones.
LEMMA RefreshPhase ==
    ASSUME SessionsInv, NEW s \in Slots, call[s] # Idle,
           call[s].phase \in {"get", "findToMark", "findById", "listFamily", "answer", "mark", "revoke"}
    PROVE  /\ call[s].phase \in {"get", "findToMark", "findById", "listFamily", "answer"} =>
                 call[s] \in RefreshCall
           /\ call[s].phase = "mark" => call[s] \in MarkCall
           /\ call[s].phase = "revoke" => call[s] \in RevokeCall
           /\ call[s].subject \in 1..MaxTokens /\ call[s].token \in 1..MaxTokens
           /\ call[s].token \in OfFamily(call[s].subject)
           /\ call[s].subject \in DOMAIN tokens
           /\ TokenCallOK(s) /\ TokenCallAlone(s) /\ FamilyOK(call[s].subject)
<1>1. call[s] \in SessionCall
  BY DEF SessionsInv
<1>2. /\ call[s].phase \in {"get", "findToMark", "findById", "listFamily", "answer"} => call[s] \in RefreshCall
      /\ call[s].phase = "mark" => call[s] \in MarkCall
      /\ call[s].phase = "revoke" => call[s] \in RevokeCall
  BY <1>1 DEF SessionCall, LoginCall, RefreshCall, MarkCall, RevokeCall, IssueCall
<1>3. call[s].subject \in 1..MaxTokens /\ call[s].token \in 1..MaxTokens
  BY <1>2 DEF RefreshCall, MarkCall, RevokeCall
<1>4. TokenCallOK(s) /\ TokenCallAlone(s)
  BY DEF SessionsInv
<1>5. call[s].token \in OfFamily(call[s].subject)
  BY <1>4 DEF TokenCallOK
<1>6. call[s].subject \in DOMAIN tokens
  BY <1>5 DEF OfFamily, SessionsInv, TokensTyped
<1> QED BY <1>2, <1>3, <1>4, <1>5, <1>6 DEF SessionsInv

LEMMA GetsRecordKept == ASSUME SessionsInv, NEW s \in Slots, GetsRecord(s) PROVE SessionsInv'
<1> PICK c : c = call[s]
  OBVIOUS
<1>1. c # Idle /\ c.phase = "get" /\ UNCHANGED sessionVars
  BY DEF GetsRecord, At
<1>2. /\ c \in RefreshCall /\ c.token \in OfFamily(c.subject) /\ TokenCallOK(s) /\ FamilyOK(c.subject)
  BY <1>1, RefreshPhase
<1>3. ASSUME Continue(s, Idle) PROVE SessionsInv'
  BY <1>1, <1>3, SessionGoesOn
<1>4. ASSUME NEW p \in {"findToMark", "listFamily"}, Continue(s, [c EXCEPT !.phase = p]),
             p = "findToMark" => ~Dead(c.token)
      PROVE  SessionsInv'
  <2> PICK h : h = [c EXCEPT !.phase = p]
    OBVIOUS
  <2>1. h \in RefreshCall /\ h.phase = p /\ h.subject = c.subject /\ h.token = c.token
    BY <1>2 DEF RefreshCall
  <2>2. h \in SessionCall /\ Continue(s, h)
    BY <1>4, <2>1 DEF SessionCall
  <2>3. call'[s] = h /\ overlapped' = overlapped
    BY <2>2 DEF Continue, SessionsInv
  <2>4. OfFamily(c.subject)' = OfFamily(c.subject) /\ tokens' = tokens /\ exchanged' = exchanged
        /\ replayed' = replayed /\ expired' = expired
    BY <1>1, <2>2 DEF OfFamily, sessionVars, Continue
  <2>5. OfFamily(h.subject)' = OfFamily(h.subject)
    BY <2>1, <2>4 DEF OfFamily
  <2>6. TokenCallOK(s)'
    BY <1>2, <2>1, <2>3, <2>5 DEF TokenCallOK
  <2>7. c.subject \notin overlapped /\ p = "findToMark" =>
           /\ exchanged[c.token] = 0 /\ c.subject \notin replayed
           /\ \A r \in OfFamily(c.subject) \ {c.token} : Dead(r)
    <3> SUFFICES ASSUME c.subject \notin overlapped, p = "findToMark", ~Dead(c.token)
                 PROVE  /\ exchanged[c.token] = 0 /\ c.subject \notin replayed
                        /\ \A r \in OfFamily(c.subject) \ {c.token} : Dead(r)
      BY <1>4
    <3>1. exchanged[c.token] \in Nat /\ (exchanged[c.token] > 0 => UsedUp(c.token))
      BY <1>2 DEF SessionsInv, TokensTyped, OfFamily, RefreshCall
    <3>2. exchanged[c.token] = 0
      BY <3>1 DEF Dead, UsedUp
    <3> QED BY <1>2, <3>2 DEF FamilyOK
  <2>8. TokenCallAlone(s)'
    BY <2>1, <2>3, <2>4, <2>5, <2>7 DEF TokenCallAlone, Dead
  <2> QED BY <1>1, <2>1, <2>2, <2>6, <2>8, SessionGoesOn
<1>5. \/ Continue(s, Idle)
      \/ Continue(s, [c EXCEPT !.phase = "listFamily"])
      \/ Continue(s, [c EXCEPT !.phase = "findToMark"]) /\ ~Dead(c.token)
  BY DEF GetsRecord, Answer, Await, Dead
<1> QED BY <1>3, <1>4, <1>5

LEMMA ReadsToMarkKept == ASSUME SessionsInv, NEW s \in Slots, ReadsToMark(s) PROVE SessionsInv'
<1> PICK c : c = call[s]
  OBVIOUS
<1> PICK h : h = [phase |-> "mark", subject |-> c.subject, token |-> c.token, copy |-> tokens[c.token]]
  OBVIOUS
<1>1. c # Idle /\ c.phase = "findToMark" /\ UNCHANGED sessionVars /\ Continue(s, h)
  BY DEF ReadsToMark, At
<1>2. /\ c \in RefreshCall /\ c.token \in OfFamily(c.subject) /\ TokenCallOK(s) /\ TokenCallAlone(s)
  BY <1>1, RefreshPhase
<1>3. tokens[c.token] \in Token /\ tokens[c.token].family = c.subject
  BY <1>2 DEF OfFamily, SessionsInv, TokensTyped
<1>4. h \in SessionCall /\ h.phase = "mark" /\ h.subject = c.subject /\ h.token = c.token
      /\ h.copy.family = c.subject
  BY <1>2, <1>3 DEF SessionCall, MarkCall, RefreshCall
<1>5. call'[s] = h
  BY <1>1 DEF Continue, SessionsInv
<1>6. OfFamily(h.subject)' = OfFamily(h.subject) /\ tokens' = tokens /\ exchanged' = exchanged
      /\ replayed' = replayed /\ expired' = expired /\ overlapped' = overlapped
  BY <1>1, <1>4 DEF OfFamily, sessionVars, Continue
<1>7. TokenCallOK(s)'
  BY <1>2, <1>4, <1>5, <1>6 DEF TokenCallOK
<1>8. TokenCallAlone(s)'
  BY <1>1, <1>2, <1>4, <1>5, <1>6 DEF TokenCallAlone, Dead
<1> QED BY <1>1, <1>4, <1>7, <1>8, SessionGoesOn

LEMMA FindsByIdKept == ASSUME SessionsInv, NEW s \in Slots, FindsById(s) PROVE SessionsInv'
<1> PICK c : c = call[s]
  OBVIOUS
<1> PICK h : h = [phase |-> "saveSession", subject |-> c.subject, user |-> tokens[c.token].user,
                  token |-> c.token]
  OBVIOUS
<1>1. c # Idle /\ c.phase = "findById" /\ UNCHANGED sessionVars /\ Continue(s, h)
  BY DEF FindsById, At
<1>2. /\ c \in RefreshCall /\ c.token \in OfFamily(c.subject) /\ TokenCallOK(s) /\ TokenCallAlone(s)
  BY <1>1, RefreshPhase
<1>3. tokens[c.token] \in Token
  BY <1>2 DEF OfFamily, SessionsInv, TokensTyped
<1>4. h \in SessionCall /\ h.phase = "saveSession" /\ h.subject = c.subject /\ h.token = c.token
      /\ c.token # 0
  BY <1>2, <1>3, SessionsAssumption DEF SessionCall, IssueCall, RefreshCall, Token
<1>5. call'[s] = h
  BY <1>1 DEF Continue, SessionsInv
<1>6. OfFamily(h.subject)' = OfFamily(h.subject) /\ tokens' = tokens /\ exchanged' = exchanged
      /\ replayed' = replayed /\ expired' = expired /\ overlapped' = overlapped
  BY <1>1, <1>4 DEF OfFamily, sessionVars, Continue
<1>7. TokenCallOK(s)'
  BY <1>1, <1>2, <1>4, <1>5, <1>6 DEF TokenCallOK, UsedUp
<1>8. TokenCallAlone(s)'
  BY <1>1, <1>2, <1>4, <1>5, <1>6 DEF TokenCallAlone, Dead
<1> QED BY <1>1, <1>4, <1>7, <1>8, SessionGoesOn

LEMMA ListsFamilyKept == ASSUME SessionsInv, NEW s \in Slots, ListsFamily(s) PROVE SessionsInv'
<1> PICK c : c = call[s]
  OBVIOUS
<1> PICK copies : copies = [t \in OfFamily(c.subject) |-> tokens[t]]
  OBVIOUS
<1> PICK h : h = [phase |-> "revoke", subject |-> c.subject, token |-> c.token, copies |-> copies]
  OBVIOUS
<1>1. c # Idle /\ c.phase = "listFamily" /\ UNCHANGED sessionVars /\ Continue(s, h)
  BY DEF ListsFamily, At, OfFamily
<1>2. c \in RefreshCall /\ c.token \in OfFamily(c.subject) /\ TokenCallOK(s) /\ TokenCallAlone(s)
  BY <1>1, RefreshPhase
<1>3. OfFamily(c.subject) \in SUBSET (1..MaxTokens) /\ \A t \in OfFamily(c.subject) : tokens[t] \in Token
  BY TokenNumbers DEF OfFamily, SessionsInv, TokensTyped
<1>4. copies \in [OfFamily(c.subject) -> Token] /\ \A t \in OfFamily(c.subject) : copies[t].family = c.subject
  BY <1>3 DEF OfFamily
<1>5. copies \in UNION {[copied -> Token] : copied \in SUBSET (1..MaxTokens)}
  BY <1>3, <1>4
<1>6. h \in SessionCall /\ h.phase = "revoke" /\ h.subject = c.subject /\ h.token = c.token
      /\ h.copies = copies
  BY <1>2, <1>5 DEF SessionCall, RevokeCall, RefreshCall
<1>7. call'[s] = h
  BY <1>1 DEF Continue, SessionsInv
<1>8. OfFamily(h.subject)' = OfFamily(h.subject)
  BY <1>1, <1>6, <1>7 DEF OfFamily, sessionVars
<1>9. DOMAIN copies = OfFamily(h.subject)
  BY <1>4, <1>6
<1>10. TokenCallOK(s)'
  BY <1>2, <1>4, <1>6, <1>7, <1>8, <1>9 DEF TokenCallOK
<1>11. TokenCallAlone(s)'
  BY <1>6, <1>7, <1>8, <1>9 DEF TokenCallAlone
<1> QED BY <1>1, <1>6, <1>10, <1>11, SessionGoesOn


\* A record of a token is put back used or revoked.
LEMMA PutsBack ==
    ASSUME SessionsInv, NEW t \in DOMAIN tokens, NEW r \in Token,
           r.family = tokens[t].family, r.used \/ r.revoked,
           tokens' = [tokens EXCEPT ![t] = r],
           exchanged' = exchanged, held' = held, expired' = expired, overlapped' = overlapped,
           replayed' \subseteq replayed \cup {r.family}
    PROVE  /\ ActsOn(r.family) /\ TokensTyped' /\ UsedUp(t)' /\ Dead(t)'
           /\ DOMAIN tokens' = DOMAIN tokens
           /\ \A f : OfFamily(f)' = OfFamily(f)
<1>1. TokensTyped
  BY DEF SessionsInv
<1>2. /\ tokens' \in Seq(Token) /\ Len(tokens') = Len(tokens) /\ DOMAIN tokens' = DOMAIN tokens
      /\ tokens'[t] = r /\ \A i \in DOMAIN tokens : i # t => tokens'[i] = tokens[i]
  BY <1>1 DEF TokensTyped
<1>3. \A i \in DOMAIN tokens : tokens'[i].family = tokens[i].family /\ (UsedUp(i) => UsedUp(i)')
  BY <1>2 DEF UsedUp
<1>4. UsedUp(t)' /\ Dead(t)'
  BY <1>2 DEF UsedUp, Dead
<1>5. ActsOn(r.family)
  BY <1>2, <1>3 DEF ActsOn
<1>6. TokensTyped'
  BY <1>1, <1>2, <1>3 DEF TokensTyped
<1>7. \A f : OfFamily(f)' = OfFamily(f)
  BY <1>2, <1>3 DEF OfFamily
<1> QED BY <1>2, <1>4, <1>5, <1>6, <1>7

\* Other handlers are on other families, or the overlap was noticed.
LEMMA OthersElsewhere ==
    ASSUME SessionsInv, NEW s \in Slots, call[s] # Idle, call[s].subject # 0
    PROVE  \A t \in Slots \ {s} : call[t] # Idle =>
              call[t].subject # call[s].subject \/ call[s].subject \in overlapped
BY DEF SessionsInv, TokenCallsSeen

LEMMA MarksUsedKept == ASSUME SessionsInv, NEW s \in Slots, MarksUsed(s) PROVE SessionsInv'
<1> PICK c : c = call[s]
  OBVIOUS
<1> PICK r : r = [c.copy EXCEPT !.used = TRUE]
  OBVIOUS
<1> PICK h : h = [phase |-> "findById", subject |-> c.subject, token |-> c.token]
  OBVIOUS
<1>1. /\ c # Idle /\ c.phase = "mark" /\ tokens' = [tokens EXCEPT ![c.token] = r] /\ Continue(s, h)
      /\ exchanged' = exchanged /\ held' = held /\ expired' = expired /\ replayed' = replayed
  BY DEF MarksUsed, At
<1>2. /\ c \in MarkCall /\ c.token \in OfFamily(c.subject) /\ TokenCallOK(s) /\ TokenCallAlone(s)
      /\ FamilyOK(c.subject)
  BY <1>1, RefreshPhase
<1>3. c.token \in DOMAIN tokens /\ tokens[c.token].family = c.subject /\ c.subject \in 1..MaxTokens
  BY <1>2 DEF OfFamily, MarkCall
<1>4. r \in Token /\ r.family = c.subject /\ r.used
  BY <1>1, <1>2 DEF MarkCall, Token, TokenCallOK
<1>5. h \in SessionCall /\ h.phase = "findById" /\ h.subject = c.subject /\ h.token = c.token
  BY <1>2 DEF SessionCall, RefreshCall, MarkCall
<1>6. call' = [call EXCEPT ![s] = h] /\ overlapped' = overlapped /\ call'[s] = h
  BY <1>1 DEF Continue, SessionsInv
<1>7. /\ ActsOn(c.subject) /\ TokensTyped' /\ UsedUp(c.token)' /\ Dead(c.token)'
      /\ \A f : OfFamily(f)' = OfFamily(f)
  BY <1>1, <1>3, <1>4, <1>6, PutsBack
<1>8. ASSUME c.subject \notin overlapped
      PROVE  /\ exchanged[c.token] = 0 /\ c.subject \notin replayed
             /\ \A i \in OfFamily(c.subject) : Dead(i)'
  <2>1. /\ exchanged[c.token] = 0 /\ c.subject \notin replayed
        /\ \A i \in OfFamily(c.subject) \ {c.token} : Dead(i)
    BY <1>1, <1>2, <1>8 DEF TokenCallAlone
  <2> QED BY <1>7, <2>1, ActsOnDead DEF OfFamily
<1>9. FamilyOK(c.subject)'
  BY <1>1, <1>2, <1>6, <1>7, <1>8 DEF FamilyOK
<1>10. TokenCallOK(s)'
  BY <1>2, <1>5, <1>6, <1>7 DEF TokenCallOK
<1>11. TokenCallAlone(s)'
  BY <1>1, <1>5, <1>6, <1>7, <1>8 DEF TokenCallAlone
<1>12. c.subject # 0
  BY <1>3
<1>13. \A t \in Slots \ {s} : call[t] # Idle => call[t].subject # c.subject \/ c.subject \in overlapped
  BY <1>1, <1>12, OthersElsewhere
<1>14. \A t \in Slots \ {s} : h # Idle /\ call[t] # Idle =>
          call[t].subject # h.subject \/ h.subject = 0 \/ h.subject \in overlapped'
  BY <1>5, <1>6, <1>13
<1>15. ActsOn(c.subject) /\ TokensTyped'
  BY <1>7
<1>16. h \in SessionCall \cup {Idle} /\ (h # Idle => (TokenCallOK(s) /\ TokenCallAlone(s))')
  BY <1>5, <1>10, <1>11
<1>17. call' = [call EXCEPT ![s] = h]
  BY <1>6
<1>18. SessionMove(s, h, c.subject)
  BY <1>9, <1>13, <1>14, <1>15, <1>16, <1>17 DEF SessionMove
<1> QED BY <1>18, SessionStep

LEMMA AnswersSessionKept == ASSUME SessionsInv, NEW s \in Slots, AnswersSession(s) PROVE SessionsInv'
<1> PICK c : c = call[s]
  OBVIOUS
<1>1. /\ c # Idle /\ c.phase = "answer" /\ Continue(s, Idle)
      /\ held' \in {held, held \cup {c.token}} /\ tokens' = tokens
      /\ exchanged' = exchanged /\ expired' = expired /\ replayed' = replayed
  BY DEF AnswersSession, At, Answer
<1>2. c.token \in OfFamily(c.subject) /\ c.subject \in 1..MaxTokens /\ FamilyOK(c.subject)
  BY <1>1, RefreshPhase
<1>3. held' \subseteq DOMAIN tokens
  BY <1>1, <1>2 DEF SessionsInv, TokensTyped, OfFamily
<1>4. call' = [call EXCEPT ![s] = Idle] /\ overlapped' = overlapped
  BY <1>1 DEF Continue
<1>5. TokensTyped'
  BY <1>1, <1>3 DEF SessionsInv, TokensTyped, UsedUp
<1>6. ActsOn(c.subject)
  BY <1>1, <1>4 DEF ActsOn, UsedUp
<1>7. FamilyOK(c.subject)'
  BY <1>1, <1>2, <1>4 DEF FamilyOK, OfFamily, Dead
<1>8. \A t \in Slots \ {s} : call[t] # Idle => call[t].subject # c.subject \/ c.subject \in overlapped
  BY <1>1, <1>2, OthersElsewhere
<1>9. SessionMove(s, Idle, c.subject)
  BY <1>4, <1>5, <1>6, <1>7, <1>8 DEF SessionMove
<1> QED BY <1>9, SessionStep


LEMMA RevokesOneKept ==
    ASSUME SessionsInv, NEW s \in Slots, NEW t \in DOMAIN tokens, RevokesOne(s, t) PROVE SessionsInv'
<1> PICK c : c = call[s]
  OBVIOUS
<1> PICK r : r = [c.copies[t] EXCEPT !.revoked = TRUE]
  OBVIOUS
<1> PICK left : left = DOMAIN c.copies \ {t}
  OBVIOUS
<1>1. /\ c # Idle /\ c.phase = "revoke" /\ t \in DOMAIN c.copies /\ tokens' = [tokens EXCEPT ![t] = r]
      /\ exchanged' = exchanged /\ held' = held /\ expired' = expired
      /\ \/ left = {} /\ Continue(s, Idle) /\ replayed' = replayed \cup {c.subject}
         \/ /\ left # {} /\ replayed' = replayed
            /\ Continue(s, [c EXCEPT !.copies = [i \in left |-> c.copies[i]]])
  BY DEF RevokesOne, At, Answer
<1>2. /\ c \in RevokeCall /\ c.token \in OfFamily(c.subject) /\ TokenCallOK(s) /\ TokenCallAlone(s)
      /\ FamilyOK(c.subject) /\ c.subject \in DOMAIN tokens /\ c.subject \in 1..MaxTokens
  BY <1>1, RefreshPhase
<1>3. PICK copied \in SUBSET (1..MaxTokens) : c.copies \in [copied -> Token]
  BY <1>2 DEF RevokeCall
<1>4. \A i \in DOMAIN c.copies : i \in OfFamily(c.subject) /\ c.copies[i].family = c.subject
  BY <1>1, <1>2 DEF TokenCallOK
<1>5. t \in OfFamily(c.subject) /\ tokens[t].family = c.subject
  BY <1>1, <1>4 DEF OfFamily
<1>6. r \in Token /\ r.family = c.subject /\ r.revoked
  <2>1. c.copies[t] \in Token /\ c.copies[t].family = c.subject
    BY <1>1, <1>3, <1>4
  <2> QED BY <2>1 DEF Token
<1>7. overlapped' = overlapped /\ replayed' \subseteq replayed \cup {c.subject}
  BY <1>1 DEF Continue
<1>8. /\ ActsOn(c.subject) /\ TokensTyped' /\ Dead(t)'
      /\ \A f : OfFamily(f)' = OfFamily(f)
  BY <1>1, <1>5, <1>6, <1>7, PutsBack
<1>9. \A i \in OfFamily(c.subject) : Dead(i) => Dead(i)'
  BY <1>8, ActsOnDead DEF OfFamily
<1>10. ASSUME c.subject \notin overlapped
       PROVE  \A i \in OfFamily(c.subject) : i \in left \/ Dead(i)'
  <2>1. \A i \in OfFamily(c.subject) : i \in DOMAIN c.copies \/ Dead(i)
    BY <1>1, <1>2, <1>10 DEF TokenCallAlone
  <2> QED BY <1>8, <1>9, <2>1
<1>11. FamilyOK(c.subject)'
  <2> SUFFICES ASSUME c.subject \notin overlapped, NEW i \in OfFamily(c.subject)
               PROVE  /\ exchanged'[i] <= 1
                      /\ c.subject \in replayed' => Dead(i)'
                      /\ \A j \in OfFamily(c.subject) \ {i} : Dead(j)' \/ Dead(i)'
    BY <1>7, <1>8 DEF FamilyOK
  <2>1. /\ exchanged[i] <= 1 /\ c.subject \in replayed => Dead(i)
        /\ \A j \in OfFamily(c.subject) \ {i} : Dead(j) \/ Dead(i)
    BY <1>2 DEF FamilyOK
  <2>2. exchanged'[i] <= 1
    BY <1>1, <1>2 DEF FamilyOK
  <2>3. \A j \in OfFamily(c.subject) \ {i} : Dead(j)' \/ Dead(i)'
    BY <1>9, <2>1
  <2>4. ASSUME c.subject \in replayed' PROVE Dead(i)'
    <3>1. CASE left = {}
      BY <1>10, <3>1
    <3>2. CASE left # {}
      BY <1>1, <1>2, <1>9, <2>4, <3>2 DEF FamilyOK
    <3> QED BY <3>1, <3>2
  <2> QED BY <2>2, <2>3, <2>4
<1>12. \A i \in Slots \ {s} : call[i] # Idle => call[i].subject # c.subject \/ c.subject \in overlapped
  BY <1>1, <1>2, OthersElsewhere
<1>13. CASE left = {}
  <2>1. call' = [call EXCEPT ![s] = Idle]
    BY <1>1, <1>13 DEF Continue
  <2>2. ActsOn(c.subject) /\ TokensTyped'
    BY <1>8
  <2>3. SessionMove(s, Idle, c.subject)
    BY <1>11, <1>12, <2>1, <2>2 DEF SessionMove
  <2> QED BY <2>3, SessionStep
<1>14. CASE left # {}
  <2> PICK h : h = [c EXCEPT !.copies = [i \in left |-> c.copies[i]]]
    OBVIOUS
  <2>1. call' = [call EXCEPT ![s] = h] /\ call'[s] = h
    BY <1>1, <1>14 DEF Continue, SessionsInv
  <2>2. left \in SUBSET (1..MaxTokens) /\ [i \in left |-> c.copies[i]] \in [left -> Token]
    BY <1>3
  <2>3. [i \in left |-> c.copies[i]] \in UNION {[d -> Token] : d \in SUBSET (1..MaxTokens)}
    BY <2>2
  <2>4. /\ h \in RevokeCall /\ h.phase = "revoke" /\ h.subject = c.subject /\ h.token = c.token
        /\ h.copies = [i \in left |-> c.copies[i]]
    BY <1>2, <2>3 DEF RevokeCall
  <2>5. DOMAIN h.copies = left /\ \A i \in left : h.copies[i] = c.copies[i]
    BY <2>4
  <2>6. TokenCallOK(s)'
    BY <1>2, <1>4, <1>8, <2>1, <2>4, <2>5 DEF TokenCallOK
  <2>7. TokenCallAlone(s)'
    BY <1>7, <1>8, <1>10, <2>1, <2>4, <2>5 DEF TokenCallAlone
  <2>8. h \in SessionCall
    BY <2>4 DEF SessionCall
  <2>9. \A i \in Slots \ {s} : h # Idle /\ call[i] # Idle =>
           call[i].subject # h.subject \/ h.subject = 0 \/ h.subject \in overlapped'
    BY <1>7, <1>12, <2>4
  <2>10. ActsOn(c.subject) /\ TokensTyped'
    BY <1>8
  <2>11. h \in SessionCall \cup {Idle} /\ (h # Idle => (TokenCallOK(s) /\ TokenCallAlone(s))')
    BY <2>6, <2>7, <2>8
  <2>12. call' = [call EXCEPT ![s] = h]
    BY <2>1
  <2>13. SessionMove(s, h, c.subject)
    BY <1>11, <1>12, <2>9, <2>10, <2>11, <2>12 DEF SessionMove
  <2> QED BY <2>13, SessionStep
<1> QED BY <1>13, <1>14

LEMMA SavesSessionKept == ASSUME SessionsInv, NEW s \in Slots, SavesSession(s) PROVE SessionsInv'
<1> PICK c : c = call[s]
  OBVIOUS
<1> PICK new : new = Len(tokens) + 1
  OBVIOUS
<1> PICK f : f = IF c.token = 0 THEN new ELSE c.subject
  OBVIOUS
<1> PICK r : r = [user |-> c.user, family |-> f, used |-> FALSE, revoked |-> FALSE]
  OBVIOUS
<1> PICK h : h = [phase |-> "answer", subject |-> f, token |-> new]
  OBVIOUS
<1>1. /\ c # Idle /\ c.phase = "saveSession" /\ Len(tokens) < MaxTokens
      /\ tokens' = Append(tokens, r) /\ Continue(s, h)
      /\ exchanged' = IF c.token = 0 THEN exchanged ELSE [exchanged EXCEPT ![c.token] = @ + 1]
      /\ held' = held /\ expired' = expired /\ replayed' = replayed
  BY DEF SavesSession, At
<1>2. /\ TokensTyped /\ TokenCallOK(s) /\ TokenCallAlone(s)
  BY <1>1 DEF SessionsInv
<1>3. c \in IssueCall
  BY <1>1 DEF SessionsInv, SessionCall, LoginCall, RefreshCall, MarkCall, RevokeCall, IssueCall
<1>4. /\ Len(tokens) \in Nat /\ DOMAIN tokens = 1..Len(tokens) /\ DOMAIN tokens \subseteq 1..MaxTokens
      /\ new \in 1..MaxTokens /\ new \notin DOMAIN tokens /\ new # 0
  <2>1. /\ Len(tokens) \in Nat /\ DOMAIN tokens = 1..Len(tokens) /\ DOMAIN tokens \subseteq 1..MaxTokens
        /\ Len(tokens) + 1 \notin DOMAIN tokens
    BY <1>2, TokenNumbers
  <2>2. new = Len(tokens) + 1
    OBVIOUS
  <2>3. Len(tokens) + 1 \in 1..MaxTokens /\ Len(tokens) + 1 # 0
    BY <1>1, <2>1, SessionsAssumption
  <2> QED BY <2>1, <2>2, <2>3
<1>5. ASSUME c.token # 0
      PROVE  c.token \in OfFamily(c.subject) /\ f = c.subject /\ UsedUp(c.token)
  BY <1>1, <1>2, <1>5 DEF TokenCallOK
<1>6. c.token # 0 => c.subject \in DOMAIN tokens /\ c.token \in DOMAIN tokens
  BY <1>2, <1>5 DEF OfFamily, TokensTyped
<1>7. f \in 1..MaxTokens
  BY <1>4, <1>5, <1>6
<1>8. r \in Token /\ r.family = f
  BY <1>3, <1>7 DEF Token, IssueCall
<1>9. /\ tokens' \in Seq(Token) /\ Len(tokens') = new /\ DOMAIN tokens' = DOMAIN tokens \cup {new}
      /\ tokens'[new] = r /\ \A i \in DOMAIN tokens : tokens'[i] = tokens[i]
  BY <1>2, <1>4, <1>8, <1>1 DEF TokensTyped
<1>10. /\ exchanged' \in [1..MaxTokens -> Nat]
       /\ \A i \in 1..MaxTokens : i # c.token => exchanged'[i] = exchanged[i]
       /\ c.token # 0 => exchanged'[c.token] = exchanged[c.token] + 1
  <2>1. exchanged \in [1..MaxTokens -> Nat]
    BY <1>2 DEF TokensTyped
  <2>2. CASE c.token = 0
    BY <1>1, <2>1, <2>2
  <2>3. CASE c.token # 0
    <3>1. c.token \in 1..MaxTokens
      BY <1>4, <1>6, <2>3
    <3>2. exchanged' = [exchanged EXCEPT ![c.token] = exchanged[c.token] + 1]
      BY <1>1, <2>3
    <3>3. exchanged[c.token] + 1 \in Nat
      BY <2>1, <3>1
    <3> QED BY <2>1, <3>1, <3>2, <3>3
  <2> QED BY <2>2, <2>3
<1>11. exchanged'[new] = 0
  <2>1. exchanged[new] = 0
    BY <1>2, <1>4 DEF TokensTyped
  <2> QED BY <1>4, <1>6, <1>10, <2>1
<1>12. \A i \in DOMAIN tokens : tokens'[i].family = tokens[i].family /\ (UsedUp(i) => UsedUp(i)')
  BY <1>9 DEF UsedUp
<1>13. call' = [call EXCEPT ![s] = h] /\ overlapped' = overlapped /\ call'[s] = h
  BY <1>1 DEF Continue, SessionsInv
<1>14. ActsOn(f)
  <2>1. \A i \in DOMAIN tokens : tokens[i].family # f => exchanged'[i] = exchanged[i]
    BY <1>4, <1>5, <1>10 DEF OfFamily
  <2> QED BY <1>1, <1>8, <1>9, <1>12, <1>13, <2>1 DEF ActsOn
<1>15. TokensTyped'
  <2>1. Len(tokens') <= MaxTokens
    BY <1>4, <1>9
  <2>2. held' \subseteq DOMAIN tokens' /\ replayed' \subseteq DOMAIN tokens'
    BY <1>1, <1>2, <1>9 DEF TokensTyped
  <2>3. ASSUME NEW i \in DOMAIN tokens'
        PROVE  tokens'[i].family \in DOMAIN tokens' /\ (exchanged'[i] > 0 => UsedUp(i)')
    <3>1. CASE i = new
      <4>1. f \in DOMAIN tokens'
        BY <1>5, <1>6, <1>9
      <4> QED BY <1>8, <1>9, <1>11, <3>1, <4>1
    <3>2. CASE i # new
      <4>1. i \in DOMAIN tokens /\ tokens[i].family \in DOMAIN tokens /\ (exchanged[i] > 0 => UsedUp(i))
        BY <1>2, <1>9, <3>2, <2>3 DEF TokensTyped
      <4>2. CASE i = c.token
        <5>1. c.token # 0
          BY <1>4, <4>1, <4>2
        <5> QED BY <1>5, <1>9, <1>12, <4>1, <4>2, <5>1
      <4>3. CASE i # c.token
        BY <1>4, <1>9, <1>10, <1>12, <4>1, <4>3
      <4> QED BY <4>2, <4>3
    <3> QED BY <3>1, <3>2
  <2>4. ASSUME NEW i \in 1..MaxTokens, i \notin DOMAIN tokens' PROVE exchanged'[i] = 0
    <3>1. i \notin DOMAIN tokens /\ exchanged[i] = 0
      BY <1>2, <1>9, <2>4 DEF TokensTyped
    <3>2. i # c.token
      BY <1>4, <1>6, <3>1, <2>4
    <3> QED BY <1>10, <3>1, <3>2
  <2> QED BY <1>9, <1>10, <2>1, <2>2, <2>3, <2>4 DEF TokensTyped
<1>16. OfFamily(f)' = OfFamily(f) \cup {new}
  BY <1>8, <1>9 DEF OfFamily
<1>17. c.token = 0 => OfFamily(f) = {} /\ f \notin replayed
  BY <1>2, <1>4 DEF OfFamily, TokensTyped
<1>18. FamilyOK(f)'
  <2> SUFFICES ASSUME f \notin overlapped, NEW i \in OfFamily(f) \cup {new}
               PROVE  /\ exchanged'[i] <= 1
                      /\ f \in replayed' => Dead(i)'
                      /\ \A j \in (OfFamily(f) \cup {new}) \ {i} : Dead(j)' \/ Dead(i)'
    BY <1>13, <1>16 DEF FamilyOK
  <2>1. CASE c.token = 0
    BY <1>1, <1>11, <1>17, <2>1
  <2>2. CASE c.token # 0
    <3>1. /\ exchanged[c.token] = 0 /\ c.subject \notin replayed
          /\ \A j \in OfFamily(c.subject) : Dead(j)
      BY <1>1, <1>2, <1>5, <2>2 DEF TokenCallAlone
    <3>2. f \notin replayed' /\ \A j \in OfFamily(f) : Dead(j)'
      BY <1>1, <1>5, <1>14, <2>2, <3>1, ActsOnDead DEF OfFamily
    <3>3. FamilyOK(f)
      BY <1>5, <1>6, <2>2 DEF SessionsInv
    <3>4. exchanged'[i] <= 1
      <4>1. CASE i = new
        BY <1>11, <4>1
      <4>2. CASE i = c.token
        BY <1>10, <2>2, <3>1, <4>2
      <4>3. CASE i # new /\ i # c.token
        <5>1. i \in 1..MaxTokens /\ exchanged[i] <= 1
          BY <1>4, <3>3, <4>3 DEF FamilyOK, OfFamily
        <5> QED BY <1>10, <4>3, <5>1
      <4> QED BY <4>1, <4>2, <4>3
    <3> QED BY <3>2, <3>4
  <2> QED BY <2>1, <2>2
<1>19. h \in SessionCall /\ h.phase = "answer" /\ h.subject = f /\ h.token = new
  BY <1>4, <1>7 DEF SessionCall, RefreshCall
<1>20. (TokenCallOK(s) /\ TokenCallAlone(s))'
  BY <1>13, <1>16, <1>19 DEF TokenCallOK, TokenCallAlone
<1>21. ASSUME NEW t \in Slots \ {s}, call[t] # Idle PROVE call[t].subject # f \/ f \in overlapped
  <2>1. CASE c.token = 0
    BY <1>4, <1>21, <2>1, TokenSubjects
  <2>2. CASE c.token # 0
    <3>1. c.subject # 0
      BY <1>4, <1>6, <2>2
    <3> QED BY <1>1, <1>5, <1>21, <2>2, <3>1, OthersElsewhere
  <2> QED BY <2>1, <2>2
<1>22. \A t \in Slots \ {s} : h # Idle /\ call[t] # Idle =>
          call[t].subject # h.subject \/ h.subject = 0 \/ h.subject \in overlapped'
  BY <1>13, <1>19, <1>21
<1>23. h \in SessionCall \cup {Idle} /\ (h # Idle => (TokenCallOK(s) /\ TokenCallAlone(s))')
  BY <1>19, <1>20
<1>24. \A t \in Slots \ {s} : call[t] # Idle => call[t].subject # f \/ f \in overlapped
  BY <1>21
<1>25. call' = [call EXCEPT ![s] = h]
  BY <1>13
<1>26. ASSUME NEW g \in SessionCall \cup {Idle}, NEW n, g = h, n = f PROVE SessionsInv'
  <2>1. /\ ActsOn(n) /\ TokensTyped' /\ FamilyOK(n)' /\ call' = [call EXCEPT ![s] = g]
    BY <1>14, <1>15, <1>18, <1>25, <1>26
  <2>2. \A t \in Slots \ {s} : call[t] # Idle => call[t].subject # n \/ n \in overlapped
    BY <1>24, <1>26
  <2>3. \A t \in Slots \ {s} : g # Idle /\ call[t] # Idle =>
          call[t].subject # g.subject \/ g.subject = 0 \/ g.subject \in overlapped'
    BY <1>22, <1>26
  <2>4. g # Idle => (TokenCallOK(s) /\ TokenCallAlone(s))'
    BY <1>23, <1>26
  <2>5. ActsOn(n)
    BY <2>1
  <2>6. TokensTyped' /\ FamilyOK(n)'
    BY <2>1
  <2>7. call' = [call EXCEPT ![s] = g]
    BY <2>1
  <2>8. SessionMove(s, g, n)
    BY <2>2, <2>3, <2>4, <2>5, <2>6, <2>7 DEF SessionMove
  <2> QED BY <2>8, SessionStep
<1> QED BY <1>23, <1>26


LEMMA ExpiresKept ==
    ASSUME SessionsInv, NEW t \in DOMAIN tokens, Expires(t) PROVE SessionsInv'
<1>1. /\ tokens' = tokens /\ held' = held /\ exchanged' = exchanged /\ replayed' = replayed
      /\ call' = call /\ overlapped' = overlapped /\ expired \subseteq expired'
  BY DEF Expires, handlerVars
<1>2. TokensTyped'
  BY <1>1 DEF SessionsInv, TokensTyped, UsedUp
<1>3. \A f : ActsOn(f)
  BY <1>1 DEF ActsOn, UsedUp
<1>4. PICK f : \A s \in Slots : call[s] # Idle => call[s].subject # f
  <2>1. TokensTyped
    BY DEF SessionsInv
  <2>2. Len(tokens) + 1 \notin DOMAIN tokens /\ Len(tokens) + 1 # 0
    BY <2>1, TokenNumbers
  <2> QED BY <2>2, TokenSubjects
<1>5. ASSUME NEW s \in Slots, call'[s] # Idle PROVE (TokenCallOK(s) /\ TokenCallAlone(s))'
  BY <1>1, <1>3, <1>4, <1>5, TokenCallPassed DEF SessionsInv
<1>6. TokenCallsSeen' /\ call' \in [Slots -> SessionCall \cup {Idle}]
  BY <1>1 DEF SessionsInv, TokenCallsSeen
<1>7. ASSUME NEW g \in DOMAIN tokens' PROVE FamilyOK(g)'
  <2>1. PICK other : other # g
    <3>1. Len(tokens) + 1 \notin DOMAIN tokens /\ tokens' = tokens
      BY <1>1, TokenNumbers, LenProperties DEF SessionsInv, TokensTyped
    <3> QED BY <1>7, <3>1
  <2> QED BY <1>1, <1>3, <1>7, <2>1, FamilyPassed DEF SessionsInv
<1> QED BY <1>2, <1>5, <1>6, <1>7 DEF SessionsInv

LEMMA SessionsKept == ASSUME SessionsInv, [Next]_vars, part = "sessions" PROVE SessionsInv'
<1>1. ASSUME SessionsRestart PROVE SessionsInv'
  <2>1. /\ tokens' = tokens /\ held' = held /\ exchanged' = exchanged /\ replayed' = replayed
        /\ expired' = expired /\ overlapped' = overlapped /\ call' = [s \in Slots |-> Idle]
    BY <1>1 DEF SessionsRestart, Restart, sessionVars
  <2>2. TokensTyped' /\ \A f \in DOMAIN tokens : FamilyOK(f)'
    BY <2>1 DEF SessionsInv, TokensTyped, UsedUp, FamilyOK, OfFamily, Dead
  <2> QED BY <2>1, <2>2 DEF SessionsInv, TokenCallsSeen
<1>2. ASSUME UNCHANGED vars PROVE SessionsInv'
  <2>1. /\ tokens' = tokens /\ held' = held /\ exchanged' = exchanged /\ replayed' = replayed
        /\ expired' = expired /\ overlapped' = overlapped /\ call' = call
    BY <1>2 DEF vars, handlerVars, sessionVars
  <2>2. TokensTyped' /\ TokenCallsSeen' /\ \A f : OfFamily(f)' = OfFamily(f) /\ FamilyOK(f)' = FamilyOK(f)
    BY <2>1 DEF SessionsInv, TokensTyped, UsedUp, FamilyOK, OfFamily, Dead, TokenCallsSeen
  <2>3. ASSUME NEW s \in Slots, call'[s] # Idle PROVE (TokenCallOK(s) /\ TokenCallAlone(s))'
    BY <2>1, <2>2, <2>3 DEF SessionsInv, TokenCallOK, TokenCallAlone, UsedUp, Dead
  <2> QED BY <2>1, <2>2, <2>3 DEF SessionsInv
<1> QED BY <1>1, <1>2, SessionsSteps, LoginKept, AuthenticatesKept, RefreshKept, GetsRecordKept,
           ReadsToMarkKept, MarksUsedKept, FindsByIdKept, SavesSessionKept, AnswersSessionKept,
           ListsFamilyKept, RevokesOneKept, ExpiresKept DEF SessionsNext

LEMMA SessionsInvInit == Init /\ part = "sessions" => SessionsInv
<1> SUFFICES ASSUME Init PROVE SessionsInv
  OBVIOUS
<1>1. /\ tokens = <<>> /\ held = {} /\ exchanged = [t \in 1..MaxTokens |-> 0] /\ replayed = {}
      /\ call = [s \in Slots |-> Idle]
  BY DEF Init, HandlersInit, SessionsInit
<1>2. tokens \in Seq(Token) /\ DOMAIN tokens = {} /\ Len(tokens) = 0
  BY <1>1, EmptySeq
<1>3. TokensTyped
  BY <1>1, <1>2, SessionsAssumption DEF TokensTyped
<1> QED BY <1>1, <1>2, <1>3 DEF SessionsInv, TokenCallsSeen

LEMMA NoTokensKept == ASSUME tokens = <<>>, [Next]_vars, part # "sessions" PROVE tokens' = <<>>
<1>1. IdentityNext => tokens' = tokens
  BY DEF IdentityNext, Register, FindsEmail, FindsPhone, SavesUser, AnnouncesUser, SessionsRestart,
         sessionVars, tokenVars
<1> QED BY <1>1, IdentitySteps, AppsLeave, QueueLeaves, OthersLeave DEF sessionVars, vars


\* A refresh token that was exchanged is dead for good, however the writes of
\* markUsed and revokeFamily fall; a family on which no two handlers met has at
\* most one live token, exchanges each once, and none after a replay was answered:
\* for any tokens, users, handlers and restarts.
THEOREM RefreshFamiliesAreKilled == Spec => []RefreshFamiliesDie
<1> DEFINE Inv == IF part = "sessions" THEN SessionsInv ELSE tokens = <<>>
<1>1. Init => Inv
  <2>1. Init => tokens = <<>>
    BY DEF Init, SessionsInit
  <2> QED BY <2>1, SessionsInvInit
<1>2. Inv /\ [Next]_vars => Inv'
  BY SessionsKept, NoTokensKept, PartKept
<1>3. Inv => RefreshFamiliesDie
  <2>1. tokens = <<>> => RefreshFamiliesDie
    BY DEF RefreshFamiliesDie
  <2>2. ASSUME SessionsInv PROVE RefreshFamiliesDie
    <3> SUFFICES ASSUME NEW t \in DOMAIN tokens
                 PROVE  /\ exchanged[t] > 0 => Dead(t)
                        /\ tokens[t].family \notin overlapped =>
                              /\ exchanged[t] <= 1
                              /\ tokens[t].family \in replayed => Dead(t)
                              /\ \A r \in DOMAIN tokens \ {t} :
                                    tokens[r].family = tokens[t].family => Dead(r) \/ Dead(t)
      BY DEF RefreshFamiliesDie
    <3>1. exchanged[t] > 0 => Dead(t)
      BY <2>2 DEF SessionsInv, TokensTyped, UsedUp, Dead
    <3>2. FamilyOK(tokens[t].family) /\ t \in OfFamily(tokens[t].family)
      BY <2>2 DEF SessionsInv, TokensTyped, OfFamily
    <3> QED BY <3>1, <3>2 DEF FamilyOK, OfFamily
  <2> QED BY <2>1, <2>2
<1> QED BY <1>1, <1>2, <1>3, PTL DEF Spec
=============================================================================
