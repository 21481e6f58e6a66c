------------------------------ MODULE AppProofs ------------------------------
(***************************************************************************)
(* Proofs about what runs at the apps: their sessions, which the BFFs      *)
(* issue, and the courier app's queue, for any clients, intents, requests  *)
(* on their way, lost answers, kills and restarts.                         *)
(***************************************************************************)
EXTENDS FrontDoorProofs

-----------------------------------------------------------------------------
(* App sessions.                                                             *)

AppRoles == {RoleFor(p, claims) : p \in Personas, claims \in Claims}

AppSession ==
    [client : Clients, persona : Personas, role : AppRoles, device : Devices, family : Nat, used : BOOLEAN]

\* Two sessions of one client, on one device and with one role.
Alike(a, b) == [a EXCEPT !.used = TRUE] = [b EXCEPT !.used = TRUE]

LEMMA AlikeFields ==
    ASSUME NEW a \in AppSession, NEW b \in AppSession
    PROVE  Alike(a, b) <=> /\ a.client = b.client /\ a.persona = b.persona /\ a.role = b.role
                           /\ a.device = b.device /\ a.family = b.family
<1>1. ASSUME NEW x \in AppSession
      PROVE  LET y == [x EXCEPT !.used = TRUE]
             IN y \in AppSession /\ y.client = x.client /\ y.persona = x.persona /\ y.role = x.role
                /\ y.device = x.device /\ y.family = x.family /\ y.used = TRUE
  BY DEF AppSession
<1>2. ASSUME NEW x \in AppSession, NEW y \in AppSession,
             x.client = y.client, x.persona = y.persona, x.role = y.role, x.device = y.device,
             x.family = y.family, x.used = y.used
      PROVE  x = y
  BY <1>2 DEF AppSession
<1>3. PICK p : p = [a EXCEPT !.used = TRUE]
  OBVIOUS
<1>4. PICK q : q = [b EXCEPT !.used = TRUE]
  OBVIOUS
<1>5. /\ p \in AppSession /\ p.client = a.client /\ p.persona = a.persona /\ p.role = a.role
      /\ p.device = a.device /\ p.family = a.family /\ p.used = TRUE
  BY <1>1, <1>3
<1>6. /\ q \in AppSession /\ q.client = b.client /\ q.persona = b.persona /\ q.role = b.role
      /\ q.device = b.device /\ q.family = b.family /\ q.used = TRUE
  BY <1>1, <1>4
<1>7. Alike(a, b) <=> p = q
  BY <1>3, <1>4 DEF Alike
<1>8. p = q => /\ a.client = b.client /\ a.persona = b.persona /\ a.role = b.role
               /\ a.device = b.device /\ a.family = b.family
  BY <1>5, <1>6
<1>9. /\ a.client = b.client /\ a.persona = b.persona /\ a.role = b.role
      /\ a.device = b.device /\ a.family = b.family
      => p = q
  BY <1>2, <1>5, <1>6
<1> QED BY <1>7, <1>8, <1>9

Own(c) == {t \in DOMAIN sessions : sessions[t].client = c}

\* A session that can be refreshed, or that has a reason not to be.
Usable(t) == Live(t) \/ t \in stale \/ sessions[t].family \in doubted

Issues(c, i) == wire[c][i] # Null /\ wire[c][i].kind = "answer" /\ wire[c][i].status = 200

\* A refresh asks with a session that is usable; an answer that issues one brings
\* it for the first time, and nobody has asked with it.
MessageOK(c, i) ==
    LET m == wire[c][i]
    IN /\ m.kind = "exchange" => m.session = 0
       /\ m.session # 0 => m.session \in Own(c)
       /\ m.kind = "refresh" => m.session # 0 /\ Usable(m.session)
       /\ Issues(c, i) =>
             /\ m.issued \in Own(c) /\ m.issued # active[c] /\ Usable(m.issued)
             /\ m.session # 0 => sessions[m.session].family = sessions[m.issued].family
             /\ \A j \in InFlight : wire[c][j] # Null => wire[c][j].session # m.issued
             /\ \A j \in InFlight \ {i} : Issues(c, j) => wire[c][j].issued # m.issued

MessagesOK(c) == \A i \in InFlight : wire[c][i] # Null => MessageOK(c, i)

\* Who asks twice at once has doubted the family.
AskedOnce(c) ==
    \A i, j \in InFlight :
        i # j /\ wire[c][i] # Null /\ wire[c][j] # Null
              /\ wire[c][i].session = wire[c][j].session /\ wire[c][i].session # 0
            => sessions[wire[c][i].session].family \in doubted

\* An app's session is usable, or the answer that replaces it is on its way.
ActiveOK(c) ==
    active[c] # 0 =>
        /\ active[c] \in Own(c)
        /\ Usable(active[c]) \/ \E i \in InFlight : Issues(c, i) /\ wire[c][i].session = active[c]

AppsTyped ==
    /\ persona \in [Clients -> Personas]
    /\ sessions \in Seq(AppSession)
    /\ \A t \in DOMAIN sessions :
          /\ sessions[t].family \in DOMAIN sessions
          /\ sessions[t].persona = persona[sessions[t].client]
    /\ stale \subseteq DOMAIN sessions /\ replayedFamilies \subseteq DOMAIN sessions
    /\ active \in [Clients -> Nat]
    /\ wire \in [Clients -> [InFlight -> AppMessage \cup {Null}]]

ClientOK(c) == MessagesOK(c) /\ AskedOnce(c) /\ ActiveOK(c)

AppsInv == AppsTyped /\ AppFamiliesDie /\ \A c \in Clients : ClientOK(c)

\* A step that costs no session but t its use.
AppKeeps(t) ==
    /\ DOMAIN sessions \subseteq DOMAIN sessions'
    /\ \A r \in DOMAIN sessions :
          /\ sessions'[r].client = sessions[r].client
          /\ sessions'[r].family = sessions[r].family
          /\ r # t /\ Usable(r) => Usable(r)'
    /\ doubted \subseteq doubted'

LEMMA OwnGrows == ASSUME NEW t, AppKeeps(t), NEW c, NEW r \in Own(c) PROVE r \in Own(c)'
BY DEF AppKeeps, Own

LEMMA DoubtedUsable ==
    ASSUME NEW t, AppKeeps(t), NEW r \in DOMAIN sessions, sessions[r].family \in doubted PROVE Usable(r)'
BY DEF AppKeeps, Usable

\* The clients that have no part in a step.
LEMMA OtherClients ==
    ASSUME NEW c \in Clients, NEW t, AppKeeps(t), t \notin Own(c), ClientOK(c),
           wire'[c] = wire[c], active'[c] = active[c]
    PROVE  ClientOK(c)'
<1>1. \A r \in Own(c) : /\ r \in DOMAIN sessions /\ r # t /\ r \in Own(c)' /\ (Usable(r) => Usable(r)')
                        /\ sessions'[r].family = sessions[r].family
  BY OwnGrows DEF AppKeeps, Own
<1>2. ASSUME NEW i \in InFlight, wire[c][i] # Null PROVE MessageOK(c, i)'
  <2>1. MessageOK(c, i)
    BY <1>2 DEF ClientOK, MessagesOK
  <2> QED BY <1>1, <2>1 DEF MessageOK, Issues
<1>3. MessagesOK(c)'
  BY <1>2 DEF MessagesOK
<1>4. AskedOnce(c)'
  BY <1>1 DEF ClientOK, AskedOnce, AppKeeps, MessagesOK, MessageOK
<1>5. ActiveOK(c)'
  BY <1>1 DEF ClientOK, ActiveOK, Issues
<1> QED BY <1>3, <1>4, <1>5 DEF ClientOK

\* The other messages of the client that has.
LEMMA OtherMessages ==
    ASSUME NEW c \in Clients, NEW i \in InFlight, NEW t, AppKeeps(t), ClientOK(c),
           t \notin DOMAIN sessions \/ (wire[c][i] # Null /\ t = wire[c][i].session),
           \A j \in InFlight \ {i} : wire'[c][j] = wire[c][j],
           active'[c] = active[c] \/ (Issues(c, i) /\ active'[c] = wire[c][i].issued),
           wire'[c][i] # Null => \A j \in InFlight \ {i} : Issues(c, j) =>
               /\ wire'[c][i].session # wire[c][j].issued
               /\ Issues(c, i)' => wire'[c][i].issued # wire[c][j].issued,
           NEW j \in InFlight \ {i}, wire[c][j] # Null
    PROVE  MessageOK(c, j)'
<1> PICK m : m = wire[c][j]
  OBVIOUS
<1>1. MessageOK(c, j) /\ wire'[c][j] = m
  BY DEF ClientOK, MessagesOK
<1>2. \A r \in Own(c) : /\ r \in DOMAIN sessions /\ r \in Own(c)' /\ (r # t /\ Usable(r) => Usable(r)')
                        /\ sessions'[r].family = sessions[r].family
  BY OwnGrows DEF AppKeeps, Own
<1>3. m.kind = "exchange" => m.session = 0
  BY <1>1 DEF MessageOK
<1>4. m.session # 0 => m.session \in Own(c)
  BY <1>1 DEF MessageOK
<1>5. m.kind = "refresh" => m.session # 0 /\ Usable(m.session)'
  <2> SUFFICES ASSUME m.kind = "refresh" PROVE m.session # 0 /\ Usable(m.session)'
    OBVIOUS
  <2>1. m.session # 0 /\ Usable(m.session) /\ m.session \in Own(c)
    BY <1>1 DEF MessageOK
  <2>2. CASE m.session # t
    BY <1>2, <2>1, <2>2
  <2>3. CASE m.session = t
    <3>1. sessions[m.session].family \in doubted
      BY <2>1, <2>3 DEF ClientOK, AskedOnce, Own
    <3> QED BY <1>2, <2>1, <3>1, DoubtedUsable
  <2> QED BY <2>2, <2>3
<1>6. ASSUME Issues(c, j)
      PROVE  /\ m.issued \in Own(c)' /\ m.issued # active'[c] /\ Usable(m.issued)'
             /\ m.session # 0 => sessions'[m.session].family = sessions'[m.issued].family
             /\ \A k \in InFlight : wire'[c][k] # Null => wire'[c][k].session # m.issued
             /\ \A k \in InFlight \ {j} : Issues(c, k)' => wire'[c][k].issued # m.issued
  <2>1. /\ m.issued \in Own(c) /\ m.issued # active[c] /\ Usable(m.issued)
        /\ m.session # 0 => sessions[m.session].family = sessions[m.issued].family
        /\ \A k \in InFlight : wire[c][k] # Null => wire[c][k].session # m.issued
        /\ \A k \in InFlight \ {j} : Issues(c, k) => wire[c][k].issued # m.issued
    BY <1>1, <1>6 DEF MessageOK
  <2>2. m.issued # t
    BY <2>1 DEF Own
  <2>3. m.issued \in Own(c)' /\ Usable(m.issued)'
    BY <1>2, <2>1, <2>2
  <2>4. m.issued # active'[c]
    BY <2>1
  <2>5. m.session # 0 => sessions'[m.session].family = sessions'[m.issued].family
    BY <1>2, <1>4, <2>1
  <2>6. \A k \in InFlight : wire'[c][k] # Null => wire'[c][k].session # m.issued
    BY <1>6, <2>1
  <2>7. \A k \in InFlight \ {j} : Issues(c, k)' => wire'[c][k].issued # m.issued
    BY <1>6, <2>1 DEF Issues
  <2> QED BY <2>3, <2>4, <2>5, <2>6, <2>7
<1>7. Issues(c, j)' => Issues(c, j)
  BY DEF Issues
<1> QED BY <1>1, <1>2, <1>3, <1>4, <1>5, <1>6, <1>7 DEF MessageOK


\* What is left to show of a step of one client's message.
LEMMA AppStep ==
    ASSUME AppsInv, NEW c \in Clients, NEW i \in InFlight, NEW t, AppKeeps(t),
           t \notin DOMAIN sessions \/ (wire[c][i] # Null /\ t = wire[c][i].session),
           \A d \in Clients \ {c} : wire'[d] = wire[d] /\ active'[d] = active[d],
           \A j \in InFlight \ {i} : wire'[c][j] = wire[c][j],
           active'[c] = active[c] \/ (Issues(c, i) /\ active'[c] = wire[c][i].issued),
           AppsTyped', AppFamiliesDie',
           wire'[c][i] # Null =>
               /\ MessageOK(c, i)'
               /\ wire'[c][i].session # 0 =>
                     \/ wire[c][i] # Null /\ wire'[c][i].session = wire[c][i].session
                     \/ /\ \A j \in InFlight \ {i} : Issues(c, j) => wire[c][j].issued # wire'[c][i].session
                        /\ \A j \in InFlight \ {i} :
                              wire[c][j] # Null /\ wire[c][j].session = wire'[c][i].session =>
                                 sessions'[wire'[c][i].session].family \in doubted',
           ActiveOK(c)'
    PROVE  AppsInv'
<1>1. AppsTyped /\ ClientOK(c)
  BY DEF AppsInv
<1>2. \A r \in Own(c) : /\ r \in DOMAIN sessions /\ r \in Own(c)' /\ r # 0
                        /\ sessions'[r].family = sessions[r].family
  <2>1. 0 \notin DOMAIN sessions
    BY <1>1 DEF AppsTyped
  <2> QED BY <2>1, OwnGrows DEF AppKeeps, Own
<1>3. \A j \in InFlight : wire[c][j] # Null /\ wire[c][j].session # 0 => wire[c][j].session \in Own(c)
  BY <1>1 DEF ClientOK, MessagesOK, MessageOK
<1>4. ASSUME NEW d \in Clients \ {c} PROVE ClientOK(d)'
  <2>1. t \notin Own(d)
    <3>1. CASE t \notin DOMAIN sessions
      BY <3>1 DEF Own
    <3>2. CASE wire[c][i] # Null /\ t = wire[c][i].session
      BY <1>1, <1>3, <3>2 DEF Own, AppsTyped
    <3> QED BY <3>1, <3>2
  <2>2. ClientOK(d) /\ wire'[d] = wire[d] /\ active'[d] = active[d]
    BY DEF AppsInv
  <2> QED BY <2>1, <2>2, OtherClients
<1>5. ASSUME wire'[c][i] # Null, NEW j \in InFlight \ {i}, Issues(c, j)
      PROVE  /\ wire'[c][i].session # wire[c][j].issued
             /\ Issues(c, i)' => wire'[c][i].issued # wire[c][j].issued
  <2>1. /\ wire[c][j].issued \in Own(c)
        /\ \A k \in InFlight : wire[c][k] # Null => wire[c][k].session # wire[c][j].issued
    BY <1>1, <1>5 DEF ClientOK, MessagesOK, MessageOK, Issues
  <2>2. wire'[c][i].session # wire[c][j].issued
    BY <1>2, <1>5, <2>1
  <2>3. Issues(c, j)' /\ wire'[c][j].issued = wire[c][j].issued
    BY <1>5 DEF Issues
  <2>4. Issues(c, i)' => wire'[c][i].issued # wire[c][j].issued
    BY <1>5, <2>3 DEF MessageOK
  <2> QED BY <2>2, <2>4
<1>6. ASSUME NEW j \in InFlight, wire'[c][j] # Null PROVE MessageOK(c, j)'
  <2>1. CASE j = i
    BY <1>6, <2>1
  <2>2. CASE j # i
    <3>1. j \in InFlight \ {i} /\ wire[c][j] # Null
      BY <1>6, <2>2
    <3>2. wire'[c][i] # Null => \A k \in InFlight \ {i} : Issues(c, k) =>
             /\ wire'[c][i].session # wire[c][k].issued
             /\ Issues(c, i)' => wire'[c][i].issued # wire[c][k].issued
      BY <1>5
    <3> QED BY <1>1, <3>1, <3>2, OtherMessages
  <2> QED BY <2>1, <2>2
<1>7. AskedOnce(c)'
  <2> SUFFICES ASSUME NEW j \in InFlight, NEW k \in InFlight, j # k, wire'[c][j] # Null, wire'[c][k] # Null,
                      wire'[c][j].session = wire'[c][k].session, wire'[c][j].session # 0
               PROVE  sessions'[wire'[c][j].session].family \in doubted'
    BY DEF AskedOnce
  <2>1. CASE j # i /\ k # i
    <3>1. sessions[wire[c][j].session].family \in doubted
      BY <1>1, <2>1 DEF ClientOK, AskedOnce
    <3> QED BY <1>2, <1>3, <2>1, <3>1 DEF AppKeeps
  <2>2. ASSUME NEW n \in InFlight \ {i}, wire[c][n] # Null, wire'[c][i] # Null, wire'[c][i].session # 0,
               wire[c][n].session = wire'[c][i].session
        PROVE  sessions'[wire'[c][i].session].family \in doubted'
    <3>1. CASE wire[c][i] # Null /\ wire'[c][i].session = wire[c][i].session
      <4>1. sessions[wire[c][i].session].family \in doubted
        BY <1>1, <2>2, <3>1 DEF ClientOK, AskedOnce
      <4> QED BY <1>2, <1>3, <2>2, <3>1, <4>1 DEF AppKeeps
    <3>2. CASE ~(wire[c][i] # Null /\ wire'[c][i].session = wire[c][i].session)
      BY <2>2, <3>2
    <3> QED BY <3>1, <3>2
  <2>3. CASE j = i
    BY <2>2, <2>3
  <2>4. CASE k = i
    BY <2>2, <2>4
  <2> QED BY <2>1, <2>3, <2>4
<1> QED BY <1>4, <1>6, <1>7 DEF AppsInv, ClientOK, MessagesOK


LEMMA SessionNumbers ==
    ASSUME AppsTyped
    PROVE  /\ Len(sessions) \in Nat /\ DOMAIN sessions = 1..Len(sessions) /\ 0 \notin DOMAIN sessions
           /\ Len(sessions) + 1 \notin DOMAIN sessions
           /\ \A c : Own(c) \subseteq DOMAIN sessions
BY LenProperties DEF AppsTyped, Own

\* The client keeps its session.
LEMMA ActiveStays ==
    ASSUME NEW c \in Clients, NEW i \in InFlight, NEW t, AppKeeps(t), ActiveOK(c), active'[c] = active[c],
           \A j \in InFlight \ {i} : wire'[c][j] = wire[c][j],
           active[c] # 0 /\ active[c] = t => Issues(c, i)' /\ wire'[c][i].session = t,
           Issues(c, i) /\ wire[c][i].session = active[c] => Usable(active[c])'
    PROVE  ActiveOK(c)'
<1> SUFFICES ASSUME active[c] # 0
             PROVE  /\ active[c] \in Own(c)'
                    /\ \/ Usable(active[c])'
                       \/ \E j \in InFlight : Issues(c, j)' /\ wire'[c][j].session = active[c]
  BY DEF ActiveOK
<1>1. active[c] \in Own(c) /\ active[c] \in Own(c)' /\ active[c] \in DOMAIN sessions
  BY OwnGrows DEF ActiveOK, Own
<1>2. CASE Usable(active[c])
  BY <1>1, <1>2 DEF AppKeeps
<1>3. ASSUME NEW j \in InFlight, Issues(c, j), wire[c][j].session = active[c]
      PROVE  Usable(active[c])' \/ \E k \in InFlight : Issues(c, k)' /\ wire'[c][k].session = active[c]
  BY <1>3 DEF Issues
<1> QED BY <1>1, <1>2, <1>3 DEF ActiveOK

\* The steps that change messages and no session.
LEMMA QuietState ==
    ASSUME AppsInv, wire' \in [Clients -> [InFlight -> AppMessage \cup {Null}]], UNCHANGED <<persona, bffVars>>,
           active' \in [Clients -> Nat], doubted \subseteq doubted'
    PROVE  /\ AppsTyped' /\ AppFamiliesDie' /\ AppKeeps(0)
           /\ \A d : Own(d)' = Own(d)
           /\ \A r : Usable(r) => Usable(r)'
<1>1. UNCHANGED <<persona, sessions, stale, replayedFamilies>>
  BY DEF bffVars
<1>2. AppsTyped'
  BY <1>1 DEF AppsInv, AppsTyped
<1>3. AppFamiliesDie'
  BY <1>1 DEF AppsInv, AppFamiliesDie, Live
<1>4. (\A d : Own(d)' = Own(d)) /\ (\A r : Usable(r) => Usable(r)')
  BY <1>1 DEF Own, Usable, Live
<1>5. AppKeeps(0)
  BY <1>1, <1>4 DEF AppKeeps
<1> QED BY <1>2, <1>3, <1>4, <1>5

\* One message of the wire changes, and no session.
Posts(c, i, m) ==
    /\ wire' = [wire EXCEPT ![c][i] = m] /\ UNCHANGED <<persona, bffVars>>
    /\ active' \in [Clients -> Nat] /\ doubted \subseteq doubted'

LEMMA QuietStep ==
    ASSUME AppsInv, NEW c \in Clients, NEW i \in InFlight, NEW m \in AppMessage \cup {Null},
           Posts(c, i, m)
    PROVE  /\ AppsTyped' /\ AppFamiliesDie' /\ AppKeeps(0) /\ wire'[c][i] = m
           /\ \A d : Own(d)' = Own(d)
           /\ \A r : Usable(r) => Usable(r)'
           /\ \A d \in Clients \ {c} : wire'[d] = wire[d]
           /\ \A j \in InFlight \ {i} : wire'[c][j] = wire[c][j]
<1>1. wire \in [Clients -> [InFlight -> AppMessage \cup {Null}]]
  BY DEF AppsInv, AppsTyped
<1>2. /\ wire' \in [Clients -> [InFlight -> AppMessage \cup {Null}]] /\ wire'[c][i] = m
      /\ \A d \in Clients \ {c} : wire'[d] = wire[d]
      /\ \A j \in InFlight \ {i} : wire'[c][j] = wire[c][j]
  BY <1>1 DEF Posts
<1> QED BY <1>2, QuietState DEF Posts

LEMMA SignInKept ==
    ASSUME AppsInv, NEW c \in Clients, NEW i \in InFlight, SignIn(c, i) PROVE AppsInv'
<1>1. /\ wire[c][i] = Null /\ wire' = [wire EXCEPT ![c][i] = Request("exchange", 0)]
      /\ UNCHANGED <<persona, bffVars>> /\ active' = active /\ doubted' = doubted
  BY DEF SignIn, Sends
<1> PICK m : m = Request("exchange", 0)
  OBVIOUS
<1>2. m.kind = "exchange" /\ m.session = 0 /\ m \in AppMessage /\ AppsTyped /\ ClientOK(c)
  BY DEF Request, AppMessage, AppsInv
<1>3. /\ AppsTyped' /\ AppFamiliesDie' /\ AppKeeps(0) /\ wire'[c][i] = m
      /\ \A d \in Clients \ {c} : wire'[d] = wire[d] /\ active'[d] = active[d]
      /\ \A j \in InFlight \ {i} : wire'[c][j] = wire[c][j]
  <2>1. Posts(c, i, m) /\ m \in AppMessage \cup {Null}
    BY <1>1, <1>2 DEF AppsTyped, Posts
  <2>2. \A d \in Clients \ {c} : active'[d] = active[d]
    BY <1>1
  <2> QED BY <2>1, <2>2, QuietStep
<1>4. MessageOK(c, i)'
  BY <1>2, <1>3 DEF MessageOK, Issues
<1>5. ActiveOK(c)'
  BY <1>1, <1>2, <1>3, ActiveStays DEF ClientOK, Issues
<1>6. 0 \notin DOMAIN sessions /\ active'[c] = active[c] /\ wire'[c][i].session = 0
  BY <1>1, <1>2, <1>3, SessionNumbers
<1> QED BY <1>3, <1>4, <1>5, <1>6, AppStep

LEMMA RefreshAppKept ==
    ASSUME AppsInv, NEW c \in Clients, NEW i \in InFlight, RefreshApp(c, i) PROVE AppsInv'
<1> PICK a : a = active[c]
  OBVIOUS
<1> PICK m : m = Request("refresh", a)
  OBVIOUS
<1>1. /\ wire[c][i] = Null /\ wire' = [wire EXCEPT ![c][i] = m]
      /\ UNCHANGED <<persona, bffVars>> /\ active' = active /\ doubted \subseteq doubted' /\ a # 0
      /\ (\E j \in InFlight : wire[c][j] # Null /\ wire[c][j].session = a) => sessions[a].family \in doubted'
  BY DEF RefreshApp, Sends
<1>2. AppsTyped /\ ClientOK(c) /\ a \in Own(c) /\ a \in Nat
  BY <1>1 DEF AppsInv, ClientOK, ActiveOK, AppsTyped
<1>3. m.kind = "refresh" /\ m.session = a /\ m \in AppMessage
  BY <1>2 DEF Request, AppMessage
<1>4. /\ AppsTyped' /\ AppFamiliesDie' /\ AppKeeps(0) /\ wire'[c][i] = m
      /\ (\A d : Own(d)' = Own(d)) /\ (\A r : Usable(r) => Usable(r)')
      /\ \A d \in Clients \ {c} : wire'[d] = wire[d] /\ active'[d] = active[d]
      /\ \A j \in InFlight \ {i} : wire'[c][j] = wire[c][j]
  <2>1. Posts(c, i, m) /\ m \in AppMessage \cup {Null}
    BY <1>1, <1>2, <1>3 DEF AppsTyped, Posts
  <2>2. \A d \in Clients \ {c} : active'[d] = active[d]
    BY <1>1
  <2> QED BY <2>1, <2>2, QuietStep
<1>5. sessions' = sessions /\ 0 \notin DOMAIN sessions /\ a \in DOMAIN sessions
  BY <1>1, <1>2, SessionNumbers DEF bffVars
<1>6. Usable(a)'
  <2>1. CASE Usable(a)
    BY <1>4, <2>1
  <2>2. CASE \E j \in InFlight : Issues(c, j) /\ wire[c][j].session = a
    BY <1>1, <1>5, <2>2 DEF Usable, Issues
  <2> QED BY <1>1, <1>2, <2>1, <2>2 DEF ClientOK, ActiveOK
<1>7. MessageOK(c, i)'
  BY <1>1, <1>2, <1>3, <1>4, <1>6 DEF MessageOK, Issues
<1>8. ActiveOK(c)'
  BY <1>1, <1>2, <1>4, ActiveStays DEF ClientOK, Issues
<1>9. /\ \A j \in InFlight \ {i} : Issues(c, j) => wire[c][j].issued # wire'[c][i].session
      /\ \A j \in InFlight \ {i} :
            wire[c][j] # Null /\ wire[c][j].session = wire'[c][i].session =>
               sessions'[wire'[c][i].session].family \in doubted'
  BY <1>1, <1>2, <1>3, <1>4, <1>5 DEF ClientOK, MessagesOK, MessageOK, Issues
<1> QED BY <1>1, <1>4, <1>5, <1>7, <1>8, <1>9, AppStep


LEMMA TakesAnswerKept ==
    ASSUME AppsInv, NEW c \in Clients, NEW i \in InFlight, TakesAnswer(c, i) PROVE AppsInv'
<1>1. /\ wire[c][i] # Null /\ wire[c][i].kind = "answer" /\ wire' = [wire EXCEPT ![c][i] = Null]
      /\ UNCHANGED <<persona, bffVars>> /\ doubted \subseteq doubted'
      /\ active' = IF wire[c][i].status = 200 THEN [active EXCEPT ![c] = wire[c][i].issued] ELSE active
  BY DEF TakesAnswer
<1>2. AppsTyped /\ ClientOK(c) /\ MessageOK(c, i)
  BY <1>1 DEF AppsInv, ClientOK, MessagesOK
<1>3. active \in [Clients -> Nat] /\ sessions' = sessions
  BY <1>1, <1>2 DEF AppsTyped, bffVars
<1>4. /\ Issues(c, i) => wire[c][i].issued \in Own(c) /\ wire[c][i].issued \in Nat /\ Usable(wire[c][i].issued)
      /\ Issues(c, i) => active' = [active EXCEPT ![c] = wire[c][i].issued]
      /\ ~Issues(c, i) => active' = active
  <2>1. Issues(c, i) => wire[c][i].issued \in Own(c) /\ Usable(wire[c][i].issued)
    BY <1>2 DEF MessageOK
  <2> QED BY <1>1, <1>2, <2>1, SessionNumbers DEF Issues
<1>5. /\ active' \in [Clients -> Nat]
      /\ active'[c] = active[c] \/ (Issues(c, i) /\ active'[c] = wire[c][i].issued)
      /\ \A d \in Clients \ {c} : active'[d] = active[d]
  BY <1>3, <1>4
<1>6. /\ AppsTyped' /\ AppFamiliesDie' /\ AppKeeps(0) /\ wire'[c][i] = Null
      /\ (\A d : Own(d)' = Own(d)) /\ (\A r : Usable(r) => Usable(r)')
      /\ \A d \in Clients \ {c} : wire'[d] = wire[d] /\ active'[d] = active[d]
      /\ \A j \in InFlight \ {i} : wire'[c][j] = wire[c][j]
  <2>1. Null \in AppMessage \cup {Null}
    OBVIOUS
  <2>2. Posts(c, i, Null)
    BY <1>1, <1>5 DEF Posts
  <2> QED BY <1>5, <2>1, <2>2, QuietStep
<1>7. ActiveOK(c)'
  <2>1. CASE Issues(c, i)
    BY <1>3, <1>4, <1>6, <2>1 DEF ActiveOK
  <2>2. CASE ~Issues(c, i)
    BY <1>2, <1>4, <1>6, <2>2, ActiveStays DEF ClientOK
  <2> QED BY <2>1, <2>2
<1>8. 0 \notin DOMAIN sessions
  BY <1>2, SessionNumbers
<1> QED BY <1>5, <1>6, <1>7, <1>8, AppStep

LEMMA LosesKept ==
    ASSUME AppsInv, NEW c \in Clients, NEW i \in InFlight, Loses(c, i) PROVE AppsInv'
<1>1. /\ wire[c][i] # Null /\ wire' = [wire EXCEPT ![c][i] = Null]
      /\ UNCHANGED <<persona, bffVars>> /\ active' = active /\ doubted \subseteq doubted'
      /\ Issues(c, i) => sessions[wire[c][i].issued].family \in doubted'
  BY DEF Loses, Issues
<1>2. AppsTyped /\ ClientOK(c) /\ MessageOK(c, i)
  BY <1>1 DEF AppsInv, ClientOK, MessagesOK
<1>3. /\ AppsTyped' /\ AppFamiliesDie' /\ AppKeeps(0) /\ wire'[c][i] = Null
      /\ \A d \in Clients \ {c} : wire'[d] = wire[d] /\ active'[d] = active[d]
      /\ \A j \in InFlight \ {i} : wire'[c][j] = wire[c][j]
  <2>1. Posts(c, i, Null)
    BY <1>1, <1>2 DEF AppsTyped, Posts
  <2>2. \A d \in Clients \ {c} : active'[d] = active[d]
    BY <1>1
  <2> QED BY <2>1, <2>2, QuietStep
<1>4. sessions' = sessions /\ 0 \notin DOMAIN sessions /\ active'[c] = active[c]
  BY <1>1, <1>2, SessionNumbers DEF bffVars
<1>5. Issues(c, i) /\ wire[c][i].session = active[c] /\ active[c] # 0 => Usable(active[c])'
  BY <1>1, <1>2, <1>4 DEF MessageOK, Usable
<1>6. ActiveOK(c)'
  <2>1. CASE active[c] = 0
    BY <1>4, <2>1 DEF ActiveOK
  <2>2. CASE active[c] # 0
    BY <1>2, <1>3, <1>4, <1>5, <2>2, ActiveStays DEF ClientOK
  <2> QED BY <2>1, <2>2
<1> QED BY <1>3, <1>4, <1>6, AppStep

\* A refresh that is refused: the app keeps the session it asked with.
LEMMA RefusedKept ==
    ASSUME AppsInv, NEW c \in Clients, NEW i \in InFlight, wire[c][i] # Null, wire[c][i].kind = "refresh",
           NEW m, m.kind = "answer", m.session = wire[c][i].session, m.status # 200, wire'[c][i] = m,
           \A d \in Clients \ {c} : wire'[d] = wire[d],
           \A j \in InFlight \ {i} : wire'[c][j] = wire[c][j],
           active' = active, AppKeeps(0), AppsTyped', AppFamiliesDie'
    PROVE  AppsInv'
<1>1. AppsTyped /\ ClientOK(c) /\ MessageOK(c, i)
  BY DEF AppsInv, ClientOK, MessagesOK
<1>2. MessageOK(c, i)'
  BY <1>1, OwnGrows DEF MessageOK, Issues
<1>3. ActiveOK(c)'
  <2>1. ~Issues(c, i)
    BY DEF Issues
  <2> QED BY <1>1, <2>1, ActiveStays DEF ClientOK
<1>4. 0 \notin DOMAIN sessions /\ active'[c] = active[c]
  BY <1>1, SessionNumbers
<1>5. wire[c][i] # Null /\ wire'[c][i].session = wire[c][i].session
  OBVIOUS
<1>6. \A d \in Clients \ {c} : wire'[d] = wire[d] /\ active'[d] = active[d]
  OBVIOUS
<1> QED BY <1>2, <1>3, <1>4, <1>5, <1>6, AppStep

LEMMA RefusedReply ==
    ASSUME AppsTyped, NEW c \in Clients, NEW i \in InFlight, wire[c][i] # Null, wire[c][i].kind = "refresh",
           NEW refusal \in {400, 401, 500}, NEW m, m = Reply(wire[c][i].session, refusal, 0)
    PROVE  m \in AppMessage /\ m.kind = "answer" /\ m.session = wire[c][i].session /\ m.status # 200
<1>1. wire[c][i].session \in Nat
  BY DEF AppsTyped, AppMessage
<1> QED BY <1>1 DEF Reply, AppMessage

LEMMA RefusesPayloadKept ==
    ASSUME AppsInv, NEW c \in Clients, NEW i \in InFlight, RefusesPayload(c, i) PROVE AppsInv'
<1> PICK m : m = Reply(wire[c][i].session, 400, 0)
  OBVIOUS
<1>1. /\ wire[c][i] # Null /\ wire[c][i].kind = "refresh"
      /\ UNCHANGED <<persona, bffVars>> /\ active' = active /\ doubted' = doubted
  BY DEF RefusesPayload
<1>2. AppsTyped /\ active' \in [Clients -> Nat] /\ doubted \subseteq doubted'
  BY <1>1 DEF AppsInv, AppsTyped
<1>3. /\ m.kind = "answer" /\ m.session = wire[c][i].session /\ m.status # 200
      /\ wire' \in [Clients -> [InFlight -> AppMessage \cup {Null}]] /\ wire'[c][i] = m
      /\ \A d \in Clients \ {c} : wire'[d] = wire[d]
      /\ \A j \in InFlight \ {i} : wire'[c][j] = wire[c][j]
  <2>1. wire' = [wire EXCEPT ![c][i] = m]
    BY DEF RefusesPayload
  <2>2. m \in AppMessage /\ m.kind = "answer" /\ m.session = wire[c][i].session /\ m.status # 200
    BY <1>1, <1>2, RefusedReply
  <2> QED BY <1>2, <2>1, <2>2 DEF AppsTyped
<1>4. AppsTyped' /\ AppFamiliesDie' /\ AppKeeps(0)
  BY <1>1, <1>2, <1>3, QuietState
<1> QED BY <1>1, <1>3, <1>4, RefusedKept

\* AppFamiliesDie, without the update of a record in it.
AlikeFamilies ==
    \A t \in DOMAIN sessions :
        /\ sessions[t].family \in replayedFamilies => ~Live(t)
        /\ \A r \in DOMAIN sessions \ {t} : sessions[r].family = sessions[t].family =>
              (~Live(r) \/ ~Live(t)) /\ Alike(sessions[r], sessions[t])

LEMMA FamiliesAlike == (AppFamiliesDie <=> AlikeFamilies) /\ (AppFamiliesDie' <=> AlikeFamilies')
BY DEF AppFamiliesDie, AlikeFamilies, Alike

\* A session is added to a family of the client's that has no live session.
LEMMA SessionAdded ==
    ASSUME AppsInv, NEW record \in AppSession, NEW before \in Seq(AppSession),
           DOMAIN before = DOMAIN sessions, ~record.used,
           \A r \in DOMAIN sessions : Alike(before[r], sessions[r]) /\ (sessions[r].used => before[r].used),
           record.persona = persona[record.client],
           record.family \notin replayedFamilies,
           record.family \in DOMAIN sessions \cup {Len(sessions) + 1},
           \A r \in DOMAIN sessions : sessions[r].family = record.family =>
               (before[r].used \/ r \in stale) /\ Alike(sessions[r], record),
           sessions' = Append(before, record), UNCHANGED <<persona, stale, replayedFamilies>>
    PROVE  /\ sessions' \in Seq(AppSession)
           /\ DOMAIN sessions' = DOMAIN sessions \cup {Len(sessions) + 1}
           /\ sessions'[Len(sessions) + 1] = record
           /\ \A r \in DOMAIN sessions : /\ sessions'[r] = before[r] /\ sessions[r].client = before[r].client
                                         /\ sessions[r].family = before[r].family
           /\ \A t \in DOMAIN sessions' :
                 /\ sessions'[t].family \in DOMAIN sessions'
                 /\ sessions'[t].persona = persona'[sessions'[t].client]
           /\ AppFamiliesDie'
<1> PICK new : new = Len(sessions) + 1
  OBVIOUS
<1>1. AppsTyped /\ Len(sessions) \in Nat /\ DOMAIN sessions = 1..Len(sessions) /\ new \notin DOMAIN sessions
  BY SessionNumbers DEF AppsInv
<1>2. Len(before) \in Nat /\ DOMAIN before = 1..Len(before) /\ Len(before) = Len(sessions)
  BY <1>1, LenProperties
<1>3. /\ sessions' \in Seq(AppSession) /\ DOMAIN sessions' = DOMAIN sessions \cup {new}
      /\ sessions'[new] = record /\ \A r \in DOMAIN sessions : sessions'[r] = before[r]
  BY <1>1, <1>2, AppendProperties
<1>4. \A r \in DOMAIN sessions : sessions[r] \in AppSession /\ before[r] \in AppSession
  BY <1>1, ElementOfSeq DEF AppsTyped
<1>5. ASSUME NEW r \in DOMAIN sessions
      PROVE  /\ before[r].client = sessions[r].client /\ before[r].family = sessions[r].family
             /\ before[r].persona = sessions[r].persona
  <2>1. Alike(before[r], sessions[r]) /\ sessions[r] \in AppSession /\ before[r] \in AppSession
    BY <1>4
  <2> QED BY <2>1, AlikeFields
<1>6. ASSUME NEW t \in DOMAIN sessions'
      PROVE  /\ sessions'[t].family \in DOMAIN sessions'
             /\ sessions'[t].persona = persona'[sessions'[t].client]
  <2>1. CASE t = new
    BY <1>3, <2>1
  <2>2. CASE t \in DOMAIN sessions
    <3>1. sessions[t].family \in DOMAIN sessions /\ sessions[t].persona = persona[sessions[t].client]
      BY <1>1, <2>2 DEF AppsTyped
    <3>2. sessions'[t] = before[t] /\ persona' = persona
      BY <1>3, <2>2
    <3> QED BY <1>3, <1>5, <2>2, <3>1, <3>2
  <2> QED BY <1>3, <2>1, <2>2
<1>7. ASSUME NEW r \in DOMAIN sessions, NEW t \in DOMAIN sessions, r # t, sessions[r].family = sessions[t].family
      PROVE  (~Live(r) \/ ~Live(t)) /\ Alike(sessions[r], sessions[t])
  <2>1. AppFamiliesDie
    BY DEF AppsInv
  <2> QED BY <1>7, <2>1 DEF AppFamiliesDie, Alike
<1>8. ASSUME NEW r \in DOMAIN sessions, Live(r)' PROVE Live(r) /\ ~before[r].used /\ r \notin stale
  <2>1. ~sessions'[r].used /\ r \notin stale
    BY <1>8 DEF Live
  <2> QED BY <1>3, <2>1 DEF Live
<1>9. ASSUME NEW t \in DOMAIN sessions', sessions'[t].family \in replayedFamilies PROVE ~Live(t)'
  <2>1. t \in DOMAIN sessions /\ sessions[t].family \in replayedFamilies
    BY <1>3, <1>5, <1>9
  <2> QED BY <1>8, <2>1 DEF AppsInv, AppFamiliesDie
<1>10. ASSUME NEW r \in DOMAIN sessions, sessions'[r].family = record.family
       PROVE  ~Live(r)' /\ Alike(sessions'[r], record)
  <2>1. (before[r].used \/ r \in stale) /\ Alike(sessions[r], record) /\ Alike(before[r], sessions[r])
    BY <1>3, <1>5, <1>10
  <2>2. ~Live(r)'
    BY <1>8, <2>1
  <2> QED BY <1>3, <2>1, <2>2 DEF Alike
<1>11. ASSUME NEW t \in DOMAIN sessions', NEW r \in DOMAIN sessions', r # t, sessions'[r].family = sessions'[t].family
       PROVE  (~Live(r)' \/ ~Live(t)') /\ Alike(sessions'[r], sessions'[t])
  <2>1. CASE r \in DOMAIN sessions /\ t \in DOMAIN sessions
    <3>1. (~Live(r) \/ ~Live(t)) /\ Alike(sessions[r], sessions[t])
      BY <1>3, <1>5, <1>7, <1>11, <2>1
    <3>2. ~Live(r)' \/ ~Live(t)'
      BY <1>8, <2>1, <3>1
    <3>3. Alike(before[r], sessions[r]) /\ Alike(before[t], sessions[t])
      BY <2>1
    <3> QED BY <1>3, <2>1, <3>1, <3>2, <3>3 DEF Alike
  <2>2. CASE r = new /\ t \in DOMAIN sessions
    BY <1>3, <1>10, <1>11, <2>2 DEF Alike
  <2>3. CASE t = new /\ r \in DOMAIN sessions
    BY <1>3, <1>10, <1>11, <2>3
  <2> QED BY <1>3, <1>11, <2>1, <2>2, <2>3
<1>12. AppFamiliesDie'
  BY <1>9, <1>11, FamiliesAlike DEF AlikeFamilies
<1> QED BY <1>3, <1>5, <1>6, <1>12

\* An exchange that is refused.
LEMMA SignInRefused ==
    ASSUME AppsInv, NEW c \in Clients, NEW i \in InFlight, wire[c][i] # Null, wire[c][i].kind = "exchange",
           NEW m \in AppMessage, m.kind = "answer", m.session = 0, m.status # 200,
           wire' \in [Clients -> [InFlight -> AppMessage \cup {Null}]], wire'[c][i] = m,
           \A d \in Clients \ {c} : wire'[d] = wire[d],
           \A j \in InFlight \ {i} : wire'[c][j] = wire[c][j],
           UNCHANGED <<persona, bffVars>>, active' = active, doubted' = doubted
    PROVE  AppsInv'
<1>1. AppsTyped /\ ClientOK(c) /\ MessageOK(c, i) /\ active' \in [Clients -> Nat]
  BY DEF AppsInv, AppsTyped, ClientOK, MessagesOK
<1>2. AppsTyped' /\ AppFamiliesDie' /\ AppKeeps(0)
  BY <1>1, QuietState
<1>3. MessageOK(c, i)'
  BY DEF MessageOK, Issues
<1>4. ActiveOK(c)'
  BY <1>1, <1>2, ActiveStays DEF ClientOK, Issues
<1>5. 0 \notin DOMAIN sessions /\ active'[c] = active[c] /\ wire'[c][i].session = 0
  BY <1>1, SessionNumbers
<1>6. \A d \in Clients \ {c} : wire'[d] = wire[d] /\ active'[d] = active[d]
  OBVIOUS
<1> QED BY <1>2, <1>3, <1>4, <1>5, <1>6, AppStep

\* An answer that issues a session.
LEMMA SessionIssued ==
    ASSUME AppsInv, NEW c \in Clients, NEW i \in InFlight, wire[c][i] # Null, wire[c][i].kind # "answer",
           NEW t, t = wire[c][i].session, AppKeeps(t),
           wire' = [wire EXCEPT ![c][i] = Reply(t, 200, Len(sessions) + 1)], active' = active,
           UNCHANGED <<persona, stale, replayedFamilies>>, doubted' = doubted,
           sessions' \in Seq(AppSession), DOMAIN sessions' = DOMAIN sessions \cup {Len(sessions) + 1},
           sessions'[Len(sessions) + 1].client = c, ~sessions'[Len(sessions) + 1].used,
           t # 0 => sessions'[Len(sessions) + 1].family = sessions[t].family,
           \A r \in DOMAIN sessions' :
               /\ sessions'[r].family \in DOMAIN sessions'
               /\ sessions'[r].persona = persona'[sessions'[r].client],
           AppFamiliesDie'
    PROVE  AppsInv'
<1> PICK new : new = Len(sessions) + 1
  OBVIOUS
<1> PICK m : m = Reply(t, 200, new)
  OBVIOUS
<1>1. AppsTyped /\ ClientOK(c) /\ MessageOK(c, i)
  BY DEF AppsInv, ClientOK, MessagesOK
<1>2. /\ new \in Nat /\ new # 0 /\ new \notin DOMAIN sessions /\ 0 \notin DOMAIN sessions
      /\ \A d : Own(d) \subseteq DOMAIN sessions
  BY <1>1, SessionNumbers
<1>3. wire[c][i] \in AppMessage /\ t \in Nat
  BY <1>1 DEF AppsTyped, AppMessage
<1>4. m.kind = "answer" /\ m.session = t /\ m.status = 200 /\ m.issued = new /\ m \in AppMessage
  BY <1>2, <1>3 DEF Reply, AppMessage
<1>5. wire \in [Clients -> [InFlight -> AppMessage \cup {Null}]]
  BY <1>1 DEF AppsTyped
<1>6. /\ wire' \in [Clients -> [InFlight -> AppMessage \cup {Null}]] /\ wire'[c][i] = m
      /\ \A d \in Clients \ {c} : wire'[d] = wire[d] /\ active'[d] = active[d]
      /\ \A j \in InFlight \ {i} : wire'[c][j] = wire[c][j]
  BY <1>4, <1>5
<1>7. AppsTyped'
  BY <1>1, <1>6 DEF AppsTyped
<1>8. t # 0 => t \in Own(c) /\ t \in Own(c)' /\ sessions'[t].family = sessions[t].family
  BY <1>1, OwnGrows DEF MessageOK, AppKeeps, Own
<1>9. /\ new \in Own(c)' /\ new # active'[c] /\ Usable(new)'
      /\ t # 0 => sessions'[t].family = sessions'[new].family
      /\ \A j \in InFlight : wire'[c][j] # Null => wire'[c][j].session # new
      /\ \A j \in InFlight \ {i} : Issues(c, j)' => wire'[c][j].issued # new
  <2>1. new \in Own(c)'
    BY DEF Own
  <2>2. new # active'[c]
    BY <1>1, <1>2 DEF ClientOK, ActiveOK
  <2>3. Usable(new)'
    BY <1>1, <1>2 DEF Usable, Live, AppsTyped
  <2>4. t # 0 => sessions'[t].family = sessions'[new].family
    BY <1>8
  <2>5. ASSUME NEW j \in InFlight, wire'[c][j] # Null PROVE wire'[c][j].session # new
    <3>1. CASE j = i
      BY <1>2, <1>4, <1>6, <1>8, <3>1
    <3>2. CASE j # i
      <4>1. wire'[c][j] = wire[c][j] /\ MessageOK(c, j)
        BY <1>1, <1>6, <2>5, <3>2 DEF ClientOK, MessagesOK
      <4> QED BY <1>2, <4>1 DEF MessageOK
    <3> QED BY <3>1, <3>2
  <2>6. ASSUME NEW j \in InFlight \ {i}, Issues(c, j)' PROVE wire'[c][j].issued # new
    <3>1. wire'[c][j] = wire[c][j] /\ Issues(c, j) /\ MessageOK(c, j)
      BY <1>1, <1>6, <2>6 DEF Issues, ClientOK, MessagesOK
    <3> QED BY <1>2, <3>1 DEF MessageOK
  <2> QED BY <2>1, <2>2, <2>3, <2>4, <2>5, <2>6
<1>10. MessageOK(c, i)'
  BY <1>4, <1>6, <1>8, <1>9 DEF MessageOK
<1>11. ~Issues(c, i) /\ Issues(c, i)' /\ wire'[c][i].session = t
  BY <1>4, <1>6, AppSessionsAssumption DEF Issues
<1>12. ActiveOK(c)'
  BY <1>1, <1>6, <1>11, ActiveStays DEF ClientOK
<1>13. active'[c] = active[c]
  OBVIOUS
<1> QED BY <1>6, <1>7, <1>10, <1>11, <1>12, <1>13, AppStep


LEMMA ExchangesKept ==
    ASSUME AppsInv, NEW c \in Clients, NEW i \in InFlight, Exchanges(c, i) PROVE AppsInv'
<1>1. /\ wire[c][i] # Null /\ wire[c][i].kind = "exchange" /\ doubted' = doubted
      /\ UNCHANGED <<persona, stale, replayedFamilies>> /\ active' = active
  BY DEF Exchanges
<1>2. AppsTyped /\ MessageOK(c, i)
  BY <1>1 DEF AppsInv, ClientOK, MessagesOK
<1>3. ASSUME NEW refusal \in {400, 401, 403}, wire' = [wire EXCEPT ![c][i] = Reply(0, refusal, 0)],
             sessions' = sessions
      PROVE  AppsInv'
  <2>1. UNCHANGED <<persona, bffVars>> /\ active' = active /\ doubted' = doubted
    BY <1>1, <1>3 DEF bffVars
  <2>2. PICK m : m = Reply(0, refusal, 0)
    OBVIOUS
  <2>3. m.kind = "answer" /\ m.session = 0 /\ m.status # 200 /\ m \in AppMessage
    BY <2>2 DEF Reply, AppMessage
  <2>4. /\ wire' \in [Clients -> [InFlight -> AppMessage \cup {Null}]] /\ wire'[c][i] = m
        /\ \A d \in Clients \ {c} : wire'[d] = wire[d]
        /\ \A j \in InFlight \ {i} : wire'[c][j] = wire[c][j]
    BY <1>2, <1>3, <2>2, <2>3 DEF AppsTyped
  <2> QED BY <1>1, <2>1, <2>3, <2>4, SignInRefused
<1>4. ASSUME NEW claims \in Claims, NEW device \in Devices, NEW role, role = RoleFor(persona[c], claims),
             sessions' = Append(sessions, AppRecord(c, role, device, Len(sessions) + 1)),
             wire' = [wire EXCEPT ![c][i] = Reply(0, 200, Len(sessions) + 1)]
      PROVE  AppsInv'
  <2> PICK new : new = Len(sessions) + 1
    OBVIOUS
  <2> PICK record : record = AppRecord(c, role, device, new)
    OBVIOUS
  <2>1. new \in Nat /\ new \notin DOMAIN sessions /\ sessions \in Seq(AppSession)
    BY <1>2, SessionNumbers DEF AppsTyped
  <2>2. role \in AppRoles
    BY <1>2, <1>4 DEF AppsTyped, AppRoles
  <2>3. /\ record \in AppSession /\ ~record.used /\ record.client = c /\ record.family = new
        /\ record.persona = persona[record.client]
    BY <1>2, <2>1, <2>2 DEF AppRecord, AppSession, AppsTyped
  <2>4. /\ \A r \in DOMAIN sessions : Alike(sessions[r], sessions[r])
        /\ \A r \in DOMAIN sessions : sessions[r].family # record.family
        /\ record.family \notin replayedFamilies
    BY <1>2, <2>1, <2>3 DEF Alike, AppsTyped
  <2>5. /\ sessions' \in Seq(AppSession) /\ DOMAIN sessions' = DOMAIN sessions \cup {new}
        /\ sessions'[new] = record /\ \A r \in DOMAIN sessions : sessions'[r] = sessions[r]
        /\ \A r \in DOMAIN sessions' :
              /\ sessions'[r].family \in DOMAIN sessions'
              /\ sessions'[r].persona = persona'[sessions'[r].client]
        /\ AppFamiliesDie'
    <3>1. sessions' = Append(sessions, record)
      BY <1>4
    <3>2. record.family \in DOMAIN sessions \cup {Len(sessions) + 1}
      BY <2>3
    <3>3. \A r \in DOMAIN sessions : Alike(sessions[r], sessions[r]) /\ (sessions[r].used => sessions[r].used)
      BY <2>4
    <3>4. \A r \in DOMAIN sessions : sessions[r].family = record.family =>
             (sessions[r].used \/ r \in stale) /\ Alike(sessions[r], record)
      BY <2>4
    <3> QED BY <1>1, <2>1, <2>3, <2>4, <3>1, <3>2, <3>3, <3>4, SessionAdded
  <2>6. AppKeeps(0)
    BY <1>1, <2>5 DEF AppKeeps, Usable, Live
  <2>7. 0 = wire[c][i].session /\ wire[c][i].kind # "answer"
    BY <1>1, <1>2 DEF MessageOK
  <2>8. sessions'[new].client = c /\ ~sessions'[new].used
    BY <2>3, <2>5
  <2> PICK t : t = 0
    OBVIOUS
  <2>9. t = wire[c][i].session /\ wire[c][i].kind # "answer"
    BY <2>7
  <2>10. AppKeeps(t)
    BY <2>6
  <2>11. wire' = [wire EXCEPT ![c][i] = Reply(t, 200, Len(sessions) + 1)]
    BY <1>4
  <2>12. /\ sessions' \in Seq(AppSession)
         /\ DOMAIN sessions' = DOMAIN sessions \cup {Len(sessions) + 1}
         /\ sessions'[Len(sessions) + 1].client = c /\ ~sessions'[Len(sessions) + 1].used
    BY <2>5, <2>8
  <2>13. /\ \A r \in DOMAIN sessions' :
                /\ sessions'[r].family \in DOMAIN sessions'
                /\ sessions'[r].persona = persona'[sessions'[r].client]
         /\ AppFamiliesDie'
    BY <2>5
  <2>14. t = 0
    OBVIOUS
  <2> QED BY <1>1, <2>9, <2>10, <2>11, <2>12, <2>13, <2>14, SessionIssued
<1>5. \/ \E error \in {400, 401} : wire' = [wire EXCEPT ![c][i] = Reply(0, error, 0)] /\ sessions' = sessions
      \/ \E claims \in Claims, device \in Devices :
            \/ wire' = [wire EXCEPT ![c][i] = Reply(0, 403, 0)] /\ sessions' = sessions
            \/ /\ sessions' = Append(sessions, AppRecord(c, RoleFor(persona[c], claims), device, Len(sessions) + 1))
               /\ wire' = [wire EXCEPT ![c][i] = Reply(0, 200, Len(sessions) + 1)]
  BY DEF Exchanges
<1> QED BY <1>3, <1>4, <1>5

LEMMA SessionUsedUp ==
    ASSUME AppsTyped, NEW t \in DOMAIN sessions, NEW before, before = [sessions EXCEPT ![t].used = TRUE]
    PROVE  /\ before \in Seq(AppSession) /\ DOMAIN before = DOMAIN sessions /\ before[t].used
           /\ \A r \in DOMAIN sessions : /\ Alike(before[r], sessions[r]) /\ (sessions[r].used => before[r].used)
                                         /\ r # t => before[r] = sessions[r]
<1>1. /\ DOMAIN before = DOMAIN sessions /\ before[t] = [sessions[t] EXCEPT !.used = TRUE]
      /\ \A r \in DOMAIN sessions : r # t => before[r] = sessions[r]
  BY SessionNumbers DEF AppsTyped
<1>2. \A r \in DOMAIN sessions : sessions[r] \in AppSession
  BY ElementOfSeq, SessionNumbers DEF AppsTyped
<1>3. before[t] \in AppSession /\ before[t].used
  BY <1>1, <1>2 DEF AppSession
<1>4. \A r \in DOMAIN sessions : before[r] \in AppSession
  BY <1>1, <1>2, <1>3
<1>5. before \in Seq(AppSession)
  <2>1. /\ sessions \in Seq(AppSession) /\ t \in 1..Len(sessions)
        /\ before = [sessions EXCEPT ![t] = before[t]] /\ before[t] \in AppSession
    BY <1>1, <1>3, SessionNumbers DEF AppsTyped
  <2> QED BY <2>1, ExceptSeq
<1>6. \A r \in DOMAIN sessions : Alike(before[r], sessions[r]) /\ (sessions[r].used => before[r].used)
  <2>1. Alike(before[t], sessions[t])
    <3>1. sessions[t] \in AppSession
      BY <1>2
    <3> QED BY <1>1, <3>1 DEF Alike, AppSession
  <2> QED BY <1>1, <1>3, <2>1 DEF Alike
<1> QED BY <1>1, <1>3, <1>5, <1>6

\* A live session is used up, and another like it added to its family.
LEMMA SessionRotated ==
    ASSUME AppsInv, NEW t \in DOMAIN sessions, Live(t),
           NEW record \in AppSession, ~record.used, Alike(sessions[t], record),
           NEW before \in Seq(AppSession), DOMAIN before = DOMAIN sessions, before[t].used,
           \A r \in DOMAIN sessions :
              /\ Alike(before[r], sessions[r]) /\ (sessions[r].used => before[r].used)
              /\ r # t => before[r] = sessions[r],
           sessions' = Append(before, record), UNCHANGED <<persona, stale, replayedFamilies>>, doubted' = doubted
    PROVE  /\ sessions' \in Seq(AppSession)
           /\ DOMAIN sessions' = DOMAIN sessions \cup {Len(sessions) + 1}
           /\ sessions'[Len(sessions) + 1] = record
           /\ \A r \in DOMAIN sessions' :
                 /\ sessions'[r].family \in DOMAIN sessions'
                 /\ sessions'[r].persona = persona'[sessions'[r].client]
           /\ AppFamiliesDie' /\ AppKeeps(t)
<1>1. AppsTyped /\ AlikeFamilies
  BY FamiliesAlike DEF AppsInv
<1>2. sessions[t] \in AppSession
  BY <1>1, SessionNumbers, ElementOfSeq DEF AppsTyped
<1>3. record.client = sessions[t].client /\ record.family = sessions[t].family /\ record.persona = sessions[t].persona
  BY <1>2, AlikeFields
<1>4. /\ record.family \notin replayedFamilies /\ record.family \in DOMAIN sessions \cup {Len(sessions) + 1}
      /\ record.persona = persona[record.client]
  BY <1>1, <1>3 DEF AlikeFamilies, AppsTyped
<1>5. ASSUME NEW r \in DOMAIN sessions, sessions[r].family = record.family
      PROVE  (before[r].used \/ r \in stale) /\ Alike(sessions[r], record)
  <2>1. CASE r = t
    BY <2>1
  <2>2. CASE r # t
    <3>1. (~Live(r) \/ ~Live(t)) /\ Alike(sessions[r], sessions[t])
      BY <1>1, <1>3, <1>5, <2>2 DEF AlikeFamilies
    <3>2. sessions[r].used \/ r \in stale
      BY <3>1 DEF Live
    <3>3. Alike(sessions[r], record)
      BY <3>1 DEF Alike
    <3> QED BY <1>4, <3>2, <3>3
  <2> QED BY <2>1, <2>2
<1>6. /\ sessions' \in Seq(AppSession) /\ DOMAIN sessions' = DOMAIN sessions \cup {Len(sessions) + 1}
      /\ sessions'[Len(sessions) + 1] = record
      /\ \A r \in DOMAIN sessions : /\ sessions'[r] = before[r] /\ sessions[r].client = before[r].client
                                    /\ sessions[r].family = before[r].family
      /\ \A r \in DOMAIN sessions' :
            /\ sessions'[r].family \in DOMAIN sessions'
            /\ sessions'[r].persona = persona'[sessions'[r].client]
      /\ AppFamiliesDie'
  <2>1. \A r \in DOMAIN sessions : Alike(before[r], sessions[r]) /\ (sessions[r].used => before[r].used)
    BY <1>4
  <2>2. \A r \in DOMAIN sessions : sessions[r].family = record.family =>
           (before[r].used \/ r \in stale) /\ Alike(sessions[r], record)
    BY <1>5
  <2> QED BY <1>4, <1>4, <2>1, <2>2, SessionAdded
<1>7. ASSUME NEW r \in DOMAIN sessions, r # t, Usable(r) PROVE Usable(r)'
  <2>1. sessions'[r] = sessions[r]
    BY <1>4, <1>6, <1>7
  <2> QED BY <1>7, <2>1 DEF Usable, Live
<1>8. AppKeeps(t)
  BY <1>6, <1>7 DEF AppKeeps
<1> QED BY <1>6, <1>8

\* A family ends that an app had put in doubt.
LEMMA FamilyRevoked ==
    ASSUME AppsInv, NEW f \in DOMAIN sessions, f \in doubted,
           sessions' = Revoked(f), replayedFamilies' = replayedFamilies \cup {f},
           UNCHANGED <<persona, stale>>, doubted' = doubted
    PROVE  /\ sessions' \in Seq(AppSession) /\ DOMAIN sessions' = DOMAIN sessions
           /\ \A r \in DOMAIN sessions' :
                 /\ sessions'[r].family \in DOMAIN sessions'
                 /\ sessions'[r].persona = persona'[sessions'[r].client]
           /\ AppFamiliesDie' /\ AppKeeps(0)
<1>1. AppsTyped /\ AlikeFamilies
  BY FamiliesAlike DEF AppsInv
<1>2. DOMAIN sessions' = DOMAIN sessions
  BY DEF Revoked
<1>3. ASSUME NEW r \in DOMAIN sessions
      PROVE  /\ sessions'[r] \in AppSession
             /\ sessions'[r].client = sessions[r].client /\ sessions'[r].family = sessions[r].family
             /\ sessions'[r].persona = sessions[r].persona
             /\ Alike(sessions'[r], sessions[r])
             /\ sessions[r].family = f => sessions'[r].used
             /\ sessions[r].used => sessions'[r].used
             /\ sessions[r].family # f => sessions'[r] = sessions[r]
  <2>1. sessions[r] \in AppSession
    BY <1>1, ElementOfSeq, SessionNumbers DEF AppsTyped
  <2>2. CASE sessions[r].family # f
    BY <2>1, <2>2 DEF Revoked, Alike
  <2>3. CASE sessions[r].family = f
    <3>1. sessions'[r] = [sessions[r] EXCEPT !.used = TRUE]
      BY <2>3 DEF Revoked
    <3>2. PICK x : x = sessions[r]
      OBVIOUS
    <3>3. PICK y : y = sessions'[r]
      OBVIOUS
    <3>4. /\ y \in AppSession /\ y.client = x.client /\ y.family = x.family /\ y.persona = x.persona
          /\ y.role = x.role /\ y.device = x.device /\ y.used
      <4>1. y = [x EXCEPT !.used = TRUE] /\ x \in AppSession
        BY <2>1, <3>1, <3>2, <3>3
      <4> QED BY ONLY <4>1 DEF AppSession
    <3>5. Alike(y, x)
      BY <2>1, <3>2, <3>4, AlikeFields
    <3> QED BY <2>1, <2>3, <3>2, <3>3, <3>4, <3>5
  <2> QED BY <2>2, <2>3
<1>4. sessions' \in Seq(AppSession)
  <2>1. sessions' \in [1..Len(sessions) -> AppSession] /\ Len(sessions) \in Nat
    BY <1>1, <1>3, SessionNumbers DEF Revoked
  <2> QED BY <2>1, SeqDef
<1>5. \A r \in DOMAIN sessions' : /\ sessions'[r].family \in DOMAIN sessions'
                                  /\ sessions'[r].persona = persona'[sessions'[r].client]
  <2>1. ASSUME NEW r \in DOMAIN sessions
        PROVE  sessions'[r].family \in DOMAIN sessions' /\ sessions'[r].persona = persona'[sessions'[r].client]
    <3>1. sessions[r].family \in DOMAIN sessions /\ sessions[r].persona = persona[sessions[r].client]
      BY <1>1 DEF AppsTyped
    <3>2. persona' = persona
      OBVIOUS
    <3> QED BY <1>2, <1>3, <3>1, <3>2
  <2> QED BY <1>2, <2>1
<1>6. ASSUME NEW r \in DOMAIN sessions, Usable(r) PROVE Usable(r)'
  BY <1>3, <1>6 DEF Usable, Live
<1>7. AppKeeps(0)
  BY <1>2, <1>3, <1>6 DEF AppKeeps
<1>8. ASSUME NEW r \in DOMAIN sessions, Live(r)' PROVE Live(r) /\ sessions[r].family # f
  BY <1>3, <1>8 DEF Live
<1>9. ASSUME NEW x \in DOMAIN sessions, sessions'[x].family \in replayedFamilies' PROVE ~Live(x)'
  BY <1>1, <1>3, <1>8, <1>9 DEF AlikeFamilies
<1>10. ASSUME NEW x \in DOMAIN sessions, NEW r \in DOMAIN sessions \ {x}, sessions'[r].family = sessions'[x].family
       PROVE  (~Live(r)' \/ ~Live(x)') /\ Alike(sessions'[r], sessions'[x])
  <2>1. (~Live(r) \/ ~Live(x)) /\ Alike(sessions[r], sessions[x])
    BY <1>1, <1>3, <1>10 DEF AlikeFamilies
  <2>2. Alike(sessions'[r], sessions[r]) /\ Alike(sessions'[x], sessions[x])
    BY <1>3
  <2>3. Alike(sessions'[r], sessions'[x])
    BY <2>1, <2>2 DEF Alike
  <2> QED BY <1>8, <2>1, <2>3
<1>11. AppFamiliesDie'
  BY <1>2, <1>9, <1>10, FamiliesAlike DEF AlikeFamilies
<1> QED BY <1>2, <1>4, <1>5, <1>7, <1>11


LEMMA RefreshSessionKept ==
    ASSUME AppsInv, NEW c \in Clients, NEW i \in InFlight, RefreshSession(c, i) PROVE AppsInv'
<1> PICK t : t = wire[c][i].session
  OBVIOUS
<1> PICK m : m = Reply(t, AuthErrorStatus(persona[c]), 0)
  OBVIOUS
<1>1. /\ wire[c][i] # Null /\ wire[c][i].kind = "refresh"
      /\ UNCHANGED <<persona, stale>> /\ active' = active /\ doubted' = doubted
  BY DEF RefreshSession
<1>2. AppsTyped /\ MessageOK(c, i)
  BY <1>1 DEF AppsInv, ClientOK, MessagesOK
<1>3. /\ t \in DOMAIN sessions /\ sessions[t].client = c /\ Usable(t)
      /\ sessions[t].family \in DOMAIN sessions /\ sessions[t].persona = persona[c]
  BY <1>1, <1>2 DEF MessageOK, AppsTyped, Own
<1>4. sessions[t] \in AppSession
  BY <1>2, <1>3, SessionNumbers, ElementOfSeq DEF AppsTyped
<1>5. ASSUME wire' = [wire EXCEPT ![c][i] = m]
      PROVE  /\ m.kind = "answer" /\ m.session = wire[c][i].session /\ m.status # 200
             /\ wire' \in [Clients -> [InFlight -> AppMessage \cup {Null}]] /\ wire'[c][i] = m
             /\ \A d \in Clients \ {c} : wire'[d] = wire[d]
             /\ \A j \in InFlight \ {i} : wire'[c][j] = wire[c][j]
  <2>1. PICK refusal \in {400, 401, 500} : m = Reply(wire[c][i].session, refusal, 0)
    BY DEF AuthErrorStatus
  <2>2. m \in AppMessage /\ m.kind = "answer" /\ m.session = wire[c][i].session /\ m.status # 200
    BY <1>1, <1>2, <2>1, RefusedReply
  <2> QED BY <1>2, <1>5, <2>2 DEF AppsTyped
<1>6. ASSUME wire' = [wire EXCEPT ![c][i] = m], sessions' = sessions, replayedFamilies' = replayedFamilies
      PROVE  AppsInv'
  <2>1. UNCHANGED <<persona, bffVars>> /\ active' \in [Clients -> Nat] /\ doubted \subseteq doubted'
    BY <1>1, <1>2, <1>6 DEF bffVars, AppsTyped
  <2>2. AppsTyped' /\ AppFamiliesDie' /\ AppKeeps(0)
    BY <1>5, <1>6, <2>1, QuietState
  <2> QED BY <1>1, <1>5, <1>6, <2>2, RefusedKept
<1>7. ASSUME t \notin stale, sessions[t].used, wire' = [wire EXCEPT ![c][i] = m],
             NEW f, f = sessions[t].family,
             sessions' = Revoked(f), replayedFamilies' = replayedFamilies \cup {f}
      PROVE  AppsInv'
  <2>1. f \in DOMAIN sessions /\ f \in doubted
    BY <1>3, <1>7 DEF Usable, Live
  <2>2. /\ sessions' \in Seq(AppSession) /\ DOMAIN sessions' = DOMAIN sessions
        /\ \A r \in DOMAIN sessions' :
              /\ sessions'[r].family \in DOMAIN sessions'
              /\ sessions'[r].persona = persona'[sessions'[r].client]
        /\ AppFamiliesDie' /\ AppKeeps(0)
    <3>1. UNCHANGED <<persona, stale>> /\ doubted' = doubted
      BY <1>1
    <3>2. sessions' = Revoked(f) /\ replayedFamilies' = replayedFamilies \cup {f}
      BY <1>7
    <3> QED BY <2>1, <3>1, <3>2, FamilyRevoked
  <2>3. AppsTyped'
    <3>1. wire' \in [Clients -> [InFlight -> AppMessage \cup {Null}]]
      BY <1>5, <1>7
    <3>2. replayedFamilies' \subseteq DOMAIN sessions'
      BY <1>2, <1>7, <2>1, <2>2 DEF AppsTyped
    <3> QED BY <1>1, <1>2, <2>2, <3>1, <3>2 DEF AppsTyped
  <2>4. active' = active /\ AppKeeps(0) /\ AppFamiliesDie' /\ wire[c][i] # Null /\ wire[c][i].kind = "refresh"
    BY <1>1, <2>2
  <2>5. /\ m.kind = "answer" /\ m.session = wire[c][i].session /\ m.status # 200 /\ wire'[c][i] = m
        /\ \A d \in Clients \ {c} : wire'[d] = wire[d]
        /\ \A j \in InFlight \ {i} : wire'[c][j] = wire[c][j]
    BY <1>5, <1>7
  <2> QED BY <2>3, <2>4, <2>5, RefusedKept
<1>8. ASSUME t \notin stale, ~sessions[t].used, wire' = [wire EXCEPT ![c][i] = Reply(t, 200, Len(sessions) + 1)],
             sessions' = Append([sessions EXCEPT ![t].used = TRUE],
                                AppRecord(c, sessions[t].role, sessions[t].device, sessions[t].family)),
             replayedFamilies' = replayedFamilies
      PROVE  AppsInv'
  <2>1. PICK record : record = AppRecord(c, sessions[t].role, sessions[t].device, sessions[t].family)
    OBVIOUS
  <2>2. PICK before : before = [sessions EXCEPT ![t].used = TRUE]
    OBVIOUS
  <2>3. /\ record \in AppSession /\ ~record.used /\ record.client = c /\ record.family = sessions[t].family
        /\ record.persona = persona[c] /\ record.role = sessions[t].role /\ record.device = sessions[t].device
    BY <1>2, <1>4, <2>1 DEF AppRecord, AppSession, AppsTyped
  <2>4. Alike(sessions[t], record) /\ Live(t)
    BY <1>3, <1>4, <1>8, <2>3, AlikeFields DEF Live
  <2>5. sessions' = Append(before, record) /\ UNCHANGED <<persona, stale, replayedFamilies>> /\ doubted' = doubted
    BY <1>1, <1>8, <2>1, <2>2
  <2>6. /\ before \in Seq(AppSession) /\ DOMAIN before = DOMAIN sessions /\ before[t].used
        /\ \A r \in DOMAIN sessions :
              /\ Alike(before[r], sessions[r]) /\ (sessions[r].used => before[r].used)
              /\ r # t => before[r] = sessions[r]
    BY <1>2, <1>3, <2>2, SessionUsedUp
  <2>7. /\ sessions' \in Seq(AppSession)
        /\ DOMAIN sessions' = DOMAIN sessions \cup {Len(sessions) + 1}
        /\ sessions'[Len(sessions) + 1] = record
        /\ \A r \in DOMAIN sessions' :
              /\ sessions'[r].family \in DOMAIN sessions'
              /\ sessions'[r].persona = persona'[sessions'[r].client]
        /\ AppFamiliesDie' /\ AppKeeps(t)
    BY <1>3, <2>3, <2>4, <2>5, <2>6, SessionRotated
  <2>8. /\ sessions'[Len(sessions) + 1].client = c /\ ~sessions'[Len(sessions) + 1].used
        /\ sessions'[Len(sessions) + 1].family = sessions[t].family
    BY <2>3, <2>7
  <2>9. wire[c][i].kind # "answer" /\ wire' = [wire EXCEPT ![c][i] = Reply(t, 200, Len(sessions) + 1)]
    BY <1>1, <1>8
  <2> QED BY <1>1, <2>5, <2>7, <2>8, <2>9, SessionIssued
<1>9. \/ /\ wire' = [wire EXCEPT ![c][i] = m]
         /\ sessions' = sessions /\ replayedFamilies' = replayedFamilies
      \/ /\ t \notin stale /\ sessions[t].used
         /\ wire' = [wire EXCEPT ![c][i] = m]
         /\ sessions' = Revoked(sessions[t].family)
         /\ replayedFamilies' = replayedFamilies \cup {sessions[t].family}
      \/ /\ t \notin stale /\ ~sessions[t].used
         /\ wire' = [wire EXCEPT ![c][i] = Reply(t, 200, Len(sessions) + 1)]
         /\ sessions' = Append([sessions EXCEPT ![t].used = TRUE],
                               AppRecord(c, sessions[t].role, sessions[t].device, sessions[t].family))
         /\ replayedFamilies' = replayedFamilies
  BY DEF RefreshSession, Refuses
<1> QED BY <1>6, <1>7, <1>8, <1>9

LEMMA AppSessionExpiresKept ==
    ASSUME AppsInv, NEW t \in DOMAIN sessions, AppSessionExpires(t) PROVE AppsInv'
<1>1. /\ stale' = stale \cup {t} /\ persona' = persona /\ sessions' = sessions /\ active' = active
      /\ replayedFamilies' = replayedFamilies /\ wire' = wire /\ doubted' = doubted
  BY DEF AppSessionExpires
<1>2. AppsTyped'
  BY <1>1 DEF AppsInv, AppsTyped
<1>3. AppFamiliesDie'
  BY <1>1 DEF AppsInv, AppFamiliesDie, Live
<1>4. AppKeeps(0)
  BY <1>1 DEF AppKeeps, Usable, Live
<1>5. ASSUME NEW c \in Clients PROVE ClientOK(c)'
  <2>1. 0 \notin Own(c) /\ ClientOK(c)
    BY SessionNumbers DEF AppsInv
  <2> QED BY <1>1, <1>4, <2>1, OtherClients
<1> QED BY <1>2, <1>3, <1>5 DEF AppsInv

LEMMA BffRestartKept == ASSUME AppsInv, BffRestart PROVE AppsInv'
<1>1. /\ stale' = DOMAIN sessions /\ persona' = persona /\ sessions' = sessions /\ active' = active
      /\ replayedFamilies' = replayedFamilies /\ doubted' = doubted
      /\ wire' = [c \in Clients |-> [i \in InFlight |-> Null]]
  BY DEF BffRestart
<1>2. AppsTyped'
  BY <1>1 DEF AppsInv, AppsTyped
<1>3. AppFamiliesDie'
  BY <1>1 DEF AppsInv, AppFamiliesDie, Live
<1>4. ASSUME NEW c \in Clients PROVE ClientOK(c)'
  <2>1. \A i \in InFlight : wire'[c][i] = Null
    BY <1>1
  <2>2. ActiveOK(c)'
    BY <1>1 DEF AppsInv, ClientOK, ActiveOK, Own, Usable
  <2> QED BY <2>1, <2>2 DEF ClientOK, MessagesOK, AskedOnce
<1> QED BY <1>2, <1>3, <1>4 DEF AppsInv

LEMMA AppsKept == ASSUME AppsInv, [Next]_vars, part = "apps" PROVE AppsInv'
<1>1. ASSUME UNCHANGED vars PROVE AppsInv'
  <2>1. /\ stale' = stale /\ persona' = persona /\ sessions' = sessions /\ active' = active
        /\ replayedFamilies' = replayedFamilies /\ wire' = wire /\ doubted' = doubted
    BY <1>1 DEF vars, appVars
  <2>2. AppsTyped' /\ AppFamiliesDie' /\ AppKeeps(0)
    BY <2>1 DEF AppsInv, AppsTyped, AppFamiliesDie, AppKeeps, Usable, Live
  <2>3. ASSUME NEW c \in Clients PROVE ClientOK(c)'
    <3>1. 0 \notin Own(c) /\ ClientOK(c)
      BY SessionNumbers DEF AppsInv
    <3> QED BY <2>1, <2>2, <3>1, OtherClients
  <2> QED BY <2>2, <2>3 DEF AppsInv
<1> QED BY <1>1, AppsSteps, SignInKept, RefreshAppKept, TakesAnswerKept, LosesKept, ExchangesKept,
           RefusesPayloadKept, RefreshSessionKept, AppSessionExpiresKept, BffRestartKept DEF AppSessionsNext

\* Before an app of another part: no sessions, and no app keeps one.
NoSessions == sessions = <<>> /\ active = [c \in Clients |-> 0]

LEMMA AppsInvInit == Init /\ part = "apps" => AppsInv
<1> SUFFICES ASSUME Init PROVE AppsInv
  OBVIOUS
<1>1. /\ persona \in [Clients -> Personas] /\ sessions = <<>> /\ stale = {} /\ replayedFamilies = {}
      /\ active = [c \in Clients |-> 0] /\ wire = [c \in Clients |-> [i \in InFlight |-> Null]]
  <2>1. {"consumer", "admin"} \subseteq Personas /\ {"consumer"} \subseteq Personas
    BY DEF Personas
  <2> QED BY <2>1 DEF Init, AppSessionsInit
<1>2. sessions \in Seq(AppSession) /\ DOMAIN sessions = {}
  BY <1>1, EmptySeq
<1>3. AppsTyped /\ AppFamiliesDie
  BY <1>1, <1>2 DEF AppsTyped, AppFamiliesDie
<1>4. ASSUME NEW c \in Clients PROVE ClientOK(c)
  BY <1>1 DEF ClientOK, MessagesOK, AskedOnce, ActiveOK
<1> QED BY <1>3, <1>4 DEF AppsInv

LEMMA NoSessionsKept == ASSUME NoSessions, [Next]_vars, part # "apps" PROVE NoSessions'
BY SessionsLeave, QueueLeaves, OthersLeave DEF NoSessions, appVars

AppsHold == IF part = "apps" THEN AppsInv ELSE NoSessions

LEMMA AppsHoldAlways == Spec => []AppsHold
<1>1. Init => AppsHold
  BY AppsInvInit DEF AppsHold, NoSessions, Init, AppSessionsInit
<1>2. AppsHold /\ [Next]_vars => AppsHold'
  BY AppsKept, NoSessionsKept, PartKept DEF AppsHold
<1> QED BY <1>1, <1>2, PTL DEF Spec


\* A refresh token is good once, and a family whose token was replayed is dead:
\* core-api's sessions and the BFFs' both keep that, whatever two handlers write
\* over each other and however often an app asks, loses an answer or is replayed:
\* for any users, clients, devices, sessions, handlers and restarts.
THEOREM AllFamiliesDie == Spec => []FamiliesDie
<1>1. AppsHold => AppFamiliesDie
  BY DEF AppsHold, AppsInv, NoSessions, AppFamiliesDie
<1> QED BY <1>1, AppsHoldAlways, RefreshFamiliesAreKilled, PTL DEF FamiliesDie

\* An app's session is its client's own; once nothing of the app is on its way
\* it can be refreshed, or it expired or was forgotten in a restart, or the app
\* refreshed twice at once or lost an answer: for any clients, any number of
\* requests on their way at once, and any sessions and restarts.
THEOREM SessionsStayUsable == Spec => []AppSessionUsable
<1>1. AppsHold => AppSessionUsable
  <2>1. NoSessions => AppSessionUsable
    BY DEF NoSessions, AppSessionUsable
  <2>2. AppsInv => AppSessionUsable
    BY DEF AppsInv, ClientOK, ActiveOK, Own, Usable, Issues, AppSessionUsable
  <2> QED BY <2>1, <2>2 DEF AppsHold
<1> QED BY <1>1, AppsHoldAlways, PTL



-----------------------------------------------------------------------------
(* The courier app's queue.                                                  *)

QueuedAction == [idempotencyKey : Intents, attempts : Nat, status : Statuses]

\* An action that keeps no later one from being sent.
Passed(j) == actions[j].status \in {"SUCCEEDED", "FAILED"} \/ j \in cutOff

\* An action was sent at most as often as it was leased, which is within the
\* policy; what is leased, or was sent, has nothing before it to wait for.
ActionOK(i) ==
    /\ sends[i] <= actions[i].attempts /\ actions[i].attempts <= maxAttempts
    /\ i = leased => sends[i] < actions[i].attempts /\ actions[i].status = "IN_FLIGHT"
    /\ i \in Waiting => actions[i].attempts < maxAttempts
    /\ actions[i].status = "IN_FLIGHT" => i = leased \/ i \in cutOff
    /\ i = leased \/ sends[i] > 0 => \A j \in 1..(i - 1) : Passed(j)

QueueTyped ==
    /\ actions \in Seq(QueuedAction) /\ Len(actions) <= MaxEnqueued
    /\ sends \in [1..MaxEnqueued -> Nat] /\ \A i \in 1..MaxEnqueued : i > Len(actions) => sends[i] = 0
    /\ cutOff \subseteq DOMAIN actions

\* The file has the actions, or is being written.
FileOK ==
    /\ \/ appStep \in {"idle", "dispatch"} /\ file = actions
       \/ appStep \in {"save", "saveLease"} /\ file = <<>>
    /\ IF appStep \in {"saveLease", "dispatch"} THEN leased \in DOMAIN actions ELSE leased = 0

IntentsOK ==
    /\ promised \subseteq {actions[i].idempotencyKey : i \in DOMAIN actions}
    /\ \A i, j \in DOMAIN actions : actions[i].idempotencyKey = actions[j].idempotencyKey => i = j

QueueOK == QueueTyped /\ FileOK /\ IntentsOK /\ \A i \in DOMAIN actions : ActionOK(i)

QueueInv == ~torn => QueueOK


LEMMA QueueNumbers ==
    ASSUME QueueTyped
    PROVE  /\ Len(actions) \in Nat /\ DOMAIN actions = 1..Len(actions) /\ 0 \notin DOMAIN actions
           /\ DOMAIN actions \subseteq 1..MaxEnqueued
           /\ \A i \in DOMAIN actions : actions[i] \in QueuedAction /\ sends[i] \in Nat
<1>1. Len(actions) \in Nat /\ DOMAIN actions = 1..Len(actions) /\ MaxEnqueued \in Nat
  BY LenProperties, OfflineQueueAssumption DEF QueueTyped
<1>2. \A i \in DOMAIN actions : actions[i] \in QueuedAction
  BY <1>1, ElementOfSeq DEF QueueTyped
<1>3. DOMAIN actions \subseteq 1..MaxEnqueued /\ 0 \notin DOMAIN actions
  BY <1>1 DEF QueueTyped
<1> QED BY <1>1, <1>2, <1>3 DEF QueueTyped

LEMMA EnqueueKept == ASSUME QueueOK, NEW intent \in Intents, Enqueue(intent) PROVE QueueOK'
<1>1. /\ appStep' = "save" /\ file' = <<>> /\ leased = 0 /\ leased' = 0 /\ sends' = sends /\ cutOff' = cutOff
      /\ promised' = promised \cup {intent}
  BY DEF QueueOK, FileOK, Enqueue, Change
<1>2. /\ QueueTyped /\ Len(actions) \in Nat /\ DOMAIN actions = 1..Len(actions)
      /\ \A i \in DOMAIN actions : ActionOK(i)
  BY QueueNumbers DEF QueueOK
<1>3. FileOK'
  BY <1>1 DEF FileOK
<1>4. CASE Enqueued(intent)
  <2>1. actions' = actions
    BY <1>4 DEF Enqueue, Change
  <2>2. QueueTyped' /\ IntentsOK'
    BY <1>1, <1>2, <1>4, <2>1 DEF QueueTyped, IntentsOK, QueueOK, Enqueued
  <2>3. \A i \in DOMAIN actions' : ActionOK(i)'
    BY <1>1, <1>2, <2>1 DEF ActionOK, Waiting, Passed
  <2> QED BY <1>3, <2>2, <2>3 DEF QueueOK
<1>5. CASE ~Enqueued(intent)
  <2>1. PICK new : new = Len(actions) + 1
    OBVIOUS
  <2>2. PICK action : action = OfflineAction(intent)
    OBVIOUS
  <2>3. actions' = Append(actions, action) /\ Len(actions) < MaxEnqueued
    BY <1>5, <2>2 DEF Enqueue, Change
  <2>4. /\ action \in QueuedAction /\ action.idempotencyKey = intent
        /\ action.attempts = 0 /\ action.status = "PENDING"
    BY <2>2 DEF OfflineAction, QueuedAction, Statuses
  <2>5. /\ actions' \in Seq(QueuedAction) /\ DOMAIN actions' = DOMAIN actions \cup {new} /\ new \notin DOMAIN actions
        /\ actions'[new] = action /\ Len(actions') = new
        /\ \A i \in DOMAIN actions : actions'[i] = actions[i]
    BY <1>2, <2>1, <2>3, <2>4, AppendProperties DEF QueueTyped
  <2>6. QueueTyped'
    <3>1. new <= MaxEnqueued /\ \A i \in 1..MaxEnqueued : i > new => i > Len(actions)
      BY <1>2, <2>1, <2>3, OfflineQueueAssumption
    <3> QED BY <1>1, <1>2, <2>5, <3>1 DEF QueueTyped
  <2>7. IntentsOK'
    <3>1. \A i \in DOMAIN actions : actions[i].idempotencyKey # intent
      BY <1>5 DEF Enqueued
    <3>2. promised' \subseteq {actions'[i].idempotencyKey : i \in DOMAIN actions'}
      <4>1. ASSUME NEW p \in promised PROVE \E i \in DOMAIN actions' : actions'[i].idempotencyKey = p
        BY <2>5, <4>1 DEF QueueOK, IntentsOK
      <4> QED BY <1>1, <2>4, <2>5, <4>1
    <3>3. ASSUME NEW i \in DOMAIN actions', NEW j \in DOMAIN actions',
                 actions'[i].idempotencyKey = actions'[j].idempotencyKey
          PROVE  i = j
      <4>1. CASE i \in DOMAIN actions /\ j \in DOMAIN actions
        BY <2>5, <3>3, <4>1 DEF QueueOK, IntentsOK
      <4> QED BY <2>4, <2>5, <3>1, <3>3, <4>1
    <3> QED BY <3>2, <3>3 DEF IntentsOK
  <2>8. ASSUME NEW i \in DOMAIN actions' PROVE ActionOK(i)'
    <3>1. CASE i = new
      <4>1. sends'[new] = 0 /\ maxAttempts > 0 /\ maxAttempts \in Nat
        <5>1. new \in 1..MaxEnqueued /\ new > Len(actions)
          BY <1>2, <2>1, <2>3, OfflineQueueAssumption
        <5> QED BY <1>1, <1>2, <5>1, OfflineQueueAssumption DEF QueueTyped
      <4>2. new # 0
        BY <1>2, <2>1
      <4> QED BY <1>1, <2>4, <2>5, <3>1, <4>1, <4>2 DEF ActionOK
    <3>2. CASE i \in DOMAIN actions
      <4>1. ActionOK(i) /\ actions'[i] = actions[i] /\ (i \in Waiting' => i \in Waiting)
        BY <1>2, <2>5, <3>2 DEF Waiting
      <4>2. \A j \in 1..(i - 1) : Passed(j) => Passed(j)'
        <5>1. \A j \in 1..(i - 1) : j \in DOMAIN actions
          BY <1>2, <3>2
        <5> QED BY <1>1, <2>5, <5>1 DEF Passed
      <4> QED BY <1>1, <4>1, <4>2 DEF ActionOK
    <3> QED BY <2>5, <3>1, <3>2
  <2> QED BY <1>3, <2>6, <2>7, <2>8 DEF QueueOK
<1> QED BY <1>4, <1>5


\* The steps that change the status of one action and count its sending.
LEMMA OneChanged ==
    ASSUME QueueOK, NEW n \in DOMAIN actions, NEW a \in QueuedAction,
           a.idempotencyKey = actions[n].idempotencyKey,
           actions' \in [DOMAIN actions -> QueuedAction], actions'[n] = a,
           \A i \in DOMAIN actions \ {n} : actions'[i] = actions[i],
           sends' \in [1..MaxEnqueued -> Nat], \A i \in 1..MaxEnqueued : i # n => sends'[i] = sends[i],
           cutOff \subseteq cutOff', cutOff' \subseteq DOMAIN actions, promised' = promised
    PROVE  QueueTyped' /\ IntentsOK' /\ DOMAIN actions' = DOMAIN actions
<1>1. /\ QueueTyped /\ IntentsOK /\ Len(actions) \in Nat /\ DOMAIN actions = 1..Len(actions)
  BY QueueNumbers DEF QueueOK
<1>2. actions' \in Seq(QueuedAction) /\ DOMAIN actions' = DOMAIN actions /\ Len(actions') = Len(actions)
  <2>1. actions' \in [1..Len(actions) -> QueuedAction]
    BY <1>1
  <2>2. actions' \in Seq(QueuedAction)
    BY <1>1, <2>1, SeqDef
  <2> QED BY <1>1, <2>1, <2>2, LenProperties
<1>3. \A i \in DOMAIN actions : actions'[i].idempotencyKey = actions[i].idempotencyKey
  OBVIOUS
<1>4. IntentsOK'
  BY <1>1, <1>2, <1>3 DEF IntentsOK
<1>5. ASSUME NEW i \in 1..MaxEnqueued, i > Len(actions) PROVE sends'[i] = 0
  <2>1. i # n
    BY <1>1, <1>5
  <2> QED BY <1>1, <1>5, <2>1 DEF QueueTyped
<1>6. QueueTyped'
  BY <1>1, <1>2, <1>5 DEF QueueTyped
<1> QED BY <1>2, <1>4, <1>6

\* What is said of the other actions stays true.
LEMMA OthersStay ==
    ASSUME QueueOK, NEW n \in DOMAIN actions, DOMAIN actions' = DOMAIN actions,
           \A i \in DOMAIN actions \ {n} : actions'[i] = actions[i] /\ sends'[i] = sends[i],
           cutOff \subseteq cutOff', leased \in {0, n}, leased' \in {0, n}, Passed(n) => Passed(n)'
    PROVE  /\ \A i \in DOMAIN actions \ {n} : ActionOK(i)'
           /\ \A j \in 1..(n - 1) : Passed(j) => Passed(j)'
<1>1. /\ QueueTyped /\ Len(actions) \in Nat /\ DOMAIN actions = 1..Len(actions) /\ 0 \notin DOMAIN actions
      /\ \A i \in DOMAIN actions : ActionOK(i)
  BY QueueNumbers DEF QueueOK
<1>2. \A j \in DOMAIN actions : Passed(j) => Passed(j)'
  BY DEF Passed
<1>3. ASSUME NEW i \in DOMAIN actions \ {n} PROVE ActionOK(i)'
  <2>1. ActionOK(i) /\ actions'[i] = actions[i] /\ sends'[i] = sends[i] /\ i # leased /\ i # leased'
    BY <1>1
  <2>2. \A j \in 1..(i - 1) : Passed(j) => Passed(j)'
    <3>1. \A j \in 1..(i - 1) : j \in DOMAIN actions
      BY <1>1
    <3> QED BY <1>2, <3>1
  <2>3. i \in Waiting' => i \in Waiting
    BY <2>1 DEF Waiting
  <2> QED BY <2>1, <2>2, <2>3 DEF ActionOK
<1>4. \A j \in 1..(n - 1) : j \in DOMAIN actions
  BY <1>1
<1> QED BY <1>2, <1>3, <1>4

LEMMA LeaseNextKept == ASSUME QueueOK, LeaseNext PROVE QueueOK'
<1>1. PICK n \in Waiting :
         /\ \A j \in Waiting : n <= j
         /\ leased' = n
         /\ Change([actions EXCEPT ![n].attempts = @ + 1, ![n].status = "IN_FLIGHT"], "saveLease")
  BY DEF LeaseNext
<1>2. /\ QueueTyped /\ Len(actions) \in Nat /\ DOMAIN actions = 1..Len(actions) /\ 0 \notin DOMAIN actions
      /\ \A i \in DOMAIN actions : ActionOK(i) /\ actions[i] \in QueuedAction /\ sends[i] \in Nat
  BY QueueNumbers DEF QueueOK
<1>3. /\ appStep' = "saveLease" /\ file' = <<>> /\ leased = 0 /\ sends' = sends /\ cutOff' = cutOff
      /\ promised' = promised
      /\ actions' = [actions EXCEPT ![n].attempts = @ + 1, ![n].status = "IN_FLIGHT"]
  BY <1>1 DEF QueueOK, FileOK, LeaseNext, Change
<1>4. n \in DOMAIN actions /\ actions[n].status \in {"PENDING", "RETRY_SCHEDULED"}
  BY DEF Waiting
<1>5. PICK a : a = actions'[n]
  OBVIOUS
<1>6. /\ a \in QueuedAction /\ a.idempotencyKey = actions[n].idempotencyKey
      /\ a.attempts = actions[n].attempts + 1 /\ a.status = "IN_FLIGHT"
      /\ DOMAIN actions' = DOMAIN actions /\ \A i \in DOMAIN actions \ {n} : actions'[i] = actions[i]
  <2>1. PICK b : b = actions[n]
    OBVIOUS
  <2>2. a = [b EXCEPT !.attempts = @ + 1, !.status = "IN_FLIGHT"]
    BY <1>3, <1>4, <1>5, <2>1
  <2>3. b \in QueuedAction
    BY <1>2, <1>4, <2>1
  <2>4. /\ a \in QueuedAction /\ a.idempotencyKey = b.idempotencyKey
        /\ a.attempts = b.attempts + 1 /\ a.status = "IN_FLIGHT"
    <3>1. b = [idempotencyKey |-> b.idempotencyKey, attempts |-> b.attempts, status |-> b.status]
      BY <2>3 DEF QueuedAction
    <3>2. a = [idempotencyKey |-> b.idempotencyKey, attempts |-> b.attempts + 1, status |-> "IN_FLIGHT"]
      BY <2>2, <3>1
    <3>3. b.idempotencyKey \in Intents /\ b.attempts + 1 \in Nat
      BY <2>3 DEF QueuedAction
    <3> QED BY <3>2, <3>3 DEF QueuedAction, Statuses
  <2>5. DOMAIN actions' = DOMAIN actions /\ \A i \in DOMAIN actions \ {n} : actions'[i] = actions[i]
    BY <1>2, <1>3, <1>4
  <2> QED BY <2>1, <2>4, <2>5
<1>7. QueueTyped' /\ IntentsOK'
  <2>1. actions' \in [DOMAIN actions -> QueuedAction]
    <3>1. \A i \in DOMAIN actions : actions'[i] \in QueuedAction
      BY <1>2, <1>5, <1>6
    <3> QED BY <1>2, <1>3, <3>1
  <2>2. sends' \in [1..MaxEnqueued -> Nat] /\ cutOff' \subseteq DOMAIN actions
    BY <1>2, <1>3 DEF QueueTyped
  <2> QED BY <1>3, <1>4, <1>5, <1>6, <2>1, <2>2, OneChanged
<1>8. FileOK'
  BY <1>1, <1>3, <1>4, <1>6 DEF FileOK
<1>9. /\ \A i \in DOMAIN actions \ {n} : ActionOK(i)'
      /\ \A j \in 1..(n - 1) : Passed(j) => Passed(j)'
  <2>1. Passed(n) => Passed(n)'
    BY <1>3, <1>4 DEF Passed
  <2> QED BY <1>1, <1>3, <1>4, <1>6, <2>1, OthersStay
<1>10. ActionOK(n)'
  <2>1. ActionOK(n) /\ sends[n] \in Nat /\ actions[n].attempts \in Nat
    BY <1>2, <1>4 DEF QueuedAction
  <2>2. n \in Waiting /\ maxAttempts \in Nat
    BY OfflineQueueAssumption
  <2>3. sends[n] < a.attempts /\ a.attempts <= maxAttempts
    BY <1>6, <2>1, <2>2 DEF ActionOK
  <2>4. ASSUME NEW j \in 1..(n - 1) PROVE Passed(j)
    <3>1. j \in DOMAIN actions /\ j < n /\ actions[j] \in QueuedAction /\ ActionOK(j)
      BY <1>2, <1>4
    <3>2. j \notin Waiting
      BY <1>1, <1>2, <1>4, <3>1
    <3>3. actions[j].status \in {"IN_FLIGHT", "SUCCEEDED", "FAILED"}
      BY <3>1, <3>2 DEF Waiting, QueuedAction, Statuses
    <3>4. j # leased
      BY <1>2, <1>3, <3>1
    <3> QED BY <3>1, <3>3, <3>4 DEF ActionOK, Passed
  <2>5. n \notin Waiting'
    BY <1>5, <1>6 DEF Waiting
  <2> QED BY <1>1, <1>3, <1>5, <1>6, <1>9, <2>1, <2>3, <2>4, <2>5 DEF ActionOK
<1> QED BY <1>6, <1>7, <1>8, <1>9, <1>10 DEF QueueOK

LEMMA SavedKept == ASSUME QueueOK, Saved PROVE QueueOK'
<1>1. /\ file' = actions /\ actions' = actions /\ leased' = leased /\ sends' = sends /\ cutOff' = cutOff
      /\ promised' = promised /\ appStep \in {"save", "saveLease"}
      /\ appStep' = IF appStep = "save" THEN "idle" ELSE "dispatch"
  BY DEF Saved
<1>2. FileOK'
  BY <1>1 DEF QueueOK, FileOK
<1>3. QueueTyped' /\ IntentsOK'
  BY <1>1 DEF QueueOK, QueueTyped, IntentsOK
<1>4. \A i \in DOMAIN actions' : ActionOK(i)'
  BY <1>1 DEF QueueOK, ActionOK, Waiting, Passed
<1> QED BY <1>2, <1>3, <1>4 DEF QueueOK


LEMMA CountsSendShape ==
    ASSUME QueueOK, CountsSend, leased \in DOMAIN actions
    PROVE  /\ sends' \in [1..MaxEnqueued -> Nat] /\ sends'[leased] = sends[leased] + 1
           /\ \A i \in 1..MaxEnqueued : i # leased => sends'[i] = sends[i]
<1>1. leased \in 1..MaxEnqueued /\ sends \in [1..MaxEnqueued -> Nat]
  BY QueueNumbers DEF QueueOK, QueueTyped
<1> QED BY <1>1 DEF CountsSend

LEMMA DispatchKept == ASSUME QueueOK, NEW delivered \in BOOLEAN, Dispatch(delivered) PROVE QueueOK'
<1> PICK n : n = leased
  OBVIOUS
<1> PICK result : result = IF delivered THEN "SUCCEEDED"
                           ELSE IF Retryable(actions[leased]) THEN "RETRY_SCHEDULED" ELSE "FAILED"
  OBVIOUS
<1>1. /\ appStep = "dispatch" /\ appStep' = "save" /\ file' = <<>> /\ leased' = 0 /\ cutOff' = cutOff
      /\ promised' = promised /\ CountsSend /\ n \in DOMAIN actions
      /\ actions' = [actions EXCEPT ![n].status = result]
  BY DEF QueueOK, FileOK, Dispatch, Change
<1>2. /\ QueueTyped /\ Len(actions) \in Nat /\ DOMAIN actions = 1..Len(actions) /\ 0 \notin DOMAIN actions
      /\ DOMAIN actions \subseteq 1..MaxEnqueued
      /\ \A i \in DOMAIN actions : ActionOK(i) /\ actions[i] \in QueuedAction /\ sends[i] \in Nat
  BY QueueNumbers DEF QueueOK
<1>3. result \in {"SUCCEEDED", "FAILED", "RETRY_SCHEDULED"}
  OBVIOUS
<1>4. PICK a : a = actions'[n]
  OBVIOUS
<1>5. /\ a \in QueuedAction /\ a.idempotencyKey = actions[n].idempotencyKey
      /\ a.attempts = actions[n].attempts /\ a.status = result
      /\ DOMAIN actions' = DOMAIN actions /\ \A i \in DOMAIN actions \ {n} : actions'[i] = actions[i]
  <2>1. PICK b : b = actions[n]
    OBVIOUS
  <2>2. a = [b EXCEPT !.status = result] /\ b \in QueuedAction
    BY <1>1, <1>2, <1>4, <2>1
  <2>3. a \in QueuedAction /\ a.idempotencyKey = b.idempotencyKey /\ a.attempts = b.attempts /\ a.status = result
    BY <1>3, <2>2 DEF QueuedAction, Statuses
  <2>4. DOMAIN actions' = DOMAIN actions /\ \A i \in DOMAIN actions \ {n} : actions'[i] = actions[i]
    BY <1>1, <1>2
  <2> QED BY <2>1, <2>3, <2>4
<1>6. /\ sends' \in [1..MaxEnqueued -> Nat] /\ sends'[n] = sends[n] + 1
      /\ \A i \in 1..MaxEnqueued : i # n => sends'[i] = sends[i]
  BY <1>1, CountsSendShape
<1>7. QueueTyped' /\ IntentsOK'
  <2>1. actions' \in [DOMAIN actions -> QueuedAction]
    <3>1. \A i \in DOMAIN actions : actions'[i] \in QueuedAction
      BY <1>2, <1>4, <1>5
    <3> QED BY <1>1, <1>2, <3>1
  <2>2. cutOff' \subseteq DOMAIN actions /\ cutOff \subseteq cutOff' /\ promised' = promised
    BY <1>1, <1>2 DEF QueueTyped
  <2> QED BY <1>1, <1>4, <1>5, <1>6, <2>1, <2>2, OneChanged
<1>8. FileOK'
  BY <1>1 DEF FileOK
<1>9. ActionOK(n) /\ sends[n] < actions[n].attempts /\ actions[n].status = "IN_FLIGHT"
  BY <1>1, <1>2 DEF ActionOK
<1>10. /\ \A i \in DOMAIN actions \ {n} : ActionOK(i)'
       /\ \A j \in 1..(n - 1) : Passed(j) => Passed(j)'
  <2>1. Passed(n) => Passed(n)'
    BY <1>1, <1>9 DEF Passed
  <2>2. \A i \in DOMAIN actions \ {n} : actions'[i] = actions[i] /\ sends'[i] = sends[i]
    BY <1>2, <1>5, <1>6
  <2>3. cutOff \subseteq cutOff' /\ leased \in {0, n} /\ leased' \in {0, n} /\ DOMAIN actions' = DOMAIN actions
    BY <1>1, <1>5
  <2> QED BY <1>1, <2>1, <2>2, <2>3, OthersStay
<1>11. ActionOK(n)'
  <2>1. sends'[n] <= actions'[n].attempts /\ actions'[n].attempts <= maxAttempts
    <3>1. sends[n] \in Nat /\ actions[n].attempts \in Nat /\ actions[n].attempts <= maxAttempts
      BY <1>1, <1>2, <1>9 DEF ActionOK, QueuedAction
    <3> QED BY <1>4, <1>5, <1>6, <1>9, <3>1
  <2>2. n \in Waiting' => actions'[n].attempts < maxAttempts
    BY <1>4, <1>5 DEF Waiting, Retryable
  <2>3. \A j \in 1..(n - 1) : Passed(j)'
    BY <1>9, <1>10 DEF ActionOK
  <2>4. actions'[n].status # "IN_FLIGHT" /\ n # leased'
    BY <1>1, <1>2, <1>3, <1>4, <1>5
  <2> QED BY <2>1, <2>2, <2>3, <2>4 DEF ActionOK
<1> QED BY <1>5, <1>7, <1>8, <1>10, <1>11 DEF QueueOK

\* The sending of an action is cut off.
LEMMA CutOff ==
    ASSUME QueueOK, appStep \in {"idle", "dispatch"},
           actions' = actions, file' = file, appStep' = "idle", leased' = 0, promised' = promised,
           cutOff' = IF leased # 0 THEN cutOff \cup {leased} ELSE cutOff,
           (leased # 0 /\ CountsSend) \/ sends' = sends
    PROVE  QueueOK'
<1>1. /\ QueueTyped /\ Len(actions) \in Nat /\ DOMAIN actions = 1..Len(actions) /\ 0 \notin DOMAIN actions
      /\ DOMAIN actions \subseteq 1..MaxEnqueued
      /\ \A i \in DOMAIN actions : ActionOK(i) /\ actions[i] \in QueuedAction /\ sends[i] \in Nat
  BY QueueNumbers DEF QueueOK
<1>2. leased \in DOMAIN actions \cup {0}
  BY DEF QueueOK, FileOK
<1>3. FileOK' /\ IntentsOK'
  BY DEF QueueOK, FileOK, IntentsOK
<1>4. /\ sends' \in [1..MaxEnqueued -> Nat]
      /\ \A i \in 1..MaxEnqueued : i # leased => sends'[i] = sends[i]
      /\ leased # 0 => sends'[leased] \in {sends[leased], sends[leased] + 1}
  BY <1>1, <1>2, CountsSendShape DEF QueueTyped
<1>5. QueueTyped'
  <2>1. \A i \in 1..MaxEnqueued : i > Len(actions) => i # leased
    BY <1>1, <1>2
  <2>2. \A i \in 1..MaxEnqueued : i > Len(actions) => sends'[i] = 0
    BY <1>1, <1>4, <2>1 DEF QueueTyped
  <2> QED BY <1>1, <1>2, <1>4, <2>2 DEF QueueTyped
<1>6. ASSUME NEW i \in DOMAIN actions PROVE ActionOK(i)'
  <2>1. ActionOK(i) /\ i # 0 /\ i \in 1..MaxEnqueued /\ sends[i] \in Nat /\ actions[i].attempts \in Nat
    BY <1>1 DEF QueuedAction
  <2>2. \A j : Passed(j) => Passed(j)'
    BY DEF Passed
  <2>3. sends'[i] <= actions[i].attempts
    <3>1. CASE i = leased
      BY <1>4, <2>1, <3>1 DEF ActionOK
    <3>2. CASE i # leased
      BY <1>4, <2>1, <3>2 DEF ActionOK
    <3> QED BY <3>1, <3>2
  <2>4. sends'[i] > 0 => i = leased \/ sends[i] > 0
    BY <1>4, <2>1
  <2>5. \A j \in 1..(i - 1) : i = leased \/ sends[i] > 0 => Passed(j)'
    BY <2>1, <2>2 DEF ActionOK
  <2>6. i \in Waiting' => i \in Waiting
    BY DEF Waiting
  <2>7. actions[i].status = "IN_FLIGHT" => i \in cutOff'
    BY <2>1 DEF ActionOK
  <2> QED BY <2>1, <2>3, <2>4, <2>5, <2>6, <2>7 DEF ActionOK
<1> QED BY <1>3, <1>5, <1>6 DEF QueueOK

LEMMA DispatchThrowsKept == ASSUME QueueOK, DispatchThrows PROVE QueueOK'
<1>1. /\ appStep = "dispatch" /\ actions' = actions /\ file' = file /\ appStep' = "idle" /\ leased' = 0
      /\ promised' = promised /\ CountsSend /\ cutOff' = cutOff \cup {leased}
  BY DEF DispatchThrows
<1>2. leased # 0
  BY <1>1, QueueNumbers DEF QueueOK, FileOK
<1> QED BY <1>1, <1>2, CutOff

\* A kill that does not tear the file finds the actions in it.
LEMMA KillKept == ASSUME ~torn, QueueOK, Kill, ~torn' PROVE QueueOK'
<1>1. /\ appStep' = "idle" /\ leased' = 0 /\ promised' = promised /\ actions' = file /\ file' = file
      /\ cutOff' = IF leased # 0 THEN cutOff \cup {leased} ELSE cutOff
      /\ (appStep = "dispatch" /\ CountsSend) \/ sends' = sends
      /\ appStep \in {"save", "saveLease"} => actions = <<>>
  BY DEF Kill
<1>2. QueueTyped /\ 0 \notin DOMAIN actions
  BY QueueNumbers DEF QueueOK
<1>3. CASE appStep \in {"idle", "dispatch"}
  <2>1. file = actions /\ (appStep = "dispatch" => leased # 0)
    BY <1>2, <1>3 DEF QueueOK, FileOK
  <2> QED BY <1>1, <1>3, <2>1, CutOff
<1>4. CASE appStep \in {"save", "saveLease"}
  <2>1. actions = <<>> /\ actions' = <<>> /\ file' = <<>> /\ leased = 0 /\ DOMAIN actions = {}
    BY <1>1, <1>4 DEF QueueOK, FileOK
  <2>2. sends' = sends /\ cutOff' = cutOff
    BY <1>1, <1>4, <2>1
  <2>3. QueueTyped' /\ IntentsOK' /\ DOMAIN actions' = {}
    BY <1>1, <2>1, <2>2 DEF QueueOK, QueueTyped, IntentsOK
  <2> QED BY <1>1, <2>1, <2>3 DEF QueueOK, FileOK
<1> QED BY <1>3, <1>4 DEF QueueOK, FileOK

LEMMA QueueKept == ASSUME QueueInv, [Next]_vars, part = "queue" PROVE QueueInv'
<1> SUFFICES ASSUME ~torn' PROVE QueueOK'
  BY DEF QueueInv
<1>1. CASE UNCHANGED vars
  <2>1. /\ actions' = actions /\ file' = file /\ appStep' = appStep /\ leased' = leased /\ torn' = torn
        /\ sends' = sends /\ cutOff' = cutOff /\ promised' = promised
    BY <1>1 DEF vars, offlineVars, queueVars
  <2>2. QueueOK
    BY <2>1 DEF QueueInv
  <2>3. QueueTyped' /\ FileOK' /\ IntentsOK'
    BY <2>1, <2>2 DEF QueueOK, QueueTyped, FileOK, IntentsOK
  <2>4. \A i \in DOMAIN actions' : ActionOK(i)'
    BY <2>1, <2>2 DEF QueueOK, ActionOK, Waiting, Passed
  <2> QED BY <2>3, <2>4 DEF QueueOK
<1>2. CASE OfflineQueueNext
  <2>1. ~torn /\ QueueOK
    BY <1>2 DEF OfflineQueueNext, Enqueue, LeaseNext, Saved, Dispatch, DispatchThrows, Kill, Change, QueueInv
  <2> QED BY <1>2, <2>1, EnqueueKept, LeaseNextKept, SavedKept, DispatchKept, DispatchThrowsKept, KillKept
          DEF OfflineQueueNext
<1> QED BY <1>1, <1>2, QueueSteps

LEMMA QueueInvInit == Init => QueueInv
<1> SUFFICES ASSUME Init PROVE QueueOK
  BY DEF QueueInv
<1>1. /\ actions = <<>> /\ file = <<>> /\ appStep = "idle" /\ leased = 0
      /\ sends = [i \in 1..MaxEnqueued |-> 0] /\ cutOff = {} /\ promised = {}
  BY DEF Init, OfflineQueueInit
<1>2. actions \in Seq(QueuedAction) /\ DOMAIN actions = {} /\ Len(actions) = 0
  BY <1>1, EmptySeq
<1>3. QueueTyped
  BY <1>1, <1>2, OfflineQueueAssumption DEF QueueTyped
<1> QED BY <1>1, <1>2, <1>3 DEF QueueOK, FileOK, IntentsOK

LEMMA QueueLeftAlone == ASSUME QueueInv, [Next]_vars, part # "queue" PROVE QueueInv'
<1>1. UNCHANGED queueVars
  BY SessionsLeave, AppsLeave, OthersLeave DEF offlineVars
<1>2. /\ actions' = actions /\ file' = file /\ appStep' = appStep /\ leased' = leased /\ torn' = torn
      /\ sends' = sends /\ cutOff' = cutOff /\ promised' = promised
  BY <1>1 DEF queueVars
<1>3. QueueOK => QueueTyped' /\ FileOK' /\ IntentsOK'
  BY <1>2 DEF QueueOK, QueueTyped, FileOK, IntentsOK
<1>4. QueueOK => \A i \in DOMAIN actions' : ActionOK(i)'
  BY <1>2 DEF QueueOK, ActionOK, Waiting, Passed
<1> QED BY <1>2, <1>3, <1>4 DEF QueueInv, QueueOK

\* Unless a kill tore the file, every intent the app was answered for is in the
\* queue, and once; an action is sent at most as often as the policy says, for
\* the first time after all before it are settled or were cut off; it is in flight
\* only while it is leased or when it was cut off; and an idle app's file has its
\* actions: for any intents, any policy that tries at least once, and any kills.
THEOREM QueueKeepsWhatItTook == Spec => []QueueKeepsItsWord
<1>1. Init => QueueInv
  BY QueueInvInit
<1>2. QueueInv /\ [Next]_vars => QueueInv'
  BY QueueKept, QueueLeftAlone
<1>3. QueueInv => QueueKeepsItsWord
  <2> SUFFICES ASSUME QueueOK PROVE QueueKeepsItsWord
    BY DEF QueueInv, QueueKeepsItsWord
  <2>1. ASSUME NEW i \in DOMAIN actions
        PROVE  /\ sends[i] <= maxAttempts
               /\ actions[i].status = "IN_FLIGHT" => i = leased \/ i \in cutOff
               /\ sends[i] > 0 => \A j \in 1..(i - 1) :
                     actions[j].status \in {"SUCCEEDED", "FAILED"} \/ j \in cutOff
    <3>1. ActionOK(i) /\ sends[i] \in Nat /\ actions[i].attempts \in Nat
      BY QueueNumbers DEF QueueOK, QueuedAction
    <3>2. sends[i] <= maxAttempts
      BY <3>1, OfflineQueueAssumption DEF ActionOK
    <3> QED BY <3>1, <3>2 DEF ActionOK, Passed
  <2> QED BY <2>1 DEF QueueOK, IntentsOK, FileOK, QueueKeepsItsWord
<1> QED BY <1>1, <1>2, <1>3, PTL DEF Spec
=============================================================================
