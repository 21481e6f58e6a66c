-------------------------- MODULE ServiceProofs ---------------------------
(***************************************************************************)
(* Proofs about the storefront (opening hours, menus, browsing, delivery   *)
(* zones, prices, ordering), the telemetry trackers and the dispatch       *)
(* engine, for any stores, baskets, zones, observations and restarts.      *)
(***************************************************************************)
EXTENDS MCFrontDoor, FiniteSetTheorems, SequenceTheorems, TLAPS

-----------------------------------------------------------------------------
(* The parts.                                                                *)

LEMMA EngineSteps ==
    ASSUME [Next]_vars
    PROVE  \/ part = "engine" /\ EngineNext /\ UNCHANGED telemetryVars
           \/ part = "telemetry" /\ TelemetryNext /\ UNCHANGED engineVars
           \/ UNCHANGED dispatchEngineVars
BY DEF Next, ApiNext, ServiceNext, OnlyApi, OnlyStorefront, OnlyZones, OnlyDispatch, OnlyQueue, NoApi,
       vars, dispatchEngineVars, telemetryVars, engineVars

LEMMA StorefrontSteps ==
    ASSUME [Next]_vars
    PROVE  \/ part = "menus" /\ MenusNext /\ UNCHANGED statusVars
           \/ part = "hours" /\ HoursNext /\ UNCHANGED menuVars
           \/ part # "menus" /\ UNCHANGED <<menuVars, statusVars>>
           \/ UNCHANGED <<handlerVars, menuVars, statusVars>>
BY DEF Next, ApiNext, ServiceNext, OnlyApi, OnlyStorefront, OnlyZones, OnlyDispatch, OnlyQueue, NoApi,
       vars, storefrontVars, menuVars, statusVars

LEMMA PartStays == ASSUME [Next]_vars PROVE part' = part
<1> USE DEF Begin, BeginBeside, Continue, Await, Answer, Restart, Goes, handlerVars
<1>1. IdentityNext => part' = part
  BY DEF IdentityNext, Register, FindsEmail, FindsPhone, SavesUser, AnnouncesUser, SessionsRestart
<1>2. SessionsNext => part' = part
  BY DEF SessionsNext, Login, Refresh, RevokesOne, Authenticates, GetsRecord, ReadsToMark, MarksUsed,
         FindsById, SavesSession, AnswersSession, ListsFamily, Expires, SessionsRestart
<1>3. AppSessionsNext => part' = part
  BY DEF AppSessionsNext, AppSessionExpires, BffRestart
<1>4. MenusNext => part' = part
  BY DEF MenusNext, CreateMenu, UpdateMenu, FindsMenu, SavesMenu
<1>5. HoursNext => part' = part
  BY DEF HoursNext, SetStatus, EvaluateOrderability
<1>6. OrderingNext => part' = part
  BY DEF OrderingNext, SetAvailability, CreateBasket, UpdateBasket, GenerateQuote, CreateCheckout,
         CreateOrder, ChecksItem, SavesBasket, SavesQuote, SavesCheckout, SavesOrder
<1>7. ZonesNext => part' = part
  BY DEF ZonesNext, upsertZone
<1>8. EngineNext \/ TelemetryNext => part' = part
  BY DEF EngineNext, ReceiveDispatch, Decide, TelemetryNext, TelemetryRestart
<1>9. OfflineQueueNext => part' = part
  BY DEF OfflineQueueNext
<1> HIDE DEF Begin, BeginBeside, Continue, Await, Answer, Restart, Goes
<1> QED BY <1>1, <1>2, <1>3, <1>4, <1>5, <1>6, <1>7, <1>8, <1>9 DEF Next, ApiNext, ServiceNext, vars

-----------------------------------------------------------------------------
(* Numbers and finite sets.                                                  *)

\* The naturals are well founded.
LEMMA LeastExists == ASSUME NEW T \in SUBSET Nat, T # {} PROVE \E n \in T : \A m \in T : n <= m
<1> DEFINE Lower == {ss \in Nat \X Nat : ss[1] < ss[2]}
<1>1. IsWellFoundedOn(Lower, Nat)
  BY NatLessThanWellFounded DEF OpToRel
<1>2. PICK n \in T : \A m \in T : <<m, n>> \notin Lower
  <2> HIDE DEF Lower
  <2> QED BY <1>1, WFMin
<1>3. \A m \in T : ~(m < n)
  BY <1>2
<1> QED BY <1>3

\* A family of subsets of a finite set that is closed under adding an element.
LEMMA FiniteInduct ==
    ASSUME NEW S, IsFiniteSet(S), NEW B, {} \in B,
           \A T \in SUBSET S : \A x \in S \ T : T \in B => T \cup {x} \in B
    PROVE  S \in B
<1> SUFFICES ASSUME S \notin B PROVE FALSE
  OBVIOUS
<1> DEFINE Bad == (SUBSET S) \ B
           Sizes == {Cardinality(T) : T \in Bad}
<1>1. \A T \in SUBSET S : IsFiniteSet(T) /\ Cardinality(T) \in Nat
  BY FS_Subset, FS_CardinalityType
<1>2. Sizes \in SUBSET Nat /\ Sizes # {}
  BY <1>1
<1>3. PICK n \in Sizes : \A m \in Sizes : n <= m
  <2> HIDE DEF Sizes
  <2> QED BY <1>2, LeastExists
<1>4. PICK T \in Bad : n = Cardinality(T)
  BY <1>3
<1>5. PICK x \in T : TRUE
  BY <1>4
<1>6. T \ {x} \in SUBSET S /\ x \in S \ (T \ {x}) /\ (T \ {x}) \cup {x} = T
  BY <1>4, <1>5
<1>7. Cardinality(T \ {x}) = n - 1 /\ n \in Nat
  BY <1>1, <1>4, <1>5, FS_RemoveElement
<1>8. T \ {x} \in B
  <2> SUFFICES ASSUME T \ {x} \notin B PROVE FALSE
    OBVIOUS
  <2>1. Cardinality(T \ {x}) \in Sizes
    BY <1>6
  <2>2. n <= n - 1
    BY <1>3, <1>7, <2>1
  <2> QED BY <1>7, <2>2
<1> QED BY <1>4, <1>6, <1>8

\* g sums f over every subset of S.
Adds(f, S, g) ==
    /\ g \in [SUBSET S -> Int] /\ g[{}] = 0
    /\ \A T \in SUBSET S : \A x \in T : g[T] = f[x] + g[T \ {x}]

LEMMA AddsExists == ASSUME NEW S, IsFiniteSet(S), NEW f \in [S -> Int] PROVE \E g : Adds(f, S, g)
<1> DEFINE B == {T \in SUBSET S : \E g : Adds(f, T, g)}
<1>1. {} \in B
  <2> DEFINE g == [T \in SUBSET {} |-> 0]
  <2>1. Adds(f, {}, g)
    BY DEF Adds
  <2> QED BY <2>1
<1>2. ASSUME NEW T \in SUBSET S, NEW x \in S \ T, T \in B PROVE T \cup {x} \in B
  <2>1. PICK h : Adds(f, T, h)
    BY <1>2
  <2> DEFINE g == [U \in SUBSET (T \cup {x}) |-> IF x \in U THEN f[x] + h[U \ {x}] ELSE h[U]]
  <2>2. f[x] \in Int /\ \A U \in SUBSET T : h[U] \in Int
    BY <2>1 DEF Adds
  <2>3. \A U \in SUBSET (T \cup {x}) : U \ {x} \in SUBSET T /\ (x \notin U => U \in SUBSET T)
    OBVIOUS
  <2>4. g \in [SUBSET (T \cup {x}) -> Int]
    BY <2>2, <2>3
  <2>5. g[{}] = 0
    BY <2>1 DEF Adds
  <2>6. ASSUME NEW U \in SUBSET (T \cup {x}), NEW y \in U PROVE g[U] = f[y] + g[U \ {y}]
    <3>1. CASE y = x
      <4>1. g[U] = f[x] + h[U \ {x}] /\ g[U \ {x}] = h[U \ {x}]
        BY <3>1
      <4> QED BY <3>1, <4>1
    <3>2. CASE y # x /\ x \in U
      <4>1. g[U] = f[x] + h[U \ {x}] /\ g[U \ {y}] = f[x] + h[(U \ {y}) \ {x}]
        BY <3>2
      <4>2. h[U \ {x}] = f[y] + h[(U \ {x}) \ {y}]
        BY <2>1, <2>3, <3>2 DEF Adds
      <4>3. (U \ {x}) \ {y} = (U \ {y}) \ {x} /\ (U \ {y}) \ {x} \in SUBSET T
        OBVIOUS
      <4>4. f[y] \in Int /\ h[(U \ {y}) \ {x}] \in Int
        BY <2>2, <3>2, <4>3
      <4>5. h[U \ {x}] = f[y] + h[(U \ {y}) \ {x}]
        BY <4>2, <4>3
      <4>6. f[x] \in Int
        BY <2>2
      <4>7. \A i, j, k \in Int : i + (j + k) = j + (i + k)
        OBVIOUS
      <4>8. f[x] + (f[y] + h[(U \ {y}) \ {x}]) = f[y] + (f[x] + h[(U \ {y}) \ {x}])
        BY <4>4, <4>6, <4>7
      <4> HIDE DEF g
      <4> QED BY <4>1, <4>5, <4>8
    <3>3. CASE y # x /\ x \notin U
      <4>1. g[U] = h[U] /\ g[U \ {y}] = h[U \ {y}]
        BY <3>3
      <4>2. h[U] = f[y] + h[U \ {y}]
        BY <2>1, <2>3, <3>3 DEF Adds
      <4> QED BY <4>1, <4>2
    <3> QED BY <3>1, <3>2, <3>3
  <2>7. Adds(f, T \cup {x}, g)
    <3> HIDE DEF g
    <3> QED BY <2>4, <2>5, <2>6 DEF Adds
  <2> HIDE DEF g
  <2> QED BY <2>7
<1> HIDE DEF B
<1>3. S \in B
  BY <1>1, <1>2, FiniteInduct
<1> QED BY <1>3 DEF B

-----------------------------------------------------------------------------
(* Opening hours.                                                            *)

HoursInv ==
    /\ storeStatus # Null => storeStatus \in [paused : BOOLEAN, open : DayTimes, close : DayTimes]
    /\ OpenInHours

\* Around the clock, a minute is as far from opening as closing is at most.
LEMMA AroundTheClock ==
    ASSUME NEW open \in Nat, open <= 1439, NEW close \in Nat, close <= 1439, NEW at \in Nat, at <= 1439
    PROVE  (IF open <= close THEN open <= at /\ at <= close ELSE open <= at \/ at <= close)
              <=> (at - open) % 1440 <= (close - open) % 1440
<1>1. \A x \in Nat : x <= 1439 => (x - open) % 1440 = IF open <= x THEN x - open ELSE x - open + 1440
  OBVIOUS
<1> QED BY <1>1

LEMMA DayTimesAreMinutes == \A x \in DayTimes : x \in Nat /\ x <= 1439
<1>1. DayTimes \subseteq 0..1439
  BY StorefrontAssumption
<1>2. \A x \in 0..1439 : x \in Nat /\ x <= 1439
  OBVIOUS
<1> QED BY <1>1, <1>2

LEMMA HoursKept == ASSUME HoursInv, [Next]_vars PROVE HoursInv'
<1>1. ASSUME NEW paused \in BOOLEAN, NEW open \in DayTimes, NEW close \in DayTimes,
             SetStatus(paused, open, close)
      PROVE  HoursInv'
  BY <1>1 DEF SetStatus, HoursInv, OpenInHours
<1>2. ASSUME NEW at \in DayTimes, EvaluateOrderability(at) PROVE HoursInv'
  <2>1. storeStatus' = storeStatus /\ orderability'.at = at /\ orderability'.status = storeStatus
    BY <1>2 DEF EvaluateOrderability
  <2>2. CASE storeStatus = Null
    BY <1>2, <2>1, <2>2 DEF EvaluateOrderability, HoursInv, OpenInHours
  <2>3. CASE storeStatus # Null /\ storeStatus.paused
    BY <1>2, <2>1, <2>3 DEF EvaluateOrderability, HoursInv, OpenInHours
  <2>4. CASE storeStatus # Null /\ ~storeStatus.paused
    <3>1. orderability'.reason = "OK" <=> WithinHours(storeStatus, at)
      BY <1>2, <2>4 DEF EvaluateOrderability
    <3>2. storeStatus.open \in DayTimes /\ storeStatus.close \in DayTimes
      BY <2>4 DEF HoursInv
    <3>3. PICK open \in Nat, close \in Nat :
             /\ open = storeStatus.open /\ open <= 1439
             /\ close = storeStatus.close /\ close <= 1439
      BY <3>2, DayTimesAreMinutes
    <3>4. (IF open <= close THEN open <= at /\ at <= close ELSE open <= at \/ at <= close)
              <=> (at - open) % 1440 <= (close - open) % 1440
      BY <3>3, AroundTheClock, DayTimesAreMinutes
    <3>5. WithinHours(storeStatus, at) <=>
             (at - storeStatus.open) % 1440 <= (storeStatus.close - storeStatus.open) % 1440
      BY <3>3, <3>4 DEF WithinHours
    <3> QED BY <2>1, <2>4, <3>1, <3>5 DEF HoursInv, OpenInHours
  <2> QED BY <2>2, <2>3, <2>4
<1>3. CASE UNCHANGED statusVars
  BY <1>3 DEF statusVars, HoursInv, OpenInHours
<1>4. HoursNext \/ UNCHANGED statusVars
  BY StorefrontSteps
<1> QED BY <1>1, <1>2, <1>3, <1>4 DEF HoursNext

\* At every moment the last answer of evaluateOrderability is right around the
\* clock: orderable between opening and closing, also past midnight, and never
\* while paused.
THEOREM StoresOpenInHours == Spec => []OpenInHours
<1>1. Init => HoursInv
  BY DEF Init, StorefrontInit, HoursInv, OpenInHours
<1>2. HoursInv => OpenInHours
  BY DEF HoursInv
<1> QED BY <1>1, <1>2, HoursKept, PTL DEF Spec

-----------------------------------------------------------------------------
(* Menus.                                                                    *)

MenuVersion == [version : Nat, items : Dishes]
MenuCall ==
    [phase : {"findMenu"}, subject : Menus, items : Dishes]
    \cup [phase : {"saveMenu"}, subject : Menus, updated : MenuRecord]

Numbered(menu) ==
    /\ menu.versions # <<>> /\ menu.currentVersion = Len(menu.versions)
    /\ \A i \in DOMAIN menu.versions : menu.versions[i].version = i

\* The versions of a menu are versions of the other one, at the same places.
Continues(updated, menu) ==
    \A i \in DOMAIN menu.versions :
        i \in DOMAIN updated.versions /\ updated.versions[i] = menu.versions[i]

Listed(v, menu) == v.version \in DOMAIN menu.versions /\ menu.versions[v.version] = v

\* What an update is about to save continues the stored menu, unless another
\* update of the menu ran beside it.
UpdateOK(s) ==
    /\ menus[call[s].subject] # Null
    /\ Numbered(call[s].updated)
    /\ call[s].subject \notin overlapped => Continues(call[s].updated, menus[call[s].subject])

MenuOK(m) ==
    /\ menus[m] = Null => updatesAnswered[m] = {}
    /\ menus[m] # Null => Numbered(menus[m])
    /\ menus[m] # Null /\ m \notin overlapped => \A v \in updatesAnswered[m] : Listed(v, menus[m])

MenusTyped ==
    /\ menus \in [Menus -> MenuRecord \cup {Null}]
    /\ updatesAnswered \in [Menus -> SUBSET MenuVersion]
    /\ latestStamp \in Nat
    /\ call \in [Slots -> MenuCall \cup {Idle}]

\* Two updates of one menu have met.
UpdatesMet ==
    \A s, t \in Slots :
        s # t /\ call[s] # Idle /\ call[t] # Idle /\ call[s].subject = call[t].subject
            => call[s].subject \in overlapped

MenusInv ==
    /\ MenusTyped
    /\ UpdatesMet
    /\ \A m \in Menus : MenuOK(m)
    /\ \A s \in Slots : At(s, "saveMenu") => UpdateOK(s)

LEMMA StampsAreNumbers == latestStamp \in Nat => Stamp \subseteq Nat
BY DEF Stamp

\* A menu with one version more continues the one it was read from.
LEMMA NextVersion ==
    ASSUME NEW menu \in MenuRecord, Numbered(menu), NEW items \in Dishes, NEW at \in Nat, NEW updated,
           updated = [currentVersion |-> menu.currentVersion + 1,
                      versions |-> Append(menu.versions, Version(menu.currentVersion + 1, items)),
                      updatedAt |-> at]
    PROVE  updated \in MenuRecord /\ Numbered(updated) /\ Continues(updated, menu)
<1> DEFINE v == Version(menu.currentVersion + 1, items)
           longer == Append(menu.versions, v)
<1>1. menu.versions \in Seq(MenuVersion) /\ menu.currentVersion = Len(menu.versions) /\ v \in MenuVersion
      /\ v.version = menu.currentVersion + 1
  BY DEF MenuRecord, MenuVersion, Numbered, Version
<1> HIDE DEF v
<1>2. /\ longer \in Seq(MenuVersion) /\ Len(longer) = Len(menu.versions) + 1 /\ Len(menu.versions) \in Nat
      /\ DOMAIN longer = 1..(Len(menu.versions) + 1) /\ DOMAIN menu.versions = 1..Len(menu.versions)
      /\ \A i \in 1..Len(menu.versions) : longer[i] = menu.versions[i]
      /\ longer[Len(menu.versions) + 1] = v
  BY <1>1, AppendProperties, LenProperties
<1>3. updated.currentVersion = Len(longer) /\ updated.versions = longer /\ longer # <<>>
  BY <1>1, <1>2, EmptySeq DEF v
<1> HIDE DEF longer
<1>4. updated \in MenuRecord
  BY <1>1, <1>2, <1>3 DEF MenuRecord, MenuVersion, longer, v
<1>5. \A i \in DOMAIN longer : longer[i].version = i
  <2> SUFFICES ASSUME NEW i \in DOMAIN longer PROVE longer[i].version = i
    OBVIOUS
  <2>1. CASE i \in DOMAIN menu.versions
    BY <1>2, <2>1 DEF Numbered
  <2>2. CASE i = Len(menu.versions) + 1
    BY <1>1, <1>2, <2>2
  <2> QED BY <1>2, <2>1, <2>2
<1>6. Numbered(updated)
  BY <1>3, <1>5 DEF Numbered
<1>7. Continues(updated, menu)
  BY <1>2, <1>3 DEF Continues
<1> QED BY <1>3, <1>4, <1>6, <1>7

LEMMA CreateMenuKept ==
    ASSUME MenusInv, NEW m \in Menus, NEW items \in Dishes, CreateMenu(m, items) PROVE MenusInv'
<1>1. PICK at \in Stamp : latestStamp' = at /\
         menus' = [menus EXCEPT ![m] = [currentVersion |-> 1, versions |-> <<Version(1, items)>>,
                                        updatedAt |-> at]]
  BY DEF CreateMenu
<1>2. menus[m] = Null /\ updatesAnswered' = updatesAnswered /\ call' = call /\ overlapped' = overlapped
  BY DEF CreateMenu, handlerVars
<1>3. PICK first : first = [currentVersion |-> 1, versions |-> <<Version(1, items)>>, updatedAt |-> at]
  OBVIOUS
<1>4. at \in Nat
  BY <1>1, StampsAreNumbers DEF MenusInv, MenusTyped
<1>5. first \in MenuRecord /\ Numbered(first)
  BY <1>3, <1>4 DEF MenuRecord, Numbered, Version
<1>6. /\ menus' \in [Menus -> MenuRecord \cup {Null}] /\ menus'[m] = first
      /\ \A k \in Menus : k # m => menus'[k] = menus[k]
  BY <1>1, <1>3, <1>5 DEF MenusInv, MenusTyped
<1>7. MenusTyped'
  BY <1>1, <1>2, <1>4, <1>6 DEF MenusInv, MenusTyped
<1>8. \A k \in Menus : MenuOK(k)'
  <2> SUFFICES ASSUME NEW k \in Menus PROVE MenuOK(k)'
    OBVIOUS
  <2>1. MenuOK(k)
    BY DEF MenusInv
  <2>2. CASE k = m
    BY <1>2, <1>5, <1>6, <2>1, <2>2 DEF MenuOK
  <2>3. CASE k # m
    BY <1>2, <1>6, <2>1, <2>3 DEF MenuOK
  <2> QED BY <2>2, <2>3
<1>9. ASSUME NEW s \in Slots, At(s, "saveMenu")' PROVE UpdateOK(s)'
  <2>1. At(s, "saveMenu") /\ UpdateOK(s)
    BY <1>2, <1>9 DEF MenusInv, At
  <2>2. call[s].subject \in Menus /\ call[s].subject # m
    BY <1>2, <2>1 DEF MenusInv, MenusTyped, MenuCall, At, UpdateOK
  <2> QED BY <1>2, <1>6, <2>1, <2>2 DEF UpdateOK
<1>10. UpdatesMet'
  BY <1>2 DEF MenusInv, UpdatesMet
<1> QED BY <1>7, <1>8, <1>9, <1>10 DEF MenusInv

\* A handler goes on, or ends, and the menus stay as they are.
LEMMA UpdateGoesOn ==
    ASSUME MenusInv, NEW s \in Slots, call[s] # Idle, NEW h \in MenuCall \cup {Idle}, Continue(s, h),
           h # Idle => h.subject = call[s].subject,
           h # Idle /\ h.phase = "saveMenu" =>
              /\ menus[h.subject] # Null /\ Numbered(h.updated)
              /\ h.subject \notin overlapped => Continues(h.updated, menus[h.subject]),
           menus' = menus, updatesAnswered' = updatesAnswered, latestStamp' \in Nat
    PROVE  MenusInv'
<1>1. /\ call' \in [Slots -> MenuCall \cup {Idle}] /\ call'[s] = h /\ overlapped' = overlapped
      /\ \A t \in Slots : t # s => call'[t] = call[t]
  BY DEF Continue, MenusInv, MenusTyped
<1>2. MenusTyped'
  BY <1>1 DEF MenusInv, MenusTyped
<1>3. \A t \in Slots : call'[t] # Idle => call[t] # Idle /\ call'[t].subject = call[t].subject
  BY <1>1
<1>4. UpdatesMet'
  BY <1>1, <1>3 DEF MenusInv, UpdatesMet
<1>5. \A m \in Menus : MenuOK(m)'
  BY <1>1 DEF MenusInv, MenuOK
<1>6. ASSUME NEW t \in Slots, At(t, "saveMenu")' PROVE UpdateOK(t)'
  <2>1. CASE t = s
    BY <1>1, <1>6, <2>1 DEF At, UpdateOK
  <2>2. CASE t # s
    BY <1>1, <1>6, <2>2 DEF At, UpdateOK, MenusInv
  <2> QED BY <2>1, <2>2
<1> QED BY <1>2, <1>4, <1>5, <1>6 DEF MenusInv

LEMMA UpdateMenuKept ==
    ASSUME MenusInv, NEW s \in Slots, NEW m \in Menus, NEW items \in Dishes, UpdateMenu(s, m, items)
    PROVE  MenusInv'
<1>1. PICK h : h = [phase |-> "findMenu", subject |-> m, items |-> items]
  OBVIOUS
<1>2. h \in MenuCall /\ h.subject = m /\ h.phase = "findMenu"
  BY <1>1 DEF MenuCall
<1>3. /\ call[s] = Idle /\ call' = [call EXCEPT ![s] = h]
      /\ overlapped' = IF Busy(m) THEN overlapped \cup {m} ELSE overlapped
      /\ menus' = menus /\ updatesAnswered' = updatesAnswered /\ latestStamp' = latestStamp
  BY <1>1, <1>2 DEF UpdateMenu, Begin, BeginBeside, menuVars
<1>4. /\ call' \in [Slots -> MenuCall \cup {Idle}] /\ call'[s] = h
      /\ \A t \in Slots : t # s => call'[t] = call[t]
  BY <1>2, <1>3 DEF MenusInv, MenusTyped
<1>5. MenusTyped'
  BY <1>3, <1>4 DEF MenusInv, MenusTyped
<1>6. overlapped \subseteq overlapped'
  BY <1>3
<1>7. UpdatesMet'
  <2> SUFFICES ASSUME NEW r \in Slots, NEW t \in Slots, r # t, call'[r] # Idle, call'[t] # Idle,
                      call'[r].subject = call'[t].subject
               PROVE  call'[r].subject \in overlapped'
    BY DEF UpdatesMet
  <2>1. CASE r # s /\ t # s
    BY <1>4, <1>6, <2>1 DEF MenusInv, UpdatesMet
  <2>2. CASE r = s \/ t = s
    BY <1>2, <1>3, <1>4, <2>2 DEF Busy
  <2> QED BY <2>1, <2>2
<1>8. \A k \in Menus : MenuOK(k)'
  BY <1>3, <1>6 DEF MenusInv, MenuOK
<1>9. ASSUME NEW t \in Slots, At(t, "saveMenu")' PROVE UpdateOK(t)'
  <2>1. t # s
    BY <1>2, <1>4, <1>9 DEF At
  <2> QED BY <1>3, <1>4, <1>6, <1>9, <2>1 DEF At, UpdateOK, MenusInv
<1> QED BY <1>5, <1>7, <1>8, <1>9 DEF MenusInv

LEMMA FindsMenuKept == ASSUME MenusInv, NEW s \in Slots, FindsMenu(s) PROVE MenusInv'
<1>1. /\ call[s] # Idle /\ call[s].phase = "findMenu"
      /\ menus' = menus /\ updatesAnswered' = updatesAnswered
  BY DEF FindsMenu, At
<1>2. call[s].subject \in Menus /\ call[s].items \in Dishes /\ latestStamp \in Nat
  BY <1>1 DEF MenusInv, MenusTyped, MenuCall
<1>3. PICK menu : menu = menus[call[s].subject]
  OBVIOUS
<1>4. CASE menu = Null
  <2>1. Continue(s, Idle) /\ latestStamp' = latestStamp
    BY <1>3, <1>4 DEF FindsMenu, Answer
  <2> QED BY <1>1, <1>2, <2>1, UpdateGoesOn
<1>5. CASE menu # Null
  <2>1. menu \in MenuRecord /\ Numbered(menu)
    BY <1>2, <1>3, <1>5 DEF MenusInv, MenusTyped, MenuOK
  <2>2. PICK at \in Stamp : latestStamp' = at /\
           Continue(s, [phase |-> "saveMenu", subject |-> call[s].subject,
                        updated |-> [currentVersion |-> menu.currentVersion + 1,
                                     versions |-> Append(menu.versions,
                                                    Version(menu.currentVersion + 1, call[s].items)),
                                     updatedAt |-> at]])
    BY <1>3, <1>5 DEF FindsMenu
  <2>3. at \in Nat /\ latestStamp' = at
    BY <1>2, <2>2, StampsAreNumbers
  <2>4. PICK updated :
           updated = [currentVersion |-> menu.currentVersion + 1,
                      versions |-> Append(menu.versions, Version(menu.currentVersion + 1, call[s].items)),
                      updatedAt |-> at]
    OBVIOUS
  <2>5. updated \in MenuRecord /\ Numbered(updated) /\ Continues(updated, menu)
    BY <1>2, <2>1, <2>3, <2>4, NextVersion
  <2>6. PICK h : h = [phase |-> "saveMenu", subject |-> call[s].subject, updated |-> updated]
    OBVIOUS
  <2>7. h \in MenuCall /\ h.subject = call[s].subject /\ h.updated = updated
    BY <1>2, <2>5, <2>6 DEF MenuCall
  <2>8. Continue(s, h)
    BY <2>2, <2>4, <2>6
  <2>9. menus[h.subject] # Null /\ Numbered(h.updated) /\ Continues(h.updated, menus[h.subject])
    BY <1>3, <1>5, <2>5, <2>7
  <2> QED BY <1>1, <2>3, <2>7, <2>8, <2>9, UpdateGoesOn
<1> QED BY <1>4, <1>5

LEMMA SavesMenuKept == ASSUME MenusInv, NEW s \in Slots, SavesMenu(s) PROVE MenusInv'
<1>1. PICK m, updated : m = call[s].subject /\ updated = call[s].updated
  OBVIOUS
<1>2. At(s, "saveMenu") /\ call[s] # Idle /\ call[s].phase = "saveMenu"
  BY DEF SavesMenu, At
<1>3. m \in Menus /\ updated \in MenuRecord
  BY <1>1, <1>2 DEF MenusInv, MenusTyped, MenuCall
<1>4. /\ menus[m] # Null /\ Numbered(updated) /\ updated.versions # <<>>
      /\ m \notin overlapped => Continues(updated, menus[m])
  BY <1>1, <1>2 DEF MenusInv, UpdateOK, Numbered
<1>5. PICK newest : newest = updated.versions[Len(updated.versions)]
  OBVIOUS
<1>6. newest \in MenuVersion /\ Listed(newest, updated)
  <2>1. updated.versions \in Seq(MenuVersion)
    BY <1>3 DEF MenuRecord, MenuVersion
  <2>2. Len(updated.versions) \in DOMAIN updated.versions
    BY <1>4, <2>1, LenProperties, EmptySeq
  <2>3. newest \in MenuVersion /\ newest.version = Len(updated.versions)
    BY <1>4, <1>5, <2>1, <2>2, ElementOfSeq, LenProperties DEF Numbered
  <2> QED BY <1>5, <2>2, <2>3 DEF Listed
<1>7. /\ menus' = [menus EXCEPT ![m] = updated]
      /\ updatesAnswered' = [updatesAnswered EXCEPT ![m] = @ \cup {newest}]
      /\ latestStamp' = latestStamp /\ call' = [call EXCEPT ![s] = Idle] /\ overlapped' = overlapped
  BY <1>1, <1>5 DEF SavesMenu, Answer, Continue
<1>8. /\ menus' \in [Menus -> MenuRecord \cup {Null}] /\ menus'[m] = updated
      /\ \A k \in Menus : k # m => menus'[k] = menus[k]
      /\ updatesAnswered' \in [Menus -> SUBSET MenuVersion]
      /\ updatesAnswered'[m] = updatesAnswered[m] \cup {newest}
      /\ \A k \in Menus : k # m => updatesAnswered'[k] = updatesAnswered[k]
      /\ call' \in [Slots -> MenuCall \cup {Idle}] /\ call'[s] = Idle
      /\ \A t \in Slots : t # s => call'[t] = call[t]
  BY <1>3, <1>6, <1>7 DEF MenusInv, MenusTyped
<1>9. updated # Null
  BY <1>3, StorefrontAssumption
<1>10. MenusTyped'
  BY <1>7, <1>8 DEF MenusInv, MenusTyped
<1>11. UpdatesMet'
  BY <1>7, <1>8 DEF MenusInv, UpdatesMet
<1>12. ASSUME NEW k \in Menus PROVE MenuOK(k)'
  <2>1. MenuOK(k)
    BY DEF MenusInv
  <2>2. CASE k # m
    BY <1>7, <1>8, <2>1, <2>2 DEF MenuOK
  <2>3. CASE k = m
    <3>1. ASSUME m \notin overlapped, NEW v \in updatesAnswered'[m] PROVE Listed(v, updated)
      <4>1. CASE v = newest
        BY <1>6, <4>1
      <4>2. CASE v # newest
        <5>1. Listed(v, menus[m])
          BY <1>4, <1>8, <2>1, <2>3, <3>1, <4>2 DEF MenuOK
        <5> QED BY <1>4, <3>1, <5>1 DEF Listed, Continues
      <4> QED BY <4>1, <4>2
    <3> QED BY <1>4, <1>7, <1>8, <1>9, <2>3, <3>1 DEF MenuOK
  <2> QED BY <2>2, <2>3
<1>13. ASSUME NEW t \in Slots, At(t, "saveMenu")' PROVE UpdateOK(t)'
  <2>1. t # s /\ call'[t] = call[t] /\ At(t, "saveMenu") /\ UpdateOK(t)
    BY <1>8, <1>13 DEF At, MenusInv
  <2>2. call[t].subject \in Menus
    BY <2>1 DEF MenusInv, MenusTyped, MenuCall, At
  <2>3. call[t].subject = m => m \in overlapped
    BY <1>1, <1>2, <2>1 DEF MenusInv, UpdatesMet, At
  <2>4. CASE call[t].subject = m
    BY <1>7, <1>8, <1>9, <2>1, <2>3, <2>4 DEF UpdateOK
  <2>5. CASE call[t].subject # m
    BY <1>7, <1>8, <2>1, <2>2, <2>5 DEF UpdateOK
  <2> QED BY <2>4, <2>5
<1> QED BY <1>10, <1>11, <1>12, <1>13 DEF MenusInv

LEMMA MenusKept == ASSUME MenusInv, part = "menus", [Next]_vars PROVE MenusInv'
<1>1. CASE Restart /\ UNCHANGED menuVars
  BY <1>1 DEF Restart, menuVars, MenusInv, MenusTyped, UpdatesMet, MenuOK, At
<1>2. CASE UNCHANGED <<handlerVars, menuVars>>
  BY <1>2 DEF handlerVars, menuVars, MenusInv, MenusTyped, UpdatesMet, MenuOK, At, UpdateOK
<1>3. MenusNext \/ UNCHANGED <<handlerVars, menuVars>>
  BY StorefrontSteps
<1> QED BY <1>1, <1>2, <1>3, CreateMenuKept, UpdateMenuKept, FindsMenuKept, SavesMenuKept DEF MenusNext

\* A behaviour about something else has no menus.
NoMenus == \A m \in Menus : menus[m] = Null

LEMMA NoMenusKept == ASSUME NoMenus, part # "menus", [Next]_vars PROVE NoMenus'
BY StorefrontSteps DEF NoMenus, menuVars

MenusOrNone == IF part = "menus" THEN MenusInv ELSE NoMenus

LEMMA InitMenus == Init => MenusOrNone
<1> SUFFICES ASSUME Init PROVE MenusOrNone
  OBVIOUS
<1>1. NoMenus /\ MenusTyped /\ \A m \in Menus : updatesAnswered[m] = {}
  BY DEF Init, HandlersInit, StorefrontInit, NoMenus, MenusTyped
<1>2. \A s \in Slots : call[s] = Idle
  BY DEF Init, HandlersInit
<1> QED BY <1>1, <1>2 DEF MenusOrNone, NoMenus, MenusInv, MenuOK, UpdatesMet, At

LEMMA NextMenus == ASSUME MenusOrNone, [Next]_vars PROVE MenusOrNone'
BY PartStays, MenusKept, NoMenusKept DEF MenusOrNone

LEMMA VersionsFollow == MenusOrNone => VersionsKept
BY DEF MenusOrNone, MenusInv, MenuOK, NoMenus, VersionsKept, Numbered, Listed

\* At every moment a menu's versions are numbered without a gap, and those its
\* merchant was answered with are there, unless two updates of the menu met.
THEOREM VersionsAreKept == Spec => []VersionsKept
BY InitMenus, NextMenus, VersionsFollow, PTL DEF Spec

-----------------------------------------------------------------------------
(* Browsing.                                                                 *)

\* Every nonempty set of places has a largest value, which a first place holds.
LEMMA FirstLargest ==
    ASSUME NEW n \in Nat, NEW u \in [1..n -> Nat], NEW T \in SUBSET (1..n), T # {}
    PROVE  \E i \in T : /\ \A j \in T : u[j] <= u[i]
                        /\ \A k \in T : (\A j \in T : u[j] <= u[k]) => i <= k
<1> DEFINE B == {U \in SUBSET T : U # {} => \E i \in U : \A j \in U : u[j] <= u[i]}
<1>1. T \in B
  <2>1. {} \in B
    OBVIOUS
  <2>2. ASSUME NEW U \in SUBSET T, NEW x \in T \ U, U \in B PROVE U \cup {x} \in B
    <3>1. u[x] \in Nat /\ \A j \in U : u[j] \in Nat
      OBVIOUS
    <3>2. CASE U = {}
      BY <3>1, <3>2
    <3>3. CASE U # {}
      <4>1. PICK i \in U : \A j \in U : u[j] <= u[i]
        BY <2>2, <3>3
      <4>2. CASE u[x] <= u[i]
        BY <3>1, <4>1, <4>2
      <4>3. CASE ~(u[x] <= u[i])
        BY <3>1, <4>1, <4>3
      <4> QED BY <4>2, <4>3
    <3> QED BY <3>2, <3>3
  <2>3. IsFiniteSet(T)
    <3>1. IsFiniteSet(1..n)
      BY FS_Interval
    <3> QED BY <3>1, FS_Subset
  <2> HIDE DEF B
  <2> QED BY <2>1, <2>2, <2>3, FiniteInduct
<1> DEFINE Largest == {i \in T : \A j \in T : u[j] <= u[i]}
<1>2. Largest \in SUBSET Nat /\ Largest # {}
  <2>1. T \subseteq Nat
    OBVIOUS
  <2> QED BY <1>1, <2>1
<1>3. \E i \in Largest : \A k \in Largest : i <= k
  <2> HIDE DEF Largest
  <2> QED BY <1>2, LeastExists
<1> QED BY <1>3

\* selectLatestMenuByStore, one menu after another, ends where the sort begins.
LEMMA DiscoveredIsViewed ==
    ASSUME NEW n \in Nat, n # 0, NEW list \in [1..n -> Menus],
           \A i \in 1..n : menus[list[i]].updatedAt \in Nat
    PROVE  Discovered(list) = Viewed(list) /\ \E i \in 1..n : Viewed(list) = list[i]
<1> DEFINE S == 1..n
           u == [i \in S |-> menus[list[i]].updatedAt]
           Largest(T) == {i \in T : \A j \in T : u[j] <= u[i]}
           First(T) == Min(Largest(T))
           Keeps(latest, m) == IF latest = Null \/ Supersedes(m, latest) THEN m ELSE latest
           Filled(h) == [T \in SUBSET S |-> IF T = {} THEN Null ELSE Keeps(h[T \ {Max(T)}], list[Max(T)])]
           iter == CHOOSE h : h = Filled(h)
           g == [T \in SUBSET S |-> IF T = {} THEN Null ELSE list[First(T)]]
<1>1. Discovered(list) = iter[S]
  BY DEF Discovered, FoldLeft, MapThenFoldSet
<1>2. u \in [S -> Nat]
  OBVIOUS
<1>3. ASSUME NEW T \in SUBSET S, T # {}
      PROVE  /\ First(T) \in T /\ (\A j \in T : u[j] <= u[First(T)])
             /\ \A k \in T : (\A j \in T : u[j] <= u[k]) => First(T) <= k
             /\ \A i \in T : (\A j \in T : u[j] <= u[i])
                            /\ (\A k \in T : (\A j \in T : u[j] <= u[k]) => i <= k) => First(T) = i
  <2>1. PICK i \in T : /\ \A j \in T : u[j] <= u[i]
                       /\ \A k \in T : (\A j \in T : u[j] <= u[k]) => i <= k
    <3> HIDE DEF u
    <3> QED BY <1>2, <1>3, FirstLargest
  <2>2. i \in Largest(T) /\ \A k \in Largest(T) : i <= k
    BY <2>1
  <2>3. First(T) \in Largest(T) /\ \A k \in Largest(T) : First(T) <= k
    <3> HIDE DEF Largest
    <3> QED BY <2>2 DEF Min
  <2>4. T \subseteq Nat
    OBVIOUS
  <2> HIDE DEF First, u
  <2>5. First(T) \in T /\ \A j \in T : u[j] <= u[First(T)]
    BY <2>3
  <2>6. \A k \in T : (\A j \in T : u[j] <= u[k]) => First(T) <= k
    BY <2>3
  <2>7. ASSUME NEW k \in T, \A j \in T : u[j] <= u[k],
               \A l \in T : (\A j \in T : u[j] <= u[l]) => k <= l
        PROVE  First(T) = k
    <3>1. First(T) <= k /\ k <= First(T)
      BY <2>5, <2>6, <2>7
    <3>2. First(T) \in Nat /\ k \in Nat
      BY <2>4, <2>5
    <3> QED BY <3>1, <3>2
  <2> QED BY <2>5, <2>6, <2>7
<1>4. ASSUME NEW T \in SUBSET S, T # {} PROVE Max(T) \in T /\ \A j \in T : j <= Max(T)
  <2> DEFINE Gaps == {n - i : i \in T}
  <2>1. Gaps \in SUBSET Nat /\ Gaps # {}
    <3>1. \A i \in T : n - i \in Nat
      OBVIOUS
    <3> QED BY <1>4, <3>1
  <2>2. PICK d \in Gaps : \A m \in Gaps : d <= m
    <3> HIDE DEF Gaps
    <3> QED BY <2>1, LeastExists
  <2>3. PICK m \in T : d = n - m
    BY <2>2
  <2>4. ASSUME NEW i \in T PROVE m >= i
    <3>1. n - i \in Gaps
      OBVIOUS
    <3>2. n - m <= n - i /\ m \in Nat /\ i \in Nat
      <4> HIDE DEF Gaps
      <4> QED BY <2>2, <2>3, <3>1
    <3> QED BY <3>2
  <2>5. \E x \in T : \A y \in T : x >= y
    BY <2>4
  <2>6. Max(T) \in T /\ \A y \in T : Max(T) >= y
    BY <2>5 DEF Max
  <2>7. T \subseteq Nat
    OBVIOUS
  <2> QED BY <2>6, <2>7
<1> HIDE DEF First, Largest
<1>5. ASSUME NEW T \in SUBSET S, T # {} PROVE g[T] = Keeps(g[T \ {Max(T)}], list[Max(T)])
  <2> DEFINE x == Max(T)
             R == T \ {x}
  <2>1. x \in T /\ (\A j \in T : j <= x) /\ R \in SUBSET S /\ x \in S
    BY <1>4, <1>5
  <2>2. \A j \in T : u[j] \in Nat /\ j \in Nat
    OBVIOUS
  <2> HIDE DEF x
  <2>3. CASE R = {}
    <3>1. T = {x}
      BY <2>1, <2>3
    <3>2. First(T) = x
      BY <1>3, <2>1, <3>1
    <3> QED BY <1>5, <2>3, <3>2 DEF x
  <2>4. CASE R # {}
    <3> DEFINE f == First(R)
    <3>1. f \in R /\ (\A j \in R : u[j] <= u[f])
          /\ \A k \in R : (\A j \in R : u[j] <= u[k]) => f <= k
      <4> HIDE DEF u, R
      <4> QED BY <1>3, <2>1, <2>4
    <3> HIDE DEF f
    <3>2. g[R] = list[f] /\ list[f] # Null
      <4>1. g[R] = list[f]
        BY <2>1, <2>4 DEF f
      <4>2. list[f] \in Menus
        BY <2>1, <3>1
      <4> QED BY <4>1, <4>2, StorefrontAssumption
    <3>3. g[T] = list[First(T)]
      BY <1>5
    <3>4. Supersedes(list[x], list[f]) <=> u[x] > u[f]
      BY <2>1, <3>1 DEF Supersedes
    <3>5. CASE u[x] > u[f]
      <4>1. \A j \in T : u[j] <= u[x]
        <5> HIDE DEF u
        <5> QED BY <2>1, <2>2, <3>1, <3>5
      <4>2. \A k \in T : (\A j \in T : u[j] <= u[k]) => x <= k
        <5> SUFFICES ASSUME NEW k \in T, \A j \in T : u[j] <= u[k], k # x PROVE FALSE
          BY <2>1, <2>2
        <5>1. k \in R /\ u[x] <= u[k] /\ u[k] <= u[f]
          BY <2>1, <3>1
        <5> HIDE DEF u
        <5> QED BY <2>1, <2>2, <3>1, <3>5, <5>1
      <4>3. First(T) = x
        <5> HIDE DEF u
        <5> QED BY <1>3, <1>5, <2>1, <4>1, <4>2
      <4> HIDE DEF g, u
      <4> QED BY <3>2, <3>3, <3>4, <3>5, <4>3 DEF x
    <3>6. CASE ~(u[x] > u[f])
      <4>1. f \in T /\ \A j \in T : u[j] <= u[f]
        <5> HIDE DEF u
        <5> QED BY <2>1, <2>2, <3>1, <3>6
      <4>2. \A k \in T : (\A j \in T : u[j] <= u[k]) => f <= k
        <5> SUFFICES ASSUME NEW k \in T, \A j \in T : u[j] <= u[k] PROVE f <= k
          OBVIOUS
        <5>1. CASE k = x
          BY <2>1, <4>1, <5>1
        <5>2. CASE k # x
          BY <3>1, <5>2
        <5> QED BY <5>1, <5>2
      <4>3. First(T) = f
        <5> HIDE DEF u
        <5> QED BY <1>3, <1>5, <4>1, <4>2
      <4> HIDE DEF g, u
      <4> QED BY <3>2, <3>3, <3>4, <3>6, <4>3 DEF x
    <3> QED BY <3>5, <3>6
  <2> QED BY <2>3, <2>4
<1> HIDE DEF Keeps, u
<1>6. g = Filled(g)
  <2>1. \A T \in SUBSET S : g[T] = IF T = {} THEN Null ELSE Keeps(g[T \ {Max(T)}], list[Max(T)])
    <3>1. g[{}] = Null
      OBVIOUS
    <3> HIDE DEF g
    <3> QED BY <1>5, <3>1
  <2>2. g = [T \in SUBSET S |-> g[T]]
    OBVIOUS
  <2> HIDE DEF g
  <2> QED BY <2>1, <2>2
<1>7. iter = Filled(iter)
  <2> HIDE DEF Filled, g
  <2> QED BY <1>6
<1>8. \A T \in SUBSET S : iter[T] = IF T = {} THEN Null ELSE Keeps(iter[T \ {Max(T)}], list[Max(T)])
  <2> HIDE DEF iter
  <2> QED BY <1>7
<1> DEFINE Bad == {T \in SUBSET S : iter[T] # g[T]}
<1>9. g[{}] = Null
  OBVIOUS
<1>15. g[S] = list[First(S)] /\ S # {}
  OBVIOUS
<1> HIDE DEF iter, Filled, g
<1>10. Bad = {}
  <2> SUFFICES ASSUME Bad # {} PROVE FALSE
    OBVIOUS
  <2> DEFINE Sizes == {Cardinality(T) : T \in Bad}
  <2>1. \A T \in SUBSET S : IsFiniteSet(T) /\ Cardinality(T) \in Nat
    <3>1. IsFiniteSet(S)
      BY FS_Interval
    <3> HIDE DEF S
    <3> QED BY <3>1, FS_Subset, FS_CardinalityType
  <2>2. Sizes \in SUBSET Nat /\ Sizes # {}
    BY <2>1
  <2>3. PICK c \in Sizes : \A m \in Sizes : c <= m
    <3> HIDE DEF Sizes
    <3> QED BY <2>2, LeastExists
  <2>4. PICK T \in Bad : c = Cardinality(T)
    BY <2>3
  <2>5. T # {}
    BY <1>8, <1>9, <2>4
  <2>6. T \in SUBSET S /\ Max(T) \in T
    BY <1>4, <2>4, <2>5
  <2>7. Cardinality(T \ {Max(T)}) = c - 1 /\ c \in Nat
    BY <2>1, <2>4, <2>6, FS_RemoveElement
  <2>8. T \ {Max(T)} \notin Bad
    <3> SUFFICES ASSUME T \ {Max(T)} \in Bad PROVE FALSE
      OBVIOUS
    <3>1. Cardinality(T \ {Max(T)}) \in Sizes
      OBVIOUS
    <3>2. c <= c - 1
      <4> HIDE DEF Sizes, Bad
      <4> QED BY <2>3, <2>7, <3>1
    <3> QED BY <2>7, <3>2
  <2>9. iter[T \ {Max(T)}] = g[T \ {Max(T)}]
    BY <2>6, <2>8
  <2>10. iter[T] = Keeps(iter[T \ {Max(T)}], list[Max(T)])
    BY <1>8, <2>5, <2>6
  <2>11. g[T] = Keeps(g[T \ {Max(T)}], list[Max(T)])
    BY <1>5, <2>5, <2>6
  <2> QED BY <2>4, <2>9, <2>10, <2>11
<1>11. iter[S] = g[S]
  BY <1>10
<1>12. Viewed(list) = list[First(S)]
  BY DEF Viewed, First, Largest, u
<1>13. First(S) \in 1..n
  BY <1>3, <1>15
<1> QED BY <1>1, <1>11, <1>12, <1>13, <1>15

LEMMA MenusAgree == MenusInv => BrowsingAgrees
<1> SUFFICES ASSUME MenusInv, NEW list \in Listings, list # <<>>
             PROVE  /\ Discovered(list) = Viewed(list)
                    /\ ViewedVersion(Viewed(list)).version = menus[Discovered(list)].currentVersion
  BY DEF BrowsingAgrees
<1>1. PICK n \in 0..Cardinality(Menus) : list \in [1..n -> Menus]
  BY DEF Listings
<1>2. n \in Nat /\ n # 0
  <2>1. n \in Nat
    BY <1>1
  <2>2. n = 0 => list = <<>>
    BY <1>1
  <2> QED BY <2>1, <2>2
<1>3. \A i \in 1..n : list[i] \in Menus /\ menus[list[i]] # Null
  BY <1>1 DEF Listings, Range
<1>4. \A m \in Menus : menus[m] # Null => menus[m] \in MenuRecord /\ Numbered(menus[m])
  BY DEF MenusInv, MenusTyped, MenuOK
<1>5. \A i \in 1..n : menus[list[i]].updatedAt \in Nat
  BY <1>3, <1>4 DEF MenuRecord
<1>6. Discovered(list) = Viewed(list) /\ \E i \in 1..n : Viewed(list) = list[i]
  BY <1>1, <1>2, <1>5, DiscoveredIsViewed
<1>7. PICK m \in Menus : m = Viewed(list) /\ menus[m] # Null
  BY <1>3, <1>6
<1> DEFINE versions == menus[m].versions
           current == {v \in Range(versions) : v.version = menus[m].currentVersion}
<1>8. ViewedVersion(m).version = menus[m].currentVersion
  <2>1. versions \in Seq(MenuVersion) /\ versions # <<>> /\ menus[m].currentVersion = Len(versions)
        /\ \A i \in DOMAIN versions : versions[i].version = i
    BY <1>4, <1>7 DEF MenuRecord, Numbered, MenuVersion
  <2>2. Len(versions) \in DOMAIN versions
    <3> HIDE DEF versions
    <3>1. Len(versions) \in Nat /\ DOMAIN versions = 1..Len(versions)
      BY <2>1, LenProperties
    <3>2. Len(versions) # 0
      BY <2>1, EmptySeq
    <3> QED BY <3>1, <3>2
  <2>3. versions[Len(versions)].version = menus[m].currentVersion
    BY <2>1, <2>2
  <2>4. ViewedVersion(m) = IF current # {} THEN CHOOSE v \in current : TRUE ELSE versions[Len(versions)]
    BY DEF ViewedVersion
  <2>5. current # {} => (CHOOSE v \in current : TRUE).version = menus[m].currentVersion
    <3> SUFFICES ASSUME current # {} PROVE (CHOOSE v \in current : TRUE) \in current
      OBVIOUS
    <3> HIDE DEF current
    <3> QED OBVIOUS
  <2> HIDE DEF current, versions
  <2> QED BY <2>3, <2>4, <2>5
<1> QED BY <1>6, <1>7, <1>8

LEMMA NothingListed == NoMenus => BrowsingAgrees
<1> SUFFICES ASSUME NoMenus, NEW list \in Listings, list # <<>> PROVE FALSE
  BY DEF BrowsingAgrees
<1>1. PICK n \in 0..Cardinality(Menus) : list \in [1..n -> Menus]
  BY DEF Listings
<1>2. Range(list) = {}
  BY DEF Listings, NoMenus
<1>3. n = 0 => list = <<>>
  BY <1>1
<1>4. CASE n = 0
  BY <1>3, <1>4
<1>5. CASE n # 0
  <2>1. 1 \in 1..n
    BY <1>5
  <2>2. list[1] \in Range(list)
    BY <1>1, <2>1 DEF Range
  <2> QED BY <1>2, <2>2
<1> QED BY <1>4, <1>5

-----------------------------------------------------------------------------
(* Delivery zones.                                                           *)

DeliveryZone == [zoneId : Zones, box : Box]

\* A zone is listed once.
ZonesInv ==
    /\ zones \in Seq(DeliveryZone)
    /\ \A i, j \in DOMAIN zones : zones[i].zoneId = zones[j].zoneId => i = j

LEMMA UpsertKept ==
    ASSUME ZonesInv, NEW id \in Zones, NEW box \in Box, upsertZone(id, box)
    PROVE  ZonesInv'
<1> DEFINE zone == [zoneId |-> id, box |-> box]
           n == Len(zones)
<1>1. zone \in DeliveryZone /\ zone.zoneId = id
  BY DEF DeliveryZone
<1> HIDE DEF zone
<1>2. n \in Nat /\ DOMAIN zones = 1..n /\ zones \in [1..n -> DeliveryZone]
  BY LenProperties DEF ZonesInv
<1>3. \A i, j \in 1..n : zones[i].zoneId = zones[j].zoneId => i = j
  BY <1>2 DEF ZonesInv
<1>4. ASSUME \A i \in DOMAIN zones : zones[i].zoneId # id, zones' = Append(zones, zone)
      PROVE  ZonesInv'
  <2>1. zones' \in Seq(DeliveryZone) /\ Len(zones') = n + 1
        /\ (\A i \in 1..n : zones'[i] = zones[i]) /\ zones'[n + 1] = zone
    BY <1>1, <1>4, AppendProperties DEF ZonesInv
  <2>2. DOMAIN zones' = 1..(n + 1)
    BY <2>1, LenProperties
  <2>3. ASSUME NEW i \in 1..(n + 1), NEW j \in 1..(n + 1), zones'[i].zoneId = zones'[j].zoneId
        PROVE  i = j
    <3>1. (i \in 1..n \/ i = n + 1) /\ (j \in 1..n \/ j = n + 1)
      BY <1>2
    <3>2. \A k \in 1..n : zones[k].zoneId # id
      BY <1>2, <1>4
    <3> QED BY <1>1, <1>3, <2>1, <2>3, <3>1, <3>2
  <2> QED BY <2>1, <2>2, <2>3 DEF ZonesInv
<1>5. ASSUME NEW i \in 1..n, zones[i].zoneId = id, zones' = [zones EXCEPT ![i] = zone]
      PROVE  ZonesInv'
  <2>1. zones' \in [1..n -> DeliveryZone]
    BY <1>1, <1>2, <1>5
  <2>2. zones' \in Seq(DeliveryZone) /\ DOMAIN zones' = 1..n
    BY <1>2, <2>1, SeqDef
  <2>3. \A k \in 1..n : zones'[k].zoneId = zones[k].zoneId
    BY <1>1, <1>2, <1>5
  <2> QED BY <1>3, <2>2, <2>3 DEF ZonesInv
<1>6. ASSUME NEW i \in 1..n, zones[i].zoneId = id, zones' = MovedToEnd(i, zone)
      PROVE  ZonesInv'
  <2> DEFINE from(k) == IF k < i THEN k ELSE IF k < n THEN k + 1 ELSE i
  <2>1. \A k \in 1..n : from(k) \in 1..n
    BY <1>2
  <2>2. \A k, l \in 1..n : from(k) = from(l) => k = l
    BY <1>2
  <2>3. \A k \in 1..n : zones'[k] = IF k < i \/ k < n THEN zones[from(k)] ELSE zone
    BY <1>2, <1>6 DEF MovedToEnd
  <2>4. zones' = [k \in 1..n |-> zones'[k]]
    BY <1>2, <1>6 DEF MovedToEnd
  <2>5. \A k \in 1..n : zones'[k] \in DeliveryZone
    <3> HIDE DEF from
    <3> QED BY <1>1, <1>2, <2>1, <2>3
  <2>6. zones' \in Seq(DeliveryZone) /\ DOMAIN zones' = 1..n
    BY <1>2, <2>4, <2>5, SeqDef
  <2>7. \A k \in 1..n : zones'[k].zoneId = zones[from(k)].zoneId
    <3> SUFFICES ASSUME NEW k \in 1..n PROVE zones'[k].zoneId = zones[from(k)].zoneId
      OBVIOUS
    <3>1. CASE k < i \/ k < n
      BY <2>3, <3>1
    <3>2. CASE ~(k < i \/ k < n)
      <4>1. from(k) = i
        BY <3>2
      <4>2. zones'[k] = zone
        BY <2>3, <3>2
      <4> QED BY <1>1, <1>6, <4>1, <4>2
    <3> QED BY <3>1, <3>2
  <2> HIDE DEF from
  <2>8. \A k, l \in 1..n : zones'[k].zoneId = zones'[l].zoneId => k = l
    <3> SUFFICES ASSUME NEW k \in 1..n, NEW l \in 1..n, zones'[k].zoneId = zones'[l].zoneId PROVE k = l
      OBVIOUS
    <3>1. zones[from(k)].zoneId = zones[from(l)].zoneId
      BY <2>7
    <3>2. from(k) \in 1..n /\ from(l) \in 1..n
      BY <2>1
    <3>3. from(k) = from(l)
      BY <1>3, <3>1, <3>2
    <3> QED BY <2>2, <3>3
  <2> QED BY <2>6, <2>8 DEF ZonesInv
<1> QED BY <1>2, <1>4, <1>5, <1>6 DEF upsertZone, zone

LEMMA BoxNumbers ==
    ASSUME NEW box \in Box
    PROVE  /\ box.minLat \in Nat /\ box.maxLat \in Nat /\ box.minLng \in Nat /\ box.maxLng \in Nat
           /\ center(box).latitude \in Int /\ center(box).longitude \in Int
<1>1. box.minLat \in Nat /\ box.maxLat \in Nat /\ box.minLng \in Nat /\ box.maxLng \in Nat
  BY ZonesAssumption DEF Box
<1> QED BY <1>1 DEF center

LEMMA SquaresGrow ==
    ASSUME NEW a \in Nat, NEW b \in Nat, a <= b PROVE a * a <= b * b
<1>1. PICK c \in Nat : b = a + c
  <2>1. b - a \in Nat /\ b = a + (b - a)
    OBVIOUS
  <2> QED BY <2>1
<1>2. b * b = a * a + 2 * (a * c) + c * c
  BY <1>1
<1>3. a * c \in Nat /\ c * c \in Nat /\ a * a \in Nat
  OBVIOUS
<1> QED BY <1>2, <1>3

LEMMA SquaresAreNumbers == \A a \in Int : a * a \in Nat
OBVIOUS

\* toFixed's bounds: a distance is half a grain off at most.
LEMMA Rounded ==
    ASSUME NEW squared \in Nat
    PROVE  /\ Grains(squared) \in Nat
           /\ LET n == Grains(squared)
                  above == (2 * n + 1) * Grain
                  below == (2 * n - 1) * Grain
              IN 4 * squared < above * above /\ (n = 0 \/ below * below <= 4 * squared)
<1> DEFINE bound(m) == (m * Grain) * (m * Grain)
           T == {n \in Nat : 4 * squared < bound(2 * n + 1)}
<1>1. Grain \in Nat /\ Grain >= 1
  BY ZonesAssumption
<1>2. squared \in T
  <2>1. PICK k \in Nat : k = 2 * squared + 1
    OBVIOUS
  <2>2. k * Grain \in Nat /\ k <= k * Grain
    BY <1>1, <2>1
  <2>3. k * k <= bound(k)
    <3>1. PICK g \in Nat : g = k * Grain
      BY <2>2
    <3> QED BY <2>2, <3>1, SquaresGrow
  <2>4. 4 * squared < k * k
    <3>1. k * k = 4 * (squared * squared) + 4 * squared + 1
      BY <2>1
    <3>2. squared * squared \in Nat
      OBVIOUS
    <3> QED BY <3>1, <3>2
  <2>5. bound(k) \in Nat /\ k * k \in Nat
    <3>1. PICK g \in Nat : g = k * Grain
      BY <2>2
    <3> QED BY <3>1, SquaresAreNumbers
  <2>6. 4 * squared < bound(k)
    <3> HIDE DEF bound
    <3> QED BY <2>3, <2>4, <2>5
  <2> QED BY <2>1, <2>6
<1>3. PICK n \in T : \A m \in T : n <= m
  <2>1. T \in SUBSET Nat /\ T # {}
    BY <1>2
  <2> HIDE DEF T
  <2> QED BY <2>1, LeastExists
<1>4. n \in 0..squared /\ 4 * squared < bound(2 * n + 1)
  BY <1>2, <1>3
<1>5. n = 0 \/ bound(2 * n - 1) <= 4 * squared
  <2> SUFFICES ASSUME n # 0 PROVE bound(2 * n - 1) <= 4 * squared
    OBVIOUS
  <2>1. PICK m \in Nat : n = m + 1
    <3>1. n - 1 \in Nat /\ n = (n - 1) + 1
      BY <1>4
    <3> QED BY <3>1
  <2>2. m \notin T
    <3>1. ~(n <= m)
      BY <2>1
    <3> QED BY <1>3, <3>1
  <2>3. 2 * n - 1 = 2 * m + 1
    BY <2>1
  <2>4. ~(4 * squared < bound(2 * m + 1))
    BY <2>2
  <2>5. bound(2 * m + 1) \in Nat
    <3>1. PICK g \in Nat : g = (2 * m + 1) * Grain
      BY <1>1
    <3> QED BY <3>1, SquaresAreNumbers
  <2>6. bound(2 * m + 1) <= 4 * squared
    <3> HIDE DEF bound
    <3> QED BY <2>4, <2>5
  <2> QED BY <2>3, <2>6
<1>6. Grains(squared) \in 0..squared /\ 4 * squared < bound(2 * Grains(squared) + 1)
      /\ (Grains(squared) = 0 \/ bound(2 * Grains(squared) - 1) <= 4 * squared)
  <2> DEFINE Fits(k) == 4 * squared < bound(2 * k + 1) /\ (k = 0 \/ bound(2 * k - 1) <= 4 * squared)
  <2>1. Grains(squared) = CHOOSE k \in 0..squared : Fits(k)
    BY DEF Grains
  <2>2. n \in 0..squared /\ Fits(n)
    BY <1>4, <1>5
  <2>3. Grains(squared) \in 0..squared /\ Fits(Grains(squared))
    <3> HIDE DEF Fits
    <3> QED BY <2>1, <2>2
  <2> QED BY <2>3
<1> QED BY <1>6

\* A distance rounded to no more than another is at most a grain longer.
LEMMA RoundedNearer ==
    ASSUME NEW squared \in Nat, NEW other \in Nat, Grains(squared) <= Grains(other)
    PROVE  GrainLonger(squared, other)
<1>1. Grain \in Nat /\ Grain >= 1
  BY ZonesAssumption
<1>2. PICK n \in Nat : n = Grains(squared)
  BY Rounded
<1>3. PICK k \in Nat : k = Grains(other)
  BY Rounded
<1>4. n <= k
  BY <1>2, <1>3
<1>5. PICK above \in Nat : above = (2 * n + 1) * Grain
  BY <1>1
<1>6. 4 * squared < above * above
  BY <1>2, <1>5, Rounded
<1>7. PICK m \in Nat : m * m <= 4 * other /\ above <= m + 2 * Grain
  <2>1. CASE k = 0
    <3>1. n = 0
      BY <1>4, <2>1
    <3>2. above = Grain
      BY <1>1, <1>5, <3>1
    <3>3. 0 * 0 <= 4 * other /\ above <= 0 + 2 * Grain
      BY <1>1, <3>2
    <3> QED BY <3>3
  <2>2. CASE k # 0
    <3>1. PICK below \in Nat : below = (2 * k - 1) * Grain
      <4>1. 2 * k - 1 \in Nat
        BY <2>2
      <4> QED BY <1>1, <4>1
    <3>2. below * below <= 4 * other
      BY <1>3, <2>2, <3>1, Rounded
    <3>3. below + 2 * Grain = (2 * k + 1) * Grain
      BY <1>1, <3>1
    <3>4. PICK more \in Nat : k = n + more
      <4>1. k - n \in Nat /\ k = n + (k - n)
        BY <1>4
      <4> QED BY <4>1
    <3>5. (2 * k + 1) * Grain = above + 2 * (more * Grain)
      BY <1>1, <1>5, <3>4
    <3>6. more * Grain \in Nat
      BY <1>1
    <3>7. above <= below + 2 * Grain
      BY <3>3, <3>5, <3>6
    <3> QED BY <3>2, <3>7
  <2> QED BY <2>1, <2>2
<1>8. PICK reach \in Nat : reach = m + 2 * Grain
  BY <1>1
<1>9. 4 * squared <= reach * reach
  <2>1. above * above <= reach * reach
    BY <1>7, <1>8, SquaresGrow
  <2>2. above * above \in Nat /\ reach * reach \in Nat
    BY SquaresAreNumbers
  <2> QED BY <1>6, <2>1, <2>2
<1>10. m \in 0..(4 * other)
  <2>1. m = 0 \/ m <= m * m
    OBVIOUS
  <2>2. m * m \in Nat
    BY SquaresAreNumbers
  <2> QED BY <1>7, <2>1, <2>2
<1> QED BY <1>7, <1>8, <1>9, <1>10 DEF GrainLonger

LEMMA DistancesAreNumbers ==
    ASSUME ZonesInv, NEW p \in Point, NEW i \in DOMAIN zones
    PROVE  /\ SquaredDistance(p, center(zones[i].box)) \in Nat
           /\ distanceScore(p, center(zones[i].box)) \in Int
<1>1. zones[i].box \in Box
  <2>1. zones[i] \in DeliveryZone
    BY LenProperties DEF ZonesInv
  <2> QED BY <2>1 DEF DeliveryZone
<1>2. p.latitude \in Int /\ p.longitude \in Int
  BY ZonesAssumption DEF Point
<1>3. PICK a \in Int, b \in Int : /\ a = p.latitude - center(zones[i].box).latitude
                                  /\ b = p.longitude - center(zones[i].box).longitude
  BY <1>1, <1>2, BoxNumbers
<1>4. SquaredDistance(p, center(zones[i].box)) = a * a + b * b
  BY <1>3 DEF SquaredDistance
<1>5. a * a + b * b \in Nat
  <2>1. a * a \in Nat /\ b * b \in Nat
    BY SquaresAreNumbers
  <2> QED BY <2>1
<1> QED BY <1>4, <1>5, Rounded DEF distanceScore

\* The sort is a strict total order of the places.
LEMMA NearerOrders ==
    ASSUME ZonesInv, NEW p \in Point
    PROVE  /\ \A i \in DOMAIN zones : ~Nearer(p, i, i)
           /\ \A i, j \in DOMAIN zones : i # j => Nearer(p, i, j) \/ Nearer(p, j, i)
           /\ \A i, j, k \in DOMAIN zones : Nearer(p, i, j) /\ Nearer(p, j, k) => Nearer(p, i, k)
           /\ \A i, j \in DOMAIN zones : ~Nearer(p, j, i) =>
                 distanceScore(p, center(zones[i].box)) <= distanceScore(p, center(zones[j].box))
<1> DEFINE d(k) == distanceScore(p, center(zones[k].box))
<1>1. \A k \in DOMAIN zones : d(k) \in Int /\ k \in Nat
  BY DistancesAreNumbers, LenProperties DEF ZonesInv
<1>2. \A i, j : Nearer(p, i, j) <=> (d(i) < d(j) \/ (d(i) = d(j) /\ i < j))
  BY DEF Nearer
<1> HIDE DEF d
<1>3. \A i \in DOMAIN zones : ~Nearer(p, i, i)
  BY <1>1, <1>2
<1>4. \A i, j \in DOMAIN zones : i # j => Nearer(p, i, j) \/ Nearer(p, j, i)
  BY <1>1, <1>2
<1>5. \A i, j, k \in DOMAIN zones : Nearer(p, i, j) /\ Nearer(p, j, k) => Nearer(p, i, k)
  BY <1>1, <1>2
<1>6. \A i, j \in DOMAIN zones : ~Nearer(p, j, i) => d(i) <= d(j)
  BY <1>1, <1>2
<1> QED BY <1>3, <1>4, <1>5, <1>6 DEF d

\* Every place has a rank of its own.
LEMMA Ranks ==
    ASSUME ZonesInv, NEW p \in Point
    PROVE  /\ \A i \in DOMAIN zones : RankOf(p, i) \in 0..(Len(zones) - 1)
           /\ \A i, j \in DOMAIN zones : Nearer(p, i, j) => RankOf(p, i) < RankOf(p, j)
           /\ \A r \in 0..(Len(zones) - 1) : \E i \in DOMAIN zones : RankOf(p, i) = r
<1> DEFINE n == Len(zones)
           D == DOMAIN zones
           P(i) == {j \in D : Nearer(p, j, i)}
           rank == [i \in D |-> RankOf(p, i)]
<1>1. n \in Nat /\ D = 1..n
  BY LenProperties DEF ZonesInv
<1>2. IsFiniteSet(D) /\ Cardinality(D) = n
  <2>1. IsFiniteSet(1..n) /\ Cardinality(1..n) = IF 1 > n THEN 0 ELSE n - 1 + 1
    BY <1>1, FS_Interval
  <2> HIDE DEF n
  <2> QED BY <1>1, <2>1
<1>3. /\ \A i \in D : ~Nearer(p, i, i)
      /\ \A i, j \in D : i # j => Nearer(p, i, j) \/ Nearer(p, j, i)
      /\ \A i, j, k \in D : Nearer(p, i, j) /\ Nearer(p, j, k) => Nearer(p, i, k)
  BY NearerOrders
<1>4. \A i : RankOf(p, i) = Cardinality(P(i))
  BY DEF RankOf
<1> HIDE DEF D, n
<1>5. ASSUME NEW i \in D PROVE RankOf(p, i) \in 0..(n - 1)
  <2>1. P(i) \in SUBSET D /\ P(i) # D
    BY <1>3
  <2>2. IsFiniteSet(P(i)) /\ Cardinality(P(i)) <= n /\ Cardinality(P(i)) # n
    <3> HIDE DEF P
    <3> QED BY <1>2, <2>1, FS_Subset
  <2>3. Cardinality(P(i)) \in Nat
    BY <2>2, FS_CardinalityType
  <2> QED BY <1>1, <1>4, <2>2, <2>3
<1>6. ASSUME NEW i \in D, NEW j \in D, Nearer(p, i, j) PROVE RankOf(p, i) < RankOf(p, j)
  <2>1. P(i) \in SUBSET P(j) /\ i \in P(j) /\ i \notin P(i)
    BY <1>3, <1>6
  <2>2. P(j) \in SUBSET D /\ IsFiniteSet(P(j))
    BY <1>2, FS_Subset
  <2>3. Cardinality(P(i)) <= Cardinality(P(j)) /\ Cardinality(P(i)) # Cardinality(P(j)) /\ IsFiniteSet(P(i))
    <3> HIDE DEF P
    <3> QED BY <2>1, <2>2, FS_Subset
  <2>4. Cardinality(P(i)) \in Nat /\ Cardinality(P(j)) \in Nat
    BY <2>2, <2>3, FS_CardinalityType
  <2> QED BY <1>4, <2>3, <2>4
<1>7. rank \in Injection(D, 0..(n - 1))
  <2>1. rank \in [D -> 0..(n - 1)]
    BY <1>5
  <2>2. ASSUME NEW i \in D, NEW j \in D, rank[i] = rank[j], i # j PROVE FALSE
    <3>1. RankOf(p, i) \in Nat /\ RankOf(p, j) \in Nat /\ RankOf(p, i) = RankOf(p, j)
      BY <1>5, <2>2
    <3>2. RankOf(p, i) < RankOf(p, j) \/ RankOf(p, j) < RankOf(p, i)
      BY <1>3, <1>6, <2>2
    <3> QED BY <3>1, <3>2
  <2> HIDE DEF rank
  <2> QED BY <2>1, <2>2 DEF Injection, IsInjective
<1>8. IsFiniteSet(0..(n - 1)) /\ Cardinality(0..(n - 1)) = n
  <2>1. n - 1 \in Int
    BY <1>1
  <2>2. IsFiniteSet(0..(n - 1)) /\ Cardinality(0..(n - 1)) = IF 0 > n - 1 THEN 0 ELSE (n - 1) - 0 + 1
    BY <2>1, FS_Interval
  <2> QED BY <1>1, <2>2
<1>9. rank \in Surjection(D, 0..(n - 1))
  <2> HIDE DEF rank
  <2> QED BY <1>2, <1>7, <1>8, FS_Injection
<1>10. \A r \in 0..(n - 1) : \E i \in D : rank[i] = r
  <2> HIDE DEF rank
  <2> QED BY <1>9 DEF Surjection
<1> QED BY <1>5, <1>6, <1>10 DEF D, n

LEMMA Midway == \A a, b \in Nat : a <= b => a <= (a + b) \div 2 /\ (a + b) \div 2 <= b
OBVIOUS

LEMMA ZonesAnswer == ZonesInv => ZonesServe
<1> SUFFICES ASSUME ZonesInv PROVE ZonesServe
  OBVIOUS
<1> DEFINE n == Len(zones)
           offered == IF n < 3 THEN n ELSE 3
<1>1. n \in Nat /\ DOMAIN zones = 1..n /\ offered \in Nat /\ offered <= n /\ offered <= 3
      /\ (offered < n => offered = 3)
  BY LenProperties DEF ZonesInv
<1>2. \A i \in DOMAIN zones : zones[i].box \in Box
  <2>1. \A i \in DOMAIN zones : zones[i] \in DeliveryZone
    BY LenProperties DEF ZonesInv
  <2> QED BY <2>1 DEF DeliveryZone
<1>3. ASSUME NEW q, NEW i \in DOMAIN zones, isInside(zones[i].box, q) PROVE validatePoint(q).zone # 0
  <2> DEFINE inside == {k \in DOMAIN zones : isInside(zones[k].box, q)}
  <2>1. inside \in SUBSET Nat /\ inside # {}
    BY <1>1, <1>3
  <2>2. \E k \in inside : \A j \in inside : k <= j
    <3> HIDE DEF inside
    <3> QED BY <2>1, LeastExists
  <2>3. validatePoint(q).zone \in inside
    <3>1. validatePoint(q).zone = CHOOSE k \in inside : \A j \in inside : k <= j
      BY <2>1 DEF validatePoint
    <3> HIDE DEF inside
    <3> QED BY <2>2, <3>1
  <2> QED BY <1>1, <2>3
<1>4. ASSUME NEW p \in Point, validatePoint(p).zone = 0
      PROVE  LET a == validatePoint(p)
                 named == ToSet(a.alternatives)
             IN /\ Len(a.alternatives) = offered
                /\ \A i \in named, j \in DOMAIN zones \ named :
                      GrainLonger(SquaredDistance(p, center(zones[i].box)),
                                  SquaredDistance(p, center(zones[j].box)))
                /\ named \subseteq DOMAIN zones
  <2> DEFINE list == [r \in 1..offered |-> CHOOSE i \in DOMAIN zones : RankOf(p, i) = r - 1]
             named == ToSet(list)
  <2>1. \A i \in DOMAIN zones : ~isInside(zones[i].box, p)
    BY <1>3, <1>4
  <2>2. validatePoint(p).alternatives = list
    BY <2>1 DEF validatePoint
  <2>3. ASSUME NEW r \in 1..offered PROVE list[r] \in DOMAIN zones /\ RankOf(p, list[r]) = r - 1
    <3>1. r - 1 \in 0..(n - 1)
      BY <1>1
    <3>2. \E i \in DOMAIN zones : RankOf(p, i) = r - 1
      BY <3>1, Ranks
    <3> QED BY <3>2
  <2>4. DOMAIN list = 1..offered
    OBVIOUS
  <2>5. named = {list[r] : r \in 1..offered}
    BY DEF ToSet
  <2>6. Len(list) = offered
    <3>1. list \in [1..offered -> DOMAIN zones]
      BY <2>3
    <3>2. list \in Seq(DOMAIN zones)
      <4> HIDE DEF list, offered
      <4> QED BY <1>1, <3>1, SeqDef
    <3>3. DOMAIN list = 1..Len(list) /\ Len(list) \in Nat
      <4> HIDE DEF list
      <4> QED BY <3>2, LenProperties
    <3> HIDE DEF list, offered
    <3> QED BY <1>1, <2>4, <3>3
  <2>7. named \subseteq DOMAIN zones
    <3> HIDE DEF list, named, offered
    <3> QED BY <2>3, <2>5
  <2>8. ASSUME NEW i \in named, NEW j \in DOMAIN zones \ named
        PROVE  GrainLonger(SquaredDistance(p, center(zones[i].box)),
                           SquaredDistance(p, center(zones[j].box)))
    <3> HIDE DEF list, named, offered
    <3>1. PICK r \in 1..offered : i = list[r]
      BY <2>5
    <3>2. i \in DOMAIN zones /\ RankOf(p, i) = r - 1 /\ r \in Nat
      BY <1>1, <2>3, <3>1
    <3>3. ASSUME Nearer(p, j, i) PROVE FALSE
      <4>1. RankOf(p, j) < RankOf(p, i) /\ RankOf(p, j) \in 0..(n - 1)
        BY <3>2, <3>3, Ranks
      <4> DEFINE s == RankOf(p, j) + 1
      <4>2. s \in 1..offered /\ RankOf(p, j) = s - 1
        BY <1>1, <3>2, <4>1
      <4>3. list[s] \in DOMAIN zones /\ RankOf(p, list[s]) = RankOf(p, j) /\ list[s] \in named
        BY <2>3, <2>5, <4>2
      <4>4. list[s] # j
        BY <4>3
      <4>5. RankOf(p, list[s]) < RankOf(p, j) \/ RankOf(p, j) < RankOf(p, list[s])
        BY <4>3, <4>4, NearerOrders, Ranks
      <4> HIDE DEF s
      <4> QED BY <1>1, <4>1, <4>3, <4>5
    <3>4. distanceScore(p, center(zones[i].box)) <= distanceScore(p, center(zones[j].box))
      BY <3>2, <3>3, NearerOrders
    <3> QED BY <3>2, <3>4, DistancesAreNumbers, RoundedNearer DEF distanceScore
  <2> HIDE DEF list, named, offered
  <2> QED BY <2>2, <2>6, <2>7, <2>8 DEF named
<1>5. ASSUME NEW i \in DOMAIN zones
      PROVE  LET box == zones[i].box IN
             validatePoint(center(box)).zone # 0 \/ box.minLat > box.maxLat \/ box.minLng > box.maxLng
  <2> DEFINE box == zones[i].box
  <2> SUFFICES ASSUME ~(box.minLat > box.maxLat), ~(box.minLng > box.maxLng)
               PROVE  validatePoint(center(box)).zone # 0
    OBVIOUS
  <2>1. box.minLat \in Nat /\ box.maxLat \in Nat /\ box.minLng \in Nat /\ box.maxLng \in Nat
    BY <1>2, BoxNumbers
  <2> HIDE DEF box
  <2>2. isInside(box, center(box))
    BY <2>1, Midway DEF isInside, center
  <2> QED BY <1>3, <2>2 DEF box
<1> HIDE DEF offered, n
<1>6. \A i, j \in DOMAIN zones : zones[i].zoneId = zones[j].zoneId => i = j
  BY DEF ZonesInv
<1>7. ASSUME NEW p \in Point, validatePoint(p).zone = 0
      PROVE  LET a == validatePoint(p)
                 named == ToSet(a.alternatives)
             IN /\ Len(a.alternatives) = offered
                /\ \A i \in named, j \in DOMAIN zones \ named :
                      GrainLonger(SquaredDistance(p, center(zones[i].box)),
                                  SquaredDistance(p, center(zones[j].box)))
                /\ \A i \in named :
                      LET box == zones[i].box IN
                      validatePoint(center(box)).zone # 0 \/ box.minLat > box.maxLat \/ box.minLng > box.maxLng
  BY <1>4, <1>5, <1>7
<1> QED BY <1>6, <1>7 DEF ZonesServe, offered, n

-----------------------------------------------------------------------------
(* Prices.                                                                   *)

LEMMA LinesCost == ASSUME NEW l \in Line PROVE l.quantity * l.unitPriceCents \in Nat
<1>1. MaxQuantity \in Nat /\ Prices \subseteq Nat
  BY StorefrontAssumption
<1>2. l.quantity \in 1..MaxQuantity /\ l.unitPriceCents \in Prices
  BY DEF Line
<1>3. (\A k \in 1..MaxQuantity : k \in Nat) /\ \A p \in Prices : p \in Nat
  BY <1>1
<1>4. l.quantity \in Nat /\ l.unitPriceCents \in Nat
  BY <1>2, <1>3
<1>5. \A a, b \in Nat : a * b \in Nat
  OBVIOUS
<1> QED BY <1>4, <1>5

\* What a basket holds costs a number of cents.
LEMMA SubtotalIsNat == ASSUME NEW items \in Carts PROVE subtotalFromBasket(items) \in Nat
<1> DEFINE S == DOMAIN items
           f == [i \in S |-> items[i].quantity * items[i].unitPriceCents]
           Pick(T) == CHOOSE x \in T : TRUE
           Filled(h) == [T \in SUBSET S |-> IF T = {} THEN 0 ELSE f[Pick(T)] + h[T \ {Pick(T)}]]
           plain(h) == [T \in SUBSET S |-> IF T = {} THEN 0
                           ELSE items[Pick(T)].quantity * items[Pick(T)].unitPriceCents + h[T \ {Pick(T)}]]
           iter == CHOOSE h : h = plain(h)
<1>1. subtotalFromBasket(items) = iter[S]
  BY DEF subtotalFromBasket, FoldFunction, FoldFunctionOnSet, MapThenFoldSet
<1>2. PICK n \in 0..MaxLines : items \in [1..n -> Line]
  BY DEF Carts
<1>3. n \in Nat /\ S = 1..n /\ IsFiniteSet(S)
  <2>1. n \in Nat
    BY <1>2, StorefrontAssumption
  <2>2. IsFiniteSet(1..n)
    BY <2>1, FS_Interval
  <2> QED BY <1>2, <2>1, <2>2
<1>4. ASSUME NEW i \in S PROVE f[i] \in Nat
  <2>1. items[i] \in Line
    BY <1>2, <1>3
  <2> QED BY <2>1, LinesCost
<1>5. f \in [S -> Int]
  <2>1. f = [i \in S |-> f[i]]
    OBVIOUS
  <2> HIDE DEF f, S
  <2> QED BY <1>4, <2>1
<1>6. \A T \in SUBSET S : T # {} => Pick(T) \in T
  OBVIOUS
<1>7. \A h : plain(h) = Filled(h)
  <2>1. \A T \in SUBSET S : T # {} =>
            f[Pick(T)] = items[Pick(T)].quantity * items[Pick(T)].unitPriceCents
    <3> HIDE DEF Pick
    <3> QED BY <1>6
  <2> HIDE DEF Pick, f, S
  <2> QED BY <2>1
<1> HIDE DEF f, S
<1>8. PICK g : Adds(f, S, g)
  BY <1>3, <1>5, AddsExists
<1>9. g = Filled(g)
  <2>1. \A T \in SUBSET S : g[T] = IF T = {} THEN 0 ELSE f[Pick(T)] + g[T \ {Pick(T)}]
    <3> HIDE DEF Pick
    <3> QED BY <1>6, <1>8 DEF Adds
  <2>2. g = [T \in SUBSET S |-> g[T]]
    BY <1>8 DEF Adds
  <2> HIDE DEF Pick
  <2> QED BY <2>1, <2>2
<1>10. iter = Filled(iter)
  <2>1. \E h : h = plain(h)
    <3> HIDE DEF plain, Filled
    <3> QED BY <1>7, <1>9
  <2>2. iter = plain(iter)
    <3> HIDE DEF plain
    <3> QED BY <2>1
  <2> HIDE DEF plain, Filled, iter
  <2> QED BY <1>7, <2>2
<1>11. \A T \in SUBSET S : iter[T] = IF T = {} THEN 0 ELSE f[Pick(T)] + iter[T \ {Pick(T)}]
  <2> HIDE DEF Pick, iter
  <2> QED BY <1>10
<1> DEFINE Bad == {T \in SUBSET S : iter[T] \notin Nat}
<1> HIDE DEF Pick, iter, Filled, plain
<1>12. Bad = {}
  <2> SUFFICES ASSUME Bad # {} PROVE FALSE
    OBVIOUS
  <2> DEFINE Sizes == {Cardinality(T) : T \in Bad}
  <2>1. \A T \in SUBSET S : IsFiniteSet(T) /\ Cardinality(T) \in Nat
    BY <1>3, FS_Subset, FS_CardinalityType
  <2>2. Sizes \in SUBSET Nat /\ Sizes # {}
    BY <2>1
  <2>3. PICK c \in Sizes : \A m \in Sizes : c <= m
    <3> HIDE DEF Sizes
    <3> QED BY <2>2, LeastExists
  <2>4. PICK T \in Bad : c = Cardinality(T)
    BY <2>3
  <2>5. T # {}
    <3>1. iter[{}] = 0
      BY <1>11
    <3> QED BY <2>4, <3>1
  <2>6. T \in SUBSET S /\ Pick(T) \in T
    BY <1>6, <2>4, <2>5
  <2>7. Cardinality(T \ {Pick(T)}) = c - 1 /\ c \in Nat
    BY <2>1, <2>4, <2>6, FS_RemoveElement
  <2>8. T \ {Pick(T)} \notin Bad
    <3> SUFFICES ASSUME T \ {Pick(T)} \in Bad PROVE FALSE
      OBVIOUS
    <3>1. Cardinality(T \ {Pick(T)}) \in Sizes
      OBVIOUS
    <3>2. c <= c - 1
      <4> HIDE DEF Sizes, Bad
      <4> QED BY <2>3, <2>7, <3>1
    <3> QED BY <2>7, <3>2
  <2>9. iter[T \ {Pick(T)}] \in Nat /\ f[Pick(T)] \in Nat
    BY <1>4, <2>6, <2>8
  <2>10. iter[T] = f[Pick(T)] + iter[T \ {Pick(T)}]
    BY <1>11, <2>5, <2>6
  <2> QED BY <2>4, <2>9, <2>10
<1> QED BY <1>1, <1>12

Quoted == {Quote(b, items, promo) : b \in Baskets, items \in Carts, promo \in Promos}

\* What the fields of a quote have to do with one another.
QuoteSums(quote) ==
    /\ quote.basket \in Baskets /\ quote.subtotal \in Nat /\ quote.total \in Nat
    /\ quote.tax = Share(quote.subtotal, 8875)
    /\ quote.total + quote.discount = quote.subtotal + quote.tax + SERVICE_FEE_CENTS + DELIVERY_FEE_CENTS
    /\ quote.discount <= Larger(quote.subtotal, DELIVERY_FEE_CENTS)

LEMMA SharesAreNat == ASSUME NEW c \in Nat PROVE Share(c, 8875) \in Nat /\ Share(c, 10000) \in Nat
BY DEF Share

LEMMA DiscountBounded ==
    ASSUME NEW c \in Nat, NEW promo
    PROVE  /\ evaluatePromotion(c, promo, DELIVERY_FEE_CENTS) \in Nat
           /\ evaluatePromotion(c, promo, DELIVERY_FEE_CENTS) <= Larger(c, DELIVERY_FEE_CENTS)
<1> DEFINE d == evaluatePromotion(c, promo, DELIVERY_FEE_CENTS)
<1>1. ASSUME promo = "WELCOME10" /\ c >= 1000
      PROVE  d \in Nat /\ d <= Larger(c, DELIVERY_FEE_CENTS)
  <2>1. d = Smaller(Share(c, 10000), 1000)
    BY <1>1 DEF evaluatePromotion
  <2> HIDE DEF d
  <2>2. c >= 1000
    BY <1>1
  <2> QED BY <2>1, <2>2, SharesAreNat DEF Smaller, Larger, DELIVERY_FEE_CENTS
<1>2. ASSUME ~(promo = "WELCOME10" /\ c >= 1000) /\ promo = "FREESHIP"
      PROVE  d \in Nat /\ d <= Larger(c, DELIVERY_FEE_CENTS)
  <2>1. d = 299
    BY <1>2 DEF evaluatePromotion, DELIVERY_FEE_CENTS
  <2> HIDE DEF d
  <2> QED BY <2>1 DEF Larger, DELIVERY_FEE_CENTS
<1>3. ASSUME ~(promo = "WELCOME10" /\ c >= 1000) /\ promo # "FREESHIP"
      PROVE  d \in Nat /\ d <= Larger(c, DELIVERY_FEE_CENTS)
  <2>1. d = 0
    BY <1>3 DEF evaluatePromotion
  <2> HIDE DEF d
  <2> QED BY <2>1 DEF Larger, DELIVERY_FEE_CENTS
<1> QED BY <1>1, <1>2, <1>3

LEMMA QuotesAddUp ==
    ASSUME NEW b \in Baskets, NEW items \in Carts, NEW promo
    PROVE  /\ QuoteSums(Quote(b, items, promo)) /\ Quote(b, items, promo).basket = b
           /\ Quote(b, items, promo).subtotal = subtotalFromBasket(items)
<1> DEFINE c == subtotalFromBasket(items)
           tax == Share(c, 8875)
           d == evaluatePromotion(c, promo, DELIVERY_FEE_CENTS)
           q == Quote(b, items, promo)
<1>1. c \in Nat
  BY SubtotalIsNat
<1>2. /\ q.basket = b /\ q.subtotal = c /\ q.tax = tax /\ q.discount = d
      /\ q.total = Larger(0, c + tax + SERVICE_FEE_CENTS + DELIVERY_FEE_CENTS - d)
  BY DEF Quote
<1> HIDE DEF c
<1>3. tax \in Nat /\ d \in Nat /\ d <= Larger(c, DELIVERY_FEE_CENTS)
  BY <1>1, SharesAreNat, DiscountBounded
<1> HIDE DEF tax, d, q
<1>4. d <= c + 299
  BY <1>1, <1>3 DEF Larger, DELIVERY_FEE_CENTS
<1>5. q.total = c + tax + 199 + 299 - d /\ q.total \in Nat
  BY <1>1, <1>2, <1>3, <1>4 DEF Larger, SERVICE_FEE_CENTS, DELIVERY_FEE_CENTS
<1>6. q.total + q.discount = c + tax + SERVICE_FEE_CENTS + DELIVERY_FEE_CENTS
  BY <1>1, <1>2, <1>3, <1>5 DEF SERVICE_FEE_CENTS, DELIVERY_FEE_CENTS
<1> QED BY <1>1, <1>2, <1>3, <1>5, <1>6 DEF QuoteSums, q, c, tax

-----------------------------------------------------------------------------
(* Ordering.                                                                 *)

StoredBasket == [consumer : Baskets, items : Carts]
StoredCheckout == [basket : Baskets, quote : Nat, hash : Quoted, total : Nat]
StoredOrder == [checkout : Nat, hash : Quoted, consumer : Baskets]

BasketCall ==
    [phase : {"checkItem", "saveBasket"}, subject : Baskets, items : Carts, consumer : Baskets,
     looked : Nat, missing : BOOLEAN]
QuoteCall == [phase : {"saveQuote"}, subject : Baskets, quote : Quoted]
CheckoutCall == [phase : {"saveCheckout"}, subject : Baskets, quote : Nat, hash : Quoted]
OrderCall == [phase : {"saveOrder"}, subject : Baskets, checkout : Nat, hash : Quoted, consumer : Baskets]
OrderingCall == BasketCall \cup QuoteCall \cup CheckoutCall \cup OrderCall

OrderingTyped ==
    /\ call \in [Slots -> OrderingCall \cup {Idle}]
    /\ baskets \in [Baskets -> StoredBasket \cup {Null}]
    /\ quotes \in Seq(Quoted) /\ checkouts \in Seq(StoredCheckout) /\ orders \in Seq(StoredOrder)

\* A quote of a stored basket, which costs what was quoted unless stored anew.
Current(quote) ==
    /\ baskets[quote.basket] # Null
    /\ quote.basket \notin outdated =>
          quote.subtotal = subtotalFromBasket(baskets[quote.basket].items)

\* What a handler read is what the store holds.
ReadOK(c) ==
    /\ c \in BasketCall => baskets[c.subject] # Null /\ c.consumer = c.subject
    /\ c \in QuoteCall => c.quote.basket = c.subject /\ Current(c.quote)
    /\ c \in CheckoutCall => /\ c.quote \in DOMAIN quotes /\ quotes[c.quote] = c.hash
                             /\ c.hash.basket = c.subject
    /\ c \in OrderCall => /\ c.checkout \in DOMAIN checkouts /\ c.hash = checkouts[c.checkout].hash
                          /\ c.subject = checkouts[c.checkout].basket /\ c.consumer = c.subject

StoredOK ==
    /\ \A b \in Baskets : baskets[b] # Null => baskets[b].consumer = b
    /\ \A q \in DOMAIN quotes : Current(quotes[q])
    /\ \A k \in DOMAIN checkouts :
          /\ checkouts[k].quote \in DOMAIN quotes /\ quotes[checkouts[k].quote] = checkouts[k].hash
          /\ checkouts[k].hash.basket = checkouts[k].basket
          /\ checkouts[k].total = checkouts[k].hash.total
    /\ \A o \in DOMAIN orders :
          /\ orders[o].checkout \in DOMAIN checkouts
          /\ orders[o].hash = checkouts[orders[o].checkout].hash
          /\ orders[o].consumer = checkouts[orders[o].checkout].basket

OrderingInv ==
    /\ OrderingTyped
    /\ StoredOK
    /\ \A s \in Slots : call[s] # Idle => ReadOK(call[s])

LEMMA QuotedAddUp ==
    ASSUME NEW quote \in Quoted
    PROVE  QuoteSums(quote) /\ \E items \in Carts : quote.subtotal = subtotalFromBasket(items)
BY QuotesAddUp DEF Quoted

\* The kinds of handlers differ by their phases.
LEMMA PhasesTell ==
    ASSUME NEW c \in OrderingCall
    PROVE  /\ c.subject \in Baskets
           /\ c \in BasketCall <=> c.phase \in {"checkItem", "saveBasket"}
           /\ c \in QuoteCall <=> c.phase = "saveQuote"
           /\ c \in CheckoutCall <=> c.phase = "saveCheckout"
           /\ c \in OrderCall <=> c.phase = "saveOrder"
BY DEF OrderingCall, BasketCall, QuoteCall, CheckoutCall, OrderCall

Stores == UNCHANGED <<baskets, outdated, quotes, checkouts, orders>>

\* A handler starts, goes on or answers, and stores nothing.
LEMMA HandlerGoesOn ==
    ASSUME OrderingInv, NEW s \in Slots, NEW h \in OrderingCall \cup {Idle},
           call' = [call EXCEPT ![s] = h], h # Idle => ReadOK(h),
           Stores
    PROVE  OrderingInv'
<1>1. OrderingTyped'
  BY DEF OrderingInv, OrderingTyped, Stores
<1>2. StoredOK'
  BY DEF OrderingInv, StoredOK, Current, Stores
<1>3. ASSUME NEW t \in Slots, call'[t] # Idle PROVE ReadOK(call[t])'
  <2>1. call'[t] = IF t = s THEN h ELSE call[t]
    BY DEF OrderingInv, OrderingTyped
  <2>2. ReadOK(call'[t])
    BY <1>3, <2>1 DEF OrderingInv
  <2> QED BY <2>2 DEF ReadOK, Current, Stores
<1> QED BY <1>1, <1>2, <1>3 DEF OrderingInv

LEMMA BasketsRead ==
    ASSUME OrderingInv, NEW b \in Baskets, baskets[b] # Null
    PROVE  baskets[b] \in StoredBasket /\ baskets[b].consumer = b /\ baskets[b].items \in Carts
BY DEF OrderingInv, OrderingTyped, StoredOK, StoredBasket

LEMMA UpdateBasketKept ==
    ASSUME OrderingInv, NEW s \in Slots, NEW b \in Baskets, NEW items \in Carts, UpdateBasket(s, b, items)
    PROVE  OrderingInv'
<1> DEFINE h == [phase |-> IF items = <<>> THEN "saveBasket" ELSE "checkItem", subject |-> b,
                 items |-> items, consumer |-> baskets[b].consumer, looked |-> 0, missing |-> FALSE]
<1>1. baskets[b] # Null /\ call' = [call EXCEPT ![s] = h] /\ Stores
  BY DEF UpdateBasket, Goes, BeginBeside, orderingVars, Stores
<1>2. baskets[b].consumer = b
  BY <1>1, BasketsRead
<1>3. h \in BasketCall /\ h.subject = b /\ h.consumer = b
  BY <1>2 DEF BasketCall
<1>4. h.phase \in {"checkItem", "saveBasket"}
  OBVIOUS
<1> HIDE DEF h
<1>5. h \in OrderingCall
  BY <1>3 DEF OrderingCall
<1>6. ReadOK(h)
  BY <1>1, <1>3, <1>4, <1>5, PhasesTell DEF ReadOK
<1> QED BY <1>1, <1>5, <1>6, HandlerGoesOn

LEMMA GenerateQuoteKept ==
    ASSUME OrderingInv, NEW s \in Slots, NEW b \in Baskets, NEW promo \in Promos, GenerateQuote(s, b, promo)
    PROVE  OrderingInv'
<1> DEFINE quote == Quote(b, baskets[b].items, promo)
           h == [phase |-> "saveQuote", subject |-> b, quote |-> quote]
<1>1. baskets[b] # Null /\ call' = [call EXCEPT ![s] = h] /\ Stores
  BY DEF GenerateQuote, Goes, BeginBeside, orderingVars, Stores
<1>2. baskets[b].items \in Carts
  BY <1>1, BasketsRead
<1>3. quote \in Quoted /\ quote.basket = b /\ quote.subtotal = subtotalFromBasket(baskets[b].items)
  BY <1>2, QuotesAddUp DEF Quoted
<1> HIDE DEF quote
<1>4. h \in QuoteCall /\ h.subject = b /\ h.quote = quote /\ h.phase = "saveQuote"
  BY <1>3 DEF QuoteCall
<1> HIDE DEF h
<1>5. h \in OrderingCall
  BY <1>4 DEF OrderingCall
<1>6. Current(quote)
  BY <1>1, <1>3 DEF Current
<1>7. ReadOK(h)
  BY <1>3, <1>4, <1>5, <1>6, PhasesTell DEF ReadOK
<1> QED BY <1>1, <1>5, <1>7, HandlerGoesOn

LEMMA QuotesRead ==
    ASSUME OrderingInv
    PROVE  /\ \A q \in DOMAIN quotes : quotes[q] \in Quoted /\ q \in Nat /\ Current(quotes[q])
           /\ \A k \in DOMAIN checkouts : checkouts[k] \in StoredCheckout /\ k \in Nat
<1>1. quotes \in Seq(Quoted) /\ checkouts \in Seq(StoredCheckout)
  BY DEF OrderingInv, OrderingTyped
<1>2. \A q \in DOMAIN quotes : quotes[q] \in Quoted /\ q \in Nat
  BY <1>1, LenProperties
<1>3. \A k \in DOMAIN checkouts : checkouts[k] \in StoredCheckout /\ k \in Nat
  BY <1>1, LenProperties
<1> QED BY <1>2, <1>3 DEF OrderingInv, StoredOK

LEMMA CreateCheckoutKept ==
    ASSUME OrderingInv, NEW s \in Slots, NEW b \in Baskets, NEW q \in DOMAIN quotes, NEW hash,
           CreateCheckout(s, b, q, hash)
    PROVE  OrderingInv'
<1> DEFINE h == [phase |-> "saveCheckout", subject |-> b, quote |-> q, hash |-> hash]
<1>1. quotes[q].basket = b /\ quotes[q] = hash /\ call' = [call EXCEPT ![s] = h] /\ Stores
  BY DEF CreateCheckout, Goes, BeginBeside, orderingVars, Stores
<1>2. hash \in Quoted /\ q \in Nat
  BY <1>1, QuotesRead
<1>3. h \in CheckoutCall /\ h.subject = b /\ h.quote = q /\ h.hash = hash /\ h.phase = "saveCheckout"
  BY <1>2 DEF CheckoutCall
<1> HIDE DEF h
<1>4. h \in OrderingCall
  BY <1>3 DEF OrderingCall
<1>5. ReadOK(h)
  BY <1>1, <1>3, <1>4, PhasesTell DEF ReadOK
<1> QED BY <1>1, <1>4, <1>5, HandlerGoesOn

LEMMA CreateOrderKept ==
    ASSUME OrderingInv, NEW s \in Slots, NEW k \in DOMAIN checkouts, NEW hash, CreateOrder(s, k, hash)
    PROVE  OrderingInv'
<1> DEFINE b == checkouts[k].basket
           h == [phase |-> "saveOrder", subject |-> b, checkout |-> k, hash |-> hash,
                 consumer |-> IF baskets[b] = Null THEN Null ELSE baskets[b].consumer]
<1>1. checkouts[k].hash = hash /\ call' = [call EXCEPT ![s] = h] /\ Stores
  BY DEF CreateOrder, Goes, BeginBeside, orderingVars, Stores
<1>2. checkouts[k] \in StoredCheckout /\ k \in Nat
  BY QuotesRead
<1>3. b \in Baskets /\ hash \in Quoted
  BY <1>1, <1>2 DEF StoredCheckout
<1>4. checkouts[k].quote \in DOMAIN quotes /\ quotes[checkouts[k].quote] = hash /\ hash.basket = b
  BY <1>1 DEF OrderingInv, StoredOK
<1>5. Current(hash)
  BY <1>4, QuotesRead
<1>6. baskets[b] # Null /\ baskets[b].consumer = b
  <2>1. baskets[b] # Null
    BY <1>4, <1>5 DEF Current
  <2> HIDE DEF b
  <2> QED BY <1>3, <2>1, BasketsRead
<1> HIDE DEF b
<1>7. h \in OrderCall /\ h.subject = b /\ h.checkout = k /\ h.hash = hash /\ h.phase = "saveOrder"
      /\ h.consumer = b
  BY <1>2, <1>3, <1>6 DEF OrderCall
<1> HIDE DEF h
<1>8. h \in OrderingCall
  BY <1>7 DEF OrderingCall
<1>9. ReadOK(h)
  BY <1>1, <1>7, <1>8, PhasesTell DEF ReadOK, b
<1> QED BY <1>1, <1>8, <1>9, HandlerGoesOn

LEMMA CallsRead ==
    ASSUME OrderingInv, NEW s \in Slots, call[s] # Idle
    PROVE  call[s] \in OrderingCall /\ ReadOK(call[s])
BY DEF OrderingInv, OrderingTyped

LEMMA ChecksItemKept == ASSUME OrderingInv, NEW s \in Slots, ChecksItem(s) PROVE OrderingInv'
<1> DEFINE c == call[s]
           looked == c.looked + 1
           missing == (c.missing \/ c.items[looked].itemId \in unavailable)
           on == [c EXCEPT !.looked = looked, !.missing = missing]
           saves == [c EXCEPT !.phase = "saveBasket"]
<1>1. c # Idle /\ c.phase = "checkItem" /\ Stores
  BY DEF ChecksItem, At, orderingVars, Stores
<1>2. c \in OrderingCall /\ ReadOK(c)
  BY <1>1, CallsRead
<1>3. c \in BasketCall
  BY <1>1, <1>2, PhasesTell
<1>4. baskets[c.subject] # Null /\ c.consumer = c.subject
  BY <1>2, <1>3 DEF ReadOK
<1>5. call' \in {[call EXCEPT ![s] = on], [call EXCEPT ![s] = Idle], [call EXCEPT ![s] = saves]}
  BY DEF ChecksItem, Answer, Await, Continue
<1>6. looked \in Nat /\ missing \in BOOLEAN
  BY <1>3 DEF BasketCall
<1> HIDE DEF looked, missing
<1>7. on \in BasketCall /\ on.subject = c.subject /\ on.consumer = c.consumer
      /\ on.phase = "checkItem"
  BY <1>1, <1>3, <1>6 DEF BasketCall
<1>8. saves \in BasketCall /\ saves.subject = c.subject /\ saves.consumer = c.consumer
      /\ saves.phase = "saveBasket"
  BY <1>3 DEF BasketCall
<1> HIDE DEF c, on, saves
<1>9. on \in OrderingCall /\ saves \in OrderingCall
  BY <1>7, <1>8 DEF OrderingCall
<1>10. ReadOK(on) /\ ReadOK(saves)
  BY <1>4, <1>7, <1>8, <1>9, PhasesTell DEF ReadOK
<1> QED BY <1>1, <1>5, <1>9, <1>10, HandlerGoesOn

\* Saving: every handler but the one that saves still reads what it read.
LEMMA SavesBasketKept == ASSUME OrderingInv, NEW s \in Slots, SavesBasket(s) PROVE OrderingInv'
<1> DEFINE c == call[s]
           b == c.subject
           basket == [consumer |-> c.consumer, items |-> c.items]
<1>1. /\ c # Idle /\ c.phase = "saveBasket"
      /\ baskets' = [baskets EXCEPT ![b] = basket]
      /\ outdated' = IF Priced(b) THEN outdated \cup {b} ELSE outdated
      /\ call' = [call EXCEPT ![s] = Idle]
      /\ quotes' = quotes /\ checkouts' = checkouts /\ orders' = orders
  BY DEF SavesBasket, At, Answer, Continue
<1>2. c \in OrderingCall /\ ReadOK(c)
  BY <1>1, CallsRead
<1>3. c \in BasketCall
  BY <1>1, <1>2, PhasesTell
<1>4. b \in Baskets /\ c.consumer = b /\ basket \in StoredBasket /\ basket.consumer = b
  <2>1. c.consumer = b
    BY <1>2, <1>3 DEF ReadOK
  <2> QED BY <1>3, <2>1 DEF BasketCall, StoredBasket
<1>5. basket # Null
  <2>1. basket.items \in Carts
    BY <1>3 DEF BasketCall
  <2>2. Carts \subseteq Seq(Line)
    <3> SUFFICES ASSUME NEW items \in Carts PROVE items \in Seq(Line)
      OBVIOUS
    <3>1. PICK n \in 0..MaxLines : items \in [1..n -> Line]
      BY DEF Carts
    <3>2. n \in Nat
      BY <3>1, StorefrontAssumption
    <3> QED BY <3>1, <3>2, SeqDef
  <2>3. basket \in [consumer : Baskets, items : Seq(Line)]
    <3> HIDE DEF c
    <3> QED BY <1>4, <2>1, <2>2
  <2> HIDE DEF basket
  <2> QED BY <2>3, StorefrontAssumption
<1> HIDE DEF basket, b
<1>6. /\ baskets' \in [Baskets -> StoredBasket \cup {Null}]
      /\ \A x \in Baskets : baskets'[x] = IF x = b THEN basket ELSE baskets[x]
  BY <1>1, <1>4 DEF OrderingInv, OrderingTyped
<1>7. OrderingTyped'
  <2>1. call' \in [Slots -> OrderingCall \cup {Idle}]
    BY <1>1 DEF OrderingInv, OrderingTyped
  <2> QED BY <1>1, <1>6, <2>1 DEF OrderingInv, OrderingTyped
<1>8. ASSUME NEW quote \in Quoted, Current(quote), quote.basket = b => Priced(b) PROVE Current(quote)'
  <2>1. quote.basket \in Baskets
    BY QuotedAddUp DEF QuoteSums
  <2>2. CASE quote.basket = b
    <3>1. b \in outdated'
      BY <1>1, <1>8, <2>2
    <3> QED BY <1>4, <1>5, <1>6, <2>2, <3>1 DEF Current
  <2>3. CASE quote.basket # b
    <3>1. baskets'[quote.basket] = baskets[quote.basket]
      BY <1>6, <2>1, <2>3
    <3>2. quote.basket \in outdated' <=> quote.basket \in outdated
      BY <1>1, <2>3
    <3> QED BY <1>8, <3>1, <3>2 DEF Current
  <2> QED BY <2>2, <2>3
<1>9. ASSUME NEW q \in DOMAIN quotes PROVE Current(quotes[q])'
  <2>1. quotes[q] \in Quoted /\ Current(quotes[q])
    BY QuotesRead
  <2>2. quotes[q].basket = b => Priced(b)
    BY DEF Priced
  <2>3. \A quote \in Quoted : Current(quote) /\ (quote.basket = b => Priced(b)) => Current(quote)'
    BY <1>8
  <2> QED BY <1>1, <2>1, <2>2, <2>3 DEF Current
<1>10. StoredOK'
  <2>1. \A x \in Baskets : baskets'[x] # Null => baskets'[x].consumer = x
    BY <1>4, <1>6 DEF OrderingInv, StoredOK
  <2>2. \A q \in DOMAIN quotes : Current(quotes[q])'
    BY <1>9
  <2>3. \A q \in DOMAIN quotes' : Current(quotes[q])'
    BY <1>1, <2>2
  <2> QED BY <1>1, <2>1, <2>3 DEF OrderingInv, StoredOK
<1>11. ASSUME NEW t \in Slots, call'[t] # Idle PROVE ReadOK(call[t])'
  <2> DEFINE d == call[t]
  <2>1. t # s /\ call'[t] = d
    BY <1>1, <1>11 DEF OrderingInv, OrderingTyped
  <2>2. d # Idle /\ d \in OrderingCall /\ ReadOK(d)
    BY <1>11, <2>1, CallsRead
  <2>3. CASE d \in BasketCall
    <3>1. d.subject \in Baskets /\ baskets[d.subject] # Null /\ d.consumer = d.subject
      BY <2>2, <2>3, PhasesTell DEF ReadOK
    <3>2. baskets'[d.subject] # Null
      BY <1>5, <1>6, <3>1
    <3>3. d \notin QuoteCall /\ d \notin CheckoutCall /\ d \notin OrderCall
      BY <2>2, <2>3, PhasesTell
    <3> QED BY <2>1, <3>1, <3>2, <3>3 DEF ReadOK
  <2>4. CASE d \in QuoteCall
    <3>1. d.quote.basket = d.subject /\ Current(d.quote) /\ d.quote \in Quoted /\ d.phase = "saveQuote"
      BY <2>2, <2>4, PhasesTell DEF ReadOK, QuoteCall
    <3>2. d.quote.basket = b => Priced(b)
      BY <2>2, <3>1 DEF Priced, At
    <3>3. Current(d.quote)'
      <4>1. \A quote \in Quoted : Current(quote) /\ (quote.basket = b => Priced(b)) => Current(quote)'
        BY <1>8
      <4> QED BY <2>1, <3>1, <3>2, <4>1 DEF Current
    <3>4. d \notin BasketCall /\ d \notin CheckoutCall /\ d \notin OrderCall
      BY <2>2, <2>4, PhasesTell
    <3> QED BY <2>1, <3>1, <3>3, <3>4 DEF ReadOK, Current
  <2>5. CASE d \in CheckoutCall \/ d \in OrderCall
    <3>1. d \notin BasketCall /\ d \notin QuoteCall
      BY <2>2, <2>5, PhasesTell
    <3> QED BY <1>1, <2>1, <2>2, <3>1 DEF ReadOK
  <2> QED BY <2>2, <2>3, <2>4, <2>5 DEF OrderingCall
<1> QED BY <1>7, <1>10, <1>11 DEF OrderingInv

\* A list with one record more keeps the records it had, at their places.
LEMMA OneMore ==
    ASSUME NEW T, NEW list \in Seq(T), NEW x \in T
    PROVE  /\ Append(list, x) \in Seq(T) /\ Len(list) \in Nat
           /\ DOMAIN Append(list, x) = DOMAIN list \cup {Len(list) + 1}
           /\ \A i \in DOMAIN list : Append(list, x)[i] = list[i]
           /\ Append(list, x)[Len(list) + 1] = x
<1>1. /\ Append(list, x) \in Seq(T) /\ Len(Append(list, x)) = Len(list) + 1
      /\ (\A i \in 1..Len(list) : Append(list, x)[i] = list[i]) /\ Append(list, x)[Len(list) + 1] = x
  BY AppendProperties
<1>2. Len(list) \in Nat /\ DOMAIN list = 1..Len(list)
  BY LenProperties
<1>3. DOMAIN Append(list, x) = 1..(Len(list) + 1)
  BY <1>1, LenProperties
<1> QED BY <1>1, <1>2, <1>3

SavedBy(s) == call' = [call EXCEPT ![s] = Idle] /\ baskets' = baskets /\ outdated' = outdated

LEMMA SavesQuoteKept == ASSUME OrderingInv, NEW s \in Slots, SavesQuote(s) PROVE OrderingInv'
<1> DEFINE c == call[s]
<1>1. /\ c # Idle /\ c.phase = "saveQuote" /\ quotes' = Append(quotes, c.quote) /\ SavedBy(s)
      /\ checkouts' = checkouts /\ orders' = orders
  BY DEF SavesQuote, At, Answer, Continue, SavedBy
<1>2. c \in OrderingCall /\ ReadOK(c)
  BY <1>1, CallsRead
<1>3. c.quote \in Quoted /\ Current(c.quote)
  BY <1>1, <1>2, PhasesTell DEF ReadOK, QuoteCall
<1> HIDE DEF c
<1>4. quotes \in Seq(Quoted)
  BY DEF OrderingInv, OrderingTyped
<1>5. /\ quotes' \in Seq(Quoted) /\ DOMAIN quotes' = DOMAIN quotes \cup {Len(quotes) + 1}
      /\ (\A i \in DOMAIN quotes : quotes'[i] = quotes[i]) /\ quotes'[Len(quotes) + 1] = c.quote
  BY <1>1, <1>3, <1>4, OneMore
<1>6. OrderingTyped'
  BY <1>1, <1>5 DEF OrderingInv, OrderingTyped, SavedBy
<1>7. \A q \in DOMAIN quotes' : Current(quotes'[q])
  BY <1>3, <1>5 DEF OrderingInv, StoredOK
<1>8. \A q \in DOMAIN quotes' : Current(quotes[q])'
  BY <1>1, <1>7 DEF Current, SavedBy
<1>9. StoredOK'
  BY <1>1, <1>5, <1>8 DEF OrderingInv, StoredOK, SavedBy
<1>10. ASSUME NEW t \in Slots, call'[t] # Idle PROVE ReadOK(call[t])'
  <2>1. call'[t] = call[t]
    BY <1>1, <1>10 DEF OrderingInv, OrderingTyped, SavedBy
  <2>2. ReadOK(call[t])
    BY <1>10, <2>1 DEF OrderingInv
  <2> QED BY <1>1, <1>5, <2>1, <2>2 DEF ReadOK, Current, SavedBy
<1> QED BY <1>6, <1>9, <1>10 DEF OrderingInv

LEMMA SavesCheckoutKept == ASSUME OrderingInv, NEW s \in Slots, SavesCheckout(s) PROVE OrderingInv'
<1> DEFINE c == call[s]
           k == [basket |-> c.subject, quote |-> c.quote, hash |-> c.hash, total |-> quotes[c.quote].total]
<1>1. /\ c # Idle /\ c.phase = "saveCheckout" /\ checkouts' = Append(checkouts, k) /\ SavedBy(s)
      /\ quotes' = quotes /\ orders' = orders
  BY DEF SavesCheckout, At, Answer, Continue, SavedBy
<1>2. c \in OrderingCall /\ ReadOK(c) /\ c \in CheckoutCall
  BY <1>1, CallsRead, PhasesTell
<1>3. /\ c.quote \in DOMAIN quotes /\ quotes[c.quote] = c.hash /\ c.hash.basket = c.subject
      /\ c.hash \in Quoted /\ c.quote \in Nat /\ c.subject \in Baskets
  BY <1>2 DEF ReadOK, CheckoutCall
<1>4. k \in StoredCheckout /\ k.quote = c.quote /\ k.hash = c.hash /\ k.basket = c.subject
      /\ k.total = c.hash.total
  <2>1. c.hash.total \in Nat
    BY <1>3, QuotedAddUp DEF QuoteSums
  <2> HIDE DEF c
  <2> QED BY <1>3, <2>1 DEF StoredCheckout
<1> HIDE DEF c, k
<1>5. checkouts \in Seq(StoredCheckout)
  BY DEF OrderingInv, OrderingTyped
<1>6. /\ checkouts' \in Seq(StoredCheckout) /\ DOMAIN checkouts' = DOMAIN checkouts \cup {Len(checkouts) + 1}
      /\ (\A i \in DOMAIN checkouts : checkouts'[i] = checkouts[i]) /\ checkouts'[Len(checkouts) + 1] = k
  BY <1>1, <1>4, <1>5, OneMore
<1>7. OrderingTyped'
  BY <1>1, <1>6 DEF OrderingInv, OrderingTyped, SavedBy
<1>8. \A q \in DOMAIN quotes' : Current(quotes[q])'
  BY <1>1 DEF OrderingInv, StoredOK, Current, SavedBy
<1>9. ASSUME NEW j \in DOMAIN checkouts'
      PROVE  /\ checkouts'[j].quote \in DOMAIN quotes /\ quotes[checkouts'[j].quote] = checkouts'[j].hash
             /\ checkouts'[j].hash.basket = checkouts'[j].basket
             /\ checkouts'[j].total = checkouts'[j].hash.total
  <2>1. CASE j \in DOMAIN checkouts
    BY <1>6, <2>1 DEF OrderingInv, StoredOK
  <2>2. CASE j = Len(checkouts) + 1
    BY <1>3, <1>4, <1>6, <2>2
  <2> QED BY <1>6, <2>1, <2>2
<1>10. StoredOK'
  BY <1>1, <1>6, <1>8, <1>9 DEF OrderingInv, StoredOK, SavedBy
<1>11. ASSUME NEW t \in Slots, call'[t] # Idle PROVE ReadOK(call[t])'
  <2>1. call'[t] = call[t]
    BY <1>1, <1>11 DEF OrderingInv, OrderingTyped, SavedBy
  <2>2. ReadOK(call[t])
    BY <1>11, <2>1 DEF OrderingInv
  <2> QED BY <1>1, <1>6, <2>1, <2>2 DEF ReadOK, Current, SavedBy
<1> QED BY <1>7, <1>10, <1>11 DEF OrderingInv

LEMMA SavesOrderKept == ASSUME OrderingInv, NEW s \in Slots, SavesOrder(s) PROVE OrderingInv'
<1> DEFINE c == call[s]
           o == [checkout |-> c.checkout, hash |-> c.hash, consumer |-> c.consumer]
<1>1. /\ c # Idle /\ c.phase = "saveOrder" /\ orders' = Append(orders, o) /\ SavedBy(s)
      /\ quotes' = quotes /\ checkouts' = checkouts
  BY DEF SavesOrder, At, Answer, Continue, SavedBy
<1>2. c \in OrderingCall /\ ReadOK(c) /\ c \in OrderCall
  BY <1>1, CallsRead, PhasesTell
<1>3. /\ c.checkout \in DOMAIN checkouts /\ c.hash = checkouts[c.checkout].hash
      /\ c.subject = checkouts[c.checkout].basket /\ c.consumer = c.subject
      /\ c.hash \in Quoted /\ c.checkout \in Nat /\ c.consumer \in Baskets
  BY <1>2 DEF ReadOK, OrderCall
<1>4. o \in StoredOrder /\ o.checkout = c.checkout /\ o.hash = c.hash /\ o.consumer = c.consumer
  BY <1>3 DEF StoredOrder
<1> HIDE DEF c, o
<1>5. orders \in Seq(StoredOrder)
  BY DEF OrderingInv, OrderingTyped
<1>6. /\ orders' \in Seq(StoredOrder) /\ DOMAIN orders' = DOMAIN orders \cup {Len(orders) + 1}
      /\ (\A i \in DOMAIN orders : orders'[i] = orders[i]) /\ orders'[Len(orders) + 1] = o
  BY <1>1, <1>4, <1>5, OneMore
<1>7. OrderingTyped'
  BY <1>1, <1>6 DEF OrderingInv, OrderingTyped, SavedBy
<1>8. \A q \in DOMAIN quotes' : Current(quotes[q])'
  BY <1>1 DEF OrderingInv, StoredOK, Current, SavedBy
<1>9. ASSUME NEW j \in DOMAIN orders'
      PROVE  /\ orders'[j].checkout \in DOMAIN checkouts
             /\ orders'[j].hash = checkouts[orders'[j].checkout].hash
             /\ orders'[j].consumer = checkouts[orders'[j].checkout].basket
  <2>1. CASE j \in DOMAIN orders
    BY <1>6, <2>1 DEF OrderingInv, StoredOK
  <2>2. CASE j = Len(orders) + 1
    BY <1>3, <1>4, <1>6, <2>2
  <2> QED BY <1>6, <2>1, <2>2
<1>10. StoredOK'
  BY <1>1, <1>8, <1>9 DEF OrderingInv, StoredOK, SavedBy
<1>11. ASSUME NEW t \in Slots, call'[t] # Idle PROVE ReadOK(call[t])'
  <2>1. call'[t] = call[t]
    BY <1>1, <1>11 DEF OrderingInv, OrderingTyped, SavedBy
  <2>2. ReadOK(call[t])
    BY <1>11, <2>1 DEF OrderingInv
  <2> QED BY <1>1, <2>1, <2>2 DEF ReadOK, Current, SavedBy
<1> QED BY <1>7, <1>10, <1>11 DEF OrderingInv

LEMMA CreateBasketKept == ASSUME OrderingInv, NEW b \in Baskets, CreateBasket(b) PROVE OrderingInv'
<1> DEFINE basket == [consumer |-> b, items |-> <<>>]
<1>1. /\ baskets[b] = Null /\ baskets' = [baskets EXCEPT ![b] = basket]
      /\ call' = call /\ outdated' = outdated /\ quotes' = quotes /\ checkouts' = checkouts /\ orders' = orders
  BY DEF CreateBasket, handlerVars
<1>2. <<>> \in Carts
  <2>1. 0 \in 0..MaxLines
    BY StorefrontAssumption
  <2>2. <<>> \in [1..0 -> Line]
    OBVIOUS
  <2> QED BY <2>1, <2>2 DEF Carts
<1>3. basket \in StoredBasket /\ basket.consumer = b
  BY <1>2 DEF StoredBasket
<1> HIDE DEF basket
<1>4. /\ baskets' \in [Baskets -> StoredBasket \cup {Null}]
      /\ \A x \in Baskets : baskets'[x] = IF x = b THEN basket ELSE baskets[x]
  BY <1>1, <1>3 DEF OrderingInv, OrderingTyped
<1>5. OrderingTyped'
  BY <1>1, <1>4 DEF OrderingInv, OrderingTyped
<1>6. \A quote \in Quoted : Current(quote) => Current(quote)'
  <2> SUFFICES ASSUME NEW quote \in Quoted, Current(quote) PROVE Current(quote)'
    OBVIOUS
  <2>1. quote.basket \in Baskets /\ quote.basket # b
    BY <1>1, QuotedAddUp DEF QuoteSums, Current
  <2>2. baskets'[quote.basket] = baskets[quote.basket]
    BY <1>4, <2>1
  <2> QED BY <1>1, <2>2 DEF Current
<1>7. StoredOK'
  <2>1. \A x \in Baskets : baskets'[x] # Null => baskets'[x].consumer = x
    BY <1>3, <1>4 DEF OrderingInv, StoredOK
  <2>2. \A q \in DOMAIN quotes : Current(quotes[q])'
    <3> SUFFICES ASSUME NEW q \in DOMAIN quotes PROVE Current(quotes[q])'
      OBVIOUS
    <3>1. quotes[q] \in Quoted /\ Current(quotes[q])
      BY QuotesRead
    <3> QED BY <1>1, <1>6, <3>1 DEF Current
  <2> QED BY <1>1, <2>1, <2>2 DEF OrderingInv, StoredOK
<1>8. ASSUME NEW t \in Slots, call'[t] # Idle PROVE ReadOK(call[t])'
  <2> DEFINE d == call[t]
  <2>1. d # Idle /\ d \in OrderingCall /\ ReadOK(d) /\ d.subject \in Baskets /\ call'[t] = d
    BY <1>1, <1>8, CallsRead, PhasesTell
  <2>2. d \in BasketCall => baskets'[d.subject] # Null
    BY <1>1, <1>4, <2>1 DEF ReadOK
  <2>3. d \in QuoteCall => Current(d.quote)'
    <3> SUFFICES ASSUME d \in QuoteCall PROVE Current(d.quote)'
      OBVIOUS
    <3>1. d.quote \in Quoted /\ Current(d.quote)
      BY <2>1 DEF ReadOK, QuoteCall
    <3> QED BY <1>1, <1>6, <3>1 DEF Current
  <2> QED BY <1>1, <2>1, <2>2, <2>3 DEF ReadOK, Current
<1> QED BY <1>5, <1>7, <1>8 DEF OrderingInv

LEMMA OrderingKept == ASSUME OrderingInv, OrderingNext PROVE OrderingInv'
<1>1. ASSUME NEW item \in Items, NEW available \in BOOLEAN, SetAvailability(item, available) PROVE OrderingInv'
  BY <1>1 DEF SetAvailability, handlerVars, OrderingInv, OrderingTyped, StoredOK, ReadOK, Current
<1> QED BY <1>1, CreateBasketKept, UpdateBasketKept, GenerateQuoteKept, CreateCheckoutKept, CreateOrderKept,
           ChecksItemKept, SavesBasketKept, SavesQuoteKept, SavesCheckoutKept, SavesOrderKept DEF OrderingNext

LEMMA OrdersArePriced == OrderingInv => OrdersPricedByTheirBasket
<1> SUFFICES ASSUME OrderingInv, NEW o \in DOMAIN orders
             PROVE  LET checkout == checkouts[orders[o].checkout]
                        quote == quotes[checkout.quote]
                    IN /\ orders[o].hash = quote /\ checkout.total = quote.total
                       /\ checkout.basket = quote.basket
                       /\ orders[o].consumer = baskets[quote.basket].consumer
                       /\ quote.basket \notin outdated =>
                             quote.subtotal = subtotalFromBasket(baskets[quote.basket].items)
                       /\ quote.tax = Share(quote.subtotal, 8875)
                       /\ quote.total + quote.discount =
                             quote.subtotal + quote.tax + SERVICE_FEE_CENTS + DELIVERY_FEE_CENTS
                       /\ quote.discount <= Larger(quote.subtotal, DELIVERY_FEE_CENTS)
  BY DEF OrdersPricedByTheirBasket
<1> DEFINE k == orders[o].checkout
           q == checkouts[k].quote
<1>1. k \in DOMAIN checkouts /\ orders[o].hash = checkouts[k].hash /\ orders[o].consumer = checkouts[k].basket
  BY DEF OrderingInv, StoredOK
<1>2. /\ q \in DOMAIN quotes /\ quotes[q] = checkouts[k].hash
      /\ checkouts[k].hash.basket = checkouts[k].basket /\ checkouts[k].total = checkouts[k].hash.total
  BY <1>1 DEF OrderingInv, StoredOK
<1>3. quotes[q] \in Quoted /\ Current(quotes[q])
  BY <1>2, QuotesRead
<1>4. QuoteSums(quotes[q])
  BY <1>3, QuotedAddUp
<1>5. baskets[quotes[q].basket].consumer = quotes[q].basket
  BY <1>3, <1>4, BasketsRead DEF Current, QuoteSums
<1> QED BY <1>1, <1>2, <1>3, <1>4, <1>5 DEF Current, QuoteSums

-----------------------------------------------------------------------------
(* The storefront as a whole.                                                *)

LEMMA ZonesAndOrdersSteps ==
    ASSUME [Next]_vars
    PROVE  /\ ZonesNext \/ UNCHANGED zones
           /\ \/ part = "ordering" /\ OrderingNext
              \/ part # "ordering" /\ UNCHANGED orders
              \/ UNCHANGED <<handlerVars, orderingVars>>
BY DEF Next, ApiNext, ServiceNext, OnlyApi, OnlyStorefront, OnlyZones, OnlyDispatch, OnlyQueue, NoApi,
       vars, storefrontVars, orderingVars

LEMMA ZonesKept == ASSUME ZonesInv, [Next]_vars PROVE ZonesInv'
<1>1. CASE UNCHANGED zones
  BY <1>1 DEF ZonesInv
<1> QED BY <1>1, ZonesAndOrdersSteps, UpsertKept DEF ZonesNext

\* A behaviour about something else has no orders.
OrdersInv == IF part = "ordering" THEN OrderingInv ELSE orders = <<>>

LEMMA OrdersKept == ASSUME OrdersInv, [Next]_vars PROVE OrdersInv'
<1>1. CASE part = "ordering" /\ OrderingNext
  BY <1>1, OrderingKept, PartStays DEF OrdersInv
<1>2. CASE part # "ordering" /\ UNCHANGED orders
  BY <1>2, PartStays DEF OrdersInv
<1>3. CASE UNCHANGED <<handlerVars, orderingVars>>
  BY <1>3 DEF OrdersInv, handlerVars, orderingVars, OrderingInv, OrderingTyped, StoredOK, ReadOK, Current
<1> QED BY <1>1, <1>2, <1>3, ZonesAndOrdersSteps

\* Whatever is sold, for any menus, baskets, prices, zones, clocks and requests:
\* the menu a store is found with is the one its page shows in its newest version,
\* a store is reported orderable in its hours only, who is served nowhere is sent to
\* the nearest zones as far as the rounded distances tell them apart, and an order is
\* charged what its basket cost when it was quoted.
THEOREM StorefrontIsTrue == Spec => []StorefrontTrue
<1> DEFINE Inv == MenusOrNone /\ HoursInv /\ ZonesInv /\ OrdersInv
<1>1. Init => Inv
  <2> SUFFICES ASSUME Init PROVE Inv
    OBVIOUS
  <2>1. MenusOrNone
    BY InitMenus
  <2>2. HoursInv
    BY DEF Init, StorefrontInit, HoursInv, OpenInHours
  <2>3. ZonesInv
    <3>1. zones = <<>>
      BY DEF Init, ZonesInit
    <3> QED BY <3>1 DEF ZonesInv
  <2>4. OrdersInv
    <3>1. /\ baskets = [b \in Baskets |-> Null] /\ quotes = <<>> /\ checkouts = <<>> /\ orders = <<>>
          /\ call = [s \in Slots |-> Idle]
      BY DEF Init, HandlersInit, StorefrontInit
    <3>2. OrderingTyped
      BY <3>1 DEF OrderingTyped
    <3>3. StoredOK /\ \A s \in Slots : call[s] = Idle
      BY <3>1 DEF StoredOK
    <3> QED BY <3>1, <3>2, <3>3 DEF OrdersInv, OrderingInv
  <2> QED BY <2>1, <2>2, <2>3, <2>4
<1>2. Inv /\ [Next]_vars => Inv'
  BY NextMenus, HoursKept, ZonesKept, OrdersKept
<1>3. Inv => StorefrontTrue
  <2> SUFFICES ASSUME Inv PROVE StorefrontTrue
    OBVIOUS
  <2>1. VersionsKept
    BY VersionsFollow
  <2>2. BrowsingAgrees
    BY MenusAgree, NothingListed DEF MenusOrNone
  <2>3. OrdersPricedByTheirBasket
    <3>1. CASE part = "ordering"
      BY <3>1, OrdersArePriced DEF OrdersInv
    <3>2. CASE part # "ordering"
      <4>1. DOMAIN orders = {}
        BY <3>2 DEF OrdersInv
      <4> QED BY <4>1 DEF OrdersPricedByTheirBasket
    <3> QED BY <3>1, <3>2
  <2>4. OpenInHours
    BY DEF HoursInv
  <2> QED BY <2>1, <2>2, <2>3, <2>4, ZonesAnswer DEF StorefrontTrue
<1> QED BY <1>1, <1>2, <1>3, PTL DEF Spec

-----------------------------------------------------------------------------
(* The telemetry trackers.                                                   *)

LEMMA TimesAreNumbers == Null \notin ObservationTimes /\ \A at \in ObservationTimes : at \in Nat
BY DispatchAssumption

TelemetryInv ==
    /\ lastSeen \in [Couriers -> ObservationTimes \cup {Null}]
    /\ observed \in [Couriers -> SUBSET ObservationTimes]
    /\ accepted \in [Couriers -> Seq(ObservationTimes)]
    /\ \A c \in Couriers :
          /\ lastSeen[c] = Null => accepted[c] = <<>>
          /\ \A i \in DOMAIN accepted[c] : accepted[c][i] <= lastSeen[c]
    /\ NewestObservationKept

\* An observation that is newer than all before goes behind them.
LEMMA AppendNewer ==
    ASSUME NEW sq \in Seq(ObservationTimes), NEW at \in ObservationTimes, 
           \A i \in DOMAIN sq : sq[i] < at,
           \A i, j \in DOMAIN sq : i < j => sq[i] < sq[j]
    PROVE  /\ Append(sq, at) \in Seq(ObservationTimes)
           /\ \A i \in DOMAIN Append(sq, at) : Append(sq, at)[i] <= at
           /\ \A i, j \in DOMAIN Append(sq, at) : i < j => Append(sq, at)[i] < Append(sq, at)[j]
<1> USE TimesAreNumbers
<1>1. /\ DOMAIN Append(sq, at) = 1..(Len(sq) + 1) /\ DOMAIN sq = 1..Len(sq) /\ Len(sq) \in Nat
      /\ \A i \in 1..Len(sq) : Append(sq, at)[i] = sq[i]
      /\ Append(sq, at)[Len(sq) + 1] = at
  BY AppendProperties, LenProperties
<1>2. \A i \in DOMAIN Append(sq, at) : i \in DOMAIN sq \/ i = Len(sq) + 1
  BY <1>1
<1>3. \A i \in DOMAIN sq : sq[i] \in Nat
  BY <1>1, ElementOfSeq
<1> QED BY <1>1, <1>2, <1>3, AppendProperties

LEMMA TelemetryKept == ASSUME TelemetryInv, [Next]_vars PROVE TelemetryInv'
<1> USE TimesAreNumbers
<1>1. ASSUME NEW c \in Couriers, NEW at \in ObservationTimes, Ingest(c, at) PROVE TelemetryInv'
  <2>1. observed' = [observed EXCEPT ![c] = @ \cup {at}]
    BY <1>1 DEF Ingest
  <2>2. CASE lastSeen[c] # Null /\ at <= lastSeen[c]
    BY <1>1, <2>1, <2>2 DEF Ingest, TelemetryInv, NewestObservationKept
  <2>3. CASE ~(lastSeen[c] # Null /\ at <= lastSeen[c])
    <3>1. lastSeen' = [lastSeen EXCEPT ![c] = at] /\ accepted' = [accepted EXCEPT ![c] = Append(@, at)]
      BY <1>1, <2>3 DEF Ingest
    <3>2. accepted[c] \in Seq(ObservationTimes) /\ lastSeen[c] \in ObservationTimes \cup {Null}
      BY DEF TelemetryInv
    <3>3. DOMAIN accepted[c] = 1..Len(accepted[c]) /\ \A i \in DOMAIN accepted[c] : accepted[c][i] \in Nat
      BY <3>2, LenProperties, ElementOfSeq
    <3>4. \A i \in DOMAIN accepted[c] : accepted[c][i] < at
      <4>1. CASE lastSeen[c] = Null
        <5>1. accepted[c] = <<>>
          BY <4>1 DEF TelemetryInv
        <5> QED BY <5>1, EmptySeq
      <4>2. CASE lastSeen[c] # Null
        <5>1. \A i \in DOMAIN accepted[c] : accepted[c][i] <= lastSeen[c]
          BY DEF TelemetryInv
        <5>2. lastSeen[c] \in Nat /\ at \in Nat /\ lastSeen[c] < at
          BY <2>3, <3>2, <4>2, TimesAreNumbers
        <5> QED BY <3>3, <5>1, <5>2
      <4> QED BY <4>1, <4>2
    <3>5. \A i, j \in DOMAIN accepted[c] : i < j => accepted[c][i] < accepted[c][j]
      BY DEF TelemetryInv, NewestObservationKept
    <3>6. /\ accepted'[c] \in Seq(ObservationTimes)
          /\ \A i \in DOMAIN accepted'[c] : accepted'[c][i] <= at
          /\ \A i, j \in DOMAIN accepted'[c] : i < j => accepted'[c][i] < accepted'[c][j]
      <4> DEFINE longer == Append(accepted[c], at)
      <4>1. accepted'[c] = longer
        BY <3>1 DEF TelemetryInv
      <4>2. /\ longer \in Seq(ObservationTimes) /\ \A i \in DOMAIN longer : longer[i] <= at
            /\ \A i, j \in DOMAIN longer : i < j => longer[i] < longer[j]
        BY <3>2, <3>4, <3>5, AppendNewer
      <4> HIDE DEF longer
      <4> QED BY <4>1, <4>2
    <3>7. \A k \in Couriers : k # c => accepted'[k] = accepted[k] /\ lastSeen'[k] = lastSeen[k]
                                       /\ observed'[k] = observed[k]
      BY <2>1, <3>1 DEF TelemetryInv
    <3>8. lastSeen'[c] = at /\ observed'[c] = observed[c] \cup {at}
      BY <2>1, <3>1 DEF TelemetryInv
    <3>9. \A old \in observed[c] : old < at
      <4> SUFFICES ASSUME NEW old \in observed[c] PROVE old < at
        OBVIOUS
      <4>1. lastSeen[c] # Null /\ lastSeen[c] \in ObservationTimes /\ old <= lastSeen[c] /\ old \in Nat
        BY <3>2 DEF TelemetryInv, NewestObservationKept
      <4> QED BY <2>3, <4>1
    <3>10. /\ lastSeen' \in [Couriers -> ObservationTimes \cup {Null}]
           /\ observed' \in [Couriers -> SUBSET ObservationTimes]
           /\ accepted' \in [Couriers -> Seq(ObservationTimes)]
      BY <2>1, <3>1, <3>6 DEF TelemetryInv
    <3>11. \A k \in Couriers :
             /\ lastSeen'[k] = Null => accepted'[k] = <<>>
             /\ \A i \in DOMAIN accepted'[k] : accepted'[k][i] <= lastSeen'[k]
      BY <3>6, <3>7, <3>8 DEF TelemetryInv
    <3>12. at \in Nat /\ \A old \in observed'[c] : old <= at
      BY <3>8, <3>9 DEF TelemetryInv
    <3>13. NewestObservationKept'
      <4> SUFFICES ASSUME NEW k \in Couriers
                   PROVE  /\ observed'[k] = {} <=> lastSeen'[k] = Null
                          /\ observed'[k] # {} => lastSeen'[k] \in observed'[k]
                                                  /\ \A old \in observed'[k] : old <= lastSeen'[k]
                          /\ \A i, j \in DOMAIN accepted'[k] : i < j => accepted'[k][i] < accepted'[k][j]
        BY DEF NewestObservationKept
      <4>1. CASE k = c
        BY <4>1, <3>6, <3>8, <3>12
      <4>2. CASE k # c
        BY <4>2, <3>7 DEF TelemetryInv, NewestObservationKept
      <4> QED BY <4>1, <4>2
    <3> QED BY <3>10, <3>11, <3>13 DEF TelemetryInv
  <2> QED BY <2>2, <2>3
<1>2. CASE TelemetryRestart
  BY <1>2, EmptySeq DEF TelemetryRestart, TelemetryInv, NewestObservationKept
<1>3. CASE UNCHANGED telemetryVars
  BY <1>3 DEF telemetryVars, TelemetryInv, NewestObservationKept
<1> QED BY <1>1, <1>2, <1>3, EngineSteps DEF TelemetryNext, dispatchEngineVars

-----------------------------------------------------------------------------
(* Scores.                                                                   *)

\* Some entry of any finite range of scores comes before all others.
ScoredWithin(scored, high) == \A x \in scored : x.score \in Nat /\ x.score <= high /\ x.courierId \in Nat

LEMMA TopIsBest ==
    ASSUME NEW scored, scored # {}, NEW high \in Nat, ScoredWithin(scored, high)
    PROVE  Top(scored) \in scored /\ \A other \in scored : other.score <= Top(scored).score
<1> USE DEF ScoredWithin
<1>1. PICK best \in scored : \A other \in scored : other.score <= best.score
  <2> DEFINE T == {high - x.score : x \in scored}
  <2>1. T \in SUBSET Nat /\ T # {}
    OBVIOUS
  <2>2. PICK n \in T : \A m \in T : n <= m
    <3> HIDE DEF T
    <3> QED BY <2>1, LeastExists
  <2>3. PICK best \in scored : n = high - best.score
    OBVIOUS
  <2>4. \A other \in scored : high - best.score <= high - other.score
    BY <2>2, <2>3
  <2> QED BY <2>4
<1>2. PICK first \in scored : first.score = best.score /\
                  \A other \in scored : other.score = best.score => first.courierId <= other.courierId
  <2> DEFINE T == {x.courierId : x \in {y \in scored : y.score = best.score}}
  <2>1. T \in SUBSET Nat /\ T # {}
    OBVIOUS
  <2>2. PICK n \in T : \A m \in T : n <= m
    <3> HIDE DEF T
    <3> QED BY <2>1, LeastExists
  <2> QED BY <2>2
<1>3. \A other \in scored : ~Before(other, first)
  <2> SUFFICES ASSUME NEW other \in scored PROVE ~Before(other, first)
    OBVIOUS
  <2>1. /\ other.score \in Nat /\ first.score \in Nat /\ best.score \in Nat
        /\ other.courierId \in Nat /\ first.courierId \in Nat
        /\ other.score <= best.score /\ first.score = best.score
        /\ other.score = best.score => first.courierId <= other.courierId
    BY <1>1, <1>2
  <2> QED BY <2>1 DEF Before
<1>4. Top(scored) \in scored /\ \A other \in scored : ~Before(other, Top(scored))
  BY <1>3 DEF Top
<1>5. \A other \in scored : other.score <= Top(scored).score
  BY <1>4 DEF Before
<1> QED BY <1>4, <1>5

-----------------------------------------------------------------------------
(* The decision.                                                             *)

Cost(c) == Least(6000, c.distanceMeters) + 1200 * c.activeOrders

\* Candidates at some places of a request, whose numbers fit and whose couriers differ.
Places(candidates, r) ==
    /\ DOMAIN candidates \subseteq DOMAIN r.candidates /\ DOMAIN candidates \subseteq Nat
    /\ \A i \in DOMAIN candidates : candidates[i] = r.candidates[i]

Takers(candidates, r) ==
    {i \in DOMAIN candidates : Eligible(candidates[i]) /\ Cost(candidates[i]) <= 8500 + 15 * r.slaPressure}

\* What requests hold.
LEMMA Numbers ==
    /\ \A c \in Candidate : c.courierId \in Nat /\ c.courierId # NoCourier
                           /\ c.distanceMeters \in Nat /\ c.activeOrders \in Nat
    /\ \A p \in Pressures : p \in Nat /\ p <= 100
<1>1. /\ \A x \in Couriers : x \in Nat /\ x # NoCourier
      /\ \A x \in Distances \cup Loads : x \in Nat
      /\ \A p \in Pressures : p \in 0..100
  BY DispatchAssumption DEF NoCourier
<1>2. \A c \in Candidate : c.courierId \in Couriers /\ c.distanceMeters \in Distances /\ c.activeOrders \in Loads
  BY DEF Candidate
<1> QED BY <1>1, <1>2

LEMMA RequestsHold ==
    ASSUME NEW r \in DispatchRequests
    PROVE  /\ r.slaPressure \in Pressures /\ r.selfDelivery \in BOOLEAN /\ r.attempt \in {0, 2, 3}
           /\ DOMAIN r.candidates \subseteq Nat
           /\ \A i \in DOMAIN r.candidates : r.candidates[i] \in Candidate
<1>1. PICK n \in 0..MaxCandidates : r.candidates \in [1..n -> Candidate]
  BY DEF DispatchRequests
<1> QED BY <1>1 DEF DispatchRequests

\* Every pair of terms of the candidates has an error, which cannot do much.
ErrorsOf(candidates, p, error) ==
    \A i \in DOMAIN candidates :
        /\ error[Terms(candidates[i])] \in {-1, 0, 1}
        /\ ExactScore(candidates[i].distanceMeters, p) => error[Terms(candidates[i])] = 0

LEMMA ErrorsHold ==
    ASSUME NEW r, NEW error \in Errors(r.candidates, r.slaPressure),
           NEW candidates, Places(candidates, r)
    PROVE  ErrorsOf(candidates, r.slaPressure, error)
<1> DEFINE T == {Terms(r.candidates[i]) : i \in DOMAIN r.candidates}
<1>1. /\ error \in [T -> {-1, 0, 1}]
      /\ \A terms \in T : ExactScore(terms[1], r.slaPressure) => error[terms] = 0
  BY DEF Errors
<1>2. ASSUME NEW i \in DOMAIN candidates
      PROVE  Terms(candidates[i]) \in T /\ Terms(candidates[i])[1] = candidates[i].distanceMeters
  BY DEF Places, Terms
<1> HIDE DEF T
<1> QED BY <1>1, <1>2 DEF ErrorsOf

\* The score of a candidate, of what it costs and of the error.
LEMMA CutOff ==
    ASSUME NEW k \in Int, k <= 11500, NEW e \in {-1, 0, 1}
    PROVE  /\ Most(0, 3 * k + e) \in Nat /\ Most(0, 3 * k + e) <= 34501
           /\ Most(0, 3 * k + e) >= 4500 => k >= 1500 /\ Most(0, 3 * k + e) = 3 * k + e
           /\ k >= 1500 /\ (k > 1500 \/ e = 0) => Most(0, 3 * k + e) >= 4500
           /\ Most(0, 3 * k + e) >= 3 * k + e
BY DEF Most

LEMMA Scores ==
    ASSUME NEW c \in Candidate, NEW p \in Pressures, NEW error,
           error[Terms(c)] \in {-1, 0, 1},
           c.distanceMeters < Int32Limit, c.activeOrders < Int32Limit
    PROVE  /\ scoreCandidate(c, p, error) \in Nat /\ scoreCandidate(c, p, error) <= 34501
           /\ Cost(c) \in Nat
           /\ scoreCandidate(c, p, error) >= minCourierScore =>
                 /\ Eligible(c) /\ Cost(c) <= 8500 + 15 * p
                 /\ scoreCandidate(c, p, error) = 3 * (10000 - Cost(c) + 15 * p) + error[Terms(c)]
           /\ Eligible(c) /\ Cost(c) <= 8500 + 15 * p
                 /\ (Cost(c) < 8500 + 15 * p \/ error[Terms(c)] = 0) =>
              scoreCandidate(c, p, error) >= minCourierScore
           /\ Eligible(c) =>
                 scoreCandidate(c, p, error) >= 3 * (10000 - Cost(c) + 15 * p) + error[Terms(c)]
<1>1. /\ c.distanceMeters \in Nat /\ c.activeOrders \in Nat /\ p \in Nat /\ p <= 100
      /\ c.distanceMeters < Int32Limit /\ c.activeOrders < Int32Limit
  BY Numbers, DispatchAssumption
<1>2. Int32(c.distanceMeters) = c.distanceMeters /\ Int32(c.activeOrders) = c.activeOrders
  BY <1>1 DEF Int32
<1>3. PICK d \in Nat, l \in Nat : d = c.distanceMeters /\ l = c.activeOrders
  BY <1>1
<1>4. PICK e \in {-1, 0, 1} : e = error[Terms(c)]
  OBVIOUS
<1>5. scoreCandidate(c, p, error) =
         IF Eligible(c) THEN Most(0, 3 * (10000 - Least(6000, d) - l * 1200 + p * 15) + e) ELSE 0
  BY <1>2, <1>3, <1>4 DEF scoreCandidate, ScoreUnit
<1>6. PICK near \in Nat : near = Least(6000, d)
  BY DEF Least
<1>7. PICK cost \in Nat : cost = near + 1200 * l /\ cost = Cost(c)
  BY <1>3, <1>6 DEF Cost
<1>8. CASE Eligible(c)
  <2>1. PICK k \in Int : k = 10000 - near - l * 1200 + p * 15
    BY <1>1, <1>3, <1>6
  <2>2. k = 10000 - cost + 15 * p /\ k <= 11500
    BY <1>1, <1>7, <2>1
  <2>3. PICK score : score = scoreCandidate(c, p, error)
    OBVIOUS
  <2>4. score = Most(0, 3 * k + e)
    BY <1>5, <1>6, <1>8, <2>1, <2>3
  <2>5. /\ score \in Nat /\ score <= 34501
        /\ score >= 4500 => k >= 1500 /\ score = 3 * k + e
        /\ k >= 1500 /\ (k > 1500 \/ e = 0) => score >= 4500
        /\ score >= 3 * k + e
    BY <2>2, <2>4, CutOff
  <2>6. /\ k >= 1500 <=> cost <= 8500 + 15 * p
        /\ k > 1500 <=> cost < 8500 + 15 * p
    BY <1>1, <1>7, <2>1, <2>2
  <2>7. minCourierScore = 4500
    BY DEF minCourierScore, ScoreUnit
  <2> QED BY <1>4, <1>7, <1>8, <2>2, <2>3, <2>5, <2>6, <2>7
<1>9. CASE ~Eligible(c)
  <2>1. scoreCandidate(c, p, error) = 0
    BY <1>5, <1>9
  <2> QED BY <1>7, <1>9, <2>1 DEF minCourierScore, ScoreUnit
<1> QED BY <1>8, <1>9

\* What is not a courier.
NobodyTakes(r) ==
    Decision(IF ~r.selfDelivery THEN "UNASSIGNED"
             ELSE IF r.slaPressure <= 90 THEN "MERCHANT_SELF_DELIVERY"
             ELSE "SUPPORT_QUEUE", NoCourier, FALSE)

\* Those the rounding cannot refuse.
Sure(candidates, r) ==
    {i \in Takers(candidates, r) : \/ Cost(candidates[i]) < 8500 + 15 * r.slaPressure
                                   \/ ExactScore(candidates[i].distanceMeters, r.slaPressure)}

\* The engine answers with a taker as cheap as every other, or with nobody when
\* the rounding can refuse every taker.
AnswersBest(result, candidates, r) ==
    \/ \E i \in Takers(candidates, r) :
          /\ result = Decision("COURIER", candidates[i].courierId, FALSE)
          /\ \A j \in Takers(candidates, r) : Cost(candidates[i]) <= Cost(candidates[j])
    \/ result = NobodyTakes(r) /\ Sure(candidates, r) = {}

LEMMA AssignsBest ==
    ASSUME NEW r \in DispatchRequests, WellFormed(r), NEW candidates, Places(candidates, r),
           NEW error, ErrorsOf(candidates, r.slaPressure, error)
    PROVE  AnswersBest(Assign(candidates, r.slaPressure, r.selfDelivery, error), candidates, r)
<1> DEFINE may == Takers(candidates, r)
           sure == Sure(candidates, r)
           p == r.slaPressure
           scored == ScoreCandidates(candidates, p, error)
           result == Assign(candidates, p, r.selfDelivery, error)
           nobody == NobodyTakes(r)
           score == [i \in DOMAIN candidates |-> scoreCandidate(candidates[i], p, error)]
           cost == [i \in DOMAIN candidates |-> Cost(candidates[i])]
<1>1. p \in Pressures /\ p \in Nat /\ \A i \in DOMAIN candidates : candidates[i] \in Candidate
  BY Numbers, RequestsHold DEF Places
<1>2. /\ \A i \in DOMAIN candidates :
            candidates[i].distanceMeters < Int32Limit /\ candidates[i].activeOrders < Int32Limit
      /\ \A i, j \in DOMAIN candidates : candidates[i].courierId = candidates[j].courierId => i = j
  <2>1. \A i \in DOMAIN r.candidates :
           /\ r.candidates[i].distanceMeters < Int32Limit /\ r.candidates[i].activeOrders < Int32Limit
           /\ \A j \in DOMAIN r.candidates :
                 r.candidates[i].courierId = r.candidates[j].courierId => i = j
    BY DispatchAssumption DEF WellFormed
  <2> QED BY <2>1 DEF Places
<1>3. may \subseteq DOMAIN candidates /\ DOMAIN candidates \subseteq Nat /\ sure \subseteq may
      /\ \A i \in may : candidates[i].state = "free"
  BY DEF Takers, Sure, Eligible, Places
<1>4. /\ \A i \in DOMAIN candidates : i \in may <=> Eligible(candidates[i]) /\ cost[i] <= 8500 + 15 * p
      /\ \A i \in sure : \/ cost[i] < 8500 + 15 * p
                         \/ ExactScore(candidates[i].distanceMeters, p)
  BY DEF Takers, Sure
<1>5. /\ \A x \in scored : \E i \in DOMAIN candidates :
            x.courierId = candidates[i].courierId /\ x.score = score[i]
      /\ \A i \in DOMAIN candidates : \E x \in scored :
            x.courierId = candidates[i].courierId /\ x.score = score[i]
  <2> DEFINE Entry(i) == [courierId |-> candidates[i].courierId,
                          score |-> scoreCandidate(candidates[i], p, error)]
  <2>1. scored = {Entry(i) : i \in DOMAIN candidates}
    BY DEF ScoreCandidates
  <2>2. \A i \in DOMAIN candidates : Entry(i).courierId = candidates[i].courierId /\ Entry(i).score = score[i]
    OBVIOUS
  <2> HIDE DEF Entry, scored, score
  <2> QED BY <2>1, <2>2
<1>6. \A i \in DOMAIN candidates :
         score[i] = scoreCandidate(candidates[i], p, error) /\ cost[i] = Cost(candidates[i])
  OBVIOUS
<1>7. result = IF /\ scored # {} /\ Top(scored).score >= minCourierScore
                  /\ CandidateOf(candidates, Top(scored).courierId).state = "free"
               THEN Decision("COURIER", Top(scored).courierId, FALSE) ELSE nobody
  BY DEF Assign, NobodyTakes, maxMerchantFallbackSLAPressure
<1>8. \A i \in DOMAIN candidates :
         /\ error[Terms(candidates[i])] \in {-1, 0, 1}
         /\ ExactScore(candidates[i].distanceMeters, p) => error[Terms(candidates[i])] = 0
  BY DEF ErrorsOf
<1> HIDE DEF may, sure, p, scored, result, nobody, score, cost
<1>9. \A i \in DOMAIN candidates :
         /\ score[i] \in Nat /\ score[i] <= 34501 /\ cost[i] \in Nat
         /\ score[i] >= 4500 => i \in may
         /\ i \in sure => score[i] >= 4500
         /\ i \in may => score[i] >= 3 * (10000 - cost[i] + 15 * p) - 1
         /\ score[i] >= 4500 => score[i] <= 3 * (10000 - cost[i] + 15 * p) + 1
  <2> SUFFICES ASSUME NEW i \in DOMAIN candidates
               PROVE  /\ score[i] \in Nat /\ score[i] <= 34501 /\ cost[i] \in Nat
                      /\ score[i] >= 4500 => i \in may
                      /\ i \in sure => score[i] >= 4500
                      /\ i \in may => score[i] >= 3 * (10000 - cost[i] + 15 * p) - 1
                      /\ score[i] >= 4500 => score[i] <= 3 * (10000 - cost[i] + 15 * p) + 1
    OBVIOUS
  <2>1. PICK c \in Candidate : c = candidates[i]
    BY <1>1
  <2>2. PICK e \in {-1, 0, 1} : e = error[Terms(c)]
    BY <1>8, <2>1
  <2>3. c.distanceMeters < Int32Limit /\ c.activeOrders < Int32Limit
    BY <1>2, <2>1
  <2>4. PICK mark : mark = scoreCandidate(c, p, error)
    OBVIOUS
  <2>5. minCourierScore = 4500
    BY DEF minCourierScore, ScoreUnit
  <2>6. PICK price : price = Cost(c)
    OBVIOUS
  <2>7. /\ mark \in Nat /\ mark <= 34501 /\ price \in Nat
        /\ mark >= 4500 => /\ Eligible(c) /\ price <= 8500 + 15 * p
                           /\ mark = 3 * (10000 - price + 15 * p) + e
        /\ Eligible(c) /\ price <= 8500 + 15 * p /\ (price < 8500 + 15 * p \/ e = 0) => mark >= 4500
        /\ Eligible(c) => mark >= 3 * (10000 - price + 15 * p) + e
    BY <1>1, <2>1, <2>2, <2>3, <2>4, <2>5, <2>6, Scores
  <2>8. /\ score[i] = mark /\ cost[i] = price
        /\ i \in may <=> Eligible(c) /\ price <= 8500 + 15 * p
        /\ i \in sure => i \in may /\ (price < 8500 + 15 * p \/ e = 0)
    BY <1>3, <1>4, <1>6, <1>8, <2>1, <2>2, <2>4, <2>6
  <2> QED BY <1>1, <2>2, <2>7, <2>8
<1>10. \A x \in scored : x.score \in Nat /\ x.score <= 34501 /\ x.courierId \in Nat
  <2>1. \A i \in DOMAIN candidates : candidates[i].courierId \in Nat
    BY <1>1, Numbers
  <2> QED BY <1>5, <1>9, <2>1
<1>11. scored # {} => Top(scored) \in scored /\ \A other \in scored : other.score <= Top(scored).score
  <2>1. PICK high \in Nat : high = 34501
    OBVIOUS
  <2>2. ScoredWithin(scored, high)
    BY <1>10, <2>1 DEF ScoredWithin
  <2> QED BY <2>1, <2>2, TopIsBest
<1>12. ASSUME scored # {}, Top(scored).score >= minCourierScore
       PROVE  \E k \in may : result = Decision("COURIER", candidates[k].courierId, FALSE)
                             /\ \A j \in may : cost[k] <= cost[j]
  <2>1. PICK top \in scored : top = Top(scored) /\ \A other \in scored : other.score <= top.score
    BY <1>11, <1>12
  <2>2. PICK k \in DOMAIN candidates : top.courierId = candidates[k].courierId /\ top.score = score[k]
    BY <1>5, <2>1
  <2>3. \A j \in DOMAIN candidates : score[j] <= score[k]
    BY <1>5, <2>1, <2>2
  <2>4. score[k] >= 4500
    BY <1>12, <2>1, <2>2 DEF minCourierScore, ScoreUnit
  <2>5. k \in may
    BY <1>9, <2>2, <2>4
  <2>6. CandidateOf(candidates, top.courierId) = candidates[k]
    <3>1. {j \in DOMAIN candidates : candidates[j].courierId = top.courierId} = {k}
      BY <1>2, <2>2
    <3>2. k \in Nat /\ Max({k}) = k
      BY <1>3, <2>2 DEF Max
    <3> QED BY <3>1, <3>2 DEF CandidateOf
  <2>7. result = Decision("COURIER", candidates[k].courierId, FALSE)
    BY <1>3, <1>7, <1>12, <2>1, <2>2, <2>5, <2>6
  <2>8. \A j \in may : cost[k] <= cost[j]
    <3> SUFFICES ASSUME NEW j \in may PROVE cost[k] <= cost[j]
      OBVIOUS
    <3>1. j \in DOMAIN candidates
      BY <1>3
    <3>2. /\ score[j] <= score[k] /\ score[j] \in Nat /\ score[k] \in Nat
          /\ score[j] >= 3 * (10000 - cost[j] + 15 * p) - 1
          /\ score[k] <= 3 * (10000 - cost[k] + 15 * p) + 1
          /\ cost[j] \in Nat /\ cost[k] \in Nat
      BY <1>9, <2>2, <2>3, <2>4, <3>1
    <3> QED BY <1>1, <3>2
  <2> QED BY <2>5, <2>7, <2>8
<1>13. ASSUME ~(scored # {} /\ Top(scored).score >= minCourierScore) PROVE result = nobody /\ sure = {}
  <2>1. result = nobody
    BY <1>7, <1>13
  <2>2. ASSUME NEW i \in sure PROVE FALSE
    <3>1. i \in DOMAIN candidates
      BY <1>3
    <3>2. score[i] >= 4500 /\ score[i] \in Nat
      BY <1>9, <3>1
    <3>3. PICK x \in scored : x.score = score[i]
      BY <1>5, <3>1
    <3>4. x.score <= Top(scored).score /\ Top(scored).score \in Nat
      BY <1>10, <1>11, <3>3
    <3> QED BY <1>13, <3>2, <3>3, <3>4 DEF minCourierScore, ScoreUnit
  <2> QED BY <2>1, <2>2
<1>14. \A i, j \in may : cost[i] <= cost[j] <=> Cost(candidates[i]) <= Cost(candidates[j])
  BY <1>3, <1>6
<1>15. \/ \E k \in may : result = Decision("COURIER", candidates[k].courierId, FALSE)
                         /\ \A j \in may : Cost(candidates[k]) <= Cost(candidates[j])
       \/ result = nobody /\ sure = {}
  BY <1>12, <1>13, <1>14
<1> QED BY <1>15 DEF may, sure, result, nobody, p, AnswersBest

-----------------------------------------------------------------------------
(* Every decision.                                                           *)

EngineInv ==
    /\ dispatchRequest # Null => /\ dispatchRequest \in DispatchRequests
                                 /\ dispatchRequest.attempt = 0 => dispatchRequest.previous = NoCourier
    /\ decision # Null =>
          /\ dispatchRequest # Null
          /\ \E error \in Errors(dispatchRequest.candidates, dispatchRequest.slaPressure) :
                decision = IF dispatchRequest.attempt = 0
                           THEN Assign(dispatchRequest.candidates, dispatchRequest.slaPressure,
                                       dispatchRequest.selfDelivery, error)
                           ELSE Reassign(dispatchRequest, error)

LEMMA EngineKept == ASSUME EngineInv, [Next]_vars PROVE EngineInv'
<1>1. ASSUME NEW r \in DispatchRequests, dispatchRequest = Null, ReceiveDispatch(r) PROVE EngineInv'
  BY <1>1 DEF ReceiveDispatch, EngineInv
<1>2. CASE Decide
  BY <1>2 DEF Decide, EngineInv
<1>3. CASE UNCHANGED engineVars
  BY <1>3 DEF engineVars, EngineInv
<1> QED BY <1>1, <1>2, <1>3, EngineSteps DEF EngineNext, dispatchEngineVars

LEMMA BestAssigned == EngineInv => BestCourierAssigned
<1> SUFFICES ASSUME EngineInv, decision # Null, WellFormed(dispatchRequest)
             PROVE  BestCourierAssigned
  BY DEF BestCourierAssigned
<1> DEFINE may(r) == {i \in DOMAIN r.candidates :
                        /\ Eligible(r.candidates[i]) /\ r.candidates[i].courierId # r.previous
                        /\ Cost(r.candidates[i]) <= 8500 + 15 * r.slaPressure}
<1>1. PICK r \in DispatchRequests : r = dispatchRequest
  BY DEF EngineInv
<1>2. /\ r.attempt = 0 => r.previous = NoCourier
      /\ WellFormed(r) /\ r.attempt \in {0, 2, 3} /\ r.slaPressure \in Nat /\ r.selfDelivery \in BOOLEAN
      /\ DOMAIN r.candidates \subseteq Nat
      /\ \A i \in DOMAIN r.candidates : r.candidates[i].courierId # NoCourier
  BY <1>1, Numbers, RequestsHold DEF EngineInv
<1>3. PICK error \in Errors(r.candidates, r.slaPressure) :
         decision = IF r.attempt = 0 THEN Assign(r.candidates, r.slaPressure, r.selfDelivery, error)
                    ELSE Reassign(r, error)
  BY <1>1 DEF EngineInv
<1> DEFINE Result(candidates) == Assign(candidates, r.slaPressure, r.selfDelivery, error)
           Chosen(candidates) ==
               /\ Places(candidates, r) /\ Takers(candidates, r) = may(r)
               /\ \A i \in may(r) : candidates[i] = r.candidates[i]
               /\ decision = IF r.attempt >= 3 /\ Result(candidates).mode = "UNASSIGNED"
                             THEN Decision("SUPPORT_QUEUE", NoCourier, TRUE) ELSE Result(candidates)
<1>4. PICK candidates : Chosen(candidates)
  <2>1. CASE r.attempt = 0
    <3>1. decision = Assign(r.candidates, r.slaPressure, r.selfDelivery, error)
      BY <1>3, <2>1
    <3>2. Places(r.candidates, r) /\ Takers(r.candidates, r) = may(r)
      BY <1>2, <2>1 DEF Places, Takers
    <3>3. ~(r.attempt >= 3)
      BY <2>1
    <3> HIDE DEF may
    <3>4. Chosen(r.candidates)
      BY <3>1, <3>2, <3>3
    <3> HIDE DEF Chosen
    <3> QED BY <3>4
  <2>2. CASE r.attempt # 0
    <3> DEFINE others == [i \in {j \in DOMAIN r.candidates :
                                    r.candidates[j].courierId # r.previous} |-> r.candidates[i]]
    <3>1. decision = IF r.attempt >= 3 /\ Result(others).mode = "UNASSIGNED"
                     THEN Decision("SUPPORT_QUEUE", NoCourier, TRUE) ELSE Result(others)
      BY <1>3, <2>2, Zenon DEF Reassign
    <3>2. Places(others, r) /\ Takers(others, r) = may(r)
      BY <1>2 DEF Places, Takers
    <3>3. \A i \in may(r) : others[i] = r.candidates[i]
      OBVIOUS
    <3> HIDE DEF others
    <3>4. Chosen(others)
      BY <3>1, <3>2, <3>3
    <3> HIDE DEF Chosen
    <3> QED BY <3>4
  <2> HIDE DEF Chosen
  <2> QED BY <2>1, <2>2
<1>5. r.attempt >= 3 <=> r.attempt = 3
  BY <1>2
<1> HIDE DEF may
<1>6. AnswersBest(Result(candidates), candidates, r)
  BY <1>2, <1>4, ErrorsHold, AssignsBest
<1> DEFINE limit == 8500 + 15 * r.slaPressure
           best == \E i \in may(r) :
                      /\ r.candidates[i].courierId = decision.courierId
                      /\ \A j \in may(r) : Cost(r.candidates[i]) <= Cost(r.candidates[j])
           sure == \E i \in may(r) : \/ Cost(r.candidates[i]) < limit
                                     \/ ExactScore(r.candidates[i].distanceMeters, r.slaPressure)
           noCourier == /\ decision.courierId = NoCourier
                        /\ decision.mode = "SUPPORT_QUEUE" <=>
                              IF r.selfDelivery THEN r.slaPressure > 90 ELSE r.attempt >= 3
                        /\ decision.escalated => r.attempt >= 3
<1>7. \/ decision.mode = "COURIER" /\ ~decision.escalated /\ best
      \/ decision.mode # "COURIER" /\ noCourier /\ ~sure
  <2>1. CASE \E i \in Takers(candidates, r) :
                /\ Result(candidates) = Decision("COURIER", candidates[i].courierId, FALSE)
                /\ \A j \in Takers(candidates, r) : Cost(candidates[i]) <= Cost(candidates[j])
    <3>1. PICK i \in may(r) : /\ Result(candidates) = Decision("COURIER", candidates[i].courierId, FALSE)
                              /\ \A j \in may(r) : Cost(candidates[i]) <= Cost(candidates[j])
      BY <1>4, <2>1
    <3>2. decision = Decision("COURIER", r.candidates[i].courierId, FALSE)
      <4>1. Result(candidates) = Decision("COURIER", r.candidates[i].courierId, FALSE)
        <5>1. candidates[i] = r.candidates[i]
          BY <1>4, <3>1
        <5> QED BY <3>1, <5>1
      <4>2. Result(candidates).mode # "UNASSIGNED"
        BY <4>1 DEF Decision
      <4> QED BY <1>4, <4>1, <4>2
    <3>3. \A j \in may(r) : Cost(r.candidates[i]) <= Cost(r.candidates[j])
      BY <1>4, <3>1
    <3>4. decision.courierId = r.candidates[i].courierId /\ decision.mode = "COURIER" /\ ~decision.escalated
      BY <3>2 DEF Decision
    <3> QED BY <3>3, <3>4
  <2>2. CASE Result(candidates) = NobodyTakes(r) /\ Sure(candidates, r) = {}
    <3>1. decision.mode # "COURIER" /\ noCourier
      BY <1>2, <1>4, <2>2 DEF Decision, NobodyTakes
    <3>2. ASSUME NEW i \in may(r), \/ Cost(r.candidates[i]) < limit
                                   \/ ExactScore(r.candidates[i].distanceMeters, r.slaPressure)
          PROVE  FALSE
      <4>1. candidates[i] = r.candidates[i] /\ i \in Takers(candidates, r)
        BY <1>4
      <4>2. i \in Sure(candidates, r)
        <5>1. \/ Cost(candidates[i]) < 8500 + 15 * r.slaPressure
              \/ ExactScore(candidates[i].distanceMeters, r.slaPressure)
          BY <3>2, <4>1
        <5> QED BY <4>1, <5>1 DEF Sure
      <4> QED BY <2>2, <4>2
    <3> QED BY <3>1, <3>2
  <2> HIDE DEF Result, Chosen, best, sure, noCourier
  <2> QED BY <1>6, <2>1, <2>2 DEF AnswersBest
<1>8. /\ decision.mode = "COURIER" => ~decision.escalated /\ best
      /\ sure => decision.mode = "COURIER"
      /\ decision.mode # "COURIER" => noCourier
  BY <1>7
<1> QED BY <1>1, <1>8 DEF BestCourierAssigned, Cost, may

\* At every moment the courier assigned is the best one, and every tracker is at
\* the newest observation.
THEOREM DispatchIsSound == Spec => []DispatchSound
<1>1. Init => TelemetryInv /\ EngineInv
  BY EmptySeq DEF Init, DispatchEngineInit, TelemetryInv, NewestObservationKept, EngineInv
<1>2. TelemetryInv /\ EngineInv /\ [Next]_vars => (TelemetryInv /\ EngineInv)'
  BY TelemetryKept, EngineKept
<1>3. TelemetryInv /\ EngineInv => DispatchSound
  BY BestAssigned DEF DispatchSound, TelemetryInv
<1> QED BY <1>1, <1>2, <1>3, PTL DEF Spec
=============================================================================
