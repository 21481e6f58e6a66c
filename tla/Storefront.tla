----------------------------- MODULE Storefront -----------------------------
(***************************************************************************)
(* The catalog, the baskets and the prices of core-api, over the document  *)
(* store: MenuService, StoreStatusService, ItemAvailabilityService,        *)
(* BasketService, QuoteService, CheckoutService and the part of            *)
(* OrderService.createOrder that reads a checkout.                         *)
(*                                                                         *)
(* Money is in integer cents.  A quote hash is the record it digests, so   *)
(* two hashes are equal when the digested fields are.  A quote, a checkout *)
(* and an order are never changed, so each is known by its place in the    *)
(* order they were stored.                                                 *)
(***************************************************************************)
EXTENDS Handlers, Sequences, SequencesExt, FiniteSetsExt

CONSTANTS
    Menus, Dishes,         \* menus, and what one version of a menu sells
    Baskets, Items,
    Prices,                \* unit prices in cents
    MaxQuantity, MaxLines, \* bounds on the pieces of one line and on a basket's lines
    MaxVersions, MaxStamp, \* bounds on the versions of all menus and on the clock
    MaxQuotes, MaxCheckouts, MaxOrders,    \* bounds on what is stored
    DayTimes               \* the times of day looked at, in minutes

\* A stored menu.
MenuRecord ==
    [currentVersion : Nat, versions : Seq([version : Nat, items : Dishes]), updatedAt : Nat]

Line == [itemId : Items, quantity : 1..MaxQuantity, unitPriceCents : Prices]

ASSUME StorefrontAssumption ==
    /\ Null \notin MenuRecord /\ Null \notin Menus
    /\ Null \notin [consumer : Baskets, items : Seq(Line)]
    /\ Prices \subseteq Nat /\ DayTimes \subseteq 0..1439
    /\ {MaxQuantity, MaxLines, MaxVersions, MaxStamp, MaxQuotes, MaxCheckouts, MaxOrders} \subseteq Nat

VARIABLES
    menus,                 \* PersistentMenuRepository: menu -> record, or Null
    latestStamp,           \* the clock when it was last read for a menu
    updatesAnswered,       \* history: menu -> the versions its merchant was answered
    storeStatus,           \* PersistentStoreStatusRepository: the store's record, or Null
    orderability,          \* history: the last evaluation, or Null
    unavailable,           \* PersistentItemAvailabilityRepository: the items set unavailable
    baskets,               \* PersistentBasketRepository: basket -> record, or Null
    outdated,              \* history: the baskets stored anew after they were priced
    quotes, checkouts, orders       \* the records in the order stored

menuVars == <<menus, updatesAnswered, latestStamp>>
statusVars == <<storeStatus, orderability>>
orderingVars == <<unavailable, baskets, outdated, quotes, checkouts, orders>>
storefrontVars == <<menuVars, statusVars, orderingVars>>

StorefrontInit ==
    /\ menus = [m \in Menus |-> Null] /\ updatesAnswered = [m \in Menus |-> {}] /\ latestStamp = 0
    /\ storeStatus = Null /\ orderability = Null
    /\ unavailable = {}
    /\ baskets = [b \in Baskets |-> Null] /\ outdated = {}
    /\ quotes = <<>> /\ checkouts = <<>> /\ orders = <<>>

-----------------------------------------------------------------------------
(* Menus.  A version is known by its number and by what it sells. *)

Version(number, items) == [version |-> number, items |-> items]

\* The milliseconds a handler reads: what is written next may have the same.
Stamp == {latestStamp, latestStamp + 1} \cap 0..MaxStamp

CreateMenu(m, items) ==
    /\ menus[m] = Null
    /\ \E updatedAt \in Stamp :
          /\ latestStamp' = updatedAt
          /\ menus' = [menus EXCEPT ![m] = [currentVersion |-> 1, versions |-> <<Version(1, items)>>,
                                           updatedAt |-> updatedAt]]
    /\ UNCHANGED <<updatesAnswered, handlerVars>>

VersionsStored ==
    MapThenSumSet(LAMBDA m : IF menus[m] = Null THEN 0 ELSE Len(menus[m].versions), Menus)

UpdateMenu(s, m, items) ==
    /\ Begin(s, [phase |-> "findMenu", subject |-> m, items |-> items])
    /\ UNCHANGED menuVars

FindsMenu(s) ==
    /\ At(s, "findMenu")
    /\ LET menu == menus[call[s].subject] IN
       IF menu = Null THEN Answer(s) /\ UNCHANGED latestStamp
       ELSE /\ VersionsStored < MaxVersions
            /\ \E updatedAt \in Stamp :
                 /\ latestStamp' = updatedAt
                 /\ Continue(s, [phase |-> "saveMenu", subject |-> call[s].subject,
                       updated |-> [currentVersion |-> menu.currentVersion + 1,
                                    versions |-> Append(menu.versions,
                                                    Version(menu.currentVersion + 1, call[s].items)),
                                    updatedAt |-> updatedAt]])
    /\ UNCHANGED <<menus, updatesAnswered>>

\* Mutant of SavesMenu: the versions before the new one are not carried over.
SavesMenuAlone(s) ==
    /\ At(s, "saveMenu")
    /\ LET updated == call[s].updated
           newest == updated.versions[Len(updated.versions)]
       IN /\ menus' = [menus EXCEPT ![call[s].subject] = [updated EXCEPT !.versions = <<newest>>]]
          /\ updatesAnswered' = [updatesAnswered EXCEPT ![call[s].subject] = @ \cup {newest}]
    /\ Answer(s)
    /\ UNCHANGED latestStamp

SavesMenu(s) ==
    /\ At(s, "saveMenu")
    /\ LET updated == call[s].updated
       IN /\ menus' = [menus EXCEPT ![call[s].subject] = updated]
          /\ updatesAnswered' = [updatesAnswered EXCEPT ![call[s].subject] =
                                    @ \cup {updated.versions[Len(updated.versions)]}]
    /\ Answer(s)
    /\ UNCHANGED latestStamp

\* The menus of a store, as any store lists them.
Listings == {list \in UNION {[1..n -> Menus] : n \in 0..Cardinality(Menus)} :
                IsInjective(list) /\ Range(list) = {m \in Menus : menus[m] # Null}}

\* Mutant of Supersedes: of two menus updated at once the later one counts.
SupersedesEqual(m, latest) == menus[m].updatedAt >= menus[latest].updatedAt

\* selectLatestMenuByStore goes through the list and keeps the first of equals.
Supersedes(m, latest) == menus[m].updatedAt > menus[latest].updatedAt
Discovered(list) ==
    FoldLeft(LAMBDA latest, m : IF latest = Null \/ Supersedes(m, latest) THEN m ELSE latest,
             Null, list)

\* getStoreMenu sorts by the time of the update, newest first, and takes the
\* current version of the first.
Viewed(list) ==
    LET newest == {i \in DOMAIN list : \A j \in DOMAIN list :
                      menus[list[j]].updatedAt <= menus[list[i]].updatedAt}
    IN list[Min(newest)]
ViewedVersion(m) ==
    LET current == {v \in Range(menus[m].versions) : v.version = menus[m].currentVersion}
    IN IF current # {} THEN CHOOSE v \in current : TRUE ELSE menus[m].versions[Len(menus[m].versions)]

MenusNext ==
    \/ \E m \in Menus, items \in Dishes :
          CreateMenu(m, items) \/ \E s \in Slots : UpdateMenu(s, m, items)
    \/ \E s \in Slots : FindsMenu(s) \/ SavesMenu(s)
    \/ Restart /\ UNCHANGED menuVars

-----------------------------------------------------------------------------
(* Opening hours *)

SetStatus(paused, open, close) ==
    /\ storeStatus' = [paused |-> paused, open |-> open, close |-> close]
    /\ UNCHANGED <<orderability, handlerVars>>

\* Mutant of WithinHours: hours across midnight are taken as hours of one day.
WithinHoursOfOneDay(status, at) == status.open <= at /\ at <= status.close

\* Hours that close before they open run across midnight.  They are compared with
\* the time of day in UTC: the schedule's timezone is stored and never used.
WithinHours(status, at) ==
    IF status.open <= status.close THEN status.open <= at /\ at <= status.close
    ELSE status.open <= at \/ at <= status.close

EvaluateOrderability(at) ==
    /\ orderability' = [at |-> at, status |-> storeStatus, reason |->
          CASE storeStatus = Null -> "STORE_STATUS_NOT_CONFIGURED"
            [] storeStatus # Null /\ storeStatus.paused -> "STORE_PAUSED"
            [] OTHER -> IF WithinHours(storeStatus, at) THEN "OK" ELSE "OUTSIDE_STORE_HOURS"]
    /\ UNCHANGED <<storeStatus, handlerVars>>

HoursNext ==
    \/ \E paused \in BOOLEAN, open \in DayTimes, close \in DayTimes : SetStatus(paused, open, close)
    \/ \E at \in DayTimes : EvaluateOrderability(at)

-----------------------------------------------------------------------------
(* Baskets.  A handler of baskets, quotes and checkouts saves once, as its last
   step: one that a restart stops is one that never goes on. *)

\* A handler that a request started and that has its first answer of the store.
Goes(s, handler) == BeginBeside(s, handler, FALSE)

SetAvailability(item, available) ==
    /\ unavailable' = IF available THEN unavailable \ {item} ELSE unavailable \cup {item}
    /\ UNCHANGED <<baskets, outdated, quotes, checkouts, orders, handlerVars>>

\* A bound: every consumer makes one basket, which is named for its consumer.
CreateBasket(b) ==
    /\ baskets[b] = Null
    /\ baskets' = [baskets EXCEPT ![b] = [consumer |-> b, items |-> <<>>]]
    /\ UNCHANGED <<unavailable, outdated, quotes, checkouts, orders, handlerVars>>

\* The basket is read first, then each item's availability, one await each.
UpdateBasket(s, b, items) ==
    /\ baskets[b] # Null
    /\ Goes(s, [phase |-> IF items = <<>> THEN "saveBasket" ELSE "checkItem", subject |-> b,
                items |-> items, consumer |-> baskets[b].consumer, looked |-> 0, missing |-> FALSE])
    /\ UNCHANGED orderingVars

ChecksItem(s) ==
    /\ At(s, "checkItem")
    /\ LET c == call[s]
           looked == c.looked + 1
           missing == c.missing \/ c.items[looked].itemId \in unavailable
       IN CASE looked < Len(c.items) -> Continue(s, [c EXCEPT !.looked = looked, !.missing = missing])
            [] looked = Len(c.items) /\ missing -> Answer(s)
            [] OTHER -> Await(s, "saveBasket")
    /\ UNCHANGED orderingVars

\* The basket has a quote, or one on its way to the store.
Priced(b) ==
    \/ \E q \in DOMAIN quotes : quotes[q].basket = b
    \/ \E t \in Slots : At(t, "saveQuote") /\ call[t].subject = b

SavesBasket(s) ==
    /\ At(s, "saveBasket")
    /\ LET c == call[s]
       IN /\ baskets' = [baskets EXCEPT ![c.subject] = [consumer |-> c.consumer, items |-> c.items]]
          /\ outdated' = IF Priced(c.subject) THEN outdated \cup {c.subject} ELSE outdated
    /\ Answer(s)
    /\ UNCHANGED <<unavailable, quotes, checkouts, orders>>

-----------------------------------------------------------------------------
(* Prices *)

SERVICE_FEE_CENTS == 199
DELIVERY_FEE_CENTS == 299
Promos == {"WELCOME10", "FREESHIP", "none or unknown"}

Smaller(m, n) == IF m <= n THEN m ELSE n
Larger(m, n) == IF m >= n THEN m ELSE n

\* Math.round, of a share in hundred-thousandths.
Share(cents, share) == (cents * share + 50000) \div 100000

subtotalFromBasket(items) ==
    FoldFunction(LAMBDA line, total : line.quantity * line.unitPriceCents + total, 0, items)

evaluatePromotion(subtotal, promo, deliveryFee) ==
    CASE promo = "WELCOME10" /\ subtotal >= 1000 -> Smaller(Share(subtotal, 10000), 1000)
      [] promo = "FREESHIP" -> deliveryFee
      [] OTHER -> 0

\* Mutant of Quote: the discount is taken from the subtotal before the tax.
QuoteDiscountedFirst(b, items, promo) ==
    LET full == subtotalFromBasket(items)
        discount == evaluatePromotion(full, promo, DELIVERY_FEE_CENTS)
        subtotal == full - discount
        tax == Share(subtotal, 8875)
    IN [basket |-> b, subtotal |-> subtotal, tax |-> tax, discount |-> discount, promo |-> promo,
        total |-> Larger(0, subtotal + tax + SERVICE_FEE_CENTS + DELIVERY_FEE_CENTS)]

\* The tax of New York and two fixed fees.
Quote(b, items, promo) ==
    LET subtotal == subtotalFromBasket(items)
        tax == Share(subtotal, 8875)
        discount == evaluatePromotion(subtotal, promo, DELIVERY_FEE_CENTS)
    IN [basket |-> b, subtotal |-> subtotal, tax |-> tax, discount |-> discount, promo |-> promo,
        total |-> Larger(0, subtotal + tax + SERVICE_FEE_CENTS + DELIVERY_FEE_CENTS - discount)]

GenerateQuote(s, b, promo) ==
    /\ baskets[b] # Null
    /\ Goes(s, [phase |-> "saveQuote", subject |-> b, quote |-> Quote(b, baskets[b].items, promo)])
    /\ UNCHANGED orderingVars

SavesQuote(s) ==
    /\ At(s, "saveQuote") /\ Len(quotes) < MaxQuotes
    /\ quotes' = Append(quotes, call[s].quote)
    /\ Answer(s)
    /\ UNCHANGED <<unavailable, baskets, outdated, checkouts, orders>>

-----------------------------------------------------------------------------
(* Checkout and order.  A client names a basket, a quote and a hash of its own
   choice. *)

\* Mutant of CreateCheckout: the quote is not compared with the basket.
CreateCheckoutOfAny(s, b, q, hash) ==
    /\ quotes[q] = hash
    /\ Goes(s, [phase |-> "saveCheckout", subject |-> b, quote |-> q, hash |-> hash])
    /\ UNCHANGED orderingVars

\* The quote's age and what the basket holds by now are not looked at.
CreateCheckout(s, b, q, hash) ==
    /\ quotes[q].basket = b /\ quotes[q] = hash
    /\ Goes(s, [phase |-> "saveCheckout", subject |-> b, quote |-> q, hash |-> hash])
    /\ UNCHANGED orderingVars

SavesCheckout(s) ==
    /\ At(s, "saveCheckout") /\ Len(checkouts) < MaxCheckouts
    /\ LET c == call[s]
       IN checkouts' = Append(checkouts, [basket |-> c.subject, quote |-> c.quote, hash |-> c.hash,
                                          total |-> quotes[c.quote].total])
    /\ Answer(s)
    /\ UNCHANGED <<unavailable, baskets, outdated, quotes, orders>>

\* The checkout is read and then its basket, whose consumer never changes.
CreateOrder(s, checkout, hash) ==
    /\ checkouts[checkout].hash = hash
    /\ LET b == checkouts[checkout].basket
       IN Goes(s, [phase |-> "saveOrder", subject |-> b, checkout |-> checkout, hash |-> hash,
                   consumer |-> IF baskets[b] = Null THEN Null ELSE baskets[b].consumer])
    /\ UNCHANGED orderingVars

\* What the order goes through from here on is OrderOrchestration's.
SavesOrder(s) ==
    /\ At(s, "saveOrder") /\ Len(orders) < MaxOrders
    /\ LET c == call[s]
       IN orders' = Append(orders, [checkout |-> c.checkout, hash |-> c.hash, consumer |-> c.consumer])
    /\ Answer(s)
    /\ UNCHANGED <<unavailable, baskets, outdated, quotes, checkouts>>

Carts == UNION {[1..n -> Line] : n \in 0..MaxLines}

\* The hash of a stored quote, or any other text.
Hashes == {quotes[q] : q \in DOMAIN quotes} \cup {Null}

OrderingNext ==
    \/ \E item \in Items, available \in BOOLEAN : SetAvailability(item, available)
    \/ \E b \in Baskets :
         \/ CreateBasket(b)
         \/ \E s \in Slots :
              \/ \E items \in Carts : UpdateBasket(s, b, items)
              \/ \E promo \in Promos : GenerateQuote(s, b, promo)
              \/ \E q \in DOMAIN quotes, hash \in Hashes : CreateCheckout(s, b, q, hash)
    \/ \E s \in Slots, c \in DOMAIN checkouts, hash \in Hashes : CreateOrder(s, c, hash)
    \/ \E s \in Slots :
         \/ ChecksItem(s) \/ SavesBasket(s) \/ SavesQuote(s)
         \/ SavesCheckout(s) \/ SavesOrder(s)

-----------------------------------------------------------------------------

\* A menu's versions are numbered without a gap, the current one is the newest,
\* and every version an update was answered with stays as answered, unless two
\* updates of the menu ran at once.
VersionsKept ==
    \A m \in Menus : menus[m] # Null =>
        /\ menus[m].currentVersion = Len(menus[m].versions)
        /\ \A i \in DOMAIN menus[m].versions : menus[m].versions[i].version = i
        /\ m \notin overlapped =>
              \A v \in updatesAnswered[m] :
                  v.version \in DOMAIN menus[m].versions /\ menus[m].versions[v.version] = v

\* The menu a store is discovered with is the one its page shows, in its newest
\* version, also when two of its menus were updated in one millisecond.
BrowsingAgrees ==
    \A list \in Listings : list # <<>> =>
        /\ Discovered(list) = Viewed(list)
        /\ ViewedVersion(Viewed(list)).version = menus[Discovered(list)].currentVersion

\* What evaluateOrderability answers of a store: it is orderable from the minute it
\* opens through the minute it closes, counted around the clock, and never while it
\* is paused or not configured.  This says nothing of the orders that are made:
\* only the discovery of stores and the route of this answer ask for it, createOrder
\* and createCheckout do not.
OpenInHours ==
    orderability # Null =>
        (orderability.reason = "OK" <=>
            /\ orderability.status # Null
            /\ ~orderability.status.paused
            /\ (orderability.at - orderability.status.open) % 1440
                 <= (orderability.status.close - orderability.status.open) % 1440)

\* An order is charged what its basket cost when it was quoted: its hash is that
\* of a quote of its own basket, and what the basket holds costs as much unless it
\* was stored anew since; the tax is on the full subtotal, a discount no larger
\* than what it is taken from; and it is its basket's consumer who ordered.
OrdersPricedByTheirBasket ==
    \A o \in DOMAIN orders :
        LET checkout == checkouts[orders[o].checkout]
            quote == quotes[checkout.quote]
        IN /\ orders[o].hash = quote /\ checkout.total = quote.total
           /\ checkout.basket = quote.basket
           /\ orders[o].consumer = baskets[quote.basket].consumer
           /\ quote.basket \notin outdated =>
                 quote.subtotal = subtotalFromBasket(baskets[quote.basket].items)
           /\ quote.tax = Share(quote.subtotal, 8875)
           /\ quote.total + quote.discount =
                 quote.subtotal + quote.tax + SERVICE_FEE_CENTS + DELIVERY_FEE_CENTS
           /\ quote.discount <= Larger(quote.subtotal, DELIVERY_FEE_CENTS)
=============================================================================
