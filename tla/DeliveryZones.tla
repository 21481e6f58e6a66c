---------------------------- MODULE DeliveryZones ----------------------------
(***************************************************************************)
(* Delivery zones: DeliveryZoneService over its repository.                *)
(*                                                                         *)
(* A zone is a box of coordinates.  A point is served by the first zone    *)
(* listed that holds it; a point outside all is offered the three zones    *)
(* whose middles are nearest, by a distance rounded to six decimals.  The  *)
(* arithmetic is exact here but for that rounding: the code computes the   *)
(* distance with doubles, whose errors are some 10^-14 of a degree.        *)
(***************************************************************************)
EXTENDS Handlers, Integers, Sequences, SequencesExt, FiniteSets

CONSTANTS
    Zones,
    Latitudes, Longitudes,              \* the limits of zones
    PointLatitudes, PointLongitudes,    \* where customers are
    Grain                               \* what distances are rounded to: 10^-6 of a degree

\* In units that leave the middle of two limits whole.
ASSUME ZonesAssumption ==
    /\ \A x \in Latitudes \cup Longitudes : x \in Nat /\ x % 2 = 0
    /\ PointLatitudes \cup PointLongitudes \subseteq Nat
    /\ Grain \in Nat \ {0}

VARIABLE zones    \* PersistentDeliveryZoneRepository: the zones, as listed

Box == [minLat : Latitudes, maxLat : Latitudes, minLng : Longitudes, maxLng : Longitudes]
Point == [latitude : PointLatitudes, longitude : PointLongitudes]

ZonesInit == zones = <<>>

MovedToEnd(i, zone) ==
    [k \in DOMAIN zones |-> IF k < i THEN zones[k] ELSE IF k < Len(zones) THEN zones[k + 1] ELSE zone]

\* A zone stored again keeps its place in the memory store and moves to the end
\* in Postgres, which lists by the time of the last update.
upsertZone(id, box) ==
    LET zone == [zoneId |-> id, box |-> box]
    IN /\ \/ /\ \A i \in DOMAIN zones : zones[i].zoneId # id
             /\ zones' = Append(zones, zone)
          \/ \E i \in DOMAIN zones :
                /\ zones[i].zoneId = id
                /\ zones' \in {[zones EXCEPT ![i] = zone], MovedToEnd(i, zone)}
       /\ UNCHANGED handlerVars

ZonesNext == \E id \in Zones, box \in Box : upsertZone(id, box)

-----------------------------------------------------------------------------
(* validatePoint *)

isInside(box, p) ==
    /\ box.minLat <= p.latitude /\ p.latitude <= box.maxLat
    /\ box.minLng <= p.longitude /\ p.longitude <= box.maxLng

center(box) == [latitude |-> (box.minLat + box.maxLat) \div 2,
                longitude |-> (box.minLng + box.maxLng) \div 2]

SquaredDistance(p, q) ==
    LET dLat == p.latitude - q.latitude
        dLng == p.longitude - q.longitude
    IN dLat * dLat + dLng * dLng

\* The number of grains toFixed(6) makes of a distance: the nearest one, and the
\* larger of two.  Twice the distance is between 2n - 1 and 2n + 1 grains.
Grains(squared) ==
    LET bound(m) == (m * Grain) * (m * Grain)
    IN CHOOSE n \in 0..squared :
          4 * squared < bound(2 * n + 1) /\ (n = 0 \/ bound(2 * n - 1) <= 4 * squared)

distanceScore(p, q) == Grains(SquaredDistance(p, q))

\* Mutant of Nearer: the sort compares the other way round.
FartherFirst(p, i, j) ==
    LET d(k) == distanceScore(p, center(zones[k].box)) IN d(i) > d(j) \/ (d(i) = d(j) /\ i < j)

\* The order of a stable sort by distance.
Nearer(p, i, j) ==
    LET d(k) == distanceScore(p, center(zones[k].box)) IN d(i) < d(j) \/ (d(i) = d(j) /\ i < j)

\* How many zones the sort puts before the zone at a place.
RankOf(p, i) == Cardinality({j \in DOMAIN zones : Nearer(p, j, i)})

\* The alternatives are places in the list, nearest first.
validatePoint(p) ==
    LET inside == {i \in DOMAIN zones : isInside(zones[i].box, p)}
        offered == IF Len(zones) < 3 THEN Len(zones) ELSE 3
    IN [zone |-> IF inside = {} THEN 0 ELSE CHOOSE i \in inside : \A j \in inside : i <= j,
        alternatives |-> IF inside = {}
                         THEN [r \in 1..offered |-> CHOOSE i \in DOMAIN zones : RankOf(p, i) = r - 1]
                         ELSE <<>>]

-----------------------------------------------------------------------------

\* Whether a distance is at most one grain longer than another, given their
\* squares: some m is at most twice the other, and twice the one at most m + 2
\* grains.
GrainLonger(squared, other) ==
    \E m \in 0..(4 * other) :
        m * m <= 4 * other /\ 4 * squared <= (m + 2 * Grain) * (m + 2 * Grain)

\* Whoever is sent elsewhere is sent to the nearest place that delivers: someone
\* served nowhere is offered three zones, or all there are, none farther by more
\* than the rounding than one passed over, and is served at the middle of each,
\* unless its limits are the wrong way round, which nothing refuses.  And a zone
\* stored again, wherever it is then listed, is never listed twice.
ZonesServe ==
    /\ \A i, j \in DOMAIN zones : zones[i].zoneId = zones[j].zoneId => i = j
    /\ \A p \in Point :
          LET a == validatePoint(p)
              offered == ToSet(a.alternatives)
              squared(k) == SquaredDistance(p, center(zones[k].box))
          IN a.zone = 0 =>
               /\ Len(a.alternatives) = IF Len(zones) < 3 THEN Len(zones) ELSE 3
               /\ \A i \in offered, j \in DOMAIN zones \ offered : GrainLonger(squared(i), squared(j))
               /\ \A i \in offered :
                     LET box == zones[i].box IN
                     \/ validatePoint(center(box)).zone # 0
                     \/ box.minLat > box.maxLat \/ box.minLng > box.maxLng
=============================================================================
