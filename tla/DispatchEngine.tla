--------------------------- MODULE DispatchEngine ---------------------------
(***************************************************************************)
(* The dispatch engine and the telemetry trackers.                         *)
(*                                                                         *)
(* The engine (Go, behind gRPC) keeps nothing between requests: a request  *)
(* arrives and is decided.  A score is a double in the code.  Its exact    *)
(* value is a whole number of hundredths (a meter costs one) when the      *)
(* pressure is a whole number of percent; the computed one is off by a     *)
(* tiny error that depends on the numbers added up.  Scores are in thirds  *)
(* of a hundredth here, and the error is any of -1, 0 and 1: less than     *)
(* what separates two exact scores, as in the code, but enough to tell     *)
(* equal ones apart.  A candidate's numbers travel as 32-bit integers,     *)
(* and core-api sends larger ones too.                                     *)
(*                                                                         *)
(* A tracker (one in the engine, one in core-api, with the same code)      *)
(* handles one observation at a time; observations arrive late, twice or   *)
(* in any order.                                                           *)
(***************************************************************************)
EXTENDS Handlers, Sequences, FiniteSetsExt

CONSTANTS
    Couriers,                        \* couriers by the order of their ids, which are not empty
    Distances, Loads, Pressures,     \* what requests say
    MaxCandidates,                   \* bound on the candidates of a request
    Int32Limit,                      \* 2^31 in the code
    ObservationTimes

ASSUME DispatchAssumption ==
    /\ Couriers \subseteq Nat \ {0} /\ Distances \subseteq Nat /\ Loads \subseteq Nat
    /\ Pressures \subseteq 0..100 /\ ObservationTimes \subseteq Nat
    /\ MaxCandidates \in Nat /\ Int32Limit \in Nat
    /\ Null \notin ObservationTimes

VARIABLES
    dispatchRequest,                 \* the request being handled, or Null
    decision,                        \* the engine's answer, or Null
    lastSeen,                        \* courier -> the newest time accepted, or Null
    observed, accepted               \* history since the start: times received; times accepted, in order

engineVars == <<dispatchRequest, decision>>
telemetryVars == <<lastSeen, observed, accepted>>
dispatchEngineVars == <<engineVars, telemetryVars>>

Candidate == [courierId : Couriers, distanceMeters : Distances, activeOrders : Loads,
              state : {"free", "unavailable", "resting"}]

DispatchEngineInit ==
    /\ dispatchRequest = Null /\ decision = Null
    /\ lastSeen = [c \in Couriers |-> Null]
    /\ observed = [c \in Couriers |-> {}] /\ accepted = [c \in Couriers |-> <<>>]

-----------------------------------------------------------------------------
(* Scores *)

ScoreUnit == 3
minCourierScore == 1500 * ScoreUnit
maxActiveOrders == 4
maxMerchantFallbackSLAPressure == 90

Least(m, n) == IF m <= n THEN m ELSE n
Most(m, n) == IF m >= n THEN m ELSE n

\* What of a number arrives at the engine.
Int32(n) == IF n < Int32Limit THEN n ELSE n - 2 * Int32Limit

Eligible(candidate) == candidate.state = "free" /\ Int32(candidate.activeOrders) < maxActiveOrders

\* A double holds a quarter exactly, and most other hundredths not.
ExactScore(distance, slaPressure) ==
    Least(6000, Int32(distance)) % 25 = 0 /\ slaPressure % 25 = 0

\* What a candidate's score is computed from, beside the pressure.
Terms(candidate) == <<candidate.distanceMeters, candidate.activeOrders>>

\* The errors the scores of a request can have: the same terms have the same one.
Errors(candidates, slaPressure) ==
    {error \in [{Terms(candidates[i]) : i \in DOMAIN candidates} -> {-1, 0, 1}] :
        \A terms \in DOMAIN error : ExactScore(terms[1], slaPressure) => error[terms] = 0}

scoreCandidate(candidate, slaPressure, error) ==
    IF ~Eligible(candidate) THEN 0
    ELSE Most(0, ScoreUnit * (10000 - Least(6000, Int32(candidate.distanceMeters))
                                    - Int32(candidate.activeOrders) * 1200 + slaPressure * 15)
                 + error[Terms(candidate)])

\* Higher scores first, and among equals lower ids.
Before(a, b) == a.score > b.score \/ (a.score = b.score /\ a.courierId < b.courierId)

ScoreCandidates(candidates, slaPressure, error) ==
    {[courierId |-> candidates[i].courierId,
      score |-> scoreCandidate(candidates[i], slaPressure, error)] :
        i \in DOMAIN candidates}

Top(scored) == CHOOSE best \in scored : \A other \in scored : ~Before(other, best)

-----------------------------------------------------------------------------
(* Decisions *)

NoCourier == 0
Decision(mode, courier, escalated) == [mode |-> mode, courierId |-> courier, escalated |-> escalated]

\* A courier's last entry counts when it has several.
CandidateOf(candidates, courier) ==
    candidates[Max({i \in DOMAIN candidates : candidates[i].courierId = courier})]

Assign(candidates, slaPressure, selfDelivery, error) ==
    LET scored == ScoreCandidates(candidates, slaPressure, error)
    IN CASE /\ scored # {} /\ Top(scored).score >= minCourierScore
            /\ CandidateOf(candidates, Top(scored).courierId).state = "free" ->
               Decision("COURIER", Top(scored).courierId, FALSE)
         [] OTHER ->
               Decision(IF ~selfDelivery THEN "UNASSIGNED"
                        ELSE IF slaPressure <= maxMerchantFallbackSLAPressure
                             THEN "MERCHANT_SELF_DELIVERY" ELSE "SUPPORT_QUEUE", NoCourier, FALSE)

\* Mutant of Reassign: the previous courier may get the order again.
ReassignAnyone(request, error) ==
    LET result == Assign(request.candidates, request.slaPressure, request.selfDelivery, error)
    IN IF result.mode = "UNASSIGNED" /\ request.attempt >= 3
       THEN Decision("SUPPORT_QUEUE", NoCourier, TRUE) ELSE result

\* Only an order nobody at all can take is escalated, at the third attempt.
Reassign(request, error) ==
    LET others == [i \in {j \in DOMAIN request.candidates :
                             request.candidates[j].courierId # request.previous} |-> request.candidates[i]]
        result == Assign(others, request.slaPressure, request.selfDelivery, error)
    IN IF result.mode = "UNASSIGNED" /\ request.attempt >= 3
       THEN Decision("SUPPORT_QUEUE", NoCourier, TRUE) ELSE result

\* An attempt of zero stands for a first assignment, which has no previous courier.
DispatchRequests ==
    [candidates : UNION {[1..n -> Candidate] : n \in 0..MaxCandidates},
     slaPressure : Pressures, selfDelivery : BOOLEAN,
     attempt : {0, 2, 3}, previous : Couriers \cup {NoCourier}]

ReceiveDispatch(request) ==
    /\ request.attempt = 0 => request.previous = NoCourier
    /\ dispatchRequest' = request
    /\ UNCHANGED <<decision, handlerVars>>

Decide ==
    /\ dispatchRequest # Null /\ decision = Null
    /\ \E error \in Errors(dispatchRequest.candidates, dispatchRequest.slaPressure) :
          decision' = IF dispatchRequest.attempt = 0
                      THEN Assign(dispatchRequest.candidates, dispatchRequest.slaPressure,
                                  dispatchRequest.selfDelivery, error)
                      ELSE Reassign(dispatchRequest, error)
    /\ UNCHANGED <<dispatchRequest, handlerVars>>

EngineNext ==
    \/ dispatchRequest = Null /\ \E request \in DispatchRequests : ReceiveDispatch(request)
    \/ Decide

-----------------------------------------------------------------------------
(* Telemetry *)

\* Mutant of Ingest: an observation as old as the newest is taken again.
IngestEqual(c, at) ==
    /\ observed' = [observed EXCEPT ![c] = @ \cup {at}]
    /\ IF lastSeen[c] # Null /\ at < lastSeen[c] THEN UNCHANGED <<lastSeen, accepted>>
       ELSE /\ lastSeen' = [lastSeen EXCEPT ![c] = at]
            /\ Len(accepted[c]) < 3 /\ accepted' = [accepted EXCEPT ![c] = Append(@, at)]

Ingest(c, at) ==
    /\ observed' = [observed EXCEPT ![c] = @ \cup {at}]
    /\ IF lastSeen[c] # Null /\ at <= lastSeen[c] THEN UNCHANGED <<lastSeen, accepted>>
       ELSE /\ lastSeen' = [lastSeen EXCEPT ![c] = at]
            /\ accepted' = [accepted EXCEPT ![c] = Append(@, at)]

\* The times are in memory only.
TelemetryRestart ==
    /\ Restart
    /\ lastSeen' = [c \in Couriers |-> Null]
    /\ observed' = [c \in Couriers |-> {}] /\ accepted' = [c \in Couriers |-> <<>>]

TelemetryNext ==
    \/ \E c \in Couriers, at \in ObservationTimes : Ingest(c, at) /\ UNCHANGED handlerVars
    \/ TelemetryRestart

-----------------------------------------------------------------------------

\* Every number of the request fits, and no courier is in it twice.
WellFormed(request) ==
    /\ \A i \in DOMAIN request.candidates :
          {request.candidates[i].distanceMeters, request.candidates[i].activeOrders}
             \subseteq 0..(Int32Limit - 1)
    /\ \A i, j \in DOMAIN request.candidates :
          request.candidates[i].courierId = request.candidates[j].courierId => i = j

\* What a dispatcher would do by hand: of the couriers who may take the order and
\* are not the one who gave it back, one at least as near and as little loaded,
\* weighed together, as every other, if one is good enough; else nobody, and then
\* support hears of it at the third attempt or, with self-delivery, when time is
\* too short for the merchant.  A courier exactly at the threshold may be refused,
\* because scores are doubles, unless the score has no error.
BestCourierAssigned ==
    decision # Null /\ WellFormed(dispatchRequest) =>
        LET r == dispatchRequest
            limit == 8500 + 15 * r.slaPressure
            cost(c) == Least(6000, c.distanceMeters) + 1200 * c.activeOrders
            may == {i \in DOMAIN r.candidates :
                      /\ Eligible(r.candidates[i]) /\ r.candidates[i].courierId # r.previous
                      /\ cost(r.candidates[i]) <= limit}
        IN /\ decision.mode = "COURIER" =>
                 /\ ~decision.escalated
                 /\ \E i \in may :
                       /\ r.candidates[i].courierId = decision.courierId
                       /\ \A j \in may : cost(r.candidates[i]) <= cost(r.candidates[j])
           /\ (\E i \in may : \/ cost(r.candidates[i]) < limit
                             \/ ExactScore(r.candidates[i].distanceMeters, r.slaPressure))
                 => decision.mode = "COURIER"
           /\ decision.mode # "COURIER" =>
                 /\ decision.courierId = NoCourier
                 /\ decision.mode = "SUPPORT_QUEUE" <=>
                       IF r.selfDelivery THEN r.slaPressure > 90 ELSE r.attempt >= 3
                 /\ decision.escalated => r.attempt >= 3

\* Whatever the order observations arrive in, a tracker that was not restarted
\* since is at the newest of them, and never took one that was not newer than all
\* it took before.
NewestObservationKept ==
    \A c \in Couriers :
        /\ observed[c] = {} <=> lastSeen[c] = Null
        /\ observed[c] # {} => lastSeen[c] \in observed[c] /\ \A at \in observed[c] : at <= lastSeen[c]
        /\ \A i, j \in DOMAIN accepted[c] : i < j => accepted[c][i] < accepted[c][j]
=============================================================================
