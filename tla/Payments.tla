------------------------------ MODULE Payments ------------------------------
(***************************************************************************)
(* PaymentService: payment intents, captures behind an idempotency key,    *)
(* cash on delivery, refunds and the audit trail.                          *)
(*                                                                         *)
(* Every handler reads, decides, saves one record, publishes its event and *)
(* appends an audit record, with an await between any two of these.  The   *)
(* map from idempotency keys to captured intents lives in the memory of    *)
(* the process and is written only after the capture was saved, so neither *)
(* a concurrent request nor a restarted server sees it in time.            *)
(*                                                                         *)
(* Orders are the environment here: their statuses follow OrderLifecycle.  *)
(***************************************************************************)
EXTENDS Naturals, FiniteSets

CONSTANTS
    Orders, Couriers,   \* as in OrderLifecycle
    Intents,            \* the payment intent ids randomUUID can hand out
    Refunds,            \* the refund request ids
    Keys,               \* idempotency keys clients send
    Amounts,            \* amounts in minor units
    Slots, Null, Idle,
    MaxRestarts         \* bound on the restarts of core-api

\* Publications of one event are counted up to Many, which means "or more".
Many == 2

IntentStatus == {"ABSENT", "INITIATED", "AUTHORIZED", "CAPTURED"}

\* Every method but CASH goes through the payment provider in the same way.
IntentRecord == [orderId : Orders \cup {Null}, method : {"CARD", "CASH"},
                 status : IntentStatus, amount : Amounts]
RefundRecord == [intent : Intents \cup {Null}, amount : Amounts,
                 status : {"ABSENT", "REQUESTED", "COMPLETED"}]

\* The events of PaymentService and the actionTypes of its audit records.
EventType == {"payment.authorized.v1", "payment.captured.v1", "payment.cash_expected.v1",
              "payment.cash_collected.v1", "payment.cash_mismatch_detected.v1",
              "refund.completed.v1"}
Action == {"PAYMENT_AUTHORIZED", "PAYMENT_CAPTURED", "PAYMENT_CASH_EXPECTED",
           "PAYMENT_CASH_COLLECTED", "PAYMENT_CASH_MISMATCH",
           "REFUND_REQUESTED", "REFUND_COMPLETED"}

AuditRecord == [action : Action, target : Intents \cup Refunds]

\* The event each audited action publishes; a refund request publishes none.
EventOfAction == [a \in Action \ {"REFUND_REQUESTED"} |->
    CASE a = "PAYMENT_AUTHORIZED" -> "payment.authorized.v1"
      [] a = "PAYMENT_CAPTURED" -> "payment.captured.v1"
      [] a = "PAYMENT_CASH_EXPECTED" -> "payment.cash_expected.v1"
      [] a = "PAYMENT_CASH_COLLECTED" -> "payment.cash_collected.v1"
      [] a = "PAYMENT_CASH_MISMATCH" -> "payment.cash_mismatch_detected.v1"
      [] a = "REFUND_COMPLETED" -> "refund.completed.v1"]

\* A handler in flight: the id it works on, the record it read or will save,
\* and, for a cash collection, whether the collected amount differs.
Call == [phase  : {"psp", "intent", "order", "save", "publish", "audit"},
         action : Action,
         id     : Intents \cup Refunds,
         record : IntentRecord \cup RefundRecord \cup {Null},
         key    : Keys \cup {Null},
         mismatch : BOOLEAN]

ASSUME PaymentsAssumption ==
    /\ Amounts \subseteq Nat \ {0} /\ Amounts # {}
    /\ Intents \cap Refunds = {}
    /\ Null \notin Orders \cup Intents \cup Keys
    /\ Idle \notin Call
    /\ MaxRestarts \in Nat

VARIABLES
    status, courier,  \* orders, as OrderLifecycle sees them
    accepted,         \* history: orders a merchant has ever accepted
    intents,          \* PaymentIntentRepository
    refunds,          \* RefundRequestRepository
    captureByKey,     \* captureByIdempotencyKey: the id of the captured intent
    call,             \* slot -> the handler it runs, or Idle
    published,        \* history: how often each event was published for each id
    audit,            \* PaymentAuditRepository
    restarts

orderVars == <<status, courier, accepted>>
stored == <<intents, refunds>>
vars == <<status, courier, accepted, intents, refunds, captureByKey, call,
          published, audit, restarts>>

Lifecycle == INSTANCE OrderLifecycle

AnyAmount == CHOOSE a \in Amounts : TRUE
AbsentIntent == [orderId |-> Null, method |-> "CARD", status |-> "ABSENT", amount |-> AnyAmount]
AbsentRefund == [intent |-> Null, amount |-> AnyAmount, status |-> "ABSENT"]

Init ==
    /\ Lifecycle!Init
    /\ accepted = {}
    /\ intents = [i \in Intents |-> AbsentIntent]
    /\ refunds = [f \in Refunds |-> AbsentRefund]
    /\ captureByKey = [k \in Keys |-> Null]
    /\ call = [s \in Slots |-> Idle]
    /\ published = [e \in EventType |-> [x \in Intents \cup Refunds |-> 0]]
    /\ audit = {}
    /\ restarts = 0

-----------------------------------------------------------------------------

\* The order handlers, which run beside the payment handlers.
OrderMoves ==
    /\ Lifecycle!Next
    /\ accepted' = accepted \cup {o \in Orders : status'[o] = "MERCHANT_ACCEPTED"}
    /\ UNCHANGED <<stored, captureByKey, call, published, audit, restarts>>

OnlyCall == UNCHANGED <<orderVars, stored, captureByKey, published, audit, restarts>>

Begin(s, phase, action, id, record, key, mismatch) ==
    /\ call[s] = Idle
    /\ call' = [call EXCEPT ![s] = [phase |-> phase, action |-> action, id |-> id,
                                    record |-> record, key |-> key, mismatch |-> mismatch]]
    /\ OnlyCall

InPhase(s, phase) == call[s] # Idle /\ call[s].phase = phase

\* A fresh randomUUID: nothing stored has it and no call is about to store it.
Fresh(id) == \A t \in Slots : call[t] # Idle => call[t].id # id

StoredOrder(o) == status[o] # "ABSENT"

\* authorizePayment reads the order, then awaits the provider.
AuthorizePayment(s, i, o, a) ==
    /\ StoredOrder(o)
    /\ intents[i].status = "ABSENT" /\ Fresh(i)
    /\ Begin(s, "psp", "PAYMENT_AUTHORIZED", i,
             [orderId |-> o, method |-> "CARD", status |-> "AUTHORIZED", amount |-> a], Null, FALSE)

\* The provider authorizes, or its error ends the request.
ProviderAnswers(s) ==
    /\ InPhase(s, "psp")
    /\ \/ call' = [call EXCEPT ![s].phase = "save"]
       \/ call' = [call EXCEPT ![s] = Idle]
    /\ OnlyCall

\* capturePayment: a key already in the map answers at once.
CapturePayment(s, i, k) ==
    /\ captureByKey[k] = Null
    /\ Begin(s, "intent", "PAYMENT_CAPTURED", i, Null, k, FALSE)

CaptureReadsIntent(s) ==
    /\ InPhase(s, "intent")
    /\ call' = [call EXCEPT ![s] =
                   IF intents[@.id].status = "ABSENT" THEN Idle
                   ELSE [@ EXCEPT !.phase = "order", !.record = intents[call[s].id]]]
    /\ OnlyCall

CapturableStatus == {"MERCHANT_ACCEPTED", "DISPATCH_PENDING"}

\* Mutants of CaptureReadsOrder: the precondition is forgotten, the early return
\* of a captured intent is, or the key is remembered before the save.
CaptureAnyOrder(s) ==
    /\ InPhase(s, "order")
    /\ call' = [call EXCEPT ![s].phase = "save", ![s].record.status = "CAPTURED"]
    /\ OnlyCall

CaptureAgain(s) ==
    /\ InPhase(s, "order")
    /\ status[call[s].record.orderId] \in CapturableStatus
    /\ call' = [call EXCEPT ![s].phase = "save", ![s].record.status = "CAPTURED"]
    /\ OnlyCall

RememberKeyFirst(s) ==
    LET c == call[s] IN
    /\ InPhase(s, "order")
    /\ status[c.record.orderId] \in CapturableStatus
    /\ captureByKey' = [captureByKey EXCEPT ![c.key] = c.id]
    /\ call' = [call EXCEPT ![s].phase = "save", ![s].record.status = "CAPTURED"]
    /\ UNCHANGED <<orderVars, stored, published, audit, restarts>>

\* The intent read before is captured already: remember the key.  Otherwise
\* the order read now must be capturable, or the request fails.
CaptureReadsOrder(s) ==
    LET c == call[s] IN
    /\ InPhase(s, "order")
    /\ UNCHANGED <<orderVars, stored, published, audit, restarts>>
    /\ \/ /\ c.record.status = "CAPTURED"
          /\ captureByKey' = [captureByKey EXCEPT ![c.key] = c.id]
          /\ call' = [call EXCEPT ![s] = Idle]
       \/ /\ c.record.status # "CAPTURED"
          /\ status[c.record.orderId] \in CapturableStatus
          /\ call' = [call EXCEPT ![s] = [c EXCEPT !.phase = "save", !.record.status = "CAPTURED"]]
          /\ UNCHANGED captureByKey
       \/ /\ c.record.status # "CAPTURED"
          /\ status[c.record.orderId] \notin CapturableStatus
          /\ call' = [call EXCEPT ![s] = Idle]
          /\ UNCHANGED captureByKey

MarkCashExpected(s, i, o, a) ==
    /\ StoredOrder(o)
    /\ intents[i].status = "ABSENT" /\ Fresh(i)
    /\ Begin(s, "save", "PAYMENT_CASH_EXPECTED", i,
             [orderId |-> o, method |-> "CASH", status |-> "INITIATED", amount |-> a], Null, FALSE)

\* findByOrderAndMethod picks one of the order's cash intents; nothing asks
\* whether its cash was collected before.
ConfirmCashCollection(s, i, collected) ==
    /\ intents[i].status # "ABSENT" /\ intents[i].method = "CASH"
    /\ Begin(s, "save", "PAYMENT_CASH_COLLECTED", i, [intents[i] EXCEPT !.status = "CAPTURED"],
             Null, intents[i].amount # collected)

\* Mutant of RequestRefund: any stored intent can be refunded.
RequestRefundOfAny(s, f, i, a) ==
    /\ intents[i].status # "ABSENT"
    /\ a <= intents[i].amount
    /\ refunds[f].status = "ABSENT" /\ Fresh(f)
    /\ Begin(s, "save", "REFUND_REQUESTED", f,
             [intent |-> i, amount |-> a, status |-> "REQUESTED"], Null, FALSE)

RequestRefund(s, f, i, a) ==
    /\ intents[i].status = "CAPTURED"
    /\ a <= intents[i].amount
    /\ refunds[f].status = "ABSENT" /\ Fresh(f)
    /\ Begin(s, "save", "REFUND_REQUESTED", f,
             [intent |-> i, amount |-> a, status |-> "REQUESTED"], Null, FALSE)

\* Mutants of ApproveRefund: the refund stays in the unused status APPROVED, or
\* a completed request is completed again.
ApproveRefundOnly(s, f) ==
    /\ refunds[f].status = "REQUESTED"
    /\ Begin(s, "save", "REFUND_COMPLETED", f, [refunds[f] EXCEPT !.status = "APPROVED"],
             Null, FALSE)

ApproveAnyRefund(s, f) ==
    /\ refunds[f].status # "ABSENT"
    /\ Begin(s, "save", "REFUND_COMPLETED", f, [refunds[f] EXCEPT !.status = "COMPLETED"],
             Null, FALSE)

ApproveRefund(s, f) ==
    /\ refunds[f].status = "REQUESTED"
    /\ Begin(s, "save", "REFUND_COMPLETED", f, [refunds[f] EXCEPT !.status = "COMPLETED"],
             Null, FALSE)

-----------------------------------------------------------------------------

\* Mutant of SaveRecord: the record is saved and nothing follows.
SaveAndForget(s) ==
    LET c == call[s] IN
    /\ InPhase(s, "save")
    /\ IF c.id \in Intents
       THEN intents' = [intents EXCEPT ![c.id] = c.record] /\ UNCHANGED refunds
       ELSE refunds' = [refunds EXCEPT ![c.id] = c.record] /\ UNCHANGED intents
    /\ call' = [call EXCEPT ![s] = Idle]
    /\ UNCHANGED <<orderVars, captureByKey, published, audit, restarts>>

SaveRecord(s) ==
    LET c == call[s] IN
    /\ InPhase(s, "save")
    /\ IF c.id \in Intents
       THEN intents' = [intents EXCEPT ![c.id] = c.record] /\ UNCHANGED refunds
       ELSE refunds' = [refunds EXCEPT ![c.id] = c.record] /\ UNCHANGED intents
    /\ call' = [call EXCEPT ![s].phase = "publish"]
    /\ UNCHANGED <<orderVars, captureByKey, published, audit, restarts>>

\* A capture remembers its key first; eventBus.publish is not awaited.
PublishEvent(s) ==
    LET c == call[s] IN
    /\ InPhase(s, "publish")
    /\ captureByKey' = IF c.key = Null THEN captureByKey ELSE [captureByKey EXCEPT ![c.key] = c.id]
    /\ published' = IF c.action \notin DOMAIN EventOfAction THEN published
                    ELSE [published EXCEPT ![EventOfAction[c.action]][c.id] =
                             IF @ < Many THEN @ + 1 ELSE @]
    /\ call' = [call EXCEPT ![s].phase = "audit"]
    /\ UNCHANGED <<orderVars, stored, audit, restarts>>

\* appendAuditRecord; a mismatching cash collection then publishes and audits
\* the mismatch as well.  The payment.audit_recorded.v1 it publishes after the
\* append is left out: no service handles it.
AppendAuditRecord(s) ==
    LET c == call[s] IN
    /\ InPhase(s, "audit")
    /\ audit' = audit \cup {[action |-> c.action, target |-> c.id]}
    /\ call' = [call EXCEPT ![s] =
                   IF c.mismatch THEN [@ EXCEPT !.phase = "publish", !.mismatch = FALSE,
                                                !.action = "PAYMENT_CASH_MISMATCH"]
                   ELSE Idle]
    /\ UNCHANGED <<orderVars, stored, captureByKey, published, restarts>>

\* Stored records survive, the key map and the running handlers do not.
Restart ==
    /\ restarts < MaxRestarts
    /\ restarts' = restarts + 1
    /\ call' = [s \in Slots |-> Idle]
    /\ captureByKey' = [k \in Keys |-> Null]
    /\ UNCHANGED <<orderVars, stored, published, audit>>

Start(s) ==
    \/ \E i \in Intents, o \in Orders, a \in Amounts :
           AuthorizePayment(s, i, o, a) \/ MarkCashExpected(s, i, o, a)
    \/ \E i \in Intents, k \in Keys : CapturePayment(s, i, k)
    \/ \E i \in Intents, a \in Amounts : ConfirmCashCollection(s, i, a)
    \/ \E f \in Refunds, i \in Intents, a \in Amounts : RequestRefund(s, f, i, a)
    \/ \E f \in Refunds : ApproveRefund(s, f)

Continue(s) ==
    \/ ProviderAnswers(s)
    \/ CaptureReadsIntent(s) \/ CaptureReadsOrder(s)
    \/ SaveRecord(s) \/ PublishEvent(s) \/ AppendAuditRecord(s)

Next == OrderMoves \/ Restart \/ \E s \in Slots : Start(s) \/ Continue(s)

Spec == Init /\ [][Next]_vars

\* The event loop resumes a handler whose awaited call answered.
FairSpec == Spec /\ \A s \in Slots : WF_vars(Continue(s))

-----------------------------------------------------------------------------

TypeOK ==
    /\ status \in [Orders -> {"ABSENT", "CREATED", "MERCHANT_ACCEPTED", "DISPATCH_PENDING",
                              "COURIER_ASSIGNED", "PICKED_UP", "DELIVERED", "CANCELLED"}]
    /\ courier \in [Orders -> Couriers \cup {Null}]
    /\ accepted \subseteq Orders
    /\ intents \in [Intents -> IntentRecord]
    /\ refunds \in [Refunds -> RefundRecord]
    /\ captureByKey \in [Keys -> Intents \cup {Null}]
    /\ call \in [Slots -> Call \cup {Idle}]
    /\ published \in [EventType -> [Intents \cup Refunds -> 0..Many]]
    /\ audit \subseteq AuditRecord
    /\ restarts \in 0..MaxRestarts

\* Funds are captured only for an order its merchant accepted, whatever
\* happens to the order between the check and the save.
CapturedAfterAcceptance ==
    \A i \in Intents : intents[i].status = "CAPTURED" /\ intents[i].method = "CARD"
                           => intents[i].orderId \in accepted

\* Every refund is of a captured intent and no larger than it.
RefundsBacked ==
    \A f \in Refunds : refunds[f].status # "ABSENT" =>
        LET intent == intents[refunds[f].intent] IN
        intent.status = "CAPTURED" /\ refunds[f].amount <= intent.amount

\* An idempotency key in the map always stands for a captured intent, also
\* while captures race and after restarts: a request that repeats a key is
\* never answered with a capture that did not happen.
KeyMeansCaptured ==
    \A k \in Keys : captureByKey[k] # Null => intents[captureByKey[k]].status = "CAPTURED"

\* A call is about to audit, or has to publish first, what it saved.
Auditing(action, id) ==
    \/ [action |-> action, target |-> id] \in audit
    \/ \E s \in Slots : /\ InPhase(s, "publish") \/ InPhase(s, "audit")
                        /\ call[s].action = action /\ call[s].id = id

CaptureAudited(i) == Auditing("PAYMENT_CAPTURED", i) \/ Auditing("PAYMENT_CASH_COLLECTED", i)

\* Without a restart in between, every stored state transition of a payment
\* or a refund has its audit record or a handler about to append it.
Audited ==
    /\ \A i \in Intents :
           /\ intents[i].status = "AUTHORIZED" => Auditing("PAYMENT_AUTHORIZED", i)
           /\ intents[i].status = "INITIATED" => Auditing("PAYMENT_CASH_EXPECTED", i)
           /\ intents[i].status = "CAPTURED" => CaptureAudited(i)
    /\ \A f \in Refunds :
           /\ refunds[f].status # "ABSENT" => Auditing("REFUND_REQUESTED", f)
           /\ refunds[f].status = "COMPLETED" => Auditing("REFUND_COMPLETED", f)

\* "Captures and refunds are idempotent": one publication per capture and per
\* completed refund.  Settlement and payout count on it.
CapturePublishedOnce == \A i \in Intents : published["payment.captured.v1"][i] <= 1
RefundPublishedOnce == \A f \in Refunds : published["refund.completed.v1"][f] <= 1

\* A server that handles one request at a time publishes no capture and no refund
\* twice, also when a restart loses the key map between a request and its repetition.
PublishedOnce == CapturePublishedOnce /\ RefundPublishedOnce

\* Every capture is eventually on the audit trail.
CaptureEventuallyAudited ==
    \A i \in Intents : intents[i].status = "CAPTURED" ~>
        \E a \in {"PAYMENT_CAPTURED", "PAYMENT_CASH_COLLECTED"} :
            [action |-> a, target |-> i] \in audit
=============================================================================
