--------------------------- MODULE PaymentsProofs ---------------------------
(***************************************************************************)
(* Proofs about Payments for any orders, intents, refunds, keys, amounts,  *)
(* any number of concurrent handlers and any number of restarts.           *)
(***************************************************************************)
EXTENDS Payments, TLAPS

CreatingAction == {"PAYMENT_AUTHORIZED", "PAYMENT_CASH_EXPECTED"}
CapturingAction == {"PAYMENT_CAPTURED", "PAYMENT_CASH_COLLECTED"}

\* The call will save an intent under its fresh id.
Creating(c) == c.phase \in {"psp", "save"} /\ c.action \in CreatingAction

\* What the checks of a handler still say of the stores when it saves.  An
\* intent is new, or it is the stored one with the status CAPTURED.
NewIntent(c) ==
    /\ c.action \in CreatingAction
    /\ c.key = Null
    /\ intents[c.id].status = "ABSENT"
    /\ c.action = "PAYMENT_AUTHORIZED" => c.record.status = "AUTHORIZED"
    /\ c.action = "PAYMENT_CASH_EXPECTED" => c.record.status = "INITIATED"

CapturedIntent(c) ==
    /\ c.action \in CapturingAction
    /\ intents[c.id].status # "ABSENT"
    /\ c.record = [intents[c.id] EXCEPT !.status = "CAPTURED"]
    /\ c.record.method = "CARD" => c.record.orderId \in accepted

SavesIntent(c) ==
    /\ c.record \in IntentRecord
    /\ c.record.orderId \in Orders
    /\ NewIntent(c) \/ CapturedIntent(c)

Backed(r) == /\ r.intent \in Intents
             /\ intents[r.intent].status = "CAPTURED"
             /\ r.amount <= intents[r.intent].amount

SavesRefund(c) ==
    /\ c.record \in RefundRecord
    /\ c.key = Null
    /\ Backed(c.record)
    /\ \/ c.action = "REFUND_REQUESTED" /\ c.record.status = "REQUESTED"
       \/ c.action = "REFUND_COMPLETED" /\ c.record.status = "COMPLETED"
              /\ refunds[c.id].status # "ABSENT"

\* The intent that a capture has read, and which others may have captured since.
ReadIntent(c) ==
    /\ intents[c.id].status # "ABSENT"
    /\ c.record \in IntentRecord
    /\ [c.record EXCEPT !.status = "CAPTURED"] = [intents[c.id] EXCEPT !.status = "CAPTURED"]
    /\ c.record.status = "CAPTURED" => intents[c.id].status = "CAPTURED"

CallOK(c) ==
    /\ c.phase = "psp" => c.id \in Intents /\ c.action \in CreatingAction
    /\ c.phase \in {"intent", "order"} =>
           c.id \in Intents /\ c.action = "PAYMENT_CAPTURED" /\ c.key \in Keys
    /\ c.phase = "order" => ReadIntent(c)
    /\ c.phase \in {"psp", "save"} /\ c.id \in Intents => SavesIntent(c)
    /\ c.phase = "save" /\ c.id \in Refunds => SavesRefund(c)
    /\ c.phase \in {"publish", "audit"} /\ c.key # Null =>
           c.id \in Intents /\ intents[c.id].status = "CAPTURED"

CallsOK == \A s \in Slots : call[s] # Idle => CallOK(call[s])

\* No two calls create one id.
CreatedOnce ==
    \A s, t \in Slots :
        s # t /\ call[s] # Idle /\ call[t] # Idle /\ Creating(call[s]) /\ Creating(call[t])
            => call[s].id # call[t].id

StatusAccepted ==
    \A o \in Orders : status[o] \in CapturableStatus => o \in accepted

IntentsPlaced == \A i \in Intents : intents[i].status # "ABSENT" => intents[i].orderId \in Orders

RefundsPlaced == \A f \in Refunds : refunds[f].status # "ABSENT" => refunds[f].intent \in Intents

IInv == /\ TypeOK
        /\ CapturedAfterAcceptance /\ RefundsBacked /\ KeyMeansCaptured
        /\ CallsOK /\ CreatedOnce /\ StatusAccepted /\ IntentsPlaced /\ RefundsPlaced

-----------------------------------------------------------------------------
(* What every step keeps: stored records stay, and an intent only changes    *)
(* into the captured one.                                                    *)

Grows ==
    /\ \A i \in Intents : intents[i].status # "ABSENT" =>
           intents'[i] = intents[i] \/ intents'[i] = [intents[i] EXCEPT !.status = "CAPTURED"]
    /\ \A f \in Refunds : refunds[f].status # "ABSENT" => refunds'[f].status # "ABSENT"
    /\ accepted \subseteq accepted'

LEMMA GrowsIntent ==
    ASSUME TypeOK, Grows, NEW i \in Intents, intents[i].status # "ABSENT"
    PROVE  /\ intents'[i].status # "ABSENT"
           /\ intents[i].status = "CAPTURED" => intents'[i].status = "CAPTURED"
           /\ intents'[i].amount = intents[i].amount
           /\ intents'[i].orderId = intents[i].orderId
           /\ intents'[i].method = intents[i].method
           /\ [intents'[i] EXCEPT !.status = "CAPTURED"] = [intents[i] EXCEPT !.status = "CAPTURED"]
<1>1. intents[i] \in IntentRecord
  BY DEF TypeOK
<1> QED BY <1>1 DEF Grows, IntentRecord, IntentStatus

LEMMA BackedGrows ==
    ASSUME TypeOK, Grows, NEW r, Backed(r)
    PROVE  Backed(r)'
<1>1. intents[r.intent].status # "ABSENT"
  BY DEF Backed
<1> QED BY <1>1, GrowsIntent DEF Backed

\* A call whose intent nobody creates in its place can still trust its checks.
LEMMA CallGrows ==
    ASSUME TypeOK, Grows, NEW c \in Call, CallOK(c),
           Creating(c) /\ c.id \in Intents => intents'[c.id] = intents[c.id]
    PROVE  CallOK(c)'
<1>1. ASSUME c.phase = "order" PROVE ReadIntent(c)'
  <2> ReadIntent(c) /\ c.id \in Intents
    BY <1>1 DEF CallOK
  <2> QED BY GrowsIntent DEF ReadIntent
<1>2. ASSUME c.phase \in {"psp", "save"}, c.id \in Intents PROVE SavesIntent(c)'
  <2> SavesIntent(c)
    BY <1>2 DEF CallOK
  <2>1. CASE NewIntent(c)
    <3> QED BY <1>2, <2>1 DEF SavesIntent, NewIntent, Creating
  <2>2. CASE CapturedIntent(c)
    <3>1. intents[c.id].status # "ABSENT"
      BY <2>2 DEF CapturedIntent
    <3>2. CapturedIntent(c)'
      BY <1>2, <2>2, <3>1, GrowsIntent DEF CapturedIntent, Grows
    <3> QED BY <3>2 DEF SavesIntent
  <2> QED BY <2>1, <2>2 DEF SavesIntent
<1>3. ASSUME c.phase = "save", c.id \in Refunds PROVE SavesRefund(c)'
  <2> SavesRefund(c)
    BY <1>3 DEF CallOK
  <2> QED BY <1>3, BackedGrows DEF SavesRefund, Grows
<1>4. ASSUME c.phase \in {"publish", "audit"}, c.key # Null
      PROVE  c.id \in Intents /\ intents'[c.id].status = "CAPTURED"
  BY <1>4, GrowsIntent DEF CallOK
<1> QED BY <1>1, <1>2, <1>3, <1>4 DEF CallOK

\* A step of slot s that saves nothing.
LEMMA CallStepPreserves ==
    ASSUME IInv, NEW s \in Slots, NEW c \in Call \cup {Idle},
           call' = [call EXCEPT ![s] = c],
           UNCHANGED <<orderVars, stored, restarts>>,
           captureByKey' \in [Keys -> Intents \cup {Null}], KeyMeansCaptured',
           published' \in [EventType -> [Intents \cup Refunds -> 0..Many]],
           audit' \subseteq AuditRecord,
           c # Idle => CallOK(c),
           c # Idle /\ Creating(c) =>
               \/ Fresh(c.id)
               \/ call[s] # Idle /\ Creating(call[s]) /\ call[s].id = c.id
    PROVE  IInv'
<1> USE DEF IInv
<1>1. TypeOK'
  BY DEF TypeOK, orderVars, stored
<1>2. Grows
  BY DEF Grows, orderVars, stored
<1>3. CallsOK'
  <2> SUFFICES ASSUME NEW t \in Slots, call'[t] # Idle PROVE CallOK(call[t])'
    BY DEF CallsOK
  <2> PICK d : d = call'[t]
    OBVIOUS
  <2>1. d \in Call /\ CallOK(d)
    BY DEF TypeOK, CallsOK
  <2>2. CallOK(d)'
    BY <1>2, <2>1, CallGrows DEF stored
  <2> QED BY <2>2
<1>4. CreatedOnce'
  BY DEF CreatedOnce, Creating, Fresh, TypeOK
<1>5. /\ CapturedAfterAcceptance' /\ RefundsBacked'
      /\ StatusAccepted' /\ IntentsPlaced' /\ RefundsPlaced'
  BY DEF CapturedAfterAcceptance, RefundsBacked, StatusAccepted, IntentsPlaced,
         RefundsPlaced, orderVars, stored
<1> QED BY <1>1, <1>3, <1>4, <1>5

LEMMA BeginPreserves ==
    ASSUME IInv, NEW s \in Slots, NEW phase, NEW action, NEW id, NEW record, NEW key, NEW mismatch,
           Begin(s, phase, action, id, record, key, mismatch),
           NEW c \in Call,
           c = [phase |-> phase, action |-> action, id |-> id,
                record |-> record, key |-> key, mismatch |-> mismatch],
           CallOK(c),
           Creating(c) => Fresh(id)
    PROVE  IInv'
<1>1. call' = [call EXCEPT ![s] = c]
  BY DEF Begin
<1>2. UNCHANGED <<orderVars, stored, captureByKey, published, audit, restarts>>
  BY DEF Begin, OnlyCall
<1>3. KeyMeansCaptured'
  BY <1>2 DEF IInv, KeyMeansCaptured, stored
<1>4. /\ captureByKey' \in [Keys -> Intents \cup {Null}]
      /\ published' \in [EventType -> [Intents \cup Refunds -> 0..Many]]
      /\ audit' \subseteq AuditRecord
  BY <1>2 DEF IInv, TypeOK
<1> QED BY <1>1, <1>2, <1>3, <1>4, CallStepPreserves

LEMMA StartPreserves == ASSUME IInv, NEW s \in Slots, Start(s) PROVE IInv'
<1> USE PaymentsAssumption
<1> DEFINE New(phase, action, id, record, key, mismatch) ==
        [phase |-> phase, action |-> action, id |-> id,
         record |-> record, key |-> key, mismatch |-> mismatch]
<1>1. ASSUME NEW i \in Intents, NEW o \in Orders, NEW a \in Amounts, AuthorizePayment(s, i, o, a)
      PROVE  IInv'
  <2> DEFINE r == [orderId |-> o, method |-> "CARD", status |-> "AUTHORIZED", amount |-> a]
             c == New("psp", "PAYMENT_AUTHORIZED", i, r, Null, FALSE)
  <2>1. r \in IntentRecord
    BY DEF IntentRecord, IntentStatus
  <2>2. c \in Call
    BY <2>1 DEF Call, Action
  <2>3. CallOK(c)
    BY <1>1, <2>1 DEF AuthorizePayment, CallOK, SavesIntent, NewIntent, CreatingAction
  <2> QED BY <1>1, <2>2, <2>3, BeginPreserves DEF AuthorizePayment
<1>2. ASSUME NEW i \in Intents, NEW o \in Orders, NEW a \in Amounts, MarkCashExpected(s, i, o, a)
      PROVE  IInv'
  <2> DEFINE r == [orderId |-> o, method |-> "CASH", status |-> "INITIATED", amount |-> a]
             c == New("save", "PAYMENT_CASH_EXPECTED", i, r, Null, FALSE)
  <2>1. r \in IntentRecord
    BY DEF IntentRecord, IntentStatus
  <2>2. c \in Call
    BY <2>1 DEF Call, Action
  <2>3. CallOK(c)
    BY <1>2, <2>1 DEF MarkCashExpected, CallOK, SavesIntent, NewIntent, CreatingAction
  <2> QED BY <1>2, <2>2, <2>3, BeginPreserves DEF MarkCashExpected
<1>3. ASSUME NEW i \in Intents, NEW k \in Keys, CapturePayment(s, i, k) PROVE IInv'
  <2> DEFINE c == New("intent", "PAYMENT_CAPTURED", i, Null, k, FALSE)
  <2>1. c \in Call
    BY DEF Call, Action
  <2>2. CallOK(c) /\ ~Creating(c)
    BY DEF CallOK, Creating
  <2> QED BY <1>3, <2>1, <2>2, BeginPreserves DEF CapturePayment
<1>4. ASSUME NEW i \in Intents, NEW a \in Amounts, ConfirmCashCollection(s, i, a) PROVE IInv'
  <2> PICK r : r = [intents[i] EXCEPT !.status = "CAPTURED"]
    OBVIOUS
  <2> PICK m : m = (intents[i].amount # a)
    OBVIOUS
  <2> DEFINE c == New("save", "PAYMENT_CASH_COLLECTED", i, r, Null, m)
  <2>1. intents[i] \in IntentRecord
    BY DEF IInv, TypeOK
  <2>2. r \in IntentRecord /\ r.orderId \in Orders /\ r.method = "CASH" /\ m \in BOOLEAN
    BY <1>4, <2>1 DEF ConfirmCashCollection, IInv, IntentsPlaced, IntentRecord, IntentStatus
  <2>3. c \in Call
    BY <2>2 DEF Call, Action
  <2>4. CallOK(c) /\ ~Creating(c)
    BY <1>4, <2>2 DEF ConfirmCashCollection, CallOK, SavesIntent, CapturedIntent,
                      CapturingAction, Creating, CreatingAction
  <2>5. Begin(s, "save", "PAYMENT_CASH_COLLECTED", i, r, Null, m)
    BY <1>4 DEF ConfirmCashCollection
  <2> QED BY <2>3, <2>4, <2>5, BeginPreserves
<1>5. ASSUME NEW f \in Refunds, NEW i \in Intents, NEW a \in Amounts, RequestRefund(s, f, i, a)
      PROVE  IInv'
  <2> DEFINE r == [intent |-> i, amount |-> a, status |-> "REQUESTED"]
             c == New("save", "REFUND_REQUESTED", f, r, Null, FALSE)
  <2>1. r \in RefundRecord
    BY DEF RefundRecord
  <2>2. c \in Call
    BY <2>1 DEF Call, Action
  <2>3. CallOK(c) /\ ~Creating(c)
    BY <1>5, <2>1 DEF RequestRefund, CallOK, SavesRefund, Backed, Creating, CreatingAction
  <2> QED BY <1>5, <2>2, <2>3, BeginPreserves DEF RequestRefund
<1>6. ASSUME NEW f \in Refunds, ApproveRefund(s, f) PROVE IInv'
  <2> PICK r : r = [refunds[f] EXCEPT !.status = "COMPLETED"]
    OBVIOUS
  <2> DEFINE c == New("save", "REFUND_COMPLETED", f, r, Null, FALSE)
  <2>1. refunds[f] \in RefundRecord
    BY DEF IInv, TypeOK
  <2>2. r \in RefundRecord /\ Backed(r)
    BY <1>6, <2>1 DEF ApproveRefund, RefundRecord, Backed, IInv, RefundsBacked, RefundsPlaced
  <2>3. c \in Call
    BY <2>2 DEF Call, Action
  <2>4. CallOK(c) /\ ~Creating(c)
    BY <1>6, <2>2 DEF ApproveRefund, CallOK, SavesRefund, RefundRecord, Creating, CreatingAction
  <2>5. Begin(s, "save", "REFUND_COMPLETED", f, r, Null, FALSE)
    BY <1>6 DEF ApproveRefund
  <2> QED BY <2>3, <2>4, <2>5, BeginPreserves
<1> QED BY <1>1, <1>2, <1>3, <1>4, <1>5, <1>6 DEF Start

LEMMA ContinuePreserves ==
    ASSUME IInv, NEW s \in Slots, Continue(s), ~SaveRecord(s)
    PROVE  IInv'
<1> USE PaymentsAssumption
<1> PICK c : c = call[s]
  OBVIOUS
<1>0. c # Idle /\ c \in Call /\ CallOK(c)
  BY DEF Continue, ProviderAnswers, CaptureReadsIntent, CaptureReadsOrder, PublishEvent,
         AppendAuditRecord, InPhase, IInv, TypeOK, CallsOK
<1> DEFINE Unchanged == UNCHANGED <<orderVars, stored, restarts>>
           KeysOK == captureByKey' \in [Keys -> Intents \cup {Null}] /\ KeyMeansCaptured'
           HistoryOK == /\ published' \in [EventType -> [Intents \cup Refunds -> 0..Many]]
                        /\ audit' \subseteq AuditRecord
<1>1. CASE ProviderAnswers(s)
  <2>1. /\ Unchanged /\ KeysOK /\ HistoryOK
    BY <1>1 DEF ProviderAnswers, OnlyCall, IInv, TypeOK, KeyMeansCaptured, stored
  <2>2. CASE call' = [call EXCEPT ![s].phase = "save"]
    <3> DEFINE d == [c EXCEPT !.phase = "save"]
    <3>1. d \in Call
      BY <1>0 DEF Call
    <3>2. CallOK(d) /\ (Creating(d) => Creating(c) /\ c.id = d.id)
      BY <1>0, <1>1 DEF ProviderAnswers, InPhase, CallOK, SavesIntent, NewIntent,
                        CapturedIntent, Creating, Call
    <3>3. call' = [call EXCEPT ![s] = d]
      BY <2>2 DEF IInv, TypeOK
    <3> HIDE DEF d
    <3> QED BY <1>0, <2>1, <3>1, <3>2, <3>3, CallStepPreserves
  <2>3. CASE call' = [call EXCEPT ![s] = Idle]
    <3> QED BY <2>1, <2>3, CallStepPreserves
  <2> QED BY <1>1, <2>2, <2>3 DEF ProviderAnswers
<1>2. CASE CaptureReadsIntent(s)
  <2>1. Unchanged /\ KeysOK /\ HistoryOK
    BY <1>2 DEF CaptureReadsIntent, OnlyCall, IInv, TypeOK, KeyMeansCaptured, stored
  <2>2. CASE intents[c.id].status = "ABSENT"
    <3>1. call' = [call EXCEPT ![s] = Idle]
      BY <1>2, <2>2 DEF CaptureReadsIntent, IInv, TypeOK
    <3> QED BY <2>1, <3>1, CallStepPreserves
  <2>3. CASE intents[c.id].status # "ABSENT"
    <3> PICK r : r = intents[c.id]
      OBVIOUS
    <3> DEFINE d == [c EXCEPT !.phase = "order", !.record = r]
    <3>1. r \in IntentRecord /\ c.id \in Intents /\ c.key \in Keys
      BY <1>0, <1>2 DEF CaptureReadsIntent, InPhase, CallOK, IInv, TypeOK
    <3>2. d \in Call
      BY <1>0, <3>1 DEF Call
    <3>3. CallOK(d) /\ ~Creating(d)
      BY <1>0, <1>2, <2>3, <3>1 DEF CaptureReadsIntent, InPhase, CallOK, ReadIntent, Creating, Call
    <3>4. call' = [call EXCEPT ![s] = d]
      BY <1>2, <2>3 DEF CaptureReadsIntent, IInv, TypeOK
    <3> HIDE DEF d
    <3> QED BY <2>1, <3>2, <3>3, <3>4, CallStepPreserves
  <2> QED BY <2>2, <2>3
<1>3. CASE CaptureReadsOrder(s)
  <2>1. Unchanged /\ HistoryOK
    BY <1>3 DEF CaptureReadsOrder, IInv, TypeOK
  <2>2. c.id \in Intents /\ c.key \in Keys /\ ReadIntent(c) /\ c.action = "PAYMENT_CAPTURED"
    BY <1>0, <1>3 DEF CaptureReadsOrder, InPhase, CallOK
  <2>3. CASE c.record.status = "CAPTURED"
    <3>1. KeysOK
      BY <1>3, <2>2, <2>3 DEF CaptureReadsOrder, IInv, TypeOK, KeyMeansCaptured, stored, ReadIntent
    <3>2. call' = [call EXCEPT ![s] = Idle]
      BY <1>3, <2>3 DEF CaptureReadsOrder
    <3> QED BY <2>1, <3>1, <3>2, CallStepPreserves
  <2>4. CASE c.record.status # "CAPTURED"
    <3>1. KeysOK
      BY <1>3, <2>4 DEF CaptureReadsOrder, IInv, TypeOK, KeyMeansCaptured, stored
    <3>2. CASE status[c.record.orderId] \in CapturableStatus
      <4> DEFINE r == [c.record EXCEPT !.status = "CAPTURED"]
                 d == [c EXCEPT !.phase = "save", !.record = r]
      <4>1. intents[c.id] \in IntentRecord /\ c.record \in IntentRecord
        BY <2>2 DEF ReadIntent, IInv, TypeOK
      <4>2. r \in IntentRecord
        BY <4>1 DEF IntentRecord, IntentStatus
      <4>3. r = [intents[c.id] EXCEPT !.status = "CAPTURED"]
        BY <2>2 DEF ReadIntent
      <4>4. c.record.orderId = intents[c.id].orderId
        BY <4>1, <4>3 DEF IntentRecord
      <4>5. c.record.orderId \in Orders /\ c.record.orderId \in accepted
        BY <2>2, <3>2, <4>4 DEF ReadIntent, IInv, IntentsPlaced, StatusAccepted
      <4>6. r.orderId \in Orders /\ r.orderId \in accepted
        BY <4>1, <4>5 DEF IntentRecord
      <4>7. d \in Call
        BY <1>0, <4>2 DEF Call
      <4>8. /\ d.phase = "save" /\ d.id = c.id /\ d.action = c.action /\ d.record = r
            /\ d.key = c.key
        BY <1>0 DEF Call
      <4>9. CallOK(d) /\ ~Creating(d)
        <5> HIDE DEF d, r
        <5> QED BY <2>2, <4>2, <4>3, <4>6, <4>8
                DEF CallOK, SavesIntent, CapturedIntent, CapturingAction, ReadIntent,
                    Creating, CreatingAction
      <4>10. call' = [call EXCEPT ![s] = d]
        <5>1. call' = [call EXCEPT ![s] = [c EXCEPT !.phase = "save", !.record.status = "CAPTURED"]]
          BY <1>3, <2>4, <3>2 DEF CaptureReadsOrder
        <5>2. d = [c EXCEPT !.phase = "save", !.record.status = "CAPTURED"]
          BY <1>0 DEF Call
        <5> HIDE DEF d
        <5> QED BY <5>1, <5>2
      <4> HIDE DEF d
      <4> QED BY <2>1, <3>1, <4>7, <4>9, <4>10, CallStepPreserves
    <3>3. CASE status[c.record.orderId] \notin CapturableStatus
      <4>1. call' = [call EXCEPT ![s] = Idle]
        BY <1>3, <2>4, <3>3 DEF CaptureReadsOrder
      <4> QED BY <2>1, <3>1, <4>1, CallStepPreserves
    <3> QED BY <3>2, <3>3
  <2> QED BY <2>3, <2>4
<1>4. CASE PublishEvent(s)
  <2> DEFINE d == [c EXCEPT !.phase = "audit"]
  <2>1. Unchanged /\ audit' \subseteq AuditRecord
    BY <1>4 DEF PublishEvent, IInv, TypeOK
  <2>2. d \in Call
    BY <1>0 DEF Call
  <2>3. CallOK(d) /\ ~Creating(d)
    BY <1>0, <1>4 DEF PublishEvent, InPhase, CallOK, Creating, Call
  <2>4. KeysOK
    BY <1>0, <1>4 DEF PublishEvent, InPhase, CallOK, Call, IInv, TypeOK, KeyMeansCaptured, stored
  <2>5. published' \in [EventType -> [Intents \cup Refunds -> 0..Many]]
    <3>1. CASE c.action \notin DOMAIN EventOfAction
      BY <1>4, <3>1 DEF PublishEvent, IInv, TypeOK
    <3>2. CASE c.action \in DOMAIN EventOfAction
      <4> PICK e : e = EventOfAction[c.action]
        OBVIOUS
      <4> PICK g : g = [published[e] EXCEPT ![c.id] = IF @ < Many THEN @ + 1 ELSE @]
        OBVIOUS
      <4>1. e \in EventType
        BY <3>2 DEF EventOfAction, EventType, Action
      <4>2. g \in [Intents \cup Refunds -> 0..Many]
        BY <1>0, <4>1 DEF IInv, TypeOK, Many, Call
      <4>3. published' = [published EXCEPT ![e] = g]
        BY <1>4, <3>2 DEF PublishEvent
      <4> QED BY <4>1, <4>2, <4>3 DEF IInv, TypeOK
    <3> QED BY <3>1, <3>2
  <2>6. call' = [call EXCEPT ![s] = d]
    BY <1>4 DEF PublishEvent, IInv, TypeOK
  <2> HIDE DEF d
  <2> QED BY <2>1, <2>2, <2>3, <2>4, <2>5, <2>6, CallStepPreserves
<1>5. CASE AppendAuditRecord(s)
  <2>1. Unchanged /\ KeysOK /\ HistoryOK
    <3>1. Unchanged /\ KeysOK
      BY <1>5 DEF AppendAuditRecord, IInv, TypeOK, KeyMeansCaptured, stored
    <3>2. [action |-> c.action, target |-> c.id] \in AuditRecord
      BY <1>0 DEF Call, AuditRecord
    <3>3. HistoryOK
      BY <1>5, <3>2 DEF AppendAuditRecord, IInv, TypeOK
    <3> QED BY <3>1, <3>3
  <2>2. CASE c.mismatch
    <3> DEFINE d == [c EXCEPT !.phase = "publish", !.mismatch = FALSE,
                              !.action = "PAYMENT_CASH_MISMATCH"]
    <3>1. d \in Call
      BY <1>0 DEF Call, Action
    <3>2. CallOK(d) /\ ~Creating(d)
      BY <1>0, <1>5 DEF AppendAuditRecord, InPhase, CallOK, Creating, Call
    <3>3. call' = [call EXCEPT ![s] = d]
      BY <1>5, <2>2 DEF AppendAuditRecord, IInv, TypeOK
    <3> HIDE DEF d
    <3> QED BY <2>1, <3>1, <3>2, <3>3, CallStepPreserves
  <2>3. CASE ~c.mismatch
    <3>1. call' = [call EXCEPT ![s] = Idle]
      BY <1>5, <2>3 DEF AppendAuditRecord, IInv, TypeOK
    <3> QED BY <2>1, <3>1, CallStepPreserves
  <2> QED BY <2>2, <2>3
<1> QED BY <1>1, <1>2, <1>3, <1>4, <1>5 DEF Continue

\* The save of an intent creates it or captures it; the save of a refund is
\* backed by its intent.
LEMMA SavePreserves == ASSUME IInv, NEW s \in Slots, SaveRecord(s) PROVE IInv'
<1> USE PaymentsAssumption
<1> PICK c : c = call[s]
  OBVIOUS
<1>0. c # Idle /\ c \in Call /\ CallOK(c) /\ c.phase = "save"
  BY DEF SaveRecord, InPhase, IInv, TypeOK, CallsOK
<1> DEFINE d == [c EXCEPT !.phase = "publish"]
<1>1. d \in Call /\ ~Creating(d)
  BY <1>0 DEF Call, Creating
<1>2. call' = [call EXCEPT ![s] = d]
  BY DEF SaveRecord, IInv, TypeOK
<1>3. UNCHANGED <<orderVars, captureByKey, published, audit, restarts>>
  BY DEF SaveRecord
<1>4. c.id \in Intents => /\ SavesIntent(c)
                          /\ intents' = [intents EXCEPT ![c.id] = c.record]
                          /\ refunds' = refunds
  BY <1>0 DEF SaveRecord, CallOK
<1>5. c.id \notin Intents => /\ c.id \in Refunds /\ SavesRefund(c)
                             /\ refunds' = [refunds EXCEPT ![c.id] = c.record]
                             /\ intents' = intents
  BY <1>0 DEF SaveRecord, CallOK, Call
<1>6. TypeOK'
  <2>1. call' \in [Slots -> Call \cup {Idle}]
    BY <1>1, <1>2 DEF IInv, TypeOK
  <2>2. intents' \in [Intents -> IntentRecord] /\ refunds' \in [Refunds -> RefundRecord]
    BY <1>4, <1>5 DEF IInv, TypeOK, SavesIntent, SavesRefund
  <2> QED BY <1>3, <2>1, <2>2 DEF IInv, TypeOK, orderVars
<1>7. Grows
  <2>1. CASE c.id \in Intents
    <3> QED BY <1>3, <1>4, <2>1
            DEF Grows, SavesIntent, NewIntent, CapturedIntent, IInv, TypeOK, orderVars
  <2>2. CASE c.id \notin Intents
    <3> QED BY <1>3, <1>5, <2>2 DEF Grows, SavesRefund, IInv, TypeOK, orderVars
  <2> QED BY <2>1, <2>2
<1>8. CallsOK'
  <2> SUFFICES ASSUME NEW t \in Slots, call'[t] # Idle PROVE CallOK(call[t])'
    BY DEF CallsOK
  <2> PICK b : b = call'[t]
    OBVIOUS
  <2>1. CASE t = s
    <3>1. b = d
      BY <1>2, <2>1 DEF IInv, TypeOK
    <3>2. /\ d.phase = "publish" /\ d.id = c.id /\ d.key = c.key
      BY <1>0 DEF Call
    <3>3. c.key # Null => c.id \in Intents /\ intents'[c.id].status = "CAPTURED"
      <4>1. ASSUME c.key # Null PROVE c.id \in Intents /\ CapturedIntent(c)
        BY <1>4, <1>5, <4>1 DEF SavesIntent, NewIntent, SavesRefund
      <4>2. ASSUME c.id \in Intents, CapturedIntent(c) PROVE c.record.status = "CAPTURED"
        BY <4>2 DEF CapturedIntent, IInv, TypeOK, IntentRecord
      <4> QED BY <1>4, <4>1, <4>2 DEF IInv, TypeOK
    <3>4. CallOK(d)'
      <4> HIDE DEF d
      <4> QED BY <3>2, <3>3 DEF CallOK
    <3> QED BY <3>1, <3>4
  <2>2. CASE t # s
    <3>1. b = call[t] /\ b \in Call /\ CallOK(b) /\ call[t] # Idle
      BY <1>2, <2>2 DEF IInv, TypeOK, CallsOK
    <3>2. ASSUME Creating(b), b.id \in Intents PROVE intents'[b.id] = intents[b.id]
      <4>1. intents[b.id].status = "ABSENT" /\ b.action \in CreatingAction
        BY <3>1, <3>2 DEF CallOK, Creating, SavesIntent, NewIntent, CapturedIntent,
                          CreatingAction, CapturingAction
      <4>2. CASE c.id = b.id
        <5>1. NewIntent(c)
          BY <1>4, <3>2, <4>1, <4>2 DEF SavesIntent, CapturedIntent
        <5>2. Creating(c)
          BY <1>0, <5>1 DEF NewIntent, Creating
        <5> QED BY <1>0, <2>2, <3>1, <3>2, <4>2, <5>2 DEF IInv, CreatedOnce
      <4>3. CASE c.id # b.id
        <5> QED BY <1>4, <1>5, <3>2, <4>3 DEF IInv, TypeOK
      <4> QED BY <4>2, <4>3
    <3>3. CallOK(b)'
      BY <1>7, <3>1, <3>2, CallGrows DEF IInv
    <3> QED BY <3>3
  <2> QED BY <2>1, <2>2
<1>9. CreatedOnce'
  <2> HIDE DEF d
  <2> QED BY <1>1, <1>2 DEF IInv, TypeOK, CreatedOnce, Creating
<1>10. StatusAccepted' /\ IntentsPlaced' /\ RefundsPlaced'
  <2>1. StatusAccepted'
    BY <1>3 DEF IInv, StatusAccepted, orderVars
  <2>2. IntentsPlaced'
    BY <1>4, <1>5 DEF IInv, TypeOK, IntentsPlaced, SavesIntent
  <2>3. RefundsPlaced'
    BY <1>4, <1>5 DEF IInv, TypeOK, RefundsPlaced, SavesRefund, Backed
  <2> QED BY <2>1, <2>2, <2>3
<1>11. CapturedAfterAcceptance'
  <2> SUFFICES ASSUME NEW i \in Intents, intents'[i].status = "CAPTURED",
                      intents'[i].method = "CARD"
               PROVE  intents'[i].orderId \in accepted'
    BY DEF CapturedAfterAcceptance
  <2>1. CASE i = c.id
    <3>1. intents'[i] = c.record /\ SavesIntent(c)
      BY <1>4, <2>1 DEF IInv, TypeOK
    <3>2. CapturedIntent(c)
      BY <3>1 DEF SavesIntent, NewIntent, CreatingAction
    <3> QED BY <1>3, <3>1, <3>2 DEF CapturedIntent, orderVars
  <2>2. CASE i # c.id
    <3> QED BY <1>3, <1>4, <1>5, <2>2 DEF IInv, TypeOK, CapturedAfterAcceptance, orderVars
  <2> QED BY <2>1, <2>2
<1>12. RefundsBacked'
  <2> SUFFICES ASSUME NEW f \in Refunds, refunds'[f].status # "ABSENT"
               PROVE  Backed(refunds[f])'
    BY DEF RefundsBacked, Backed
  <2> PICK r : r = refunds'[f]
    OBVIOUS
  <2>1. CASE f = c.id
    <3>1. r = c.record /\ Backed(r)
      BY <1>5, <2>1 DEF IInv, TypeOK, SavesRefund
    <3> QED BY <1>7, <3>1, BackedGrows DEF IInv
  <2>2. CASE f # c.id
    <3>1. r = refunds[f]
      BY <1>4, <1>5, <2>2 DEF IInv, TypeOK
    <3>2. Backed(r)
      BY <3>1 DEF IInv, RefundsBacked, RefundsPlaced, Backed
    <3> QED BY <1>7, <3>2, BackedGrows DEF IInv
  <2> QED BY <2>1, <2>2
<1>13. KeyMeansCaptured'
  <2> SUFFICES ASSUME NEW k \in Keys, captureByKey[k] # Null
               PROVE  intents'[captureByKey[k]].status = "CAPTURED"
    BY <1>3 DEF KeyMeansCaptured
  <2>1. captureByKey[k] \in Intents /\ intents[captureByKey[k]].status = "CAPTURED"
    BY DEF IInv, TypeOK, KeyMeansCaptured
  <2> QED BY <1>7, <2>1, GrowsIntent DEF IInv
<1> QED BY <1>6, <1>8, <1>9, <1>10, <1>11, <1>12, <1>13 DEF IInv

\* The order handlers leave the payments alone and only add to "accepted".
LEMMA OrderMovesPreserves == ASSUME IInv, OrderMoves PROVE IInv'
<1> USE DEF OrderMoves
<1>1. TypeOK' /\ StatusAccepted'
  <2> PICK o \in Orders :
        \/ Lifecycle!Create(o) \/ Lifecycle!Accept(o) \/ Lifecycle!Dispatch(o)
        \/ Lifecycle!PickUp(o) \/ Lifecycle!Deliver(o) \/ Lifecycle!Cancel(o)
        \/ \E c \in Couriers : Lifecycle!Assign(o, c)
    BY DEF Lifecycle!Next
  <2> USE DEF Lifecycle!Move, Lifecycle!Create, Lifecycle!Accept, Lifecycle!Dispatch,
              Lifecycle!PickUp, Lifecycle!Deliver, Lifecycle!Cancel, Lifecycle!Assign
  <2>1. /\ status' \in [Orders -> {"ABSENT", "CREATED", "MERCHANT_ACCEPTED", "DISPATCH_PENDING",
                                   "COURIER_ASSIGNED", "PICKED_UP", "DELIVERED", "CANCELLED"}]
        /\ courier' \in [Orders -> Couriers \cup {Null}]
    BY DEF IInv, TypeOK
  <2>2. StatusAccepted'
    BY DEF IInv, TypeOK, StatusAccepted, CapturableStatus
  <2> QED BY <2>1, <2>2 DEF IInv, TypeOK, stored
<1>2. Grows
  BY DEF Grows, stored
<1>3. CallsOK'
  <2> SUFFICES ASSUME NEW t \in Slots, call'[t] # Idle PROVE CallOK(call[t])'
    BY DEF CallsOK
  <2> PICK d : d = call'[t]
    OBVIOUS
  <2>1. d \in Call /\ CallOK(d)
    BY DEF IInv, TypeOK, CallsOK
  <2>2. CallOK(d)'
    BY <1>2, <2>1, CallGrows DEF IInv, stored
  <2> QED BY <2>2
<1>4. CreatedOnce'
  BY DEF IInv, CreatedOnce, Creating
<1>5. CapturedAfterAcceptance'
  BY <1>2 DEF IInv, CapturedAfterAcceptance, Grows, stored
<1>6. RefundsBacked' /\ KeyMeansCaptured' /\ IntentsPlaced' /\ RefundsPlaced'
  BY DEF IInv, RefundsBacked, KeyMeansCaptured, IntentsPlaced, RefundsPlaced, stored
<1> QED BY <1>1, <1>3, <1>4, <1>5, <1>6 DEF IInv

LEMMA RestartPreserves == ASSUME IInv, Restart PROVE IInv'
<1>1. TypeOK'
  <2>1. restarts' \in 0..MaxRestarts
    BY PaymentsAssumption DEF IInv, TypeOK, Restart
  <2>2. /\ call' \in [Slots -> Call \cup {Idle}]
        /\ captureByKey' \in [Keys -> Intents \cup {Null}]
    BY DEF Restart
  <2> QED BY <2>1, <2>2 DEF IInv, TypeOK, Restart, orderVars, stored
<1>2. CallsOK' /\ CreatedOnce' /\ KeyMeansCaptured'
  BY DEF Restart, CallsOK, CreatedOnce, KeyMeansCaptured
<1>3. /\ CapturedAfterAcceptance' /\ RefundsBacked'
      /\ StatusAccepted' /\ IntentsPlaced' /\ RefundsPlaced'
  BY DEF Restart, IInv, CapturedAfterAcceptance, RefundsBacked, StatusAccepted, IntentsPlaced,
         RefundsPlaced, orderVars, stored
<1> QED BY <1>1, <1>2, <1>3 DEF IInv

LEMMA InitEstablishes == Init => IInv
<1> SUFFICES ASSUME Init PROVE IInv
  OBVIOUS
<1> USE PaymentsAssumption DEF Init
<1>1. TypeOK
  <2>1. AbsentIntent \in IntentRecord /\ AbsentRefund \in RefundRecord
    <3>1. AnyAmount \in Amounts
      BY DEF AnyAmount
    <3> QED BY <3>1 DEF AbsentIntent, AbsentRefund, IntentRecord, IntentStatus, RefundRecord
  <2> QED BY <2>1 DEF TypeOK, Lifecycle!Init, Many
<1>2. \A i \in Intents : intents[i].status = "ABSENT"
  BY DEF AbsentIntent
<1>3. \A f \in Refunds : refunds[f].status = "ABSENT"
  BY DEF AbsentRefund
<1>4. CapturedAfterAcceptance /\ RefundsBacked /\ IntentsPlaced /\ RefundsPlaced
  BY <1>2, <1>3 DEF CapturedAfterAcceptance, RefundsBacked, IntentsPlaced, RefundsPlaced
<1>5. CallsOK /\ CreatedOnce /\ KeyMeansCaptured
  BY DEF CallsOK, CreatedOnce, KeyMeansCaptured
<1>6. StatusAccepted
  BY DEF StatusAccepted, CapturableStatus, Lifecycle!Init
<1> QED BY <1>1, <1>4, <1>5, <1>6 DEF IInv

LEMMA NextPreserves == IInv /\ [Next]_vars => IInv'
<1> SUFFICES ASSUME IInv, [Next]_vars PROVE IInv'
  OBVIOUS
<1>1. CASE OrderMoves
  BY <1>1, OrderMovesPreserves
<1>2. CASE Restart
  BY <1>2, RestartPreserves
<1>3. ASSUME NEW s \in Slots, Start(s) PROVE IInv'
  BY <1>3, StartPreserves
<1>4. ASSUME NEW s \in Slots, Continue(s) PROVE IInv'
  BY <1>4, ContinuePreserves, SavePreserves
<1>5. CASE UNCHANGED vars
  <2> USE <1>5 DEF vars
  <2>1. TypeOK'
    BY DEF IInv, TypeOK
  <2>2. CallsOK'
    BY DEF IInv, CallsOK, CallOK, SavesIntent, NewIntent, CapturedIntent, SavesRefund, Backed,
           ReadIntent
  <2>3. CreatedOnce' /\ StatusAccepted' /\ IntentsPlaced' /\ RefundsPlaced'
    BY DEF IInv, CreatedOnce, StatusAccepted, IntentsPlaced, RefundsPlaced, Creating
  <2>4. CapturedAfterAcceptance' /\ RefundsBacked' /\ KeyMeansCaptured'
    BY DEF IInv, CapturedAfterAcceptance, RefundsBacked, KeyMeansCaptured
  <2> QED BY <2>1, <2>2, <2>3, <2>4 DEF IInv
<1> QED BY <1>1, <1>2, <1>3, <1>4, <1>5 DEF Next

\* The inductive invariant: what a call's checks have established about the
\* stores still holds when it saves, whatever ran in between.
THEOREM InvariantHolds == Spec => []IInv
<1> QED BY InitEstablishes, NextPreserves, PTL DEF Spec

\* Intents, refunds, calls in flight, the key map, the audit trail and the
\* publication counts keep their types.
THEOREM TypeCorrect == Spec => []TypeOK
<1>1. IInv => TypeOK
  BY DEF IInv
<1> QED BY <1>1, InvariantHolds, PTL

\* capturePayment: no card payment is captured for an order that its merchant
\* never accepted, however the order moves while the capture runs.
THEOREM CapturesFollowAcceptance == Spec => []CapturedAfterAcceptance
<1>1. IInv => CapturedAfterAcceptance
  BY DEF IInv
<1> QED BY <1>1, InvariantHolds, PTL

\* requestRefund and approveRefund: every stored refund is of a captured intent
\* and not larger than it, for any number of overlapping requests.
THEOREM RefundsAreBacked == Spec => []RefundsBacked
<1>1. IInv => RefundsBacked
  BY DEF IInv
<1> QED BY <1>1, InvariantHolds, PTL

\* captureByIdempotencyKey: a repeated key is answered with success only for an
\* intent that was captured.
THEOREM KeysStandForCaptures == Spec => []KeyMeansCaptured
<1>1. IInv => KeyMeansCaptured
  BY DEF IInv
<1> QED BY <1>1, InvariantHolds, PTL

-----------------------------------------------------------------------------
(* The audit trail, when no restart cuts a handler off.                      *)

\* A slot that has something to audit keeps it until it is on the trail.
LEMMA SlotKeepsAuditing ==
    ASSUME IInv, NEW s \in Slots, Start(s) \/ Continue(s)
    PROVE  /\ audit \subseteq audit'
           /\ \A t \in Slots \ {s} : call'[t] = call[t]
           /\ InPhase(s, "publish") => /\ call'[s] # Idle /\ call'[s].phase = "audit"
                                       /\ call'[s].action = call[s].action
                                       /\ call'[s].id = call[s].id
           /\ InPhase(s, "audit") => [action |-> call[s].action, target |-> call[s].id] \in audit'
<1> USE PaymentsAssumption
<1>1. CASE call[s] = Idle
  <2>1. Start(s)
    BY <1>1 DEF Continue, ProviderAnswers, CaptureReadsIntent, CaptureReadsOrder, SaveRecord,
                PublishEvent, AppendAuditRecord, InPhase
  <2>2. \E c : call' = [call EXCEPT ![s] = c]
    BY <2>1 DEF Start, AuthorizePayment, MarkCashExpected, CapturePayment, ConfirmCashCollection,
                RequestRefund, ApproveRefund, Begin
  <2>3. audit' = audit
    BY <2>1 DEF Start, AuthorizePayment, MarkCashExpected, CapturePayment, ConfirmCashCollection,
                RequestRefund, ApproveRefund, Begin, OnlyCall
  <2> QED BY <1>1, <2>2, <2>3 DEF IInv, TypeOK, InPhase
<1>2. CASE call[s] # Idle
  <2>1. Continue(s)
    BY <1>2 DEF Start, AuthorizePayment, MarkCashExpected, CapturePayment, ConfirmCashCollection,
                RequestRefund, ApproveRefund, Begin
  <2>2. \E c : call' = [call EXCEPT ![s] = c]
    BY <2>1 DEF Continue, ProviderAnswers, CaptureReadsIntent, CaptureReadsOrder, SaveRecord,
                PublishEvent, AppendAuditRecord
  <2>3. audit \subseteq audit'
    BY <2>1 DEF Continue, ProviderAnswers, CaptureReadsIntent, CaptureReadsOrder, SaveRecord,
                PublishEvent, AppendAuditRecord, OnlyCall
  <2>4. ASSUME InPhase(s, "publish")
        PROVE  /\ call'[s] # Idle /\ call'[s].phase = "audit"
               /\ call'[s].action = call[s].action /\ call'[s].id = call[s].id
    <3>1. PublishEvent(s) /\ call[s] \in Call
      BY <2>1, <2>4 DEF Continue, ProviderAnswers, CaptureReadsIntent, CaptureReadsOrder,
                        SaveRecord, AppendAuditRecord, InPhase, IInv, TypeOK
    <3>2. call'[s] = [call[s] EXCEPT !.phase = "audit"]
      BY <3>1 DEF PublishEvent, IInv, TypeOK
    <3> QED BY <3>1, <3>2 DEF Call
  <2>5. ASSUME InPhase(s, "audit")
        PROVE  [action |-> call[s].action, target |-> call[s].id] \in audit'
    BY <2>1, <2>5 DEF Continue, ProviderAnswers, CaptureReadsIntent, CaptureReadsOrder,
                      SaveRecord, PublishEvent, AppendAuditRecord, InPhase
  <2> QED BY <2>2, <2>3, <2>4, <2>5 DEF IInv, TypeOK
<1> QED BY <1>1, <1>2

LEMMA AuditingPersists ==
    ASSUME IInv, [OrderMoves \/ \E s \in Slots : Start(s) \/ Continue(s)]_vars,
           NEW action, NEW id, Auditing(action, id)
    PROVE  Auditing(action, id)'
<1>1. CASE OrderMoves \/ UNCHANGED vars
  BY <1>1 DEF OrderMoves, vars, Auditing, InPhase
<1>2. ASSUME NEW s \in Slots, Start(s) \/ Continue(s) PROVE Auditing(action, id)'
  <2> USE <1>2, SlotKeepsAuditing
  <2>1. CASE [action |-> action, target |-> id] \in audit
    BY <2>1 DEF Auditing
  <2>2. ASSUME NEW t \in Slots, InPhase(t, "publish") \/ InPhase(t, "audit"),
               call[t].action = action, call[t].id = id
        PROVE  Auditing(action, id)'
    <3>1. CASE t # s
      BY <2>2, <3>1 DEF Auditing, InPhase
    <3>2. CASE t = s
      BY <2>2, <3>2 DEF Auditing, InPhase
    <3> QED BY <3>1, <3>2
  <2> QED BY <2>1, <2>2 DEF Auditing
<1> QED BY <1>1, <1>2

\* A save hands over to the publication and the audit of what it saved.
LEMMA SaveIsAudited ==
    ASSUME IInv, NEW s \in Slots, SaveRecord(s), NEW c, c = call[s]
    PROVE  Auditing(c.action, c.id)'
<1>1. c \in Call
  BY DEF SaveRecord, InPhase, IInv, TypeOK
<1>2. call'[s] = [c EXCEPT !.phase = "publish"]
  BY DEF SaveRecord, IInv, TypeOK
<1>3. /\ call'[s] # Idle /\ call'[s].phase = "publish"
      /\ call'[s].action = c.action /\ call'[s].id = c.id
  BY <1>1, <1>2, PaymentsAssumption DEF Call
<1> QED BY <1>3 DEF Auditing, InPhase

LEMMA NextAudits ==
    ASSUME MaxRestarts = 0, IInv, Audited, [Next]_vars
    PROVE  Audited'
<1> USE PaymentsAssumption
<1>1. [OrderMoves \/ \E s \in Slots : Start(s) \/ Continue(s)]_vars
  BY DEF Next, Restart, IInv, TypeOK
<1>2. \A action \in Action, id \in Intents \cup Refunds :
          Auditing(action, id) => Auditing(action, id)'
  BY <1>1, AuditingPersists
<1>3. CASE UNCHANGED stored
  BY <1>2, <1>3 DEF stored, Audited, CaptureAudited, Action
<1>4. ASSUME NEW s \in Slots, SaveRecord(s) PROVE Audited'
  <2> PICK c : c = call[s]
    OBVIOUS
  <2>1. c \in Call /\ CallOK(c) /\ c.phase = "save"
    BY <1>4 DEF SaveRecord, InPhase, IInv, TypeOK, CallsOK
  <2>2. Auditing(c.action, c.id)'
    BY <1>4, SaveIsAudited
  <2>3. ASSUME NEW i \in Intents
        PROVE  /\ intents'[i].status = "AUTHORIZED" => Auditing("PAYMENT_AUTHORIZED", i)'
               /\ intents'[i].status = "INITIATED" => Auditing("PAYMENT_CASH_EXPECTED", i)'
               /\ intents'[i].status = "CAPTURED" => CaptureAudited(i)'
    <3>1. CASE i = c.id
      <4>1. SavesIntent(c) /\ intents'[i] = c.record
        BY <1>4, <2>1, <3>1 DEF SaveRecord, CallOK, IInv, TypeOK
      <4>2. CASE NewIntent(c)
        BY <2>2, <3>1, <4>1, <4>2 DEF NewIntent, CreatingAction
      <4>3. CASE CapturedIntent(c)
        <5>1. c.record.status = "CAPTURED"
          BY <3>1, <4>3 DEF CapturedIntent, IInv, TypeOK, IntentRecord
        <5> QED BY <2>2, <3>1, <4>1, <4>3, <5>1 DEF CapturedIntent, CapturingAction, CaptureAudited
      <4> QED BY <4>1, <4>2, <4>3 DEF SavesIntent
    <3>2. CASE i # c.id
      <4>1. intents'[i] = intents[i]
        BY <1>4, <3>2 DEF SaveRecord, IInv, TypeOK
      <4> QED BY <1>2, <4>1 DEF Audited, CaptureAudited, Action
    <3> QED BY <3>1, <3>2
  <2>4. ASSUME NEW f \in Refunds
        PROVE  /\ refunds'[f].status # "ABSENT" => Auditing("REFUND_REQUESTED", f)'
               /\ refunds'[f].status = "COMPLETED" => Auditing("REFUND_COMPLETED", f)'
    <3>1. CASE f = c.id
      <4>1. SavesRefund(c) /\ refunds'[f] = c.record
        BY <1>4, <2>1, <3>1 DEF SaveRecord, CallOK, IInv, TypeOK
      <4>2. CASE c.action = "REFUND_REQUESTED"
        BY <2>2, <3>1, <4>1, <4>2 DEF SavesRefund
      <4>3. CASE c.action = "REFUND_COMPLETED"
        <5>1. Auditing("REFUND_REQUESTED", f)'
          BY <1>2, <3>1, <4>1, <4>3 DEF SavesRefund, Audited, Action
        <5> QED BY <2>2, <3>1, <4>3, <5>1
      <4> QED BY <4>1, <4>2, <4>3 DEF SavesRefund
    <3>2. CASE f # c.id
      <4>1. refunds'[f] = refunds[f]
        BY <1>4, <3>2 DEF SaveRecord, IInv, TypeOK
      <4> QED BY <1>2, <4>1 DEF Audited, Action
    <3> QED BY <3>1, <3>2
  <2> QED BY <2>3, <2>4 DEF Audited
<1>5. ASSUME NEW s \in Slots, Start(s) PROVE UNCHANGED stored
  BY <1>5 DEF Start, AuthorizePayment, MarkCashExpected, CapturePayment, ConfirmCashCollection,
              RequestRefund, ApproveRefund, Begin, OnlyCall
<1>6. ASSUME NEW s \in Slots, Continue(s) PROVE UNCHANGED stored \/ SaveRecord(s)
  BY <1>6 DEF Continue, ProviderAnswers, CaptureReadsIntent, CaptureReadsOrder, PublishEvent,
              AppendAuditRecord, OnlyCall
<1>7. OrderMoves \/ UNCHANGED vars => UNCHANGED stored
  BY DEF OrderMoves, vars, stored
<1> QED BY <1>1, <1>3, <1>4, <1>5, <1>6, <1>7

\* appendAuditRecord runs after the save and the publication, yet without a
\* restart every stored transition of a payment or refund has its audit record
\* or a handler about to append it, whatever runs in between.
THEOREM TransitionsAreAudited == MaxRestarts = 0 /\ Spec => []Audited
<1>1. Init => Audited
  BY DEF Init, Audited, AbsentIntent, AbsentRefund
<1>2. MaxRestarts = 0 /\ IInv /\ Audited /\ [Next]_vars => Audited'
  BY NextAudits
<1>3. CASE MaxRestarts = 0
  <2>1. IInv /\ Audited /\ [Next]_vars => Audited'
    BY <1>2, <1>3
  <2> QED BY <1>1, <2>1, InvariantHolds, PTL DEF Spec
<1> QED BY <1>3

-----------------------------------------------------------------------------
(* One handler at a time: nothing is published twice, restarts included.     *)

Captures(i) == published["payment.captured.v1"][i]
Completions(f) == published["refund.completed.v1"][f]

\* With no other handler beside it, what a call read is still so.
OnceOK(c) ==
    /\ c.phase = "order" => c.record = intents[c.id]
    /\ c.action = "PAYMENT_CAPTURED" =>
          /\ c.id \in Intents
          /\ c.phase = "save" => intents[c.id].status # "CAPTURED"
          /\ c.phase = "publish" => intents[c.id].status = "CAPTURED" /\ Captures(c.id) = 0
    /\ c.action = "REFUND_REQUESTED" /\ c.phase = "save" => refunds[c.id].status = "ABSENT"
    /\ c.action = "REFUND_COMPLETED" =>
          /\ c.id \in Refunds
          /\ c.phase = "save" => refunds[c.id].status # "COMPLETED"
          /\ c.phase = "publish" => refunds[c.id].status = "COMPLETED" /\ Completions(c.id) = 0

StoredFirst ==
    /\ \A i \in Intents : Captures(i) # 0 => intents[i].status = "CAPTURED"
    /\ \A f \in Refunds : Completions(f) # 0 => refunds[f].status = "COMPLETED"

OnceInv ==
    /\ PublishedOnce /\ StoredFirst
    /\ \A s \in Slots : call[s] # Idle => OnceOK(call[s])

\* A step of the only slot that saves and publishes nothing.
LEMMA OnceStepPreserves ==
    ASSUME IInv, OnceInv, NEW s \in Slots, Slots = {s}, NEW c,
           call' = [call EXCEPT ![s] = c],
           UNCHANGED <<stored, published>>,
           c # Idle => OnceOK(c)
    PROVE  OnceInv'
<1>1. call'[s] = c
  BY DEF IInv, TypeOK
<1>2. OnceOK(c) => OnceOK(c)'
  BY DEF OnceOK, Captures, Completions, stored
<1>3. PublishedOnce' /\ StoredFirst'
  BY DEF OnceInv, PublishedOnce, CapturePublishedOnce, RefundPublishedOnce, StoredFirst, Captures,
         Completions, stored
<1>4. ASSUME NEW t \in Slots, call'[t] # Idle PROVE OnceOK(call[t])'
  <2>1. t = s
    OBVIOUS
  <2>2. OnceOK(c)' /\ call'[t] = c
    BY <1>1, <1>2, <1>4, <2>1
  <2> QED BY <2>2
<1> QED BY <1>3, <1>4 DEF OnceInv

LEMMA BeginPublishesOnce ==
    ASSUME IInv, OnceInv, NEW s \in Slots, Slots = {s},
           NEW phase, NEW action, NEW id, NEW record, NEW key, NEW mismatch,
           Begin(s, phase, action, id, record, key, mismatch),
           phase \in {"psp", "intent", "save"},
           action = "PAYMENT_CAPTURED" => id \in Intents /\ phase # "save",
           action = "REFUND_REQUESTED" => refunds[id].status = "ABSENT",
           action = "REFUND_COMPLETED" => id \in Refunds /\ refunds[id].status # "COMPLETED"
    PROVE  OnceInv'
<1> DEFINE c == [phase |-> phase, action |-> action, id |-> id,
                 record |-> record, key |-> key, mismatch |-> mismatch]
<1>1. call' = [call EXCEPT ![s] = c] /\ UNCHANGED <<stored, published>>
  BY DEF Begin, OnlyCall
<1>2. c.phase = phase /\ c.action = action /\ c.id = id
  OBVIOUS
<1> HIDE DEF c
<1>3. OnceOK(c)
  BY <1>2 DEF OnceOK
<1> QED BY <1>1, <1>3, OnceStepPreserves

LEMMA StartPublishesOnce ==
    ASSUME IInv, OnceInv, NEW s \in Slots, Slots = {s}, Start(s)
    PROVE  OnceInv'
<1>1. ASSUME NEW i \in Intents, NEW o \in Orders, NEW a \in Amounts, AuthorizePayment(s, i, o, a)
      PROVE  OnceInv'
  BY <1>1, BeginPublishesOnce DEF AuthorizePayment
<1>2. ASSUME NEW i \in Intents, NEW o \in Orders, NEW a \in Amounts, MarkCashExpected(s, i, o, a)
      PROVE  OnceInv'
  BY <1>2, BeginPublishesOnce DEF MarkCashExpected
<1>3. ASSUME NEW i \in Intents, NEW k \in Keys, CapturePayment(s, i, k) PROVE OnceInv'
  BY <1>3, BeginPublishesOnce DEF CapturePayment
<1>4. ASSUME NEW i \in Intents, NEW a \in Amounts, ConfirmCashCollection(s, i, a) PROVE OnceInv'
  BY <1>4, BeginPublishesOnce DEF ConfirmCashCollection
<1>5. ASSUME NEW f \in Refunds, NEW i \in Intents, NEW a \in Amounts, RequestRefund(s, f, i, a)
      PROVE  OnceInv'
  BY <1>5, BeginPublishesOnce DEF RequestRefund
<1>6. ASSUME NEW f \in Refunds, ApproveRefund(s, f) PROVE OnceInv'
  BY <1>6, BeginPublishesOnce DEF ApproveRefund
<1> QED BY <1>1, <1>2, <1>3, <1>4, <1>5, <1>6 DEF Start

\* The steps between two stores: what is read is remembered as it is stored.
LEMMA ReadPublishesOnce ==
    ASSUME IInv, OnceInv, NEW s \in Slots, Slots = {s},
           ProviderAnswers(s) \/ CaptureReadsIntent(s) \/ CaptureReadsOrder(s)
               \/ AppendAuditRecord(s)
    PROVE  OnceInv'
<1> USE PaymentsAssumption
<1> PICK c : c = call[s]
  OBVIOUS
<1>0. c # Idle /\ c \in Call /\ CallOK(c) /\ OnceOK(c)
  BY DEF ProviderAnswers, CaptureReadsIntent, CaptureReadsOrder, AppendAuditRecord, InPhase,
         IInv, OnceInv, TypeOK, CallsOK
<1>1. UNCHANGED <<stored, published>>
  BY DEF ProviderAnswers, CaptureReadsIntent, CaptureReadsOrder, AppendAuditRecord, OnlyCall
<1>2. CASE call' = [call EXCEPT ![s] = Idle]
  BY <1>1, <1>2, OnceStepPreserves
<1>3. CASE ProviderAnswers(s) /\ call' # [call EXCEPT ![s] = Idle]
  <2> DEFINE d == [c EXCEPT !.phase = "save"]
  <2>1. call' = [call EXCEPT ![s] = d]
    BY <1>3 DEF ProviderAnswers, IInv, TypeOK
  <2>2. c.action \in CreatingAction
    BY <1>0, <1>3 DEF ProviderAnswers, InPhase, CallOK
  <2>3. OnceOK(d)
    BY <1>0, <2>2 DEF OnceOK, CreatingAction, Call
  <2> HIDE DEF d
  <2> QED BY <1>1, <2>1, <2>3, OnceStepPreserves
<1>4. CASE CaptureReadsIntent(s) /\ call' # [call EXCEPT ![s] = Idle]
  <2> PICK r : r = intents[c.id]
    OBVIOUS
  <2> DEFINE d == [c EXCEPT !.phase = "order", !.record = r]
  <2>1. call' = [call EXCEPT ![s] = d]
    BY <1>4 DEF CaptureReadsIntent, IInv, TypeOK
  <2>2. c.id \in Intents /\ c.action = "PAYMENT_CAPTURED"
    BY <1>0, <1>4 DEF CaptureReadsIntent, InPhase, CallOK
  <2>3. OnceOK(d)
    BY <1>0, <2>2 DEF OnceOK, Call
  <2> HIDE DEF d
  <2> QED BY <1>1, <2>1, <2>3, OnceStepPreserves
<1>5. CASE CaptureReadsOrder(s) /\ call' # [call EXCEPT ![s] = Idle]
  <2> DEFINE d == [c EXCEPT !.phase = "save", !.record.status = "CAPTURED"]
  <2>1. call' = [call EXCEPT ![s] = d] /\ c.record.status # "CAPTURED"
    BY <1>5 DEF CaptureReadsOrder, IInv, TypeOK
  <2>2. c.id \in Intents /\ c.action = "PAYMENT_CAPTURED" /\ c.record = intents[c.id]
    BY <1>0, <1>5 DEF CaptureReadsOrder, InPhase, CallOK, OnceOK
  <2>3. d.phase = "save" /\ d.action = "PAYMENT_CAPTURED" /\ d.id = c.id
    BY <1>0, <2>2 DEF Call
  <2> HIDE DEF d
  <2>4. OnceOK(d)
    BY <2>1, <2>2, <2>3 DEF OnceOK
  <2> QED BY <1>1, <2>1, <2>4, OnceStepPreserves
<1>6. CASE AppendAuditRecord(s) /\ call' # [call EXCEPT ![s] = Idle]
  <2> DEFINE d == [c EXCEPT !.phase = "publish", !.mismatch = FALSE,
                            !.action = "PAYMENT_CASH_MISMATCH"]
  <2>1. call' = [call EXCEPT ![s] = d]
    BY <1>6 DEF AppendAuditRecord, IInv, TypeOK
  <2>2. d.phase = "publish" /\ d.action = "PAYMENT_CASH_MISMATCH"
    BY <1>0 DEF Call
  <2> HIDE DEF d
  <2>3. OnceOK(d)
    BY <2>2 DEF OnceOK
  <2> QED BY <1>1, <2>1, <2>3, OnceStepPreserves
<1> QED BY <1>2, <1>3, <1>4, <1>5, <1>6

\* A save stores a capture or a completion that was not published yet.
LEMMA SavePublishesOnce ==
    ASSUME IInv, OnceInv, NEW s \in Slots, Slots = {s}, SaveRecord(s)
    PROVE  OnceInv'
<1> USE PaymentsAssumption
<1> PICK c : c = call[s]
  OBVIOUS
<1>0. c # Idle /\ c \in Call /\ CallOK(c) /\ OnceOK(c) /\ c.phase = "save"
  BY DEF SaveRecord, InPhase, IInv, OnceInv, TypeOK, CallsOK
<1>1. published' = published
  BY DEF SaveRecord
<1>2. PublishedOnce'
  BY <1>1 DEF OnceInv, PublishedOnce, CapturePublishedOnce, RefundPublishedOnce
<1> PICK d : d = call'[s]
  OBVIOUS
<1>3. /\ call' = [call EXCEPT ![s] = d]
      /\ d.phase = "publish" /\ d.action = c.action /\ d.id = c.id
  <2>1. d = [c EXCEPT !.phase = "publish"]
    BY DEF SaveRecord, IInv, TypeOK
  <2>2. call' = [call EXCEPT ![s] = d]
    BY DEF SaveRecord, IInv, TypeOK
  <2> QED BY <1>0, <2>1, <2>2 DEF Call
<1>4. CASE c.id \in Intents
  <2>1. refunds' = refunds /\ intents' = [intents EXCEPT ![c.id] = c.record]
    BY <1>4 DEF SaveRecord
  <2>2. /\ intents[c.id].status = "CAPTURED" => intents'[c.id].status = "CAPTURED"
        /\ c.action = "PAYMENT_CAPTURED" => intents'[c.id].status = "CAPTURED"
    <3>1. intents[c.id] \in IntentRecord /\ intents'[c.id] = c.record
      BY <1>4, <2>1 DEF IInv, TypeOK
    <3> QED BY <1>0, <1>4, <3>1 DEF CallOK, SavesIntent, NewIntent, CapturedIntent, CreatingAction,
                                    IntentRecord, IntentStatus
  <2>3. StoredFirst'
    BY <1>1, <1>4, <2>1, <2>2 DEF OnceInv, StoredFirst, Captures, Completions, IInv, TypeOK
  <2>4. c.action # "REFUND_COMPLETED"
    BY <1>0, <1>4 DEF OnceOK
  <2>5. c.action = "PAYMENT_CAPTURED" =>
            intents'[c.id].status = "CAPTURED" /\ Captures(c.id)' = 0
    BY <1>0, <1>1, <1>4, <2>2 DEF OnceOK, OnceInv, StoredFirst, Captures
  <2>6. OnceOK(d)'
    BY <1>3, <1>4, <2>4, <2>5 DEF OnceOK, Captures
  <2> QED BY <1>2, <1>3, <2>3, <2>6 DEF OnceInv
<1>5. CASE c.id \in Refunds
  <2>1. intents' = intents /\ refunds' = [refunds EXCEPT ![c.id] = c.record]
    BY <1>5 DEF SaveRecord
  <2>2. /\ refunds'[c.id] = c.record
        /\ c.action = "REFUND_REQUESTED" \/ c.record.status = "COMPLETED"
    BY <1>0, <1>5, <2>1 DEF CallOK, SavesRefund, IInv, TypeOK
  <2>3. refunds[c.id].status = "COMPLETED" => refunds'[c.id].status = "COMPLETED"
    BY <1>0, <2>2 DEF OnceOK
  <2>4. StoredFirst'
    BY <1>1, <1>5, <2>1, <2>3 DEF OnceInv, StoredFirst, Captures, Completions, IInv, TypeOK
  <2>5. c.action # "PAYMENT_CAPTURED"
    BY <1>0, <1>5 DEF OnceOK
  <2>6. c.action = "REFUND_COMPLETED" =>
            refunds'[c.id].status = "COMPLETED" /\ Completions(c.id)' = 0
    BY <1>0, <1>1, <1>5, <2>2 DEF OnceOK, OnceInv, StoredFirst, Completions
  <2>7. OnceOK(d)'
    BY <1>3, <1>5, <2>5, <2>6 DEF OnceOK, Completions
  <2> QED BY <1>2, <1>3, <2>4, <2>7 DEF OnceInv
<1> QED BY <1>0, <1>4, <1>5 DEF Call

\* What is published was stored, and not published before.
LEMMA PublicationIsFirst ==
    ASSUME IInv, OnceInv, NEW s \in Slots, Slots = {s}, PublishEvent(s)
    PROVE  OnceInv'
<1> PICK c : c = call[s]
  OBVIOUS
<1>0. c # Idle /\ c \in Call /\ OnceOK(c) /\ c.phase = "publish"
  BY DEF PublishEvent, InPhase, IInv, OnceInv, TypeOK
<1>1. intents' = intents /\ refunds' = refunds
  BY DEF PublishEvent, stored
<1> DEFINE Raised(e, x) ==
        \/ published'[e][x] = published[e][x]
        \/ /\ c.action \in DOMAIN EventOfAction /\ EventOfAction[c.action] = e /\ x = c.id
           /\ published'[e][x] = published[e][x] + 1
<1>2. \A e \in EventType, x \in Intents \cup Refunds : Raised(e, x)
  <2> DEFINE q == EventOfAction[c.action]
             once == [published[q] EXCEPT ![c.id] = IF @ < Many THEN @ + 1 ELSE @]
  <2>1. published \in [EventType -> [Intents \cup Refunds -> 0..Many]]
    BY DEF IInv, TypeOK
  <2>2. CASE c.action \notin DOMAIN EventOfAction
    BY <2>2 DEF PublishEvent
  <2>3. CASE c.action \in DOMAIN EventOfAction
    <3>1. published' = [published EXCEPT ![q] = once]
      BY <2>3 DEF PublishEvent
    <3> TAKE e \in EventType, x \in Intents \cup Refunds
    <3>2. CASE e # q
      BY <2>1, <3>1, <3>2
    <3>3. CASE e = q
      <4>1. published'[e] = once
        BY <2>1, <3>1, <3>3
      <4>2. published[e] \in [Intents \cup Refunds -> 0..Many]
        BY <2>1
      <4> HIDE DEF q
      <4>3. once[x] = IF x = c.id /\ published[e][x] < Many THEN published[e][x] + 1
                      ELSE published[e][x]
        BY <3>3, <4>2
      <4> HIDE DEF once
      <4> QED BY <2>3, <3>3, <4>1, <4>3 DEF q
    <3> QED BY <3>2, <3>3
  <2> QED BY <2>2, <2>3
<1>3. ASSUME c.action \in DOMAIN EventOfAction
      PROVE  /\ EventOfAction[c.action] = "payment.captured.v1" => c.action = "PAYMENT_CAPTURED"
             /\ EventOfAction[c.action] = "refund.completed.v1" => c.action = "REFUND_COMPLETED"
  BY <1>3 DEF EventOfAction, Action
<1>4. \A i \in Intents :
          \/ Captures(i)' = Captures(i)
          \/ /\ c.action = "PAYMENT_CAPTURED" /\ i = c.id
             /\ Captures(i)' = Captures(i) + 1
  BY <1>2, <1>3 DEF Captures, EventType
<1>5. \A f \in Refunds :
          \/ Completions(f)' = Completions(f)
          \/ /\ c.action = "REFUND_COMPLETED" /\ f = c.id
             /\ Completions(f)' = Completions(f) + 1
  BY <1>2, <1>3 DEF Completions, EventType
<1>6. CapturePublishedOnce'
  <2>1. \A i \in Intents : Captures(i)' <= 1
    BY <1>0, <1>4 DEF OnceOK, OnceInv, PublishedOnce, CapturePublishedOnce, Captures
  <2> QED BY <2>1 DEF CapturePublishedOnce, Captures
<1>7. RefundPublishedOnce'
  <2>1. \A f \in Refunds : Completions(f)' <= 1
    BY <1>0, <1>5 DEF OnceOK, OnceInv, PublishedOnce, RefundPublishedOnce, Completions
  <2> QED BY <2>1 DEF RefundPublishedOnce, Completions
<1>8. StoredFirst'
  BY <1>0, <1>1, <1>4, <1>5 DEF OnceOK, OnceInv, StoredFirst
<1> PICK d : d = call'[s]
  OBVIOUS
<1>9. call' = [call EXCEPT ![s] = d] /\ d.phase = "audit" /\ d.action = c.action /\ d.id = c.id
  <2>1. d = [c EXCEPT !.phase = "audit"] /\ call' = [call EXCEPT ![s] = d]
    BY DEF PublishEvent, IInv, TypeOK
  <2> QED BY <1>0, <2>1 DEF Call
<1>10. OnceOK(d)'
  BY <1>0, <1>9 DEF OnceOK
<1> QED BY <1>6, <1>7, <1>8, <1>9, <1>10 DEF OnceInv, PublishedOnce

LEMMA NextPublishesOnce ==
    ASSUME IInv, OnceInv, NEW s \in Slots, Slots = {s}, [Next]_vars
    PROVE  OnceInv'
<1>1. CASE OrderMoves \/ UNCHANGED vars
  <2>1. UNCHANGED <<stored, published, call>>
    BY <1>1 DEF OrderMoves, vars, stored
  <2>2. call' = [call EXCEPT ![s] = call[s]]
    BY <2>1 DEF IInv, TypeOK
  <2> QED BY <2>1, <2>2, OnceStepPreserves DEF OnceInv
<1>2. CASE Restart
  <2>1. call' = [call EXCEPT ![s] = Idle] /\ UNCHANGED <<stored, published>>
    BY <1>2 DEF Restart, IInv, TypeOK
  <2> QED BY <2>1, OnceStepPreserves
<1>3. CASE Start(s)
  BY <1>3, StartPublishesOnce
<1>4. CASE Continue(s)
  BY <1>4, ReadPublishesOnce, SavePublishesOnce, PublicationIsFirst DEF Continue
<1> QED BY <1>1, <1>2, <1>3, <1>4 DEF Next

\* capturePayment and approveRefund: a server that handles one request at a time
\* publishes the capture of an intent and the completion of a refund at most once,
\* however keys and requests repeat and whenever it restarts.
THEOREM SerialServerPublishesOnce ==
    ASSUME NEW s, Slots = {s}
    PROVE  Spec => []PublishedOnce
<1>1. Init => OnceInv
  BY DEF Init, OnceInv, PublishedOnce, CapturePublishedOnce, RefundPublishedOnce, StoredFirst,
         Captures, Completions, EventType
<1>2. IInv /\ OnceInv /\ [Next]_vars => OnceInv'
  BY NextPublishesOnce
<1>3. OnceInv => PublishedOnce
  BY DEF OnceInv
<1> QED BY <1>1, <1>2, <1>3, InvariantHolds, PTL DEF Spec

=============================================================================
