-------------------------- MODULE BackOfficeProofs --------------------------
(***************************************************************************)
(* Proofs about the back office: for any number of concurrent handlers and *)
(* restarts, what is to happen once happens once unless two handlers       *)
(* worked on it at the same time; the audit chain; the risk policy.        *)
(*                                                                         *)
(* The argument is the same in every service.  A handler that is alone on  *)
(* its subject can trust what it looked up until it saves, and a subject   *)
(* on which no two handlers met was always worked on by one alone.         *)
(***************************************************************************)
EXTENDS MCBackOffice, FiniteSetTheorems, SequenceTheorems, WellFoundedInduction, TLAPS

-----------------------------------------------------------------------------
(* Handlers.                                                                 *)

CallsIn(Calls) == call \in [Slots -> Calls \cup {Idle}]

\* Two handlers on one subject have been noticed.
OverlapSeen ==
    \A s, t \in Slots :
        s # t /\ call[s] # Idle /\ call[t] # Idle /\ call[s].subject = call[t].subject
            => call[s].subject \in overlapped

LEMMA BeginKeepsSeen ==
    ASSUME NEW Calls, CallsIn(Calls), OverlapSeen, NEW s \in Slots, NEW h \in Calls, Begin(s, h)
    PROVE  CallsIn(Calls)' /\ OverlapSeen'
BY DEF CallsIn, OverlapSeen, Begin, BeginBeside, Busy

LEMMA ContinueKeepsSeen ==
    ASSUME NEW Calls, CallsIn(Calls), OverlapSeen, NEW s \in Slots, NEW h \in Calls \cup {Idle},
           Continue(s, h), h # Idle => call[s] # Idle /\ h.subject = call[s].subject
    PROVE  CallsIn(Calls)' /\ OverlapSeen'
BY DEF CallsIn, OverlapSeen, Continue

LEMMA RestartKeepsSeen ==
    ASSUME NEW Calls, Restart
    PROVE  CallsIn(Calls)' /\ OverlapSeen' /\ \A s \in Slots : call'[s] = Idle
BY DEF CallsIn, OverlapSeen, Restart

\* A step is a restart, or keeps the service and the number of restarts.
LEMMA StepKinds == [Next]_vars => Restart \/ (part' = part /\ restarts' = restarts)
<1> SUFFICES ASSUME [Next]_vars PROVE Restart \/ (part' = part /\ restarts' = restarts)
  OBVIOUS
<1> USE DEF Begin, BeginBeside, Continue, Await, Answer, handlerVars
<1>1. NotificationsNext \/ DeliveriesNext => Restart \/ (part' = part /\ restarts' = restarts)
  <2>1. ASSUME NEW s \in Slots, NEW e, NEW x, NEW a, NEW l, Fanout(s, e, x, a, l)
        PROVE  part' = part /\ restarts' = restarts
    BY <2>1 DEF Fanout
  <2>2. ASSUME NEW s \in Slots, FanoutFinds(s) \/ FanoutSaves(s) \/ FanoutPublishes(s)
        PROVE  part' = part /\ restarts' = restarts
    BY <2>2 DEF FanoutFinds, FanoutSaves, FanoutPublishes, NextChannel
  <2>3. CASE DeliveriesNext
    BY <2>3 DEF DeliveriesNext, HandleFailure, RecordReceipt
  <2>4. CASE NotificationsNext
    <3>1. CASE Restart
      BY <3>1
    <3>2. ASSUME NEW s \in Slots, NEW e \in Topics, NEW x \in Entities,
                 NEW a \in ActorTypes \cup {Null}, NEW l \in Locales, Fanout(s, e, x, a, l)
          PROVE  part' = part /\ restarts' = restarts
      BY <3>2, <2>1
    <3> QED BY <2>4, <2>2, <3>1, <3>2 DEF NotificationsNext
  <2> QED BY <2>3, <2>4
<1>2. PayoutsNext \/ ImportsNext => Restart \/ (part' = part /\ restarts' = restarts)
  BY DEF PayoutsNext, ImportsNext, GenerateBatch, BatchFinds, BatchSaves, BatchPublishes,
         RunScheduledImport, ImportFinds, ImportAppends, ImportSaves, ImportPublishes
<1>3. StatementsNext \/ ReconciliationNext \/ LedgerNext => Restart \/ (part' = part /\ restarts' = restarts)
  BY DEF StatementsNext, ReconciliationNext, LedgerNext, PublishStatement, StatementRenders,
         StatementSaves, Reconcile, PostJournalEntry
<1>4. SupportNext \/ InterventionNext => Restart \/ (part' = part /\ restarts' = restarts)
  BY DEF SupportNext, InterventionNext, Tick, CreateTicket, EvaluateEscalations, SlaContinues,
         SlaLists, SlaFinds, SlaSaves, SlaPublishes, WorkThrough, Intervene
<1>5. AuditNext => Restart \/ (part' = part /\ restarts' = restarts)
  BY DEF AuditNext, AppendEvent, AuditReadsLatest, AuditAppends, GenerateEvidenceReport,
         ComplianceRestart
<1>6. ReviewNext \/ PolicyNext => Restart \/ (part' = part /\ restarts' = restarts)
  BY DEF ReviewNext, PolicyNext, QueueReview, ResolveReview, ReviewFinds, ReviewSaves,
         ReviewAnnounces, UpsertRule, RulePut, ComplianceRestart
<1> QED BY <1>1, <1>2, <1>3, <1>4, <1>5, <1>6 DEF Next, vars

LEMMA PartKept == [Next]_vars => part' = part
BY StepKinds DEF Restart

LEMMA RestartsKept == [Next]_vars /\ restarts \in Nat => restarts' \in Nat
<1>1. Restart /\ restarts \in Nat => restarts' \in Nat
  BY DEF Restart
<1> QED BY <1>1, StepKinds

\* What only the service a behaviour is about writes.
LEMMA OwnPart == [Next]_vars =>
    /\ part # "fanout" => UNCHANGED <<queue, queuedEvents>>
    /\ part # "deliveries" => UNCHANGED <<retries, deadLetters, receipts>>
    /\ part # "payouts" => UNCHANGED <<batches, batchEvents>>
    /\ part # "imports" => UNCHANGED <<importRuns, importEvents, reconciliations, failedSaves>>
    /\ part # "statements" => UNCHANGED statements
    /\ part # "reconciliation" => UNCHANGED reconciled
    /\ part # "ledger" => UNCHANGED journal
    /\ part # "support" => UNCHANGED <<now, tickets, escalations, escalationEvents>>
    /\ part # "interventions" => UNCHANGED interventions
    /\ part # "audit" => UNCHANGED auditVars
    /\ part # "review" => UNCHANGED reviewVars
    /\ part # "policy" => UNCHANGED storedRules
<1> SUFFICES ASSUME [Next]_vars
             PROVE  /\ part # "fanout" => UNCHANGED <<queue, queuedEvents>>
                    /\ part # "deliveries" => UNCHANGED <<retries, deadLetters, receipts>>
                    /\ part # "payouts" => UNCHANGED <<batches, batchEvents>>
                    /\ part # "imports" => UNCHANGED <<importRuns, importEvents, reconciliations, failedSaves>>
                    /\ part # "statements" => UNCHANGED statements
                    /\ part # "reconciliation" => UNCHANGED reconciled
                    /\ part # "ledger" => UNCHANGED journal
                    /\ part # "support" => UNCHANGED <<now, tickets, escalations, escalationEvents>>
                    /\ part # "interventions" => UNCHANGED interventions
                    /\ part # "audit" => UNCHANGED auditVars
                    /\ part # "review" => UNCHANGED reviewVars
                    /\ part # "policy" => UNCHANGED storedRules
  OBVIOUS
<1>1. /\ part # "fanout" => UNCHANGED <<queue, queuedEvents>>
      /\ part # "deliveries" => UNCHANGED <<retries, deadLetters, receipts>>
  <2>1. DeliveriesNext => UNCHANGED <<queue, queuedEvents>>
    BY DEF DeliveriesNext, HandleFailure, RecordReceipt
  <2>2. NotificationsNext => UNCHANGED <<retries, deadLetters, receipts>>
    BY DEF NotificationsNext, Fanout, FanoutFinds, FanoutSaves, FanoutPublishes, notificationVars
  <2>3. \/ part = "deliveries" /\ DeliveriesNext
        \/ part = "fanout" /\ NotificationsNext
        \/ UNCHANGED notificationVars
    BY DEF Next, vars, OnlySettlement, OnlySupport, OnlyCompliance
  <2> QED BY <2>1, <2>2, <2>3 DEF notificationVars
<1>2. /\ part # "payouts" => UNCHANGED <<batches, batchEvents>>
      /\ part # "imports" => UNCHANGED <<importRuns, importEvents, reconciliations, failedSaves>>
      /\ part # "statements" => UNCHANGED statements
      /\ part # "reconciliation" => UNCHANGED reconciled
      /\ part # "ledger" => UNCHANGED journal
  <2>1. PayoutsNext => UNCHANGED <<importRuns, importEvents, reconciliations, failedSaves,
                                   reconciled, journal, statements>>
    BY DEF PayoutsNext, GenerateBatch, BatchFinds, BatchSaves, BatchPublishes, settlementVars
  <2>2. ImportsNext => UNCHANGED <<batches, batchEvents, reconciled, journal, statements>>
    BY DEF ImportsNext, RunScheduledImport, ImportFinds, ImportAppends, ImportSaves,
           ImportPublishes, settlementVars
  <2>3. StatementsNext => UNCHANGED <<batches, batchEvents, importRuns, importEvents,
                                      reconciliations, failedSaves, reconciled, journal>>
    BY DEF StatementsNext, PublishStatement, StatementRenders, StatementSaves, settlementVars
  <2>4. ReconciliationNext => UNCHANGED <<batches, batchEvents, importRuns, importEvents,
                                          reconciliations, failedSaves, journal, statements>>
    BY DEF ReconciliationNext, Reconcile
  <2>5. LedgerNext => UNCHANGED <<batches, batchEvents, importRuns, importEvents,
                                  reconciliations, failedSaves, reconciled, statements>>
    BY DEF LedgerNext, PostJournalEntry
  <2>6. \/ part = "payouts" /\ PayoutsNext
        \/ part = "imports" /\ ImportsNext
        \/ part = "statements" /\ StatementsNext
        \/ part = "reconciliation" /\ ReconciliationNext
        \/ part = "ledger" /\ LedgerNext
        \/ UNCHANGED settlementVars
    BY DEF Next, vars, OnlyNotifications, OnlySupport, OnlyCompliance
  <2> QED BY <2>1, <2>2, <2>3, <2>4, <2>5, <2>6 DEF settlementVars
<1>3. /\ part # "support" => UNCHANGED <<now, tickets, escalations, escalationEvents>>
      /\ part # "interventions" => UNCHANGED interventions
  <2>1. InterventionNext => UNCHANGED <<now, tickets, escalations, escalationEvents>>
    BY DEF InterventionNext, Intervene
  <2>2. SupportNext => UNCHANGED interventions
    BY DEF SupportNext, Tick, CreateTicket, EvaluateEscalations, SlaContinues, SlaLists, SlaFinds,
           SlaSaves, SlaPublishes, supportVars
  <2>3. \/ part = "interventions" /\ InterventionNext
        \/ part = "support" /\ SupportNext
        \/ UNCHANGED supportVars
    BY DEF Next, vars, OnlyNotifications, OnlySettlement, OnlyCompliance
  <2> QED BY <2>1, <2>2, <2>3 DEF supportVars
<1>4. /\ part # "audit" => UNCHANGED auditVars
      /\ part # "review" => UNCHANGED reviewVars
      /\ part # "policy" => UNCHANGED storedRules
  <2>1. AuditNext => UNCHANGED reviewVars /\ UNCHANGED storedRules
    BY DEF AuditNext, AppendEvent, AuditReadsLatest, AuditAppends, GenerateEvidenceReport,
           ComplianceRestart, complianceVars, reviewVars, policyVars
  <2>2. ReviewNext => UNCHANGED auditVars /\ UNCHANGED storedRules
    BY DEF ReviewNext, QueueReview, ResolveReview, ReviewFinds, ReviewSaves, ReviewAnnounces,
           ComplianceRestart, complianceVars, auditVars, policyVars
  <2>3. PolicyNext => UNCHANGED auditVars /\ UNCHANGED reviewVars
    BY DEF PolicyNext, UpsertRule, RulePut, ComplianceRestart, auditVars, reviewVars
  <2>4. \/ part = "audit" /\ AuditNext
        \/ part = "review" /\ ReviewNext
        \/ part = "policy" /\ PolicyNext
        \/ UNCHANGED complianceVars
    BY DEF Next, vars, OnlyNotifications, OnlySettlement, OnlySupport
  <2> QED BY <2>1, <2>2, <2>3, <2>4 DEF complianceVars, auditVars, reviewVars
<1> QED BY <1>1, <1>2, <1>3, <1>4

-----------------------------------------------------------------------------
(* The audit chain.                                                          *)

Stored(hash) == hash = "GENESIS" \/ \E j \in DOMAIN chain : chain[j].id = hash
Tip == IF chain = <<>> THEN "GENESIS" ELSE Last(chain).id

Linked ==
    \A i \in DOMAIN chain :
        chain[i].previousHash = IF i = 1 THEN "GENESIS" ELSE chain[i - 1].id

NamesStored ==
    \A i \in DOMAIN chain :
        \/ chain[i].previousHash = "GENESIS"
        \/ \E j \in 1..(i - 1) : chain[j].id = chain[i].previousHash

\* What an append has read was stored, and is still the tip if it is alone.
ReadTip ==
    \A s \in Slots : At(s, "append") =>
        /\ Stored(call[s].event.previousHash)
        /\ <<"audit">> \notin overlapped => call[s].event.previousHash = Tip

AuditInv ==
    /\ chain \in Seq(AuditEvent) /\ CallsIn(AuditCall)
    /\ OverlapSeen /\ NamesStored /\ ReadTip
    /\ <<"audit">> \notin overlapped => Linked

LEMMA AuditHandlerStep ==
    ASSUME AuditInv, NEW s \in Slots, NEW c \in AuditCall, call[s] = c, c # Idle,
           NEW h \in AuditCall \cup {Idle}, Continue(s, h),
           UNCHANGED chain,
           h # Idle /\ h.phase = "append" => h.event.previousHash = Tip
    PROVE  AuditInv'
<1>1. CallsIn(AuditCall)' /\ OverlapSeen'
  BY ContinueKeepsSeen DEF AuditInv, AuditCall
<1>2. Tip' = Tip /\ Stored(Tip)
  BY DEF Tip, Stored, AuditInv, Last
<1>3. ReadTip'
  BY <1>2 DEF AuditInv, ReadTip, CallsIn, At, Continue, Stored
<1> QED BY <1>1, <1>3 DEF AuditInv, NamesStored, Linked, Continue

LEMMA AuditAppendStep ==
    ASSUME AuditInv, NEW s \in Slots, NEW c \in AuditCall, call[s] = c, c.phase = "append",
           call[s] # Idle, Answer(s), chain' = Append(chain, c.event)
    PROVE  AuditInv'
<1>1. CallsIn(AuditCall)' /\ OverlapSeen'
  BY ContinueKeepsSeen DEF AuditInv, Answer
<1> PICK e \in AuditEvent : e = c.event
  BY DEF AuditCall
<1>2. /\ chain' \in Seq(AuditEvent) /\ Len(chain') = Len(chain) + 1
      /\ \A i \in DOMAIN chain : chain'[i] = chain[i]
      /\ chain'[Len(chain) + 1] = e
  BY DEF AuditInv
<1>3. Stored(e.previousHash) /\ (<<"audit">> \notin overlapped => e.previousHash = Tip)
  BY DEF AuditInv, ReadTip, At
<1>4. NamesStored'
  BY <1>2, <1>3 DEF AuditInv, NamesStored, Stored
<1>5. overlapped' = overlapped
  BY DEF Answer, Continue
<1>6. ASSUME <<"audit">> \notin overlapped PROVE Linked'
  BY <1>2, <1>3, <1>6 DEF AuditInv, Linked, Tip, Last
<1>7. ReadTip'
  <2> SUFFICES ASSUME NEW t \in Slots, At(t, "append")'
               PROVE  /\ Stored(call[t].event.previousHash)'
                      /\ <<"audit">> \notin overlapped => (call[t].event.previousHash = Tip)'
    BY <1>5 DEF ReadTip
  <2>1. t # s /\ call'[t] = call[t] /\ At(t, "append")
    BY DEF At, Answer, Continue, AuditInv, CallsIn
  <2>2. Stored(call[t].event.previousHash)
    BY <2>1 DEF AuditInv, ReadTip
  <2>3. Stored(call[t].event.previousHash)'
    BY <1>2, <2>1, <2>2 DEF Stored
  <2>4. <<"audit">> \in overlapped
    BY <2>1 DEF AuditInv, OverlapSeen, CallsIn, AuditCall, At
  <2> QED BY <2>3, <2>4
<1> QED BY <1>1, <1>2, <1>4, <1>5, <1>6, <1>7 DEF AuditInv

LEMMA AuditPreserves == ASSUME AuditInv, AuditNext PROVE AuditInv'
<1>1. ASSUME NEW s \in Slots, NEW id \in AuditEvents, NEW ordered \in BOOLEAN,
             AppendEvent(s, id, ordered)
      PROVE  AuditInv'
  <2> DEFINE e == [id |-> id, previousHash |-> "GENESIS", ordered |-> ordered]
             h == [phase |-> "latest", subject |-> <<"audit">>, event |-> e]
  <2>1. h \in AuditCall /\ Begin(s, h) /\ h.phase = "latest"
    BY <1>1 DEF AppendEvent, AuditCall, AuditEvent
  <2> HIDE DEF h
  <2>2. CallsIn(AuditCall)' /\ OverlapSeen'
    BY <2>1, BeginKeepsSeen DEF AuditInv
  <2>3. UNCHANGED chain /\ overlapped \subseteq overlapped'
    BY <1>1 DEF AppendEvent, complianceVars, Begin, BeginBeside
  <2>4. ReadTip'
    <3> SUFFICES ASSUME NEW t \in Slots, At(t, "append")'
                 PROVE  /\ Stored(call[t].event.previousHash)'
                        /\ <<"audit">> \notin overlapped => (call[t].event.previousHash = Tip)'
      BY <2>3 DEF ReadTip
    <3>1. call'[t] = call[t] /\ At(t, "append")
      BY <2>1 DEF At, Begin, BeginBeside, AuditInv, CallsIn
    <3> QED BY <2>3, <3>1 DEF AuditInv, ReadTip, Stored, Tip
  <2> QED BY <2>2, <2>3, <2>4 DEF AuditInv, NamesStored, Linked
<1>2. ASSUME NEW s \in Slots, AuditReadsLatest(s) PROVE AuditInv'
  <2> PICK c \in AuditCall : call[s] = c /\ c # Idle
    BY <1>2 DEF AuditReadsLatest, At, AuditInv, CallsIn
  <2> PICK hash : hash = Tip
    OBVIOUS
  <2> DEFINE h == [c EXCEPT !.phase = "append", !.event.previousHash = hash]
  <2>1. Continue(s, h) /\ UNCHANGED chain
    BY <1>2 DEF AuditReadsLatest, complianceVars, Tip
  <2>2. hash \in AuditEvents \cup {"GENESIS"}
    <3>1. \A i \in DOMAIN chain : chain[i] \in AuditEvent
      BY DEF AuditInv
    <3>2. chain # <<>> => Len(chain) \in DOMAIN chain
      BY DEF AuditInv
    <3> QED BY <3>1, <3>2 DEF Tip, Last, AuditEvent
  <2>3. h \in AuditCall /\ h.event.previousHash = hash
    BY <2>2 DEF AuditCall, AuditEvent
  <2> HIDE DEF h
  <2> QED BY <2>1, <2>3, AuditHandlerStep
<1>3. ASSUME NEW s \in Slots, AuditAppends(s) PROVE AuditInv'
  <2> PICK c \in AuditCall : call[s] = c /\ c # Idle
    BY <1>3 DEF AuditAppends, At, AuditInv, CallsIn
  <2>1. c.phase = "append" /\ call[s] # Idle /\ Answer(s)
    BY <1>3 DEF AuditAppends, At
  <2>2. CASE chain' = Append(chain, c.event)
    BY <2>1, <2>2, AuditAppendStep
  <2>3. CASE UNCHANGED chain
    BY <2>1, <2>3, AuditHandlerStep DEF Answer
  <2> QED BY <1>3, <2>2, <2>3 DEF AuditAppends
<1>4. CASE GenerateEvidenceReport
  BY <1>4 DEF GenerateEvidenceReport, handlerVars, AuditInv, CallsIn, OverlapSeen, NamesStored,
              ReadTip, Stored, Tip, Linked, At
<1>5. CASE ComplianceRestart
  <2>1. Restart /\ UNCHANGED <<chain, overlapped>>
    BY <1>5 DEF ComplianceRestart, auditVars, Restart
  <2>2. CallsIn(AuditCall)' /\ OverlapSeen' /\ \A s \in Slots : call'[s] = Idle
    BY <2>1, RestartKeepsSeen
  <2> QED BY <2>1, <2>2 DEF AuditInv, NamesStored, ReadTip, Linked, At
<1> QED BY <1>1, <1>2, <1>3, <1>4, <1>5 DEF AuditNext

ChainInv == IF part = "audit" THEN AuditInv ELSE chain = <<>>

LEMMA InitChain == Init => ChainInv
BY DEF Init, HandlersInit, ComplianceInit, ChainInv, AuditInv, CallsIn, OverlapSeen, NamesStored,
       ReadTip, Linked, At

LEMMA NextChain == ChainInv /\ [Next]_vars => ChainInv'
<1> SUFFICES ASSUME ChainInv, [Next]_vars PROVE ChainInv'
  OBVIOUS
<1>1. part' = part
  BY PartKept
<1>2. CASE part = "audit" /\ AuditNext
  BY <1>1, <1>2, AuditPreserves DEF ChainInv
<1>3. CASE part = "audit" /\ UNCHANGED vars
  BY <1>3 DEF vars, handlerVars, complianceVars, ChainInv, AuditInv, CallsIn, OverlapSeen,
              NamesStored, ReadTip, Stored, Tip, Linked, At
<1>4. ASSUME part # "audit" PROVE UNCHANGED chain
  BY <1>4, OwnPart DEF auditVars
<1> QED BY <1>1, <1>2, <1>3, <1>4 DEF ChainInv, Next

\* ComplianceAuditService.appendEvent and verifyChain: for any number of appends
\* and restarts, the chain verifies unless two appends overlapped or JSONB
\* reordered some metadata, and even a forked chain names stored events only.
THEOREM AuditChainVerifies == Spec => []ChainVerifies
<1>1. ChainInv => ChainVerifies
  <2> SUFFICES ASSUME ChainInv PROVE ChainVerifies
    OBVIOUS
  <2>1. CASE part = "audit"
    BY <2>1 DEF ChainInv, AuditInv, ChainVerifies, VerifyChain, Linked, NamesStored
  <2>2. CASE part # "audit"
    BY <2>2 DEF ChainInv, ChainVerifies, VerifyChain
  <2> QED BY <2>1, <2>2
<1> QED BY <1>1, InitChain, NextChain, PTL DEF Spec

-----------------------------------------------------------------------------
(* Manual reviews.                                                           *)

\* What a handler alone on a review has found still holds when it saves.
ReviewHandlerOK(c) ==
    LET r == c.subject[2] IN
    /\ c.phase = "save" => reviews[r] = "QUEUED"
    /\ c.phase = "announce" => reviews[r] = c.decision /\ decisions[r] = <<>>

ReviewInv ==
    /\ reviews \in [Reviews -> ReviewStatus]
    /\ decisions \in [Reviews -> Seq(Decision)]
    /\ CallsIn(ReviewCall) /\ OverlapSeen
    /\ \A r \in Reviews : <<"review", r>> \notin overlapped =>
          /\ Len(decisions[r]) <= 1
          /\ \A i \in DOMAIN decisions[r] : decisions[r][i] = reviews[r]
          /\ decisions[r] # <<>> => reviews[r] \in Decision
    /\ \A s \in Slots : call[s] # Idle /\ call[s].subject \notin overlapped
                            => ReviewHandlerOK(call[s])

\* What a step does to another review, or to a review without handlers.
LEMMA ReviewContinues ==
    ASSUME ReviewInv, NEW s \in Slots, NEW c \in ReviewCall, call[s] = c, c # Idle,
           NEW h \in ReviewCall \cup {Idle}, Continue(s, h), h # Idle => h.subject = c.subject,
           NEW r \in Reviews, c.subject = <<"review", r>>,
           reviews' \in [Reviews -> ReviewStatus], decisions' \in [Reviews -> Seq(Decision)],
           \A q \in Reviews \ {r} : reviews'[q] = reviews[q] /\ decisions'[q] = decisions[q],
           c.subject \notin overlapped =>
               /\ Len(decisions'[r]) <= 1
               /\ \A i \in DOMAIN decisions'[r] : decisions'[r][i] = reviews'[r]
               /\ decisions'[r] # <<>> => reviews'[r] \in Decision
               /\ h # Idle => ReviewHandlerOK(h)'
    PROVE  ReviewInv'
<1>1. CallsIn(ReviewCall)' /\ OverlapSeen' /\ overlapped' = overlapped
  BY ContinueKeepsSeen DEF ReviewInv, Continue
<1>2. ASSUME NEW t \in Slots, call'[t] # Idle, call'[t].subject \notin overlapped
      PROVE  ReviewHandlerOK(call[t])'
  <2>1. CASE t = s
    <3>1. call'[t] = h
      BY <2>1 DEF Continue, ReviewInv, CallsIn
    <3>2. ReviewHandlerOK(h)'
      BY <1>2, <3>1
    <3> QED BY <3>1, <3>2
  <2>2. CASE t # s
    <3> PICK d \in ReviewCall : call[t] = d /\ call'[t] = d /\ d # Idle
      BY <1>2, <2>2 DEF Continue, ReviewInv, CallsIn
    <3>1. ReviewHandlerOK(d) /\ d.subject # c.subject
      BY <1>1, <1>2, <2>2 DEF ReviewInv, OverlapSeen
    <3>2. d.subject[2] \in Reviews \ {r}
      BY <3>1 DEF ReviewCall
    <3>3. ReviewHandlerOK(d)'
      BY <3>1, <3>2 DEF ReviewHandlerOK
    <3> QED BY <3>3
  <2> QED BY <2>1, <2>2
<1>3. ASSUME NEW q \in Reviews, <<"review", q>> \notin overlapped
      PROVE  /\ Len(decisions'[q]) <= 1
             /\ \A i \in DOMAIN decisions'[q] : decisions'[q][i] = reviews'[q]
             /\ decisions'[q] # <<>> => reviews'[q] \in Decision
  BY <1>3 DEF ReviewInv
<1> QED BY <1>1, <1>2, <1>3 DEF ReviewInv

LEMMA ReviewPreserves == ASSUME ReviewInv, ReviewNext PROVE ReviewInv'
<1>1. ASSUME NEW r \in Reviews, QueueReview(r) PROVE ReviewInv'
  <2>1. /\ reviews[r] = "ABSENT" /\ reviews' = [reviews EXCEPT ![r] = "QUEUED"]
        /\ UNCHANGED <<call, overlapped, decisions>>
    BY <1>1 DEF QueueReview, handlerVars
  <2>2. reviews' \in [Reviews -> ReviewStatus]
    BY <2>1 DEF ReviewInv, ReviewStatus
  <2>3. CallsIn(ReviewCall)' /\ OverlapSeen'
    BY <2>1 DEF ReviewInv, CallsIn, OverlapSeen
  <2>4. ASSUME NEW s \in Slots, call'[s] # Idle, call'[s].subject \notin overlapped'
        PROVE  ReviewHandlerOK(call[s])'
    <3> PICK c \in ReviewCall : call[s] = c /\ call'[s] = c
      BY <2>1, <2>4 DEF ReviewInv, CallsIn
    <3>1. ReviewHandlerOK(c) /\ c.subject[2] \in Reviews /\ c.decision \in Decision
      BY <2>1, <2>4 DEF ReviewInv, ReviewCall
    <3>2. ReviewHandlerOK(c)'
      BY <2>1, <3>1 DEF ReviewHandlerOK, ReviewInv, Decision
    <3> QED BY <3>2
  <2>5. ASSUME NEW q \in Reviews, <<"review", q>> \notin overlapped
        PROVE  /\ Len(decisions[q]) <= 1
               /\ \A i \in DOMAIN decisions[q] : decisions[q][i] = reviews'[q]
               /\ decisions[q] # <<>> => reviews'[q] \in Decision
    BY <2>1, <2>5 DEF ReviewInv, Decision
  <2> QED BY <2>1, <2>2, <2>3, <2>4, <2>5 DEF ReviewInv
<1>2. ASSUME NEW s \in Slots, NEW r \in Reviews, NEW d \in Decision, ResolveReview(s, r, d)
      PROVE  ReviewInv'
  <2> DEFINE h == [phase |-> "find", subject |-> <<"review", r>>, decision |-> d]
  <2>1. h \in ReviewCall /\ Begin(s, h) /\ h.phase = "find"
    BY <1>2 DEF ResolveReview, ReviewCall
  <2> HIDE DEF h
  <2>2. CallsIn(ReviewCall)' /\ OverlapSeen'
    BY <2>1, BeginKeepsSeen DEF ReviewInv
  <2>3. UNCHANGED <<reviews, decisions>> /\ overlapped \subseteq overlapped'
    BY <1>2 DEF ResolveReview, complianceVars, Begin, BeginBeside
  <2>4. ASSUME NEW t \in Slots, call'[t] # Idle, call'[t].subject \notin overlapped'
        PROVE  ReviewHandlerOK(call[t])'
    <3>1. CASE t = s
      <4>1. call'[t] = h
        BY <2>1, <3>1 DEF Begin, BeginBeside, ReviewInv, CallsIn
      <4> QED BY <2>1, <4>1 DEF ReviewHandlerOK
    <3>2. CASE t # s
      BY <2>1, <2>3, <2>4, <3>2 DEF Begin, BeginBeside, ReviewInv, CallsIn, ReviewHandlerOK
    <3> QED BY <3>1, <3>2
  <2> QED BY <2>2, <2>3, <2>4 DEF ReviewInv
<1>3. ASSUME NEW s \in Slots, ReviewFinds(s) \/ ReviewSaves(s) \/ ReviewAnnounces(s)
      PROVE  ReviewInv'
  <2> PICK c \in ReviewCall : call[s] = c /\ c # Idle
    BY <1>3 DEF ReviewFinds, ReviewSaves, ReviewAnnounces, At, ReviewInv, CallsIn
  <2> PICK r \in Reviews : c.subject = <<"review", r>>
    BY DEF ReviewCall
  <2>1. c.subject[2] = r /\ c.decision \in Decision
    BY DEF ReviewCall
  <2>2. c.subject \notin overlapped => ReviewHandlerOK(c)
    BY DEF ReviewInv
  <2>3. CASE ReviewFinds(s)
    <3>1. UNCHANGED <<reviews, decisions>>
      BY <2>3 DEF ReviewFinds, complianceVars
    <3>2. CASE reviews[r] # "QUEUED"
      <4>1. Continue(s, Idle)
        BY <2>1, <2>3, <3>2 DEF ReviewFinds, Answer
      <4> QED BY <3>1, <4>1, ReviewContinues DEF ReviewInv
    <3>3. CASE reviews[r] = "QUEUED"
      <4> DEFINE h == [c EXCEPT !.phase = "save"]
      <4>1. Continue(s, h)
        BY <2>1, <2>3, <3>3 DEF ReviewFinds, Await
      <4>2. h \in ReviewCall /\ h.subject = c.subject /\ h.phase = "save"
        BY DEF ReviewCall
      <4> HIDE DEF h
      <4>3. ReviewHandlerOK(h)'
        BY <2>1, <3>1, <3>3, <4>2 DEF ReviewHandlerOK
      <4> QED BY <3>1, <4>1, <4>2, <4>3, ReviewContinues DEF ReviewInv
    <3> QED BY <3>2, <3>3
  <2>4. CASE ReviewSaves(s)
    <3> DEFINE h == [c EXCEPT !.phase = "announce"]
    <3>1. /\ Continue(s, h) /\ c.phase = "save" /\ UNCHANGED decisions
          /\ reviews' = [reviews EXCEPT ![r] = c.decision]
      BY <2>1, <2>4 DEF ReviewSaves, Await, At
    <3>2. h \in ReviewCall /\ h.subject = c.subject /\ h.phase = "announce"
             /\ h.decision = c.decision
      BY DEF ReviewCall
    <3> HIDE DEF h
    <3>3. reviews' \in [Reviews -> ReviewStatus] /\ reviews'[r] = c.decision
      BY <2>1, <3>1 DEF ReviewInv, ReviewStatus, Decision
    <3>4. c.subject \notin overlapped => decisions[r] = <<>>
      BY <2>1, <2>2, <3>1 DEF ReviewHandlerOK, ReviewInv, Decision
    <3>5. c.subject \notin overlapped => ReviewHandlerOK(h)'
      BY <2>1, <3>1, <3>2, <3>3, <3>4 DEF ReviewHandlerOK
    <3>6. \A q \in Reviews \ {r} : reviews'[q] = reviews[q] /\ decisions'[q] = decisions[q]
      BY <3>1 DEF ReviewInv
    <3>7. decisions' \in [Reviews -> Seq(Decision)]
      BY <3>1 DEF ReviewInv
    <3>8. c.subject \notin overlapped =>
              /\ Len(decisions'[r]) <= 1
              /\ \A i \in DOMAIN decisions'[r] : decisions'[r][i] = reviews'[r]
              /\ decisions'[r] # <<>> => reviews'[r] \in Decision
              /\ h # Idle => ReviewHandlerOK(h)'
      <4>1. decisions'[r] = decisions[r]
        BY <3>1
      <4> QED BY <3>4, <3>5, <4>1
    <3> QED BY <3>1, <3>2, <3>3, <3>6, <3>7, <3>8, ReviewContinues
  <2>5. CASE ReviewAnnounces(s)
    <3>1. /\ Continue(s, Idle) /\ c.phase = "announce" /\ UNCHANGED reviews
          /\ decisions' = [decisions EXCEPT ![r] = Append(@, c.decision)]
      BY <2>1, <2>5 DEF ReviewAnnounces, Answer, At
    <3>2. decisions'[r] = Append(decisions[r], c.decision) /\ decisions[r] \in Seq(Decision)
      BY <3>1 DEF ReviewInv
    <3>3. decisions' \in [Reviews -> Seq(Decision)]
      BY <2>1, <3>1, <3>2 DEF ReviewInv
    <3>4. c.subject \notin overlapped => reviews[r] = c.decision /\ decisions[r] = <<>>
      BY <2>1, <2>2, <3>1 DEF ReviewHandlerOK
    <3>5. c.subject \notin overlapped =>
              /\ Len(decisions'[r]) <= 1
              /\ \A i \in DOMAIN decisions'[r] : decisions'[r][i] = reviews'[r]
              /\ decisions'[r] # <<>> => reviews'[r] \in Decision
      BY <2>1, <3>1, <3>2, <3>4
    <3>6. \A q \in Reviews \ {r} : reviews'[q] = reviews[q] /\ decisions'[q] = decisions[q]
      BY <3>1 DEF ReviewInv
    <3> QED BY <3>1, <3>3, <3>5, <3>6, ReviewContinues DEF ReviewInv
  <2> QED BY <1>3, <2>3, <2>4, <2>5
<1>4. CASE ComplianceRestart
  <2>1. Restart /\ UNCHANGED <<reviews, decisions, overlapped>>
    BY <1>4 DEF ComplianceRestart, reviewVars, Restart
  <2>2. CallsIn(ReviewCall)' /\ OverlapSeen' /\ \A s \in Slots : call'[s] = Idle
    BY <2>1, RestartKeepsSeen
  <2> QED BY <2>1, <2>2 DEF ReviewInv
<1> QED BY <1>1, <1>2, <1>3, <1>4 DEF ReviewNext


ReviewsInv == IF part = "review" THEN ReviewInv ELSE \A r \in Reviews : decisions[r] = <<>>

LEMMA InitReviews == Init => ReviewsInv
<1> SUFFICES ASSUME Init PROVE ReviewsInv
  OBVIOUS
<1>1. /\ decisions = [r \in Reviews |-> <<>>] /\ reviews = [r \in Reviews |-> "ABSENT"]
      /\ call = [s \in Slots |-> Idle]
  BY DEF Init, HandlersInit, ComplianceInit
<1>2. CallsIn(ReviewCall) /\ OverlapSeen
  BY <1>1 DEF CallsIn, OverlapSeen
<1>3. reviews \in [Reviews -> ReviewStatus] /\ decisions \in [Reviews -> Seq(Decision)]
  BY <1>1 DEF ReviewStatus
<1> QED BY <1>1, <1>2, <1>3 DEF ReviewsInv, ReviewInv

LEMMA NextReviews == ReviewsInv /\ [Next]_vars => ReviewsInv'
<1> SUFFICES ASSUME ReviewsInv, [Next]_vars PROVE ReviewsInv'
  OBVIOUS
<1>1. part' = part
  BY PartKept
<1>2. CASE part = "review" /\ ReviewNext
  BY <1>1, <1>2, ReviewPreserves DEF ReviewsInv
<1>3. CASE part = "review" /\ UNCHANGED vars
  BY <1>3 DEF vars, handlerVars, complianceVars, ReviewsInv, ReviewInv, CallsIn, OverlapSeen,
              ReviewHandlerOK
<1>4. ASSUME part # "review" PROVE UNCHANGED decisions
  BY <1>4, OwnPart DEF reviewVars
<1> QED BY <1>1, <1>2, <1>3, <1>4 DEF ReviewsInv, Next

\* ManualReviewService.resolve: for any number of resolutions and restarts, a
\* review is decided and announced once, with the decision it keeps, unless two
\* resolutions of it overlapped.
THEOREM ReviewsDecidedOnce == Spec => []ReviewDecidedOnce
<1>1. ReviewsInv => ReviewDecidedOnce
  BY DEF ReviewsInv, ReviewInv, ReviewDecidedOnce
<1> QED BY <1>1, InitReviews, NextReviews, PTL DEF Spec

-----------------------------------------------------------------------------
(* The risk policy.                                                          *)

\* A rule the store lacks is the default one, unless it is about to be stored or
\* storing it failed.
Explained(a) ==
    \/ storedRules[a] # Null
    \/ memoryRules[a] = DefaultRules[a] \/ a \in unstored
    \/ \E s \in Slots : call[s] # Idle /\ call[s].subject = <<"rule", a>>

PolicyInv ==
    /\ CallsIn(PolicyCall)
    /\ storedRules \in [RiskActions -> Rule \cup {Null}]
    /\ unstored \subseteq RiskActions
    /\ memoryRules = [a \in RiskActions |-> memoryRules[a]]
    /\ \A a \in RiskActions : memoryRules[a] \in Rule \/ memoryRules[a] = DefaultRules[a]
    /\ \A a \in RiskActions : Explained(a)

LEMMA PolicyPreserves == ASSUME PolicyInv, PolicyNext PROVE PolicyInv'
<1>1. ASSUME NEW s \in Slots, NEW a \in RiskActions, NEW rule \in Rule, UpsertRule(s, a, rule)
      PROVE  PolicyInv'
  <2> DEFINE h == [phase |-> "put", subject |-> <<"rule", a>>, rule |-> rule]
  <2>1. /\ h \in PolicyCall /\ h.subject = <<"rule", a>>
        /\ call[s] = Idle /\ call' = [call EXCEPT ![s] = h]
        /\ memoryRules' = [memoryRules EXCEPT ![a] = rule] /\ UNCHANGED <<storedRules, unstored>>
    BY <1>1 DEF UpsertRule, PolicyCall, Begin, BeginBeside
  <2> HIDE DEF h
  <2>2. CallsIn(PolicyCall)'
    BY <2>1 DEF PolicyInv, CallsIn
  <2>3. memoryRules' = [b \in RiskActions |-> memoryRules'[b]]
        /\ \A b \in RiskActions \ {a} : memoryRules'[b] = memoryRules[b]
    BY <2>1 DEF PolicyInv
  <2>4. \A t \in Slots : call[t] # Idle => call'[t] = call[t]
    BY <2>1 DEF PolicyInv, CallsIn
  <2>5. call'[s] = h
    BY <2>1 DEF PolicyInv, CallsIn
  <2>6. \E t \in Slots : call'[t] # Idle /\ call'[t].subject = <<"rule", a>>
    BY <2>1, <2>5, ComplianceAssumption DEF ComplianceCall
  <2>7. ASSUME NEW b \in RiskActions \ {a}, NEW t \in Slots, call[t] # Idle,
               call[t].subject = <<"rule", b>>
        PROVE  call'[t] # Idle /\ call'[t].subject = <<"rule", b>>
    BY <2>4, <2>7
  <2>8. \A b \in RiskActions : Explained(b)'
    <3> SUFFICES ASSUME NEW b \in RiskActions, b # a, storedRules'[b] = Null,
                        memoryRules'[b] # DefaultRules[b], b \notin unstored'
                 PROVE  \E t \in Slots : call'[t] # Idle /\ call'[t].subject = <<"rule", b>>
      BY <2>6 DEF Explained
    <3>1. storedRules[b] = Null /\ memoryRules[b] # DefaultRules[b] /\ b \notin unstored
      BY <2>1, <2>3
    <3>2. PICK t \in Slots : call[t] # Idle /\ call[t].subject = <<"rule", b>>
      BY <3>1 DEF PolicyInv, Explained
    <3> QED BY <2>7, <3>2
  <2>9. \A b \in RiskActions : memoryRules'[b] \in Rule \/ memoryRules'[b] = DefaultRules[b]
    <3>1. \A b \in RiskActions : memoryRules[b] \in Rule \/ memoryRules[b] = DefaultRules[b]
      BY DEF PolicyInv
    <3> SUFFICES ASSUME NEW b \in RiskActions
                 PROVE  memoryRules'[b] \in Rule \/ memoryRules'[b] = DefaultRules[b]
      OBVIOUS
    <3>2. CASE b = a
      <4>1. memoryRules'[a] = rule
        BY <2>1 DEF PolicyInv
      <4>2. memoryRules'[b] = rule
        BY <3>2, <4>1
      <4> QED BY <4>2
    <3>3. CASE b # a
      BY <2>3, <3>1, <3>3
    <3> QED BY <3>2, <3>3
  <2>10. storedRules' \in [RiskActions -> Rule \cup {Null}] /\ unstored' \subseteq RiskActions
    BY <2>1 DEF PolicyInv
  <2> QED BY <2>2, <2>3, <2>8, <2>9, <2>10 DEF PolicyInv
<1>2. ASSUME NEW s \in Slots, RulePut(s) PROVE PolicyInv'
  <2> PICK c \in PolicyCall : call[s] = c /\ c # Idle
    BY <1>2 DEF RulePut, At, PolicyInv, CallsIn
  <2> PICK a \in RiskActions : c.subject = <<"rule", a>>
    BY DEF PolicyCall
  <2>1. /\ call' = [call EXCEPT ![s] = Idle] /\ UNCHANGED memoryRules
        /\ \/ storedRules' = [storedRules EXCEPT ![a] = c.rule] /\ UNCHANGED unstored
           \/ unstored' = unstored \cup {a} /\ UNCHANGED storedRules
    <3>1. c.subject[2] = a
      OBVIOUS
    <3> QED BY <1>2, <3>1 DEF RulePut, Answer, Continue
  <2>2. c.rule \in Rule /\ c.rule # Null
    BY ComplianceAssumption DEF PolicyCall
  <2>3. CallsIn(PolicyCall)'
    BY <2>1 DEF PolicyInv, CallsIn
  <2>4. /\ storedRules' \in [RiskActions -> Rule \cup {Null}]
        /\ storedRules'[a] # Null \/ a \in unstored'
        /\ unstored \subseteq unstored' /\ unstored' \subseteq RiskActions
        /\ \A b \in RiskActions \ {a} : storedRules'[b] = storedRules[b]
    BY <2>1, <2>2 DEF PolicyInv
  <2>5. \A t \in Slots \ {s} : call'[t] = call[t]
    BY <2>1 DEF PolicyInv, CallsIn
  <2>6. ASSUME NEW b \in RiskActions \ {a}, NEW t \in Slots, call[t] # Idle,
               call[t].subject = <<"rule", b>>
        PROVE  call'[t] # Idle /\ call'[t].subject = <<"rule", b>>
    BY <2>5, <2>6
  <2>7. \A b \in RiskActions : Explained(b)'
    <3> SUFFICES ASSUME NEW b \in RiskActions, b # a, storedRules'[b] = Null,
                        memoryRules'[b] # DefaultRules[b], b \notin unstored'
                 PROVE  \E t \in Slots : call'[t] # Idle /\ call'[t].subject = <<"rule", b>>
      BY <2>4 DEF Explained
    <3>1. storedRules[b] = Null /\ memoryRules[b] # DefaultRules[b] /\ b \notin unstored
      BY <2>1, <2>4
    <3>2. PICK t \in Slots : call[t] # Idle /\ call[t].subject = <<"rule", b>>
      BY <3>1 DEF PolicyInv, Explained
    <3> QED BY <2>6, <3>2
  <2> QED BY <2>1, <2>3, <2>4, <2>7 DEF PolicyInv
<1>3. CASE ComplianceRestart
  BY <1>3 DEF ComplianceRestart, Restart, PolicyInv, Explained, CallsIn, DefaultRules
<1> QED BY <1>1, <1>2, <1>3 DEF PolicyNext

RulesInv == IF part = "policy" THEN PolicyInv
            ELSE /\ memoryRules = DefaultRules /\ unstored = {}
                 /\ \A a \in RiskActions : storedRules[a] = Null

LEMMA InitRules == Init => RulesInv
BY DEF Init, HandlersInit, ComplianceInit, RulesInv, PolicyInv, Explained, CallsIn, DefaultRules

LEMMA NextRules == RulesInv /\ [Next]_vars => RulesInv'
<1> SUFFICES ASSUME RulesInv, [Next]_vars PROVE RulesInv'
  OBVIOUS
<1>1. part' = part
  BY PartKept
<1>2. CASE part = "policy" /\ PolicyNext
  BY <1>1, <1>2, PolicyPreserves DEF RulesInv
<1>3. CASE part = "policy" /\ UNCHANGED vars
  BY <1>3 DEF vars, handlerVars, complianceVars, RulesInv, PolicyInv, Explained, CallsIn
<1>4. ASSUME part # "policy"
      PROVE  /\ storedRules' = storedRules /\ (unstored = {} => unstored' = {})
             /\ memoryRules = DefaultRules => memoryRules' = DefaultRules
  <2>1. AuditNext \/ ReviewNext =>
            /\ storedRules' = storedRules /\ (unstored = {} => unstored' = {})
            /\ memoryRules = DefaultRules => memoryRules' = DefaultRules
    BY DEF AuditNext, ReviewNext, AppendEvent, AuditReadsLatest, AuditAppends,
           GenerateEvidenceReport, QueueReview, ResolveReview, ReviewFinds, ReviewSaves,
           ReviewAnnounces, ComplianceRestart, complianceVars, policyVars
  <2>2. AuditNext \/ ReviewNext \/ UNCHANGED complianceVars
    BY <1>4 DEF Next, vars, OnlyNotifications, OnlySettlement, OnlySupport
  <2>3. UNCHANGED complianceVars => UNCHANGED <<storedRules, memoryRules, unstored>>
    BY DEF complianceVars
  <2> QED BY <2>1, <2>2, <2>3
<1> QED BY <1>1, <1>2, <1>3, <1>4 DEF RulesInv, Next

\* What a decision by a rule amounts to, for any rule the policy can hold.
LEMMA DecideMonotone ==
    ASSUME NEW rule, rule = Null \/ (rule.allowUpTo \in Nat /\ rule.reviewUpTo \in Nat),
           NEW c \in Nat, NEW d \in Nat, c <= d
    PROVE  /\ Decide(rule, d) = "ALLOW" => Decide(rule, c) = "ALLOW"
           /\ Decide(rule, c) = "DENY" => Decide(rule, d) = "DENY"
BY DEF Decide

LEMMA DefaultRuleBounds ==
    ASSUME NEW a \in RiskActions
    PROVE  \/ DefaultRules[a] = Null
           \/ DefaultRules[a].allowUpTo \in Nat /\ DefaultRules[a].reviewUpTo \in Nat
<1>1. Unlimited \in Nat
  BY ComplianceAssumption DEF Unlimited, Max
<1> QED BY <1>1 DEF DefaultRules

\* RiskPolicyService: a larger amount is never decided more permissively, and
\* each decision is the one a restarted process takes, unless a rule of the action
\* is being stored, or storing one failed and the store has none; for any rules,
\* amounts, requests, failures of the store and restarts.
THEOREM PolicyDurable == Spec => []PolicySurvivesRestart
<1>1. RulesInv => PolicySurvivesRestart
  <2> SUFFICES ASSUME RulesInv, NEW a \in RiskActions
               PROVE  /\ \A c, d \in Cents : c <= d =>
                            /\ Evaluate(a, d) = "ALLOW" => Evaluate(a, c) = "ALLOW"
                            /\ Evaluate(a, c) = "DENY" => Evaluate(a, d) = "DENY"
                      /\ LET durable == IF storedRules[a] # Null THEN storedRules[a]
                                        ELSE DefaultRules[a]
                         IN \/ \E s \in Slots : call[s] # Idle /\ call[s].subject = <<"rule", a>>
                            \/ a \in unstored /\ storedRules[a] = Null
                            \/ \A c \in Cents : Evaluate(a, c) = Decide(durable, c)
    BY DEF PolicySurvivesRestart
  <2>1. FindRule(a) \in Rule \/ FindRule(a) = DefaultRules[a]
    BY DEF RulesInv, PolicyInv, FindRule
  <2>2. FindRule(a) = Null \/ (FindRule(a).allowUpTo \in Nat /\ FindRule(a).reviewUpTo \in Nat)
    <3>1. FindRule(a) \in Rule => FindRule(a).allowUpTo \in Nat /\ FindRule(a).reviewUpTo \in Nat
      BY ComplianceAssumption DEF Rule
    <3> QED BY <2>1, <3>1, DefaultRuleBounds
  <2>3. Cents \subseteq Nat
    BY ComplianceAssumption
  <2>4. \A c, d \in Cents : c <= d =>
            /\ Evaluate(a, d) = "ALLOW" => Evaluate(a, c) = "ALLOW"
            /\ Evaluate(a, c) = "DENY" => Evaluate(a, d) = "DENY"
    BY <2>2, <2>3, DecideMonotone DEF Evaluate
  <2>5. \/ \E s \in Slots : call[s] # Idle /\ call[s].subject = <<"rule", a>>
        \/ a \in unstored /\ storedRules[a] = Null
        \/ FindRule(a) = IF storedRules[a] # Null THEN storedRules[a] ELSE DefaultRules[a]
    BY DEF RulesInv, PolicyInv, Explained, FindRule
  <2> QED BY <2>4, <2>5 DEF Evaluate
<1> QED BY <1>1, InitRules, NextRules, PTL DEF Spec


-----------------------------------------------------------------------------
(* Notifications.                                                            *)

FanoutBusy == {c \in FanoutCall : c.channels # <<>>}
FanoutOf(k) == <<"fanout", k[2], k[3]>>
Saving(s, k) == At(s, "save") /\ KeyOf(call[s]) = k
Publishing(s, k) == At(s, "publish") /\ KeyOf(call[s]) = k

\* What is known of a key: every item saved for it has one handler that is to
\* announce it, and a handler alone on the key saves what nobody saved before.
KeyInv(k) ==
    /\ queuedEvents[k] <= queue[k]
    /\ queue[k] > 1 => FanoutOf(k) \in overlapped
    /\ \A s \in Slots : Saving(s, k) /\ FanoutOf(k) \notin overlapped => queue[k] = 0
    /\ \A s \in Slots : Publishing(s, k) =>
          queue[k] > 0 /\ (queue[k] = 1 => queuedEvents[k] = 0)
    /\ \A s, t \in Slots : s # t /\ Publishing(s, k) /\ Publishing(t, k) => queue[k] = Many

FanoutInv ==
    /\ queue \in [IdempotencyKeys -> 0..Many]
    /\ queuedEvents \in [IdempotencyKeys -> 0..Many]
    /\ CallsIn(FanoutBusy) /\ OverlapSeen
    /\ \A k \in IdempotencyKeys : KeyInv(k)

LEMMA KeyOfFanout ==
    ASSUME NEW c \in FanoutBusy
    PROVE  KeyOf(c) \in IdempotencyKeys /\ c.subject = FanoutOf(KeyOf(c))
<1>1. Head(c.channels) \in Channel
  BY DEF FanoutBusy, FanoutCall
<1>2. PICK t \in EventTypes \X {"en-US", "es-US"}, x \in Entities : c.subject = <<"fanout", t, x>>
  BY DEF FanoutBusy, FanoutCall
<1> QED BY <1>1, <1>2 DEF KeyOf, IdempotencyKeys, FanoutOf

LEMMA ChannelsOfEvent ==
    ASSUME NEW e \in EventTypes
    PROVE  Channels[e] \in Seq(Channel) /\ Channels[e] # <<>>
<1>1. e \in {"order.created.v1", "dispatch.assignment.completed.v1", "support.ticket_escalated.v1"}
  BY DEF EventTypes, Channels
<1>2. Channels[e] \in {<<"PUSH", "SMS">>, <<"PUSH">>, <<"EMAIL">>}
  BY <1>1 DEF Channels
<1>3. <<"PUSH", "SMS">> \in Seq(Channel) /\ <<"PUSH">> \in Seq(Channel) /\ <<"EMAIL">> \in Seq(Channel)
  BY DEF Channel
<1>4. <<"PUSH", "SMS">> # <<>> /\ <<"PUSH">> # <<>> /\ <<"EMAIL">> # <<>>
  OBVIOUS
<1> HIDE DEF Channels
<1> QED BY <1>2, <1>3, <1>4

\* The two ways in which a fanout goes on after a channel.
LEMMA NextChannelSteps ==
    ASSUME CallsIn(FanoutBusy), OverlapSeen, NEW s \in Slots,
           NEW c \in FanoutBusy, call[s] = c, c # Idle, NextChannel(s)
    PROVE  /\ CallsIn(FanoutBusy)' /\ OverlapSeen' /\ overlapped' = overlapped
           /\ \A t \in Slots \ {s} : call'[t] = call[t]
           /\ \A k : ~Saving(s, k)' /\ ~Publishing(s, k)'
<1> DEFINE h == IF Len(c.channels) = 1 THEN Idle
                ELSE [c EXCEPT !.phase = "find", !.channels = Tail(@)]
<1>1. Continue(s, h)
  BY DEF NextChannel, Answer
<1>2. h \in FanoutBusy \cup {Idle} /\ (h # Idle => h.subject = c.subject /\ h.phase = "find")
  <2>1. CASE Len(c.channels) # 1
    <3>1. c.channels \in Seq(Channel) /\ c.channels # <<>>
      BY DEF FanoutBusy, FanoutCall
    <3>2. Tail(c.channels) \in Seq(Channel) /\ Tail(c.channels) # <<>>
      <4>1. Len(c.channels) \in Nat \ {0}
        BY <3>1, EmptySeq
      <4>2. Tail(c.channels) \in Seq(Channel) /\ Len(Tail(c.channels)) = Len(c.channels) - 1
        BY <3>1, HeadTailProperties
      <4>3. Len(Tail(c.channels)) # 0
        BY <2>1, <4>1, <4>2
      <4> HIDE DEF h
      <4> QED BY <4>2, <4>3
    <3>3. h = [c EXCEPT !.phase = "find", !.channels = Tail(@)]
      BY <2>1
    <3>4. h \in FanoutCall /\ h.channels = Tail(c.channels)
      BY <3>2, <3>3 DEF FanoutBusy, FanoutCall
    <3> QED BY <3>2, <3>3, <3>4 DEF FanoutBusy, FanoutCall
  <2> QED BY <2>1
<1> HIDE DEF h
<1>3. CallsIn(FanoutBusy)' /\ OverlapSeen'
  BY <1>1, <1>2, ContinueKeepsSeen
<1>4. call'[s] = h /\ overlapped' = overlapped /\ \A t \in Slots \ {s} : call'[t] = call[t]
  BY <1>1 DEF Continue, CallsIn
<1> QED BY <1>2, <1>3, <1>4 DEF Saving, Publishing, At


LEMMA FanoutPreserves == ASSUME FanoutInv, NotificationsNext PROVE FanoutInv'
<1> USE DEF Many
<1>1. ASSUME NEW s \in Slots, NEW e \in Topics, NEW x \in Entities,
             NEW a \in ActorTypes \cup {Null}, NEW l \in Locales, Fanout(s, e, x, a, l)
      PROVE  FanoutInv'
  <2> DEFINE h == [phase |-> "find", subject |-> <<"fanout", TemplateKey(e, l), x>>,
                   channels |-> Channels[e]]
  <2>1. e \in EventTypes
    BY NotificationsAssumption DEF EventTypes, Channels
  <2>2. TemplateKey(e, l) \in EventTypes \X {"en-US", "es-US"}
    BY <2>1 DEF TemplateKey, TemplateLocales
  <2>3. h \in FanoutBusy /\ h.phase = "find" /\ Begin(s, h)
    BY <1>1, <2>1, <2>2, ChannelsOfEvent DEF FanoutBusy, FanoutCall, Fanout
  <2> HIDE DEF h
  <2>4. CallsIn(FanoutBusy)' /\ OverlapSeen'
    BY <2>3, BeginKeepsSeen DEF FanoutInv
  <2>5. UNCHANGED <<queue, queuedEvents>> /\ overlapped \subseteq overlapped'
    BY <1>1 DEF Fanout, notificationVars, Begin, BeginBeside
  <2>6. call'[s] = h /\ \A t \in Slots \ {s} : call'[t] = call[t]
    BY <2>3 DEF Begin, BeginBeside, FanoutInv, CallsIn
  <2>7. ASSUME NEW k \in IdempotencyKeys, NEW t \in Slots
        PROVE  /\ Saving(t, k)' => Saving(t, k)
               /\ Publishing(t, k)' => Publishing(t, k)
    BY <2>3, <2>6 DEF Saving, Publishing, At
  <2>8. ASSUME NEW k \in IdempotencyKeys PROVE KeyInv(k)'
    BY <2>5, <2>7 DEF FanoutInv, KeyInv
  <2> QED BY <2>4, <2>5, <2>8 DEF FanoutInv
<1>2. ASSUME NEW s \in Slots, FanoutFinds(s) \/ FanoutSaves(s) \/ FanoutPublishes(s)
      PROVE  FanoutInv'
  <2> PICK c \in FanoutBusy : call[s] = c /\ c # Idle
    BY <1>2 DEF FanoutFinds, FanoutSaves, FanoutPublishes, At, FanoutInv, CallsIn
  <2> PICK key \in IdempotencyKeys : KeyOf(c) = key
    BY KeyOfFanout
  <2>1. c.subject = FanoutOf(key)
    BY KeyOfFanout
  <2>2. CASE FanoutFinds(s) /\ queue[key] > 0
    <3>1. NextChannel(s) /\ UNCHANGED <<queue, queuedEvents>>
      BY <2>2 DEF FanoutFinds, notificationVars
    <3>2. /\ CallsIn(FanoutBusy)' /\ OverlapSeen' /\ overlapped' = overlapped
          /\ \A t \in Slots \ {s} : call'[t] = call[t]
          /\ \A k : ~Saving(s, k)' /\ ~Publishing(s, k)'
      BY <3>1, NextChannelSteps DEF FanoutInv
    <3>3. ASSUME NEW k \in IdempotencyKeys, NEW t \in Slots
          PROVE  /\ Saving(t, k)' => Saving(t, k)
                 /\ Publishing(t, k)' => Publishing(t, k)
      BY <3>2 DEF Saving, Publishing, At
    <3>4. ASSUME NEW k \in IdempotencyKeys PROVE KeyInv(k)'
      BY <3>1, <3>2, <3>3 DEF FanoutInv, KeyInv
    <3> QED BY <3>1, <3>2, <3>4 DEF FanoutInv
  <2>3. CASE FanoutFinds(s) /\ ~(queue[key] > 0)
    <3> DEFINE h == [c EXCEPT !.phase = "save"]
    <3>1. Continue(s, h) /\ UNCHANGED <<queue, queuedEvents>>
      BY <2>3 DEF FanoutFinds, notificationVars, Await
    <3>2. h \in FanoutBusy /\ h.subject = c.subject /\ h.phase = "save" /\ KeyOf(h) = key
      BY DEF FanoutBusy, FanoutCall, KeyOf
    <3> HIDE DEF h
    <3>3. CallsIn(FanoutBusy)' /\ OverlapSeen'
      BY <3>1, <3>2, ContinueKeepsSeen DEF FanoutInv
    <3>4. /\ call'[s] = h /\ overlapped' = overlapped
          /\ \A t \in Slots \ {s} : call'[t] = call[t]
      BY <3>1 DEF Continue, FanoutInv, CallsIn
    <3>5. ASSUME NEW k \in IdempotencyKeys, NEW t \in Slots
          PROVE  /\ Saving(t, k)' => Saving(t, k) \/ k = key
                 /\ Publishing(t, k)' => Publishing(t, k)
      BY <3>2, <3>4 DEF Saving, Publishing, At
    <3>6. queue[key] = 0
      BY <2>3 DEF FanoutInv
    <3>7. ASSUME NEW k \in IdempotencyKeys PROVE KeyInv(k)'
      BY <3>1, <3>4, <3>5, <3>6 DEF FanoutInv, KeyInv
    <3> QED BY <3>1, <3>3, <3>7 DEF FanoutInv
  <2>4. CASE FanoutSaves(s)
    <3> DEFINE h == [c EXCEPT !.phase = "publish"]
    <3>1. /\ Continue(s, h) /\ UNCHANGED queuedEvents /\ c.phase = "save"
          /\ queue' = [queue EXCEPT ![key] = Plus(@)]
      BY <2>4 DEF FanoutSaves, Await, At
    <3>2. h \in FanoutBusy /\ h.subject = c.subject /\ h.phase = "publish" /\ KeyOf(h) = key
      BY DEF FanoutBusy, FanoutCall, KeyOf
    <3> HIDE DEF h
    <3>3. CallsIn(FanoutBusy)' /\ OverlapSeen'
      BY <3>1, <3>2, ContinueKeepsSeen DEF FanoutInv
    <3>4. /\ call'[s] = h /\ overlapped' = overlapped
          /\ \A t \in Slots \ {s} : call'[t] = call[t]
      BY <3>1 DEF Continue, FanoutInv, CallsIn
    <3>5. ASSUME NEW k \in IdempotencyKeys, NEW t \in Slots
          PROVE  /\ Saving(t, k)' => Saving(t, k) /\ t # s
                 /\ Publishing(t, k)' => Publishing(t, k) \/ (t = s /\ k = key)
      BY <3>2, <3>4 DEF Saving, Publishing, At
    <3>6. Saving(s, key)
      BY <3>1 DEF Saving, At
    <3>7. queue' \in [IdempotencyKeys -> 0..Many] /\ queue'[key] = Plus(queue[key])
          /\ \A k \in IdempotencyKeys \ {key} : queue'[k] = queue[k]
      BY <3>1 DEF FanoutInv, Plus
    <3>8. ASSUME NEW t \in Slots \ {s}, Saving(t, key) PROVE FanoutOf(key) \in overlapped
      <4>1. PICK d \in FanoutBusy : call[t] = d /\ d # Idle /\ KeyOf(d) = key
        BY <3>8 DEF FanoutInv, CallsIn, Saving, At
      <4> QED BY <2>1, <4>1, KeyOfFanout DEF FanoutInv, OverlapSeen
    <3>9. KeyInv(key)'
      <4>1. queue[key] \in 0..2 /\ queuedEvents[key] \in 0..2 /\ KeyInv(key)
        BY DEF FanoutInv
      <4> QED BY <3>1, <3>4, <3>5, <3>6, <3>7, <3>8, <4>1 DEF KeyInv, Plus
    <3>10. ASSUME NEW k \in IdempotencyKeys \ {key} PROVE KeyInv(k)'
      BY <3>1, <3>4, <3>5, <3>7 DEF FanoutInv, KeyInv
    <3> QED BY <3>1, <3>3, <3>7, <3>9, <3>10 DEF FanoutInv
  <2>5. CASE FanoutPublishes(s)
    <3>1. /\ NextChannel(s) /\ UNCHANGED queue /\ c.phase = "publish"
          /\ queuedEvents' = [queuedEvents EXCEPT ![key] = Plus(@)]
      BY <2>5 DEF FanoutPublishes, At
    <3>2. /\ CallsIn(FanoutBusy)' /\ OverlapSeen' /\ overlapped' = overlapped
          /\ \A t \in Slots \ {s} : call'[t] = call[t]
          /\ \A k : ~Saving(s, k)' /\ ~Publishing(s, k)'
      BY <3>1, NextChannelSteps DEF FanoutInv
    <3>3. ASSUME NEW k \in IdempotencyKeys, NEW t \in Slots
          PROVE  /\ Saving(t, k)' => Saving(t, k)
                 /\ Publishing(t, k)' => Publishing(t, k) /\ t # s
      BY <3>2 DEF Saving, Publishing, At
    <3>4. Publishing(s, key)
      BY <3>1 DEF Publishing, At
    <3>5. /\ queuedEvents' \in [IdempotencyKeys -> 0..Many]
          /\ queuedEvents'[key] = Plus(queuedEvents[key])
          /\ \A k \in IdempotencyKeys \ {key} : queuedEvents'[k] = queuedEvents[k]
      BY <3>1 DEF FanoutInv, Plus
    <3>6. KeyInv(key)'
      <4>1. queue[key] \in 0..2 /\ queuedEvents[key] \in 0..2 /\ KeyInv(key)
        BY DEF FanoutInv
      <4> QED BY <3>1, <3>2, <3>3, <3>4, <3>5, <4>1 DEF KeyInv, Plus
    <3>7. ASSUME NEW k \in IdempotencyKeys \ {key} PROVE KeyInv(k)'
      BY <3>1, <3>2, <3>3, <3>5 DEF FanoutInv, KeyInv
    <3> QED BY <3>1, <3>2, <3>5, <3>6, <3>7 DEF FanoutInv
  <2> QED BY <1>2, <2>2, <2>3, <2>4, <2>5
<1>3. CASE Restart /\ UNCHANGED notificationVars
  <2>1. UNCHANGED <<queue, queuedEvents, overlapped>>
    BY <1>3 DEF notificationVars, Restart
  <2>2. CallsIn(FanoutBusy)' /\ OverlapSeen' /\ \A s \in Slots : call'[s] = Idle
    BY <1>3, RestartKeepsSeen
  <2>3. ASSUME NEW k \in IdempotencyKeys PROVE KeyInv(k)'
    BY <2>1, <2>2 DEF FanoutInv, KeyInv, Saving, Publishing, At
  <2> QED BY <2>1, <2>2, <2>3 DEF FanoutInv
<1> QED BY <1>1, <1>2, <1>3 DEF NotificationsNext

FanoutsInv == IF part = "fanout" THEN FanoutInv
              ELSE \A k \in IdempotencyKeys : queue[k] = 0 /\ queuedEvents[k] = 0

LEMMA InitFanouts == Init => FanoutsInv
BY DEF Init, HandlersInit, NotificationsInit, FanoutsInv, FanoutInv, CallsIn, OverlapSeen,
       KeyInv, Saving, Publishing, At, Many

LEMMA NextFanouts == FanoutsInv /\ [Next]_vars => FanoutsInv'
<1> SUFFICES ASSUME FanoutsInv, [Next]_vars PROVE FanoutsInv'
  OBVIOUS
<1>1. part' = part
  BY PartKept
<1>2. CASE part = "fanout" /\ NotificationsNext
  BY <1>1, <1>2, FanoutPreserves DEF FanoutsInv
<1>3. CASE part = "fanout" /\ UNCHANGED vars
  BY <1>3 DEF vars, handlerVars, notificationVars, FanoutsInv, FanoutInv, CallsIn, OverlapSeen,
              KeyInv, Saving, Publishing, At
<1>4. ASSUME part # "fanout" PROVE UNCHANGED <<queue, queuedEvents>>
  BY <1>4, OwnPart
<1> QED BY <1>1, <1>2, <1>3, <1>4 DEF FanoutsInv, Next

\* NotificationFanoutService, for any number of fanouts and restarts: an item
\* is queued and announced once per key unless two fanouts of its template and
\* entity overlapped, and never announced without having been queued.
THEOREM FanoutsNotifyOnce == Spec => []NotifiedOnce
<1>1. FanoutsInv => NotifiedOnce
  <2> SUFFICES ASSUME FanoutsInv, NEW k \in IdempotencyKeys
               PROVE  /\ queuedEvents[k] <= queue[k]
                      /\ queue[k] > 1 => <<"fanout", k[2], k[3]>> \in overlapped
    BY DEF NotifiedOnce
  <2> QED BY DEF FanoutsInv, FanoutInv, KeyInv, FanoutOf
<1> QED BY <1>1, InitFanouts, NextFanouts, PTL DEF Spec


-----------------------------------------------------------------------------
(* Payout batches.                                                           *)

\* How a bound on a count and a set moves with the set.
LEMMA CountKept ==
    ASSUME NEW A, NEW B, IsFiniteSet(A), B \subseteq A,
           NEW e \in Nat, NEW b \in Nat, e + Cardinality(A) <= b
    PROVE  e + Cardinality(B) <= b
<1>1. Cardinality(A) \in Nat /\ IsFiniteSet(B) /\ Cardinality(B) <= Cardinality(A)
  BY FS_CardinalityType, FS_Subset
<1>2. Cardinality(B) \in Nat
  BY <1>1, FS_CardinalityType
<1> QED BY <1>1, <1>2

LEMMA CountMore ==
    ASSUME NEW A, NEW B, NEW s, IsFiniteSet(A), B \subseteq A \cup {s},
           NEW e \in Nat, NEW b \in Nat, e + Cardinality(A) <= b
    PROVE  e + Cardinality(B) <= b + 1
<1>1. IsFiniteSet(A \cup {s}) /\ Cardinality(A \cup {s}) <= Cardinality(A) + 1
      /\ Cardinality(A) \in Nat /\ Cardinality(A \cup {s}) \in Nat
  BY FS_AddElement, FS_CardinalityType
<1>2. e + Cardinality(A \cup {s}) <= b + 1
  BY <1>1
<1> QED BY <1>1, <1>2, CountKept

LEMMA CountLess ==
    ASSUME NEW A, NEW s \in A, NEW B, IsFiniteSet(A), B \subseteq A \ {s},
           NEW e \in Nat, NEW b \in Nat, e + Cardinality(A) <= b
    PROVE  e + 1 + Cardinality(B) <= b
<1>1. IsFiniteSet(A \ {s}) /\ Cardinality(A \ {s}) = Cardinality(A) - 1
      /\ Cardinality(A) \in Nat /\ Cardinality(A \ {s}) \in Nat
  BY FS_RemoveElement, FS_CardinalityType
<1>2. (e + 1) + Cardinality(A \ {s}) <= b
  BY <1>1
<1>3. e + 1 \in Nat
  OBVIOUS
<1> QED BY <1>1, <1>2, <1>3, CountKept

\* The requests between saving a batch of a run and announcing it.
Announcing(r) == {s \in Slots : At(s, "publish batch") /\ call[s].subject = <<"payout", r>>}

\* Every batch was announced, is about to be, or lost its request in a restart;
\* a request alone on its run finds no batch and saves the first one.
BatchInv(r) ==
    /\ batchEvents[r] + Cardinality(Announcing(r)) <= Len(batches[r])
    /\ <<"payout", r>> \notin overlapped => Len(batches[r]) <= 1
    /\ \A s \in Slots :
          At(s, "save batch") /\ call[s].subject = <<"payout", r>>
              /\ <<"payout", r>> \notin overlapped => batches[r] = <<>>

PayoutInv ==
    /\ batches \in [Runs -> Seq(Batch)]
    /\ batchEvents \in [Runs -> Nat]
    /\ CallsIn(PayoutCall) /\ OverlapSeen
    /\ \A r \in Runs : BatchInv(r)

LEMMA BatchTypes ==
    ASSUME PayoutInv, NEW r \in Runs
    PROVE  batches[r] \in Seq(Batch) /\ Len(batches[r]) \in Nat /\ batchEvents[r] \in Nat
<1>1. batches[r] \in Seq(Batch)
  BY DEF PayoutInv
<1>2. batchEvents[r] \in Nat
  BY DEF PayoutInv
<1> QED BY <1>1, <1>2, LenProperties

\* A step that changes what one handler waits for, and no batch.
LEMMA BatchKept ==
    ASSUME PayoutInv, NEW r \in Runs, UNCHANGED <<batches, batchEvents>>,
           overlapped \subseteq overlapped',
           Announcing(r)' \subseteq Announcing(r),
           \A s \in Slots : (/\ At(s, "save batch")' /\ call'[s].subject = <<"payout", r>>
                             /\ <<"payout", r>> \notin overlapped')
                                => (\/ At(s, "save batch") /\ call[s].subject = <<"payout", r>>
                                    \/ batches[r] = <<>>)
    PROVE  BatchInv(r)'
<1>1. IsFiniteSet(Announcing(r))
  BY HandlersAssumption, FS_Subset DEF Announcing
<1>2. batchEvents[r] \in Nat /\ Len(batches[r]) \in Nat
  BY BatchTypes
<1>3. batchEvents[r] + Cardinality(Announcing(r)) <= Len(batches[r])
  BY DEF PayoutInv, BatchInv
<1>4. batchEvents[r] + Cardinality(Announcing(r)') <= Len(batches[r])
  BY <1>1, <1>2, <1>3, CountKept
<1>5. batches'[r] = batches[r] /\ batchEvents'[r] = batchEvents[r]
  OBVIOUS
<1>6. batchEvents'[r] + Cardinality(Announcing(r)') <= Len(batches'[r])
  BY <1>4, <1>5
<1> QED BY <1>6 DEF PayoutInv, BatchInv

LEMMA PayoutPreserves == ASSUME PayoutInv, PayoutsNext PROVE PayoutInv'
<1>1. ASSUME NEW s \in Slots, NEW r \in Runs, NEW cand \in SUBSET (Payees \X BOOLEAN),
             GenerateBatch(s, r, cand)
      PROVE  PayoutInv'
  <2> DEFINE h == [phase |-> "find batch", subject |-> <<"payout", r>>, candidates |-> cand]
  <2>1. h \in PayoutCall /\ h.phase = "find batch" /\ Begin(s, h)
    BY <1>1 DEF GenerateBatch, PayoutCall
  <2> HIDE DEF h
  <2>2. CallsIn(PayoutCall)' /\ OverlapSeen'
    BY <2>1, BeginKeepsSeen DEF PayoutInv
  <2>3. UNCHANGED <<batches, batchEvents>> /\ overlapped \subseteq overlapped'
    BY <1>1 DEF GenerateBatch, settlementVars, Begin, BeginBeside
  <2>4. call'[s] = h /\ \A t \in Slots \ {s} : call'[t] = call[t]
    BY <2>1 DEF Begin, BeginBeside, PayoutInv, CallsIn
  <2>5. ASSUME NEW q \in Runs PROVE BatchInv(q)'
    <3>1. Announcing(q)' \subseteq Announcing(q)
      BY <2>1, <2>4 DEF Announcing, At
    <3>2. \A t \in Slots : At(t, "save batch")' => At(t, "save batch") /\ call'[t] = call[t]
      BY <2>1, <2>4 DEF At
    <3> QED BY <2>3, <3>1, <3>2, BatchKept
  <2> QED BY <2>2, <2>3, <2>5 DEF PayoutInv
<1>2. ASSUME NEW s \in Slots, BatchFinds(s) \/ BatchSaves(s) \/ BatchPublishes(s)
      PROVE  PayoutInv'
  <2> PICK c \in PayoutCall : call[s] = c /\ c # Idle
    BY <1>2 DEF BatchFinds, BatchSaves, BatchPublishes, At, PayoutInv, CallsIn
  <2>0. c.subject \in {"payout"} \X Runs
    BY DEF PayoutCall
  <2> PICK r \in Runs : c.subject = <<"payout", r>>
    BY <2>0
  <2>1. RunOf(s) = r
    BY DEF RunOf
  <2>2. CASE BatchFinds(s) /\ batches[r] # <<>>
    <3>1. Continue(s, Idle) /\ UNCHANGED <<batches, batchEvents, overlapped>>
      BY <2>1, <2>2 DEF BatchFinds, settlementVars, Answer, Continue
    <3>2. CallsIn(PayoutCall)' /\ OverlapSeen'
      BY <3>1, ContinueKeepsSeen DEF PayoutInv
    <3>3. call'[s] = Idle /\ \A t \in Slots \ {s} : call'[t] = call[t]
      BY <3>1 DEF Continue, PayoutInv, CallsIn
    <3>4. ASSUME NEW q \in Runs PROVE BatchInv(q)'
      <4>1. Announcing(q)' \subseteq Announcing(q)
        BY <3>3 DEF Announcing, At
      <4>2. \A t \in Slots : At(t, "save batch")' => At(t, "save batch") /\ call'[t] = call[t]
        BY <3>3 DEF At
      <4> QED BY <3>1, <4>1, <4>2, BatchKept
    <3> QED BY <3>1, <3>2, <3>4 DEF PayoutInv
  <2>3. CASE BatchFinds(s) /\ batches[r] = <<>>
    <3> DEFINE h == [c EXCEPT !.phase = "save batch"]
    <3>1. Continue(s, h) /\ UNCHANGED <<batches, batchEvents, overlapped>>
      BY <2>1, <2>3 DEF BatchFinds, settlementVars, Await, Continue
    <3>2. h \in PayoutCall /\ h.subject = c.subject /\ h.phase = "save batch"
      BY DEF PayoutCall
    <3> HIDE DEF h
    <3>3. CallsIn(PayoutCall)' /\ OverlapSeen'
      BY <3>1, <3>2, ContinueKeepsSeen DEF PayoutInv
    <3>4. call'[s] = h /\ \A t \in Slots \ {s} : call'[t] = call[t]
      BY <3>1 DEF Continue, PayoutInv, CallsIn
    <3>5. ASSUME NEW q \in Runs PROVE BatchInv(q)'
      <4>1. Announcing(q)' \subseteq Announcing(q)
        BY <3>2, <3>4 DEF Announcing, At
      <4>2. \A t \in Slots : At(t, "save batch")' /\ call'[t].subject = <<"payout", q>> =>
                \/ At(t, "save batch") /\ call[t].subject = <<"payout", q>>
                \/ batches[q] = <<>>
        <5> SUFFICES ASSUME NEW t \in Slots, At(t, "save batch")',
                            call'[t].subject = <<"payout", q>>
                     PROVE  \/ At(t, "save batch") /\ call[t].subject = <<"payout", q>>
                            \/ batches[q] = <<>>
          OBVIOUS
        <5>1. CASE t = s
          <6>1. <<"payout", r>> = <<"payout", q>>
            BY <3>2, <3>4, <5>1
          <6>2. r = q
            BY <6>1
          <6> QED BY <2>3, <6>2
        <5>2. CASE t # s
          BY <3>4, <5>2 DEF At
        <5> QED BY <5>1, <5>2
      <4> QED BY <3>1, <4>1, <4>2, BatchKept
    <3> QED BY <3>1, <3>3, <3>5 DEF PayoutInv
  <2>4. CASE BatchSaves(s)
    <3> DEFINE h == [c EXCEPT !.phase = "publish batch"]
               b == [payouts |-> {p \in Payees : <<p, FALSE>> \in c.candidates},
                     holds |-> {p \in Payees : <<p, TRUE>> \in c.candidates}]
    <3>1. /\ Continue(s, h) /\ UNCHANGED <<batchEvents, overlapped>> /\ c.phase = "save batch"
          /\ batches' = [batches EXCEPT ![r] = Append(@, b)]
      BY <2>1, <2>4 DEF BatchSaves, Await, Continue, At
    <3>2. h \in PayoutCall /\ h.subject = c.subject /\ h.phase = "publish batch"
      BY DEF PayoutCall
    <3>3. b \in Batch
      BY DEF Batch
    <3> HIDE DEF h, b
    <3>4. CallsIn(PayoutCall)' /\ OverlapSeen'
      BY <3>1, <3>2, ContinueKeepsSeen DEF PayoutInv
    <3>5. call'[s] = h /\ \A t \in Slots \ {s} : call'[t] = call[t]
      BY <3>1 DEF Continue, PayoutInv, CallsIn
    <3>6. /\ batches[r] \in Seq(Batch) /\ batches'[r] = Append(batches[r], b)
          /\ \A q \in Runs \ {r} : batches'[q] = batches[q]
      BY <3>1 DEF PayoutInv
    <3>7. batches' \in [Runs -> Seq(Batch)] /\ Len(batches'[r]) = Len(batches[r]) + 1
      <4>1. batches'[r] \in Seq(Batch) /\ Len(batches'[r]) = Len(batches[r]) + 1
        BY <3>3, <3>6
      <4>2. \A q \in Runs : batches'[q] \in Seq(Batch)
        BY <3>6, <4>1, BatchTypes
      <4>3. batches' = [q \in Runs |-> batches'[q]]
        BY <3>1 DEF PayoutInv
      <4> QED BY <4>1, <4>2, <4>3
    <3>8. BatchInv(r)'
      <4>1. BatchInv(r) /\ batchEvents[r] \in Nat /\ Len(batches[r]) \in Nat
        BY BatchTypes DEF PayoutInv
      <4>2. Announcing(r)' \subseteq Announcing(r) \cup {s}
        BY <3>5 DEF Announcing, At
      <4>3. IsFiniteSet(Announcing(r))
        BY HandlersAssumption, FS_Subset DEF Announcing
      <4>4. batchEvents'[r] + Cardinality(Announcing(r)') <= Len(batches'[r])
        <5>1. batchEvents[r] + Cardinality(Announcing(r)) <= Len(batches[r])
          BY <4>1 DEF BatchInv
        <5>2. batchEvents[r] + Cardinality(Announcing(r)') <= Len(batches[r]) + 1
          BY <4>1, <4>2, <4>3, <5>1, CountMore
        <5>3. batchEvents' = batchEvents /\ Len(batches'[r]) = Len(batches[r]) + 1
          BY <3>1, <3>7
        <5> QED BY <5>2, <5>3
      <4>5. <<"payout", r>> \notin overlapped' => Len(batches'[r]) <= 1
        <5>1. <<"payout", r>> \notin overlapped => Len(batches[r]) = 0
          <6>1. At(s, "save batch") /\ call[s].subject = <<"payout", r>>
            BY <3>1 DEF At
          <6>2. <<"payout", r>> \notin overlapped => batches[r] = <<>>
            BY <4>1, <6>1 DEF BatchInv
          <6> QED BY <6>2, EmptySeq
        <5>2. Len(batches'[r]) = Len(batches[r]) + 1 /\ overlapped' = overlapped
          BY <3>1, <3>7
        <5> QED BY <5>1, <5>2
      <4>6. ASSUME NEW t \in Slots, At(t, "save batch")', call'[t].subject = <<"payout", r>>
            PROVE  <<"payout", r>> \in overlapped'
        <5>1. t # s /\ call[t] = call'[t] /\ call[t] # Idle
          BY <3>2, <3>5, <4>6 DEF At
        <5> QED BY <3>1, <4>6, <5>1 DEF PayoutInv, OverlapSeen
      <4> QED BY <4>4, <4>5, <4>6 DEF BatchInv
    <3>9. ASSUME NEW q \in Runs \ {r} PROVE BatchInv(q)'
      <4>0. <<"payout", r>> # <<"payout", q>>
        OBVIOUS
      <4>1. Announcing(q)' = Announcing(q)
        <5>1. s \notin Announcing(q) /\ s \notin Announcing(q)'
          BY <3>2, <3>5, <4>0 DEF Announcing
        <5>2. \A t \in Slots \ {s} : t \in Announcing(q)' <=> t \in Announcing(q)
          BY <3>5 DEF Announcing, At
        <5> QED BY <5>1, <5>2 DEF Announcing
      <4>2. \A t \in Slots : At(t, "save batch")' => At(t, "save batch") /\ call'[t] = call[t]
        BY <3>2, <3>5 DEF At
      <4> QED BY <3>1, <3>6, <4>1, <4>2 DEF PayoutInv, BatchInv
    <3> QED BY <3>1, <3>4, <3>7, <3>8, <3>9 DEF PayoutInv
  <2>5. CASE BatchPublishes(s)
    <3>1. /\ Continue(s, Idle) /\ UNCHANGED <<batches, overlapped>> /\ c.phase = "publish batch"
          /\ batchEvents' = [batchEvents EXCEPT ![r] = @ + 1]
      BY <2>1, <2>5 DEF BatchPublishes, Answer, Continue, At
    <3>2. CallsIn(PayoutCall)' /\ OverlapSeen'
      BY <3>1, ContinueKeepsSeen DEF PayoutInv
    <3>3. call'[s] = Idle /\ \A t \in Slots \ {s} : call'[t] = call[t]
      BY <3>1 DEF Continue, PayoutInv, CallsIn
    <3>4. /\ batchEvents' \in [Runs -> Nat] /\ batchEvents'[r] = batchEvents[r] + 1
          /\ \A q \in Runs \ {r} : batchEvents'[q] = batchEvents[q]
      <4>1. batchEvents \in [Runs -> Nat]
        BY DEF PayoutInv
      <4>2. batchEvents' = [batchEvents EXCEPT ![r] = @ + 1]
        BY <3>1
      <4> QED BY <4>1, <4>2
    <3>5. \A t \in Slots : At(t, "save batch")' => At(t, "save batch") /\ call'[t] = call[t]
      BY <3>3 DEF At
    <3>6. BatchInv(r)'
      <4>1. BatchInv(r) /\ batchEvents[r] \in Nat /\ Len(batches[r]) \in Nat
        BY BatchTypes DEF PayoutInv
      <4>2. /\ Announcing(r)' \subseteq Announcing(r)
            /\ s \in Announcing(r) /\ s \notin Announcing(r)'
        BY <3>1, <3>3 DEF Announcing, At
      <4>3. IsFiniteSet(Announcing(r))
        BY HandlersAssumption, FS_Subset DEF Announcing
      <4>4. batchEvents'[r] + Cardinality(Announcing(r)') <= Len(batches'[r])
        <5>1. batchEvents[r] + Cardinality(Announcing(r)) <= Len(batches[r])
          BY <4>1 DEF BatchInv
        <5>2. batchEvents[r] + 1 + Cardinality(Announcing(r)') <= Len(batches[r])
          BY <4>1, <4>2, <4>3, <5>1, CountLess
        <5>3. batches' = batches /\ batchEvents'[r] = batchEvents[r] + 1
          BY <3>1, <3>4
        <5> QED BY <5>2, <5>3
      <4> QED BY <3>1, <3>5, <4>1, <4>4 DEF BatchInv
    <3>7. ASSUME NEW q \in Runs \ {r} PROVE BatchInv(q)'
      <4>0. <<"payout", r>> # <<"payout", q>>
        OBVIOUS
      <4>1. Announcing(q)' = Announcing(q)
        <5>1. s \notin Announcing(q) /\ s \notin Announcing(q)'
          BY <3>3, <4>0 DEF Announcing, At
        <5>2. \A t \in Slots \ {s} : t \in Announcing(q)' <=> t \in Announcing(q)
          BY <3>3 DEF Announcing, At
        <5> QED BY <5>1, <5>2 DEF Announcing
      <4> QED BY <3>1, <3>4, <3>5, <4>1 DEF PayoutInv, BatchInv
    <3> QED BY <3>1, <3>2, <3>4, <3>6, <3>7 DEF PayoutInv
  <2> QED BY <1>2, <2>2, <2>3, <2>4, <2>5
<1>3. CASE Restart /\ UNCHANGED settlementVars
  <2>1. UNCHANGED <<batches, batchEvents, overlapped>>
    BY <1>3 DEF settlementVars, Restart
  <2>2. CallsIn(PayoutCall)' /\ OverlapSeen' /\ \A s \in Slots : call'[s] = Idle
    BY <1>3, RestartKeepsSeen
  <2>3. ASSUME NEW r \in Runs PROVE BatchInv(r)'
    BY <2>1, <2>2, BatchKept DEF Announcing, At
  <2> QED BY <2>1, <2>2, <2>3 DEF PayoutInv
<1> QED BY <1>1, <1>2, <1>3 DEF PayoutsNext


-----------------------------------------------------------------------------
(* Scheduled imports.                                                        *)

ImportOn(s, r, phase) == At(s, phase) /\ call[s].subject = <<"import", r>>

\* How often an import of the run may have been cut off.
Cut(r) == restarts + failedSaves[r]

\* The record of a run names a reconciliation that was stored, or no one yet.
ImportBounded(r) ==
    /\ importRuns[r] <= reconciliations[r]
    /\ \A s \in Slots : ImportOn(s, r, "save import") => call[s].number \in 1..reconciliations[r]

\* Imports that never met on a run: what each has found still holds when it
\* goes on, and a reconciliation that no record names was cut off by a restart or
\* a failed save, unless its import is still to save it.
ImportAlone(r) ==
    /\ importRuns[r] # 0 => importRuns[r] = reconciliations[r]
    /\ importRuns[r] = 0 => importEvents[r] = 0
    /\ importEvents[r] <= 1 /\ reconciliations[r] <= 1 + Cut(r)
    /\ importRuns[r] = 0 /\ (\A s \in Slots : ~ImportOn(s, r, "save import"))
           => reconciliations[r] <= Cut(r)
    /\ \A s \in Slots :
          /\ ImportOn(s, r, "append") => importRuns[r] = 0
          /\ ImportOn(s, r, "save import") =>
                importRuns[r] = 0 /\ call[s].number = reconciliations[r]
          /\ ImportOn(s, r, "publish import") => importRuns[r] # 0 /\ importEvents[r] = 0

ImportTypes ==
    /\ importRuns \in [Runs -> Nat] /\ importEvents \in [Runs -> Nat]
    /\ reconciliations \in [Runs -> Nat] /\ restarts \in Nat
    /\ failedSaves \in [Runs -> Nat]

ImportInv ==
    /\ ImportTypes /\ CallsIn(ImportCall) /\ OverlapSeen
    /\ \A r \in Runs :
          /\ ImportBounded(r)
          /\ <<"import", r>> \notin overlapped => ImportAlone(r)

LEMMA RangeGrows ==
    ASSUME NEW a \in Nat, NEW b \in Nat, a <= b, NEW n \in 1..a
    PROVE  n \in 1..b
OBVIOUS

\* A run that a step leaves alone.
LEMMA ImportKept ==
    ASSUME ImportInv, NEW r \in Runs, Cut(r)' = Cut(r), overlapped \subseteq overlapped',
           importRuns'[r] = importRuns[r], importEvents'[r] = importEvents[r],
           reconciliations'[r] = reconciliations[r],
           \A t \in Slots, p \in {"append", "save import", "publish import"} :
               ImportOn(t, r, p)' => ImportOn(t, r, p) /\ call'[t] = call[t],
           \A t \in Slots : ImportOn(t, r, "save import") => ImportOn(t, r, "save import")'
    PROVE  ImportBounded(r)' /\ (<<"import", r>> \notin overlapped' => ImportAlone(r)')
<1>1. ImportBounded(r)'
  BY DEF ImportInv, ImportBounded
<1>2. ASSUME <<"import", r>> \notin overlapped' PROVE ImportAlone(r)'
  <2>1. ImportAlone(r)
    BY <1>2 DEF ImportInv
  <2> QED BY <2>1 DEF ImportAlone
<1> QED BY <1>1, <1>2

\* An import goes on: what it has to know when it is alone on its run.
LEMMA ImportStep ==
    ASSUME ImportInv, NEW s \in Slots, NEW c \in ImportCall, call[s] = c, c # Idle,
           NEW h \in ImportCall \cup {Idle}, Continue(s, h), h # Idle => h.subject = c.subject,
           NEW r \in Runs, c.subject = <<"import", r>>, ImportTypes',
           \A q \in Runs \ {r} : /\ importRuns'[q] = importRuns[q]
                                 /\ importEvents'[q] = importEvents[q]
                                 /\ reconciliations'[q] = reconciliations[q]
                                 /\ failedSaves'[q] = failedSaves[q],
           importRuns'[r] <= reconciliations'[r], reconciliations[r] <= reconciliations'[r],
           h # Idle /\ h.phase = "save import" => h.number \in 1..reconciliations'[r],
           <<"import", r>> \notin overlapped =>
               /\ importRuns'[r] # 0 => importRuns'[r] = reconciliations'[r]
               /\ importRuns'[r] = 0 => importEvents'[r] = 0
               /\ importEvents'[r] <= 1 /\ reconciliations'[r] <= 1 + Cut(r)'
               /\ importRuns'[r] = 0 /\ ~(h # Idle /\ h.phase = "save import")
                      => reconciliations'[r] <= Cut(r)'
               /\ h # Idle =>
                     /\ h.phase = "append" => importRuns'[r] = 0
                     /\ h.phase = "save import" =>
                            importRuns'[r] = 0 /\ h.number = reconciliations'[r]
                     /\ h.phase = "publish import" => importRuns'[r] # 0 /\ importEvents'[r] = 0
    PROVE  ImportInv'
<1>1. CallsIn(ImportCall)' /\ OverlapSeen'
  BY ContinueKeepsSeen DEF ImportInv
<1>2. /\ call'[s] = h /\ overlapped' = overlapped /\ restarts' = restarts
      /\ \A t \in Slots \ {s} : call'[t] = call[t]
  BY DEF Continue, ImportInv, CallsIn
<1>3. ASSUME NEW q \in Runs \ {r}
      PROVE  ImportBounded(q)' /\ (<<"import", q>> \notin overlapped' => ImportAlone(q)')
  <2>1. <<"import", q>> # <<"import", r>>
    OBVIOUS
  <2>2. \A p : ~ImportOn(s, q, p) /\ ~ImportOn(s, q, p)'
    BY <1>2, <2>1 DEF ImportOn, At
  <2>3. \A t \in Slots \ {s}, p \in {"append", "save import", "publish import"} :
            ImportOn(t, q, p)' <=> ImportOn(t, q, p)
    BY <1>2 DEF ImportOn, At
  <2>4. Cut(q)' = Cut(q)
    BY <1>2 DEF Cut
  <2> QED BY <1>2, <2>2, <2>3, <2>4, ImportKept
<1>4. ImportBounded(r)'
  <2>1. ASSUME NEW t \in Slots, ImportOn(t, r, "save import")'
        PROVE  call'[t].number \in 1..reconciliations'[r]
    <3>1. CASE t = s
      BY <1>2, <2>1, <3>1 DEF ImportOn, At
    <3>2. CASE t # s
      <4>1. call'[t] = call[t] /\ ImportOn(t, r, "save import")
        BY <1>2, <2>1, <3>2 DEF ImportOn, At
      <4>2. call[t].number \in 1..reconciliations[r]
        BY <4>1 DEF ImportInv, ImportBounded
      <4>3. reconciliations[r] \in Nat /\ reconciliations'[r] \in Nat
        BY DEF ImportInv, ImportTypes
      <4>4. call[t].number \in 1..reconciliations'[r]
        BY <4>2, <4>3, RangeGrows
      <4> QED BY <4>1, <4>4
    <3> QED BY <3>1, <3>2
  <2> QED BY <2>1 DEF ImportBounded
<1>5. ASSUME <<"import", r>> \notin overlapped' PROVE ImportAlone(r)'
  <2>1. ASSUME NEW t \in Slots \ {s}, NEW p PROVE ~ImportOn(t, r, p)'
    BY <1>2, <1>5, <2>1 DEF ImportOn, At, ImportInv, OverlapSeen
  <2>2. ASSUME NEW p PROVE ImportOn(s, r, p)' <=> h # Idle /\ h.phase = p
    BY <1>2 DEF ImportOn, At
  <2> HIDE DEF ImportOn
  <2>3. (\A t \in Slots : ~ImportOn(t, r, "save import")') => ~(h # Idle /\ h.phase = "save import")
    BY <2>2
  <2>4. ASSUME NEW t \in Slots
        PROVE  /\ ImportOn(t, r, "append")' => importRuns'[r] = 0
               /\ ImportOn(t, r, "save import")' =>
                     importRuns'[r] = 0 /\ call'[t].number = reconciliations'[r]
               /\ ImportOn(t, r, "publish import")' => importRuns'[r] # 0 /\ importEvents'[r] = 0
    BY <1>2, <1>5, <2>1, <2>2
  <2> QED BY <1>2, <1>5, <2>3, <2>4 DEF ImportAlone
<1> QED BY <1>1, <1>3, <1>4, <1>5 DEF ImportInv


LEMMA ImportPreserves == ASSUME ImportInv, ImportsNext PROVE ImportInv'
<1> USE DEF ImportTypes
<1>1. ASSUME NEW s \in Slots, NEW r \in Runs, RunScheduledImport(s, r) PROVE ImportInv'
  <2> DEFINE h == [phase |-> "find import", subject |-> <<"import", r>>, number |-> 0]
  <2>1. h \in ImportCall /\ h.phase = "find import" /\ Begin(s, h)
    BY <1>1 DEF RunScheduledImport, ImportCall
  <2> HIDE DEF h
  <2>2. CallsIn(ImportCall)' /\ OverlapSeen'
    BY <2>1, BeginKeepsSeen DEF ImportInv
  <2>3. /\ importRuns' = importRuns /\ importEvents' = importEvents
        /\ reconciliations' = reconciliations
        /\ restarts' = restarts /\ overlapped \subseteq overlapped'
        /\ failedSaves' = failedSaves
    BY <1>1 DEF RunScheduledImport, settlementVars, Begin, BeginBeside
  <2>4. /\ call'[s] = h /\ call[s] = Idle
        /\ \A t \in Slots \ {s} : call'[t] = call[t]
    BY <2>1 DEF Begin, BeginBeside, ImportInv, CallsIn
  <2>5. ASSUME NEW q \in Runs
        PROVE  ImportBounded(q)' /\ (<<"import", q>> \notin overlapped' => ImportAlone(q)')
    <3>1. ASSUME NEW t \in Slots, NEW p \in {"append", "save import", "publish import"},
                 ImportOn(t, q, p)'
          PROVE  ImportOn(t, q, p) /\ call'[t] = call[t]
      BY <2>1, <2>4, <3>1 DEF ImportOn, At
    <3>2. ASSUME NEW t \in Slots, ImportOn(t, q, "save import")
          PROVE  ImportOn(t, q, "save import")'
      BY <2>4, <3>2 DEF ImportOn, At
    <3>3. Cut(q)' = Cut(q)
      BY <2>3 DEF Cut
    <3> QED BY <2>3, <3>1, <3>2, <3>3, ImportKept
  <2> QED BY <2>2, <2>3, <2>5 DEF ImportInv
<1>2. ASSUME NEW s \in Slots,
             ImportFinds(s) \/ ImportAppends(s) \/ ImportSaves(s) \/ ImportPublishes(s)
      PROVE  ImportInv'
  <2> PICK c \in ImportCall : call[s] = c /\ c # Idle
    BY <1>2 DEF ImportFinds, ImportAppends, ImportSaves, ImportPublishes, At, ImportInv, CallsIn
  <2>0. c.subject \in {"import"} \X Runs /\ c.number \in Nat
    BY DEF ImportCall
  <2> PICK r \in Runs : c.subject = <<"import", r>>
    BY <2>0
  <2>1. RunOf(s) = r
    BY DEF RunOf
  <2>2. /\ importRuns \in [Runs -> Nat] /\ importEvents \in [Runs -> Nat]
        /\ reconciliations \in [Runs -> Nat] /\ restarts \in Nat
        /\ failedSaves \in [Runs -> Nat]
    BY DEF ImportInv
  <2>3. /\ importRuns[r] \in Nat /\ importEvents[r] \in Nat /\ reconciliations[r] \in Nat
        /\ Cut(r) \in Nat
    BY <2>2 DEF Cut
  <2>4. importRuns[r] <= reconciliations[r]
    BY DEF ImportInv, ImportBounded
  <2>5. ASSUME <<"import", r>> \notin overlapped
        PROVE  /\ ImportAlone(r)
               /\ \A t \in Slots \ {s} : \A p : ~ImportOn(t, r, p)
    BY <2>5 DEF ImportInv, ImportOn, At, OverlapSeen
  <2>6. \A p : c.phase = p => ImportOn(s, r, p)
    BY DEF ImportOn, At
  <2>7. \A p : ImportOn(s, r, p) => c.phase = p
    BY DEF ImportOn, At
  <2>8. CASE ImportFinds(s) /\ importRuns[r] # 0
    <3>1. /\ Continue(s, Idle) /\ importRuns' = importRuns /\ importEvents' = importEvents
          /\ reconciliations' = reconciliations /\ failedSaves' = failedSaves
      BY <2>1, <2>8 DEF ImportFinds, settlementVars, Answer
    <3>2. restarts' = restarts /\ Cut(r)' = Cut(r)
      BY <3>1 DEF Continue, Cut
    <3>3. ImportTypes'
      BY <2>2, <3>1, <3>2
    <3>4. <<"import", r>> \notin overlapped =>
              /\ importRuns[r] = reconciliations[r]
              /\ importEvents[r] <= 1 /\ reconciliations[r] <= 1 + Cut(r)
      BY <2>5, <2>8 DEF ImportAlone
    <3>5. reconciliations[r] <= reconciliations[r]
      BY <2>3
    <3>6. /\ importRuns'[r] = importRuns[r] /\ importEvents'[r] = importEvents[r]
          /\ reconciliations'[r] = reconciliations[r]
      BY <3>1
    <3>7. \A q \in Runs \ {r} : /\ importRuns'[q] = importRuns[q]
                                /\ importEvents'[q] = importEvents[q]
                                /\ reconciliations'[q] = reconciliations[q]
                                /\ failedSaves'[q] = failedSaves[q]
      BY <3>1
    <3>8. /\ importRuns'[r] <= reconciliations'[r] /\ reconciliations[r] <= reconciliations'[r]
          /\ importRuns'[r] # 0
      BY <2>4, <2>8, <3>5, <3>6
    <3>9. <<"import", r>> \notin overlapped =>
              /\ importRuns'[r] = reconciliations'[r]
              /\ importEvents'[r] <= 1 /\ reconciliations'[r] <= 1 + Cut(r)'
      BY <3>2, <3>4, <3>6
    <3> QED BY <3>1, <3>3, <3>7, <3>8, <3>9, ImportStep
  <2>9. CASE ImportFinds(s) /\ importRuns[r] = 0
    <3> DEFINE h == [c EXCEPT !.phase = "append"]
    <3>1. /\ Continue(s, h) /\ importRuns' = importRuns /\ importEvents' = importEvents
          /\ reconciliations' = reconciliations /\ failedSaves' = failedSaves
      BY <2>1, <2>9 DEF ImportFinds, settlementVars, Await
    <3>2. h \in ImportCall /\ h.subject = c.subject /\ h.phase = "append"
      BY DEF ImportCall
    <3> HIDE DEF h
    <3>3. restarts' = restarts /\ Cut(r)' = Cut(r) /\ c.phase = "find import"
      BY <2>9, <3>1 DEF Continue, ImportFinds, At, Cut
    <3>4. ImportTypes'
      BY <2>2, <3>1, <3>3
    <3>5. <<"import", r>> \notin overlapped =>
              /\ importEvents[r] = 0 /\ reconciliations[r] <= Cut(r)
      <4> SUFFICES ASSUME <<"import", r>> \notin overlapped
                   PROVE  importEvents[r] = 0 /\ reconciliations[r] <= Cut(r)
        OBVIOUS
      <4>1. \A t \in Slots : ~ImportOn(t, r, "save import")
        BY <2>5, <2>7, <3>3
      <4> QED BY <2>5, <2>9, <4>1 DEF ImportAlone
    <3>6. importEvents[r] = 0 => importEvents[r] <= 1
      OBVIOUS
    <3>7. reconciliations[r] <= Cut(r) => reconciliations[r] <= 1 + Cut(r)
      BY <2>2, <2>3
    <3>8. reconciliations[r] <= reconciliations[r]
      BY <2>3
    <3>9. /\ importRuns'[r] = importRuns[r] /\ importEvents'[r] = importEvents[r]
          /\ reconciliations'[r] = reconciliations[r]
      BY <3>1
    <3>10. \A q \in Runs \ {r} : /\ importRuns'[q] = importRuns[q]
                                 /\ importEvents'[q] = importEvents[q]
                                 /\ reconciliations'[q] = reconciliations[q]
                                 /\ failedSaves'[q] = failedSaves[q]
      BY <3>1
    <3>11. /\ importRuns'[r] <= reconciliations'[r] /\ reconciliations[r] <= reconciliations'[r]
           /\ importRuns'[r] = 0
      BY <2>4, <2>9, <3>8, <3>9
    <3>12. <<"import", r>> \notin overlapped =>
              /\ importEvents'[r] = 0 /\ importEvents'[r] <= 1
              /\ reconciliations'[r] <= Cut(r)' /\ reconciliations'[r] <= 1 + Cut(r)'
      BY <3>3, <3>5, <3>6, <3>7, <3>9
    <3> QED BY <3>1, <3>2, <3>4, <3>10, <3>11, <3>12, ImportStep
  <2>10. CASE ImportAppends(s)
    <3> DEFINE n == reconciliations[r] + 1
               h == [c EXCEPT !.phase = "save import", !.number = n]
    <3>1. /\ Continue(s, h) /\ c.phase = "append"
          /\ importRuns' = importRuns /\ importEvents' = importEvents /\ failedSaves' = failedSaves
          /\ reconciliations' = [reconciliations EXCEPT ![r] = n]
      BY <2>1, <2>10 DEF ImportAppends, At
    <3>2. n \in Nat
      BY <2>3
    <3>3. h \in ImportCall /\ h.subject = c.subject /\ h.phase = "save import" /\ h.number = n
      BY <3>2 DEF ImportCall
    <3> HIDE DEF h
    <3>4. restarts' = restarts /\ Cut(r)' = Cut(r)
      BY <3>1 DEF Continue, Cut
    <3>5. /\ reconciliations' \in [Runs -> Nat] /\ reconciliations'[r] = n
          /\ \A q \in Runs \ {r} : reconciliations'[q] = reconciliations[q]
      BY <2>2, <3>1, <3>2
    <3>6. ImportTypes'
      BY <2>2, <3>1, <3>4, <3>5
    <3>7. <<"import", r>> \notin overlapped =>
              /\ importRuns[r] = 0 /\ importEvents[r] = 0 /\ reconciliations[r] <= Cut(r)
      <4> SUFFICES ASSUME <<"import", r>> \notin overlapped
                   PROVE  /\ importRuns[r] = 0 /\ importEvents[r] = 0
                          /\ reconciliations[r] <= Cut(r)
        OBVIOUS
      <4>1. \A t \in Slots : ~ImportOn(t, r, "save import")
        BY <2>5, <2>7, <3>1
      <4>2. importRuns[r] = 0
        BY <2>5, <2>6, <3>1 DEF ImportAlone
      <4> QED BY <2>5, <4>1, <4>2 DEF ImportAlone
    <3>8. /\ importRuns[r] <= n /\ reconciliations[r] <= n /\ n \in 1..n
          /\ reconciliations[r] <= Cut(r) => n <= 1 + Cut(r)
          /\ importEvents[r] = 0 => importEvents[r] <= 1
      BY <2>2, <2>3, <2>4
    <3>9. h # Idle
      BY <3>3, SettlementAssumption DEF SettlementCall
    <3>10. /\ importRuns'[r] <= reconciliations'[r] /\ reconciliations[r] <= reconciliations'[r]
           /\ importRuns'[r] = importRuns[r] /\ importEvents'[r] = importEvents[r]
           /\ h.phase = "save import" /\ h.number = n /\ h.number \in 1..reconciliations'[r]
           /\ h.subject = c.subject
      BY <3>1, <3>3, <3>5, <3>8
    <3> HIDE DEF n
    <3>11. \A q \in Runs \ {r} : /\ importRuns'[q] = importRuns[q]
                                 /\ importEvents'[q] = importEvents[q]
                                 /\ reconciliations'[q] = reconciliations[q]
                                 /\ failedSaves'[q] = failedSaves[q]
      BY <3>1, <3>5
    <3>12. <<"import", r>> \notin overlapped =>
              /\ importRuns'[r] = 0 /\ importEvents'[r] = 0 /\ importEvents'[r] <= 1
              /\ reconciliations'[r] <= 1 + Cut(r)' /\ h.number = reconciliations'[r]
      BY <3>4, <3>5, <3>7, <3>8, <3>10
    <3>13. h \in ImportCall \cup {Idle} /\ Continue(s, h)
      BY <3>1, <3>3
    <3>14. h.phase # "append" /\ h.phase # "publish import"
      BY <3>3
    <3> HIDE DEF ImportTypes
    <3> QED BY <3>6, <3>9, <3>10, <3>11, <3>12, <3>13, <3>14, ImportStep
  <2>11. CASE ImportSaves(s) /\ UNCHANGED failedSaves
    <3> DEFINE h == [c EXCEPT !.phase = "publish import"]
    <3>1. /\ Continue(s, h) /\ c.phase = "save import"
          /\ importEvents' = importEvents /\ reconciliations' = reconciliations
          /\ importRuns' = [importRuns EXCEPT ![r] = c.number] /\ failedSaves' = failedSaves
      <4>1. failedSaves[r] + 1 # failedSaves[r]
        BY <2>2
      <4> QED BY <2>1, <2>2, <2>11, <4>1 DEF ImportSaves, Await, At
    <3>2. h \in ImportCall /\ h.subject = c.subject /\ h.phase = "publish import"
      BY DEF ImportCall
    <3> HIDE DEF h
    <3>3. restarts' = restarts /\ Cut(r)' = Cut(r)
      BY <3>1 DEF Continue, Cut
    <3>4. /\ importRuns' \in [Runs -> Nat] /\ importRuns'[r] = c.number
          /\ \A q \in Runs \ {r} : importRuns'[q] = importRuns[q]
      BY <2>0, <2>2, <3>1
    <3>5. ImportTypes'
      BY <2>2, <3>1, <3>3, <3>4
    <3>6. c.number \in 1..reconciliations[r]
      BY <2>6, <3>1 DEF ImportInv, ImportBounded
    <3>7. c.number <= reconciliations[r] /\ c.number # 0
      BY <2>3, <3>6
    <3>8. <<"import", r>> \notin overlapped =>
              /\ c.number = reconciliations[r] /\ importEvents[r] = 0
              /\ reconciliations[r] <= 1 + Cut(r)
      BY <2>5, <2>6, <3>1 DEF ImportAlone
    <3>9. importEvents[r] = 0 => importEvents[r] <= 1
      OBVIOUS
    <3>10. reconciliations[r] <= reconciliations'[r]
      <4>1. reconciliations[r] <= reconciliations[r]
        BY <2>3
      <4>2. reconciliations'[r] = reconciliations[r]
        BY <3>1
      <4> QED BY <4>1, <4>2
    <3>11. \A q \in Runs \ {r} : /\ importRuns'[q] = importRuns[q]
                                 /\ importEvents'[q] = importEvents[q]
                                 /\ reconciliations'[q] = reconciliations[q]
                                 /\ failedSaves'[q] = failedSaves[q]
      BY <3>1, <3>4
    <3>12. /\ importEvents'[r] = importEvents[r] /\ reconciliations'[r] = reconciliations[r]
           /\ importRuns'[r] # 0 /\ importRuns'[r] <= reconciliations'[r]
      BY <3>1, <3>4, <3>7
    <3>13. <<"import", r>> \notin overlapped =>
              /\ importRuns'[r] = reconciliations'[r] /\ importEvents'[r] = 0
              /\ importEvents'[r] <= 1 /\ reconciliations'[r] <= 1 + Cut(r)'
      BY <3>3, <3>4, <3>8, <3>9, <3>12
    <3>14. Continue(s, h)
      BY <3>1
    <3> HIDE DEF ImportTypes
    <3> QED BY <3>2, <3>5, <3>10, <3>11, <3>12, <3>13, <3>14, ImportStep
  <2>12. CASE ImportPublishes(s)
    <3>1. /\ Continue(s, Idle) /\ c.phase = "publish import"
          /\ importRuns' = importRuns /\ reconciliations' = reconciliations
          /\ failedSaves' = failedSaves
          /\ importEvents' = [importEvents EXCEPT ![r] = @ + 1]
      BY <2>1, <2>12 DEF ImportPublishes, Answer, At
    <3>2. restarts' = restarts /\ Cut(r)' = Cut(r)
      BY <3>1 DEF Continue, Cut
    <3>3. /\ importEvents' \in [Runs -> Nat] /\ importEvents'[r] = importEvents[r] + 1
          /\ \A q \in Runs \ {r} : importEvents'[q] = importEvents[q]
      <4>1. importEvents' = [importEvents EXCEPT ![r] = importEvents[r] + 1]
        BY <3>1
      <4>2. importEvents[r] + 1 \in Nat
        BY <2>3
      <4> QED BY <2>2, <4>1, <4>2
    <3>4. ImportTypes'
      BY <2>2, <3>1, <3>2, <3>3
    <3>5. <<"import", r>> \notin overlapped =>
              /\ importRuns[r] # 0 /\ importEvents[r] = 0 /\ importRuns[r] = reconciliations[r]
              /\ reconciliations[r] <= 1 + Cut(r)
      BY <2>5, <2>6, <3>1 DEF ImportAlone
    <3>6. importEvents[r] = 0 => importEvents'[r] <= 1
      BY <3>3
    <3>7. reconciliations[r] <= reconciliations'[r]
      <4>1. reconciliations[r] <= reconciliations[r]
        BY <2>3
      <4>2. reconciliations'[r] = reconciliations[r]
        BY <3>1
      <4> QED BY <4>1, <4>2
    <3>8. \A q \in Runs \ {r} : /\ importRuns'[q] = importRuns[q]
                                /\ importEvents'[q] = importEvents[q]
                                /\ reconciliations'[q] = reconciliations[q]
                                /\ failedSaves'[q] = failedSaves[q]
      BY <3>1, <3>3
    <3>9. importRuns'[r] = importRuns[r] /\ reconciliations'[r] = reconciliations[r]
          /\ importRuns'[r] <= reconciliations'[r]
      BY <2>4, <3>1
    <3>10. <<"import", r>> \notin overlapped =>
              /\ importRuns'[r] # 0 /\ importRuns'[r] = reconciliations'[r]
              /\ importEvents'[r] <= 1 /\ reconciliations'[r] <= 1 + Cut(r)'
      BY <3>2, <3>5, <3>6, <3>9
    <3>11. Continue(s, Idle)
      BY <3>1
    <3> HIDE DEF ImportTypes
    <3> QED BY <3>4, <3>7, <3>8, <3>9, <3>10, <3>11, ImportStep
  <2>13. CASE ImportSaves(s) /\ failedSaves' # failedSaves
    <3> DEFINE n == failedSaves[r] + 1
    <3>1. /\ Continue(s, Idle) /\ c.phase = "save import"
          /\ importRuns' = importRuns /\ reconciliations' = reconciliations
          /\ importEvents' = importEvents
          /\ failedSaves' = [failedSaves EXCEPT ![r] = n]
      BY <2>1, <2>13 DEF ImportSaves, Answer, At
    <3>2. n \in Nat
      BY <2>2
    <3> HIDE DEF n
    <3>3. /\ failedSaves' \in [Runs -> Nat] /\ failedSaves'[r] = n
          /\ \A q \in Runs \ {r} : failedSaves'[q] = failedSaves[q]
      BY <2>2, <3>1, <3>2
    <3>4. restarts' = restarts
      BY <3>1 DEF Continue
    <3>5. ImportTypes'
      BY <2>2, <3>1, <3>3, <3>4
    <3>6. Cut(r)' = Cut(r) + 1
      BY <2>2, <3>3, <3>4 DEF Cut, n
    <3>7. <<"import", r>> \notin overlapped =>
              /\ importRuns[r] = 0 /\ importEvents[r] = 0 /\ reconciliations[r] <= 1 + Cut(r)
      BY <2>5, <2>6, <3>1 DEF ImportAlone
    <3>8. reconciliations[r] <= 1 + Cut(r) => reconciliations[r] <= Cut(r)' /\ reconciliations[r] <= 1 + Cut(r)'
      BY <2>3, <3>6
    <3>9. reconciliations[r] <= reconciliations[r] /\ (importEvents[r] = 0 => importEvents[r] <= 1)
      BY <2>3
    <3>10. \A q \in Runs \ {r} : /\ importRuns'[q] = importRuns[q]
                                 /\ importEvents'[q] = importEvents[q]
                                 /\ reconciliations'[q] = reconciliations[q]
                                 /\ failedSaves'[q] = failedSaves[q]
      BY <3>1, <3>3
    <3>11. /\ importRuns'[r] = importRuns[r] /\ importEvents'[r] = importEvents[r]
           /\ reconciliations'[r] = reconciliations[r] /\ importRuns'[r] <= reconciliations'[r]
           /\ reconciliations[r] <= reconciliations'[r]
      BY <2>4, <3>1, <3>9
    <3>12. <<"import", r>> \notin overlapped =>
              /\ importRuns'[r] = 0 /\ importEvents'[r] = 0 /\ importEvents'[r] <= 1
              /\ reconciliations'[r] <= Cut(r)' /\ reconciliations'[r] <= 1 + Cut(r)'
      BY <3>7, <3>8, <3>9, <3>11
    <3>13. Continue(s, Idle)
      BY <3>1
    <3> HIDE DEF ImportTypes
    <3> QED BY <3>5, <3>10, <3>11, <3>12, <3>13, ImportStep
  <2> QED BY <1>2, <2>8, <2>9, <2>10, <2>11, <2>12, <2>13
<1>3. CASE Restart /\ UNCHANGED settlementVars
  <2>1. /\ importRuns' = importRuns /\ importEvents' = importEvents
        /\ reconciliations' = reconciliations
        /\ restarts' = restarts + 1 /\ overlapped' = overlapped /\ failedSaves' = failedSaves
    BY <1>3 DEF settlementVars, Restart
  <2>2. CallsIn(ImportCall)' /\ OverlapSeen' /\ \A s \in Slots : call'[s] = Idle
    BY <1>3, RestartKeepsSeen
  <2>3. ASSUME NEW s \in Slots, NEW r, NEW p PROVE ~ImportOn(s, r, p)'
    BY <2>2 DEF ImportOn, At
  <2>4. ASSUME NEW r \in Runs
        PROVE  ImportBounded(r)' /\ (<<"import", r>> \notin overlapped' => ImportAlone(r)')
    <3>1. ImportBounded(r)'
      BY <2>1, <2>3 DEF ImportInv, ImportBounded
    <3>2. ASSUME <<"import", r>> \notin overlapped' PROVE ImportAlone(r)'
      <4>1. ImportAlone(r)
        BY <2>1, <3>2 DEF ImportInv
      <4>2. reconciliations[r] <= 1 + Cut(r) /\ reconciliations[r] \in Nat
        BY <4>1 DEF ImportAlone, ImportInv
      <4>4. restarts \in Nat /\ failedSaves[r] \in Nat
        BY DEF ImportInv
      <4>5. Cut(r) \in Nat /\ Cut(r)' = Cut(r) + 1
        BY <2>1, <4>4 DEF Cut
      <4>3. reconciliations'[r] <= Cut(r)' /\ reconciliations'[r] <= 1 + Cut(r)'
        BY <2>1, <4>2, <4>5
      <4> QED BY <2>1, <2>3, <4>1, <4>3 DEF ImportAlone
    <3> QED BY <3>1, <3>2
  <2>5. ImportTypes'
    BY <2>1 DEF ImportInv
  <2> QED BY <2>2, <2>4, <2>5 DEF ImportInv
<1> QED BY <1>1, <1>2, <1>3 DEF ImportsNext


PayoutsInv == IF part = "payouts" THEN PayoutInv
              ELSE \A r \in Runs : batches[r] = <<>> /\ batchEvents[r] = 0

LEMMA InitPayouts == Init => PayoutsInv
<1> SUFFICES ASSUME Init PROVE PayoutsInv
  OBVIOUS
<1>1. /\ batches = [r \in Runs |-> <<>>] /\ batchEvents = [r \in Runs |-> 0]
      /\ call = [s \in Slots |-> Idle]
  BY DEF Init, HandlersInit, SettlementInit
<1>2. CallsIn(PayoutCall) /\ OverlapSeen
  BY <1>1 DEF CallsIn, OverlapSeen
<1>3. ASSUME NEW r \in Runs PROVE BatchInv(r)
  <2>1. Announcing(r) = {}
    BY <1>1 DEF Announcing, At
  <2>2. Cardinality(Announcing(r)) = 0
    BY <2>1, FS_EmptySet
  <2>3. batches[r] = <<>> /\ Len(batches[r]) = 0 /\ batchEvents[r] = 0
    BY <1>1
  <2> QED BY <2>2, <2>3 DEF BatchInv
<1> QED BY <1>1, <1>2, <1>3 DEF PayoutsInv, PayoutInv

LEMMA NextPayouts == PayoutsInv /\ [Next]_vars => PayoutsInv'
<1> SUFFICES ASSUME PayoutsInv, [Next]_vars PROVE PayoutsInv'
  OBVIOUS
<1>1. part' = part
  BY PartKept
<1>2. CASE part = "payouts" /\ PayoutsNext
  BY <1>1, <1>2, PayoutPreserves DEF PayoutsInv
<1>3. CASE part = "payouts" /\ UNCHANGED vars
  BY <1>3 DEF vars, handlerVars, settlementVars, PayoutsInv, PayoutInv, CallsIn, OverlapSeen,
              BatchInv, Announcing, At
<1>4. ASSUME part # "payouts" PROVE UNCHANGED <<batches, batchEvents>>
  BY <1>4, OwnPart
<1> QED BY <1>1, <1>2, <1>3, <1>4 DEF PayoutsInv, Next

ImportsInv ==
    IF part = "imports" THEN ImportInv
    ELSE \A r \in Runs : /\ importRuns[r] = 0 /\ importEvents[r] = 0
                         /\ reconciliations[r] = 0 /\ failedSaves[r] = 0

LEMMA InitImports == Init => ImportsInv
BY DEF Init, HandlersInit, SettlementInit, ImportsInv, ImportInv, ImportTypes, CallsIn,
       OverlapSeen, ImportBounded, ImportAlone, ImportOn, At, Cut

LEMMA NextImports == ImportsInv /\ [Next]_vars => ImportsInv'
<1> SUFFICES ASSUME ImportsInv, [Next]_vars PROVE ImportsInv'
  OBVIOUS
<1>1. part' = part
  BY PartKept
<1>2. CASE part = "imports" /\ ImportsNext
  BY <1>1, <1>2, ImportPreserves DEF ImportsInv
<1>3. CASE part = "imports" /\ UNCHANGED vars
  BY <1>3 DEF vars, handlerVars, settlementVars, ImportsInv, ImportInv, ImportTypes, CallsIn,
              OverlapSeen, ImportBounded, ImportAlone, ImportOn, At, Cut
<1>4. ASSUME part # "imports" PROVE UNCHANGED <<importRuns, importEvents, reconciliations, failedSaves>>
  BY <1>4, OwnPart
<1> QED BY <1>1, <1>2, <1>3, <1>4 DEF ImportsInv, Next

\* PayoutService and SettlementReconciliationImportService: for any number of
\* requests, runs, failed saves and restarts, a run pays once and is imported once
\* unless two requests for it overlapped.
THEOREM RunsSettledOnce == Spec => []SettledOncePerRun
<1> DEFINE Inv == PayoutsInv /\ ImportsInv /\ restarts \in Nat
<1>1. Init => Inv
  BY InitPayouts, InitImports DEF Init, HandlersInit
<1>2. Inv /\ [Next]_vars => Inv'
  BY NextPayouts, NextImports, RestartsKept
<1>3. Inv => SettledOncePerRun
  <2> SUFFICES ASSUME Inv, NEW r \in Runs
               PROVE  /\ batchEvents[r] <= Len(batches[r])
                      /\ <<"payout", r>> \notin overlapped => Len(batches[r]) <= 1
                      /\ importRuns[r] <= reconciliations[r]
                      /\ <<"import", r>> \notin overlapped =>
                            /\ importEvents[r] <= 1
                            /\ reconciliations[r] <= 1 + restarts + failedSaves[r]
                            /\ importRuns[r] # 0 => importRuns[r] = reconciliations[r]
    BY DEF SettledOncePerRun
  <2>1. CASE part = "payouts"
    <3>1. PayoutInv /\ BatchInv(r)
      BY <2>1 DEF PayoutsInv, PayoutInv
    <3>2. IsFiniteSet(Announcing(r))
      BY HandlersAssumption, FS_Subset DEF Announcing
    <3>3. batchEvents[r] + Cardinality({}) <= Len(batches[r])
      BY <3>1, <3>2, BatchTypes, CountKept DEF BatchInv
    <3>4. batchEvents[r] \in Nat
      BY <3>1, BatchTypes
    <3>5. batchEvents[r] <= Len(batches[r])
      BY <3>3, <3>4, FS_EmptySet
    <3>6. importRuns[r] = 0 /\ importEvents[r] = 0 /\ reconciliations[r] = 0 /\ failedSaves[r] = 0
      BY <2>1 DEF ImportsInv
    <3>7. restarts \in Nat
      OBVIOUS
    <3>8. <<"payout", r>> \notin overlapped => Len(batches[r]) <= 1
      BY <3>1 DEF BatchInv
    <3>9. importRuns[r] <= reconciliations[r] /\ importEvents[r] <= 1
          /\ reconciliations[r] <= 1 + restarts + failedSaves[r] /\ importRuns[r] = reconciliations[r]
      BY <3>6, <3>7
    <3> QED BY <3>5, <3>8, <3>9
  <2>2. CASE part # "payouts"
    <3>1. batchEvents[r] = 0 /\ Len(batches[r]) = 0
      BY <2>2 DEF PayoutsInv
    <3>2. batchEvents[r] <= Len(batches[r]) /\ Len(batches[r]) <= 1
      BY <3>1
    <3>3. CASE part = "imports"
      <4>1. ImportInv /\ Cut(r) = restarts + failedSaves[r]
        BY <3>3 DEF ImportsInv, Cut
      <4>2. 1 + Cut(r) = 1 + restarts + failedSaves[r]
        BY <4>1 DEF ImportInv, ImportTypes
      <4> QED BY <3>2, <4>1, <4>2 DEF ImportInv, ImportBounded, ImportAlone
    <3>4. CASE part # "imports"
      <4>1. importRuns[r] = 0 /\ importEvents[r] = 0 /\ reconciliations[r] = 0 /\ failedSaves[r] = 0
        BY <3>4 DEF ImportsInv
      <4> QED BY <3>2, <4>1
    <3> QED BY <3>3, <3>4
  <2> QED BY <2>1, <2>2
<1> QED BY <1>1, <1>2, <1>3, PTL DEF Spec


-----------------------------------------------------------------------------
(* Escalations.                                                              *)

\* An evaluation past its list always has a ticket to work on.
SlaBusy == {c \in SlaCall : c.phase # "list" => c.todo # <<>>}
Escalates(s, i) == At(s, "save") /\ Head(call[s].todo) = i
Notifying(i) == {s \in Slots : At(s, "publish") /\ Head(call[s].todo) = i}

\* Every escalation was announced, is about to be, or lost its evaluation in a
\* restart; an evaluation alone finds the ticket not escalated before.
TicketInv(i) ==
    /\ escalationEvents[i] + Cardinality(Notifying(i)) <= escalations[i]
    /\ <<"sla">> \notin overlapped => escalations[i] <= 1
    /\ escalations[i] > 0 => i \in DOMAIN tickets /\ Breached(i, MaxTime)
    /\ \A s \in Slots : Escalates(s, i) =>
          /\ i \in DOMAIN tickets /\ Breached(i, MaxTime)
          /\ <<"sla">> \notin overlapped => escalations[i] = 0

SupportTypes ==
    /\ now \in 0..MaxTime
    /\ tickets \in Seq(Ticket) /\ Len(tickets) <= MaxTickets
    /\ escalations \in [1..MaxTickets -> Nat]
    /\ escalationEvents \in [1..MaxTickets -> Nat]

\* An evaluation works on tickets that exist.
ListedExist ==
    \A s \in Slots : call[s] # Idle => call[s].todo \in Seq(1..Len(tickets))

SupportInv ==
    /\ SupportTypes /\ ListedExist /\ CallsIn(SlaBusy) /\ OverlapSeen
    /\ \A i \in 1..MaxTickets : TicketInv(i)

LEMMA BreachLater ==
    ASSUME tickets \in Seq(Ticket), NEW i \in DOMAIN tickets, NEW at \in 0..MaxTime, Breached(i, at)
    PROVE  Breached(i, MaxTime)
<1>1. tickets[i] \in Ticket
  OBVIOUS
<1>2. tickets[i].createdAt \in 0..MaxTime
  BY <1>1 DEF Ticket
<1>3. Threshold(tickets[i].issueType) \in Nat
  BY DEF Threshold
<1> DEFINE t == tickets[i].createdAt
           n == Threshold(tickets[i].issueType)
<1>4. at - t >= n
  BY DEF Breached
<1>5. t \in 0..MaxTime /\ n \in Nat
  BY <1>2, <1>3
<1> HIDE DEF t, n
<1>6. MaxTime - t >= n
  BY <1>4, <1>5, SupportAssumption
<1> QED BY <1>6 DEF Breached, t, n

\* The first ticket of a list, and the tickets after it.
LEMMA FirstListed ==
    ASSUME SupportInv, NEW s \in Slots, call[s] # Idle, call[s].todo # <<>>
    PROVE  /\ Head(call[s].todo) \in DOMAIN tickets
           /\ Head(call[s].todo) \in 1..MaxTickets
           /\ Tail(call[s].todo) \in Seq(1..Len(tickets))
<1>1. call[s].todo \in Seq(1..Len(tickets))
  BY DEF SupportInv, ListedExist
<1>2. Head(call[s].todo) \in 1..Len(tickets) /\ Tail(call[s].todo) \in Seq(1..Len(tickets))
  BY <1>1, HeadTailProperties
<1>3. DOMAIN tickets = 1..Len(tickets) /\ Len(tickets) \in Nat /\ Len(tickets) <= MaxTickets
  BY LenProperties DEF SupportInv, SupportTypes
<1>4. Head(call[s].todo) \in 1..MaxTickets
  BY <1>2, <1>3, SupportAssumption, RangeGrows
<1> QED BY <1>2, <1>3, <1>4

\* The two ways in which an evaluation goes on after a ticket.
LEMMA WorkSteps ==
    ASSUME SupportInv, NEW s \in Slots, NEW c \in SlaBusy, call[s] = c, c # Idle,
           tickets' = tickets, NEW todo \in Seq(1..Len(tickets)), WorkThrough(s, todo)
    PROVE  /\ CallsIn(SlaBusy)' /\ OverlapSeen' /\ ListedExist'
           /\ overlapped' = overlapped
           /\ \A t \in Slots \ {s} : call'[t] = call[t]
           /\ ~At(s, "save")' /\ ~At(s, "publish")'
<1> DEFINE h == IF todo = <<>> THEN Idle ELSE [c EXCEPT !.phase = "find", !.todo = todo]
<1>1. Continue(s, h)
  BY DEF WorkThrough, Answer
<1>2. todo \in Seq(1..MaxTickets)
  <2>1. Len(tickets) \in Nat /\ Len(tickets) <= MaxTickets
    BY LenProperties DEF SupportInv, SupportTypes
  <2>2. 1..Len(tickets) \subseteq 1..MaxTickets
    BY <2>1, SupportAssumption
  <2> QED BY <2>2, SeqMonotonic
<1>3. /\ h \in SlaBusy \cup {Idle}
      /\ h # Idle => h.subject = c.subject /\ h.phase = "find" /\ h.todo = todo
  <2>1. CASE todo # <<>>
    <3>1. h = [c EXCEPT !.phase = "find", !.todo = todo]
      BY <2>1
    <3> QED BY <1>2, <2>1, <3>1 DEF SlaBusy, SlaCall
  <2> QED BY <2>1
<1> HIDE DEF h
<1>4. CallsIn(SlaBusy)' /\ OverlapSeen'
  BY <1>1, <1>3, ContinueKeepsSeen DEF SupportInv
<1>5. call'[s] = h /\ overlapped' = overlapped /\ \A t \in Slots \ {s} : call'[t] = call[t]
  BY <1>1 DEF Continue, SupportInv, CallsIn
<1>6. ListedExist'
  BY <1>3, <1>5 DEF SupportInv, ListedExist
<1> QED BY <1>3, <1>4, <1>5, <1>6 DEF At

LEMMA TicketKept ==
    ASSUME SupportInv, NEW i \in 1..MaxTickets, escalations'[i] = escalations[i],
           escalationEvents'[i] = escalationEvents[i], tickets' = tickets,
           overlapped \subseteq overlapped', Notifying(i)' \subseteq Notifying(i),
           \A s \in Slots : Escalates(s, i)' =>
               \/ Escalates(s, i)
               \/ i \in DOMAIN tickets /\ Breached(i, MaxTime) /\ escalations[i] = 0
    PROVE  TicketInv(i)'
<1>1. IsFiniteSet(Notifying(i))
  BY HandlersAssumption, FS_Subset DEF Notifying
<1>2. TicketInv(i) /\ escalations[i] \in Nat /\ escalationEvents[i] \in Nat
  BY DEF SupportInv, SupportTypes
<1>3. escalationEvents[i] + Cardinality(Notifying(i)) <= escalations[i]
  BY <1>2 DEF TicketInv
<1>4. escalationEvents[i] + Cardinality(Notifying(i)') <= escalations[i]
  BY <1>1, <1>2, <1>3, CountKept
<1>5. escalationEvents'[i] + Cardinality(Notifying(i)') <= escalations'[i]
  BY <1>4
<1>6. Breached(i, MaxTime)' <=> Breached(i, MaxTime)
  BY DEF Breached
<1> QED BY <1>2, <1>5, <1>6 DEF TicketInv


\* A step after which an evaluation no longer waits to save or to announce.
LEMMA EvaluationMovesOn ==
    ASSUME SupportInv, NEW s \in Slots, NEW c \in SlaBusy, call[s] = c, c # Idle,
           tickets' = tickets, NEW todo \in Seq(1..Len(tickets)), WorkThrough(s, todo),
           now' = now, escalations' = escalations,
           escalationEvents' \in [1..MaxTickets -> Nat],
           \A i \in 1..MaxTickets :
               \/ escalationEvents'[i] = escalationEvents[i]
               \/ s \in Notifying(i) /\ escalationEvents'[i] = escalationEvents[i] + 1
    PROVE  SupportInv'
<1>1. /\ CallsIn(SlaBusy)' /\ OverlapSeen' /\ ListedExist' /\ overlapped' = overlapped
      /\ \A t \in Slots \ {s} : call'[t] = call[t]
      /\ ~At(s, "save")' /\ ~At(s, "publish")'
  BY WorkSteps
<1>2. SupportTypes'
  BY DEF SupportInv, SupportTypes
<1>3. ASSUME NEW i \in 1..MaxTickets PROVE TicketInv(i)'
  <2>1. Notifying(i)' \subseteq Notifying(i) \ {s}
    BY <1>1 DEF Notifying, At
  <2>2. \A t \in Slots : Escalates(t, i)' => Escalates(t, i)
    BY <1>1 DEF Escalates, At
  <2>3. CASE escalationEvents'[i] = escalationEvents[i]
    BY <1>1, <2>1, <2>2, <2>3, TicketKept
  <2>4. CASE s \in Notifying(i) /\ escalationEvents'[i] = escalationEvents[i] + 1
    <3>1. IsFiniteSet(Notifying(i))
      BY HandlersAssumption, FS_Subset DEF Notifying
    <3>2. TicketInv(i) /\ escalations[i] \in Nat /\ escalationEvents[i] \in Nat
      BY DEF SupportInv, SupportTypes
    <3>3. escalationEvents[i] + Cardinality(Notifying(i)) <= escalations[i]
      BY <3>2 DEF TicketInv
    <3>4. escalationEvents[i] + 1 + Cardinality(Notifying(i)') <= escalations[i]
      BY <2>1, <2>4, <3>1, <3>2, <3>3, CountLess
    <3>5. escalationEvents'[i] + Cardinality(Notifying(i)') <= escalations'[i]
      BY <2>4, <3>4
    <3>6. Breached(i, MaxTime)' <=> Breached(i, MaxTime)
      BY DEF Breached
    <3> QED BY <1>1, <2>2, <3>2, <3>5, <3>6 DEF TicketInv
  <2> QED BY <2>3, <2>4
<1> QED BY <1>1, <1>2, <1>3 DEF SupportInv

LEMMA SlaListsPreserves ==
    ASSUME SupportInv, NEW s \in Slots, NEW c \in SlaBusy, call[s] = c, c # Idle, SlaLists(s)
    PROVE  SupportInv'
<1>1. PICK todo \in [1..Cardinality(OpenTickets) -> OpenTickets] : WorkThrough(s, todo)
  BY DEF SlaLists
<1>2. OpenTickets \subseteq 1..Len(tickets) /\ Len(tickets) \in Nat
  BY LenProperties DEF OpenTickets, SupportInv, SupportTypes
<1>3. IsFiniteSet(OpenTickets)
  <2>1. IsFiniteSet(1..Len(tickets))
    BY <1>2, FS_Interval
  <2> QED BY <1>2, <2>1, FS_Subset
<1>4. Cardinality(OpenTickets) \in Nat
  BY <1>3, FS_CardinalityType
<1>5. todo \in Seq(OpenTickets)
  BY <1>4, SeqDef
<1>6. todo \in Seq(1..Len(tickets))
  BY <1>2, <1>5, SeqMonotonic
<1>7. /\ now' = now /\ tickets' = tickets /\ escalations' = escalations
      /\ escalationEvents' = escalationEvents
  BY DEF SlaLists, supportVars
<1>8. escalationEvents' \in [1..MaxTickets -> Nat]
  BY <1>7 DEF SupportInv, SupportTypes
<1>9. \A i \in 1..MaxTickets : escalationEvents'[i] = escalationEvents[i]
  BY <1>7
<1> QED BY <1>1, <1>6, <1>7, <1>8, <1>9, EvaluationMovesOn

LEMMA SlaFindsPreserves ==
    ASSUME SupportInv, NEW s \in Slots, NEW c \in SlaBusy, call[s] = c, c # Idle, SlaFinds(s)
    PROVE  SupportInv'
<1> DEFINE i == Head(c.todo)
<1>1. c.phase = "find" /\ c.todo # <<>>
  BY DEF SlaFinds, At, SlaBusy
<1>2. i \in DOMAIN tickets /\ i \in 1..MaxTickets /\ Tail(c.todo) \in Seq(1..Len(tickets))
  BY <1>1, FirstListed
<1>3. /\ now' = now /\ tickets' = tickets /\ escalations' = escalations
      /\ escalationEvents' = escalationEvents
  BY DEF SlaFinds, supportVars
<1>4. escalationEvents' \in [1..MaxTickets -> Nat]
  BY <1>3 DEF SupportInv, SupportTypes
<1>5. \A j \in 1..MaxTickets : escalationEvents'[j] = escalationEvents[j]
  BY <1>3
<1>6. CASE escalations[i] > 0 \/ ~Breached(i, c.evaluatedAt)
  <2>1. WorkThrough(s, Tail(c.todo))
    BY <1>6 DEF SlaFinds
  <2> HIDE DEF i
  <2> QED BY <1>2, <1>3, <1>4, <1>5, <2>1, EvaluationMovesOn
<1>7. CASE ~(escalations[i] > 0 \/ ~Breached(i, c.evaluatedAt))
  <2> DEFINE h == [c EXCEPT !.phase = "save"]
  <2>1. Continue(s, h)
    BY <1>7 DEF SlaFinds, Await
  <2>2. /\ h \in SlaBusy /\ h.subject = c.subject /\ h.phase = "save" /\ h.todo = c.todo
    BY <1>1 DEF SlaBusy, SlaCall
  <2> HIDE DEF h
  <2>3. CallsIn(SlaBusy)' /\ OverlapSeen'
    BY <2>1, <2>2, ContinueKeepsSeen DEF SupportInv
  <2>4. /\ call'[s] = h /\ overlapped' = overlapped
        /\ \A t \in Slots \ {s} : call'[t] = call[t]
    BY <2>1 DEF Continue, SupportInv, CallsIn
  <2>5. ListedExist'
    BY <1>3, <2>2, <2>4 DEF SupportInv, ListedExist
  <2>6. SupportTypes'
    BY <1>3 DEF SupportInv, SupportTypes
  <2>7. escalations[i] = 0 /\ Breached(i, MaxTime)
    <3>1. escalations[i] \in Nat
      BY <1>2 DEF SupportInv, SupportTypes
    <3>2. tickets \in Seq(Ticket) /\ c.evaluatedAt \in 0..MaxTime
      BY DEF SupportInv, SupportTypes, SlaBusy, SlaCall
    <3>3. Breached(i, c.evaluatedAt)
      BY <1>7
    <3> HIDE DEF i
    <3>4. Breached(i, MaxTime)
      BY <1>2, <3>2, <3>3, BreachLater
    <3> QED BY <1>7, <3>1, <3>4
  <2>8. ASSUME NEW j \in 1..MaxTickets PROVE TicketInv(j)'
    <3>1. Notifying(j)' \subseteq Notifying(j)
      BY <2>2, <2>4 DEF Notifying, At
    <3>2. ASSUME NEW t \in Slots, Escalates(t, j)'
          PROVE  \/ Escalates(t, j)
                 \/ j \in DOMAIN tickets /\ Breached(j, MaxTime) /\ escalations[j] = 0
      <4>1. CASE t = s
        <5>1. j = i
          BY <2>2, <2>4, <3>2, <4>1 DEF Escalates
        <5> QED BY <1>2, <2>7, <5>1
      <4>2. CASE t # s
        BY <2>4, <3>2, <4>2 DEF Escalates, At
      <4> QED BY <4>1, <4>2
    <3> QED BY <1>3, <2>4, <3>1, <3>2, TicketKept
  <2> QED BY <2>3, <2>5, <2>6, <2>8 DEF SupportInv
<1> QED BY <1>6, <1>7

LEMMA SlaSavesPreserves ==
    ASSUME SupportInv, NEW s \in Slots, NEW c \in SlaBusy, call[s] = c, c # Idle, SlaSaves(s)
    PROVE  SupportInv'
<1> DEFINE i == Head(c.todo)
           h == [c EXCEPT !.phase = "publish"]
<1>1. c.phase = "save" /\ c.todo # <<>>
  BY DEF SlaSaves, At, SlaBusy
<1>2. i \in DOMAIN tickets /\ i \in 1..MaxTickets
  BY <1>1, FirstListed
<1>3. /\ now' = now /\ tickets' = tickets /\ escalationEvents' = escalationEvents
      /\ Continue(s, h) /\ escalations' = [escalations EXCEPT ![i] = @ + 1]
  BY DEF SlaSaves, Await
<1>4. h \in SlaBusy /\ h.subject = c.subject /\ h.phase = "publish" /\ h.todo = c.todo
  BY <1>1 DEF SlaBusy, SlaCall
<1>5. Escalates(s, i)
  BY <1>1 DEF Escalates, At
<1> HIDE DEF h
<1>6. CallsIn(SlaBusy)' /\ OverlapSeen'
  BY <1>3, <1>4, ContinueKeepsSeen DEF SupportInv
<1>7. /\ call'[s] = h /\ overlapped' = overlapped
      /\ \A t \in Slots \ {s} : call'[t] = call[t]
  BY <1>3 DEF Continue, SupportInv, CallsIn
<1>8. ListedExist'
  BY <1>3, <1>4, <1>7 DEF SupportInv, ListedExist
<1>9. escalations \in [1..MaxTickets -> Nat] /\ escalationEvents \in [1..MaxTickets -> Nat]
  BY DEF SupportInv, SupportTypes
<1>10. Head(h.todo) = i
  BY <1>4
<1> HIDE DEF i
<1>11. /\ escalations' \in [1..MaxTickets -> Nat] /\ escalations'[i] = escalations[i] + 1
       /\ \A j \in (1..MaxTickets) \ {i} : escalations'[j] = escalations[j]
  BY <1>2, <1>3, <1>9
<1>12. SupportTypes'
  BY <1>3, <1>11 DEF SupportInv, SupportTypes
<1>13. ASSUME NEW t \in Slots, NEW j, Escalates(t, j)'
       PROVE  t # s /\ Escalates(t, j) /\ <<"sla">> \in overlapped
  <2>1. t # s /\ call'[t] = call[t] /\ Escalates(t, j)
    BY <1>4, <1>7, <1>13 DEF Escalates, At
  <2>2. call[t] # Idle /\ call[t].subject = <<"sla">> /\ c.subject = <<"sla">>
    BY <2>1 DEF Escalates, At, SupportInv, CallsIn, SlaBusy, SlaCall
  <2> QED BY <2>1, <2>2 DEF SupportInv, OverlapSeen
<1>14. TicketInv(i)'
  <2>1. TicketInv(i) /\ escalations[i] \in Nat /\ escalationEvents[i] \in Nat
    BY <1>2, <1>9 DEF SupportInv
  <2>2. Notifying(i)' \subseteq Notifying(i) \cup {s}
    BY <1>7 DEF Notifying, At
  <2>3. IsFiniteSet(Notifying(i))
    BY HandlersAssumption, FS_Subset DEF Notifying
  <2>4. escalationEvents[i] + Cardinality(Notifying(i)) <= escalations[i]
    BY <2>1 DEF TicketInv
  <2>5. escalationEvents[i] + Cardinality(Notifying(i)') <= escalations[i] + 1
    BY <2>1, <2>2, <2>3, <2>4, CountMore
  <2>6. escalationEvents'[i] + Cardinality(Notifying(i)') <= escalations'[i]
    BY <1>3, <1>11, <2>5
  <2>7. Breached(i, MaxTime)
    BY <1>5, <2>1 DEF TicketInv
  <2>8. Breached(i, MaxTime)' /\ i \in DOMAIN tickets'
    BY <1>2, <1>3, <2>7 DEF Breached
  <2>9. <<"sla">> \notin overlapped => escalations'[i] <= 1
    <3>1. <<"sla">> \notin overlapped => escalations[i] = 0
      BY <1>5, <2>1 DEF TicketInv
    <3> QED BY <1>11, <3>1
  <2> QED BY <1>7, <1>13, <2>6, <2>8, <2>9 DEF TicketInv
<1>15. ASSUME NEW j \in (1..MaxTickets) \ {i} PROVE TicketInv(j)'
  <2>1. Notifying(j)' \subseteq Notifying(j)
    BY <1>7, <1>10 DEF Notifying, At
  <2> QED BY <1>3, <1>7, <1>11, <1>13, <2>1, TicketKept
<1> QED BY <1>6, <1>8, <1>12, <1>14, <1>15 DEF SupportInv

LEMMA SlaPublishesPreserves ==
    ASSUME SupportInv, NEW s \in Slots, NEW c \in SlaBusy, call[s] = c, c # Idle, SlaPublishes(s)
    PROVE  SupportInv'
<1> DEFINE i == Head(c.todo)
<1>1. c.phase = "publish" /\ c.todo # <<>>
  BY DEF SlaPublishes, At, SlaBusy
<1>2. i \in 1..MaxTickets /\ Tail(c.todo) \in Seq(1..Len(tickets))
  BY <1>1, FirstListed
<1>3. /\ now' = now /\ tickets' = tickets /\ escalations' = escalations
      /\ WorkThrough(s, Tail(c.todo))
      /\ escalationEvents' = [escalationEvents EXCEPT ![i] = @ + 1]
  BY DEF SlaPublishes
<1>4. s \in Notifying(i)
  BY <1>1 DEF Notifying, At
<1>5. escalationEvents \in [1..MaxTickets -> Nat]
  BY DEF SupportInv, SupportTypes
<1> HIDE DEF i
<1>6. /\ escalationEvents' \in [1..MaxTickets -> Nat]
      /\ escalationEvents'[i] = escalationEvents[i] + 1
      /\ \A j \in (1..MaxTickets) \ {i} : escalationEvents'[j] = escalationEvents[j]
  BY <1>2, <1>3, <1>5
<1>7. \A j \in 1..MaxTickets :
          \/ escalationEvents'[j] = escalationEvents[j]
          \/ s \in Notifying(j) /\ escalationEvents'[j] = escalationEvents[j] + 1
  BY <1>4, <1>6
<1> QED BY <1>2, <1>3, <1>6, <1>7, EvaluationMovesOn


LEMMA SupportPreserves == ASSUME SupportInv, SupportNext PROVE SupportInv'
<1>1. CASE Tick
  <2>1. /\ now < MaxTime /\ now' = now + 1 /\ tickets' = tickets
        /\ escalations' = escalations /\ escalationEvents' = escalationEvents
        /\ call' = call /\ overlapped' = overlapped
    BY <1>1 DEF Tick, handlerVars
  <2>2. SupportTypes'
    BY <2>1, SupportAssumption DEF SupportInv, SupportTypes
  <2>3. CallsIn(SlaBusy)' /\ OverlapSeen' /\ ListedExist'
    BY <2>1 DEF SupportInv, CallsIn, OverlapSeen, ListedExist
  <2>4. ASSUME NEW i \in 1..MaxTickets PROVE TicketInv(i)'
    BY <2>1 DEF SupportInv, TicketInv, Breached, Escalates, Notifying, At
  <2> QED BY <2>2, <2>3, <2>4 DEF SupportInv
<1>2. ASSUME NEW issueType \in IssueTypes, CreateTicket(issueType) PROVE SupportInv'
  <2> DEFINE x == [issueType |-> issueType, createdAt |-> now, status |-> "OPEN"]
  <2>1. /\ Len(tickets) < MaxTickets /\ tickets' = Append(tickets, x) /\ now' = now
        /\ escalations' = escalations /\ escalationEvents' = escalationEvents
        /\ call' = call /\ overlapped' = overlapped
    BY <1>2 DEF CreateTicket, handlerVars
  <2>2. x \in Ticket /\ tickets \in Seq(Ticket)
    BY DEF SupportInv, SupportTypes, Ticket
  <2> HIDE DEF x
  <2>3. /\ tickets' \in Seq(Ticket) /\ Len(tickets') = Len(tickets) + 1
        /\ \A i \in DOMAIN tickets : i \in DOMAIN tickets' /\ tickets'[i] = tickets[i]
    BY <2>1, <2>2
  <2>4. Len(tickets) \in Nat
    BY <2>2, LenProperties
  <2>5. SupportTypes'
    BY <2>1, <2>3, <2>4, SupportAssumption DEF SupportInv, SupportTypes
  <2>6. 1..Len(tickets) \subseteq 1..Len(tickets')
    BY <2>3, <2>4
  <2>7. ListedExist'
    BY <2>1, <2>6, SeqMonotonic DEF SupportInv, ListedExist
  <2>8. CallsIn(SlaBusy)' /\ OverlapSeen'
    BY <2>1 DEF SupportInv, CallsIn, OverlapSeen
  <2>9. ASSUME NEW i \in DOMAIN tickets, Breached(i, MaxTime) PROVE Breached(i, MaxTime)'
    BY <2>3, <2>9 DEF Breached
  <2>10. ASSUME NEW i \in 1..MaxTickets PROVE TicketInv(i)'
    BY <2>1, <2>3, <2>9 DEF SupportInv, TicketInv, Escalates, Notifying, At
  <2> QED BY <2>5, <2>7, <2>8, <2>10 DEF SupportInv
<1>3. ASSUME NEW s \in Slots, NEW at \in EvaluationTimes, EvaluateEscalations(s, at)
      PROVE  SupportInv'
  <2> DEFINE h == [phase |-> "list", subject |-> <<"sla">>, evaluatedAt |-> at, todo |-> <<>>]
  <2>1. h \in SlaBusy /\ h.phase = "list" /\ h.todo = <<>> /\ Begin(s, h)
    BY <1>3, SupportAssumption DEF EvaluateEscalations, SlaBusy, SlaCall
  <2> HIDE DEF h
  <2>2. CallsIn(SlaBusy)' /\ OverlapSeen'
    BY <2>1, BeginKeepsSeen DEF SupportInv
  <2>3. /\ now' = now /\ tickets' = tickets /\ escalations' = escalations
        /\ escalationEvents' = escalationEvents /\ overlapped \subseteq overlapped'
    BY <1>3 DEF EvaluateEscalations, supportVars, Begin, BeginBeside
  <2>4. call'[s] = h /\ \A t \in Slots \ {s} : call'[t] = call[t]
    BY <2>1 DEF Begin, BeginBeside, SupportInv, CallsIn
  <2>5. SupportTypes'
    BY <2>3 DEF SupportInv, SupportTypes
  <2>6. ListedExist'
    <3> SUFFICES ASSUME NEW t \in Slots, call'[t] # Idle
                 PROVE  call'[t].todo \in Seq(1..Len(tickets))
      BY <2>3 DEF ListedExist
    <3>1. h.todo \in Seq(1..Len(tickets))
      BY <2>1, EmptySeq
    <3> QED BY <2>4, <3>1 DEF SupportInv, ListedExist
  <2>7. ASSUME NEW i \in 1..MaxTickets PROVE TicketInv(i)'
    <3>1. Notifying(i)' \subseteq Notifying(i)
      BY <2>1, <2>4 DEF Notifying, At
    <3>2. \A t \in Slots : Escalates(t, i)' => Escalates(t, i)
      BY <2>1, <2>4 DEF Escalates, At
    <3> QED BY <2>3, <3>1, <3>2, TicketKept
  <2> QED BY <2>2, <2>5, <2>6, <2>7 DEF SupportInv
<1>4. ASSUME NEW s \in Slots, SlaContinues(s) PROVE SupportInv'
  <2> PICK c \in SlaBusy : call[s] = c /\ c # Idle
    BY <1>4 DEF SlaContinues, SlaLists, SlaFinds, SlaSaves, SlaPublishes, At, SupportInv, CallsIn
  <2> QED BY <1>4, SlaListsPreserves, SlaFindsPreserves, SlaSavesPreserves,
             SlaPublishesPreserves DEF SlaContinues
<1>5. CASE Restart /\ UNCHANGED supportVars
  <2>1. /\ now' = now /\ tickets' = tickets /\ escalations' = escalations
        /\ escalationEvents' = escalationEvents /\ overlapped' = overlapped
    BY <1>5 DEF supportVars, Restart
  <2>2. CallsIn(SlaBusy)' /\ OverlapSeen' /\ \A s \in Slots : call'[s] = Idle
    BY <1>5, RestartKeepsSeen
  <2>3. SupportTypes' /\ ListedExist'
    BY <2>1, <2>2 DEF SupportInv, SupportTypes, ListedExist
  <2>4. ASSUME NEW i \in 1..MaxTickets PROVE TicketInv(i)'
    BY <2>1, <2>2, TicketKept DEF Escalates, Notifying, At
  <2> QED BY <2>2, <2>3, <2>4 DEF SupportInv
<1> QED BY <1>1, <1>2, <1>3, <1>4, <1>5 DEF SupportNext

EscalationsInv ==
    IF part = "support" THEN SupportInv
    ELSE \A i \in 1..MaxTickets : escalations[i] = 0 /\ escalationEvents[i] = 0

LEMMA InitEscalations == Init => EscalationsInv
<1> SUFFICES ASSUME Init PROVE EscalationsInv
  OBVIOUS
<1>1. /\ now = 0 /\ tickets = <<>> /\ escalations = [i \in 1..MaxTickets |-> 0]
      /\ escalationEvents = [i \in 1..MaxTickets |-> 0] /\ call = [s \in Slots |-> Idle]
  BY DEF Init, HandlersInit, SupportInit
<1>2. CallsIn(SlaBusy) /\ OverlapSeen /\ ListedExist
  BY <1>1 DEF CallsIn, OverlapSeen, ListedExist
<1>3. SupportTypes
  BY <1>1, SupportAssumption DEF SupportTypes
<1>4. ASSUME NEW i \in 1..MaxTickets PROVE TicketInv(i)
  <2>1. Notifying(i) = {}
    BY <1>1 DEF Notifying, At
  <2>2. Cardinality(Notifying(i)) = 0
    BY <2>1, FS_EmptySet
  <2>3. \A s \in Slots : ~Escalates(s, i)
    BY <1>1 DEF Escalates, At
  <2> QED BY <1>1, <2>2, <2>3 DEF TicketInv
<1> QED BY <1>1, <1>2, <1>3, <1>4 DEF EscalationsInv, SupportInv

LEMMA NextEscalations == EscalationsInv /\ [Next]_vars => EscalationsInv'
<1> SUFFICES ASSUME EscalationsInv, [Next]_vars PROVE EscalationsInv'
  OBVIOUS
<1>1. part' = part
  BY PartKept
<1>2. CASE part = "support" /\ SupportNext
  BY <1>1, <1>2, SupportPreserves DEF EscalationsInv
<1>3. CASE part = "support" /\ UNCHANGED vars
  BY <1>3 DEF vars, handlerVars, supportVars, EscalationsInv, SupportInv, SupportTypes, CallsIn,
              OverlapSeen, ListedExist, TicketInv, Breached, Escalates, Notifying, At
<1>4. ASSUME part # "support" PROVE UNCHANGED <<escalations, escalationEvents>>
  BY <1>4, OwnPart
<1> QED BY <1>1, <1>2, <1>3, <1>4 DEF EscalationsInv, Next

\* SupportSLAService, for any tickets, evaluations and restarts: a ticket is
\* escalated and announced once at most unless two evaluations overlapped, and
\* only a ticket in breach of its service level is.
THEOREM TicketsEscalatedOnce == Spec => []EscalatedOnce
<1>1. EscalationsInv => EscalatedOnce
  <2> SUFFICES ASSUME EscalationsInv, NEW i \in 1..MaxTickets
               PROVE  /\ escalationEvents[i] <= escalations[i]
                      /\ <<"sla">> \notin overlapped => escalations[i] <= 1
                      /\ escalations[i] > 0 => i \in DOMAIN tickets /\ Breached(i, MaxTime)
    BY DEF EscalatedOnce
  <2>1. CASE part = "support"
    <3>1. TicketInv(i) /\ escalations[i] \in Nat /\ escalationEvents[i] \in Nat
      BY <2>1 DEF EscalationsInv, SupportInv, SupportTypes
    <3>2. IsFiniteSet(Notifying(i))
      BY HandlersAssumption, FS_Subset DEF Notifying
    <3>3. escalationEvents[i] + Cardinality({}) <= escalations[i]
      BY <3>1, <3>2, CountKept DEF TicketInv
    <3>4. escalationEvents[i] <= escalations[i]
      BY <3>1, <3>3, FS_EmptySet
    <3> QED BY <3>1, <3>4 DEF TicketInv
  <2>2. CASE part # "support"
    BY <2>2 DEF EscalationsInv
  <2> QED BY <2>1, <2>2
<1> QED BY <1>1, InitEscalations, NextEscalations, PTL DEF Spec

\* Notifications, payouts, imports, escalations and manual reviews, whatever is
\* asked of them and whenever the process restarts: what is to happen once
\* happens once unless two handlers worked on it at the same time.
THEOREM BackOfficeOnce == Spec => []OnceUnlessOverlapped
BY FanoutsNotifyOnce, RunsSettledOnce, TicketsEscalatedOnce, ReviewsDecidedOnce, PTL
   DEF OnceUnlessOverlapped

-----------------------------------------------------------------------------
(* The types of the services' state.                                         *)

\* What the recursion computes, for the attempts there are.
LEMMA DelayValues == Delay = [n \in 0..maxRetries |->
                                 IF n = 0 THEN 10 ELSE IF n = 1 THEN 20 ELSE IF n = 2 THEN 40 ELSE 80]
<1> DEFINE Doubled(f) == [n \in 0..maxRetries |-> IF n = 0 THEN baseDelaySeconds ELSE 2 * f[n - 1]]
           d == [n \in 0..maxRetries |->
                    IF n = 0 THEN 10 ELSE IF n = 1 THEN 20 ELSE IF n = 2 THEN 40 ELSE 80]
<1>1. \A n \in 0..maxRetries : n = 0 \/ n = 1 \/ n = 2 \/ n = 3
  BY DEF maxRetries
<1>2. d = Doubled(d)
  <2> SUFFICES ASSUME NEW n \in 0..maxRetries
               PROVE  d[n] = IF n = 0 THEN baseDelaySeconds ELSE 2 * d[n - 1]
    OBVIOUS
  <2> QED BY <1>1 DEF maxRetries, baseDelaySeconds
<1>3. Delay = CHOOSE f : f = Doubled(f)
  BY DEF Delay
<1> HIDE DEF d
<1>4. Delay = Doubled(Delay)
  BY <1>2, <1>3
<1>5. \A n \in 0..maxRetries : Delay[n] = IF n = 0 THEN baseDelaySeconds ELSE 2 * Delay[n - 1]
  BY <1>4
<1>6. Delay = [n \in 0..maxRetries |-> Delay[n]]
  BY <1>4
<1>7. Delay[0] = 10 /\ Delay[1] = 20 /\ Delay[2] = 40 /\ Delay[3] = 80
  <2>1. Delay[0] = 10
    BY <1>5 DEF maxRetries, baseDelaySeconds
  <2>2. Delay[1] = 20
    BY <1>5, <2>1 DEF maxRetries
  <2>3. Delay[2] = 40
    BY <1>5, <2>2 DEF maxRetries
  <2> QED BY <1>5, <2>1, <2>2, <2>3 DEF maxRetries
<1>8. \A n \in 0..maxRetries : Delay[n] = d[n]
  BY <1>1, <1>7 DEF d
<1> QED BY <1>6, <1>8 DEF d

LEMMA BackoffBounds ==
    ASSUME NEW n \in Nat, n < maxRetries
    PROVE  Backoff(n) \in Nat /\ baseDelaySeconds <= Backoff(n) /\ Backoff(n) <= maxBackoffSeconds
BY DelayValues DEF Backoff, maxRetries, baseDelaySeconds, maxBackoffSeconds

\* The handlers of each service, and what the services keep beside what the
\* invariants above are about.
CallsOf ==
    CASE part = "fanout" -> FanoutBusy [] part = "payouts" -> PayoutCall
      [] part = "imports" -> ImportCall [] part = "statements" -> StatementCall
      [] part = "support" -> SlaBusy [] part = "audit" -> AuditCall
      [] part = "review" -> ReviewCall [] part = "policy" -> PolicyCall
      [] OTHER -> {}

QueueTypes ==
    /\ queue \in [IdempotencyKeys -> 0..Many] /\ queuedEvents \in [IdempotencyKeys -> 0..Many]
DeliveryTypes ==
    /\ \A r \in retries : /\ r.entity \in Entities
                          /\ r.attempt \in Nat /\ 1 <= r.attempt /\ r.attempt <= maxRetries
                          /\ r.delaySeconds \in baseDelaySeconds..maxBackoffSeconds
    /\ \A d \in deadLetters : d.entity \in Entities /\ d.finalAttempt \in 0..maxRetries
    /\ \A r \in receipts : r.entity \in Entities
BatchTypesOK == batches \in [Runs -> Seq(Batch)] /\ batchEvents \in [Runs -> Nat]
ImportTypesOK ==
    /\ importRuns \in [Runs -> Nat] /\ importEvents \in [Runs -> Nat]
    /\ reconciliations \in [Runs -> Nat] /\ failedSaves \in [Runs -> Nat]
StatementTypes == statements \subseteq [payee : Payees, format : {"PDF", "PLAINTEXT"}]
LedgerTypes == journal \subseteq JournalLines
TicketTypes == now \in 0..MaxTime /\ tickets \in Seq(Ticket)
InterventionTypes == \A x \in interventions : x.actionType \in ActionTypes
AuditTypes == chain \in Seq(AuditEvent) /\ evidence \in BOOLEAN \cup {Null}
ReviewTypes == reviews \in [Reviews -> ReviewStatus]
PolicyTypes == storedRules \in [RiskActions -> Rule \cup {Null}] /\ unstored \subseteq RiskActions

StateTypes ==
    /\ QueueTypes /\ DeliveryTypes /\ BatchTypesOK /\ ImportTypesOK /\ StatementTypes
    /\ LedgerTypes /\ TicketTypes /\ InterventionTypes /\ AuditTypes /\ ReviewTypes /\ PolicyTypes

LEMMA InitTypes == Init => CallsIn(CallsOf) /\ StateTypes
<1> SUFFICES ASSUME Init PROVE CallsIn(CallsOf) /\ StateTypes
  OBVIOUS
<1>1. CallsIn(CallsOf)
  BY DEF Init, HandlersInit, CallsIn
<1>2. QueueTypes /\ DeliveryTypes
  BY DEF Init, NotificationsInit, QueueTypes, DeliveryTypes, Many
<1>3. BatchTypesOK /\ ImportTypesOK /\ StatementTypes /\ LedgerTypes
  BY DEF Init, SettlementInit, BatchTypesOK, ImportTypesOK, StatementTypes, LedgerTypes
<1>4. TicketTypes /\ InterventionTypes
  BY SupportAssumption DEF Init, SupportInit, TicketTypes, InterventionTypes
<1>5. AuditTypes /\ ReviewTypes /\ PolicyTypes
  BY DEF Init, ComplianceInit, AuditTypes, ReviewTypes, PolicyTypes, ReviewStatus
<1> QED BY <1>1, <1>2, <1>3, <1>4, <1>5 DEF StateTypes

\* Deliveries: the worker names an attempt it was told to make.
LEMMA DeliveryKeepsTypes == ASSUME DeliveryTypes, DeliveriesNext PROVE DeliveryTypes' /\ call' = call
<1>1. PICK x \in Entities :
        \/ \E n \in AttemptsOf(x), retriable \in BOOLEAN : HandleFailure(x, n, retriable)
        \/ \E st \in {"SENT", "DELIVERED", "FAILED", "ACKNOWLEDGED"} : RecordReceipt(x, st)
  BY DEF DeliveriesNext
<1>2. ASSUME NEW n \in AttemptsOf(x), NEW retriable \in BOOLEAN, HandleFailure(x, n, retriable)
      PROVE  DeliveryTypes' /\ call' = call
  <2>1. n \in Nat /\ n <= maxRetries /\ n \in 0..maxRetries
    BY DEF AttemptsOf, DeliveryTypes, maxRetries
  <2>2. CASE retriable /\ n < maxRetries
    <3> DEFINE r == [entity |-> x, attempt |-> n + 1, delaySeconds |-> Backoff(n)]
    <3>1. retries' = retries \cup {r} /\ UNCHANGED <<deadLetters, receipts>> /\ call' = call
      BY <1>2, <2>2 DEF HandleFailure, handlerVars
    <3>2. r.delaySeconds \in baseDelaySeconds..maxBackoffSeconds
      BY <2>1, <2>2, BackoffBounds DEF baseDelaySeconds, maxBackoffSeconds
    <3>3. r.entity \in Entities /\ r.attempt \in Nat /\ 1 <= r.attempt /\ r.attempt <= maxRetries
      BY <2>1, <2>2 DEF maxRetries
    <3> HIDE DEF r
    <3> QED BY <3>1, <3>2, <3>3 DEF DeliveryTypes
  <2>3. CASE ~(retriable /\ n < maxRetries)
    BY <1>2, <2>1, <2>3 DEF HandleFailure, handlerVars, DeliveryTypes
  <2> QED BY <2>2, <2>3
<1>3. ASSUME NEW st, RecordReceipt(x, st) PROVE DeliveryTypes' /\ call' = call
  BY <1>3 DEF RecordReceipt, handlerVars, DeliveryTypes
<1> QED BY <1>1, <1>2, <1>3

LEMMA NextAttempt == \A n \in 1..3 : n < 3 => n + 1 \in 1..3
OBVIOUS

LEMMA StatementGoesOn ==
    ASSUME NEW c \in StatementCall
    PROVE  /\ [c EXCEPT !.phase = "save statement"] \in StatementCall
           /\ [c EXCEPT !.phase = "save statement", !.format = "PLAINTEXT"] \in StatementCall
           /\ c.attempt < 3 => [c EXCEPT !.attempt = @ + 1] \in StatementCall
<1>1. [c EXCEPT !.phase = "save statement"] \in StatementCall
  BY DEF StatementCall
<1>2. [c EXCEPT !.phase = "save statement", !.format = "PLAINTEXT"] \in StatementCall
  BY DEF StatementCall
<1>3. ASSUME NEW n \in 1..3 PROVE [c EXCEPT !.attempt = n] \in StatementCall
  BY DEF StatementCall
<1>4. c.attempt \in 1..3
  BY DEF StatementCall
<1> QED BY <1>1, <1>2, <1>3, <1>4, NextAttempt

\* Statements: a renderer is asked three times at most.
LEMMA StatementKeepsTypes ==
    ASSUME CallsIn(StatementCall), StatementTypes, StatementsNext
    PROVE  CallsIn(StatementCall)' /\ StatementTypes'
<1> USE DEF CallsIn
<1>1. ASSUME NEW s \in Slots, NEW p \in Payees, PublishStatement(s, p)
      PROVE  CallsIn(StatementCall)' /\ StatementTypes'
  <2> DEFINE h == [phase |-> "render", subject |-> <<"statement", p>>, attempt |-> 1, format |-> "PDF"]
  <2>1. call' = [call EXCEPT ![s] = h] /\ statements' = statements
    BY <1>1 DEF PublishStatement, Begin, BeginBeside, settlementVars
  <2>2. h \in StatementCall
    <3>1. 1 \in 1..3 /\ <<"statement", p>> \in {"statement"} \X Payees
      OBVIOUS
    <3> QED BY <3>1 DEF StatementCall
  <2> HIDE DEF h
  <2> QED BY <2>1, <2>2 DEF StatementTypes
<1>2. ASSUME NEW s \in Slots, StatementRenders(s) PROVE CallsIn(StatementCall)' /\ StatementTypes'
  <2>1. call[s] \in StatementCall
    BY <1>2 DEF StatementRenders, At
  <2>2. PICK h : Continue(s, h) /\ \/ h = [call[s] EXCEPT !.phase = "save statement"]
                                   \/ call[s].attempt < 3 /\ h = [call[s] EXCEPT !.attempt = @ + 1]
                                   \/ h = [call[s] EXCEPT !.phase = "save statement", !.format = "PLAINTEXT"]
    BY <1>2 DEF StatementRenders, Await
  <2>3. h \in StatementCall
    BY <2>1, <2>2, StatementGoesOn
  <2>4. statements' = statements
    BY <1>2 DEF StatementRenders, settlementVars
  <2> QED BY <2>2, <2>3, <2>4 DEF Continue, StatementTypes
<1>3. ASSUME NEW s \in Slots, StatementSaves(s) PROVE CallsIn(StatementCall)' /\ StatementTypes'
  <2>1. call[s] \in StatementCall
    BY <1>3 DEF StatementSaves, At
  <2>2. RunOf(s) \in Payees /\ call[s].format \in {"PDF", "PLAINTEXT"}
    BY <2>1 DEF StatementCall, RunOf
  <2>3. CallsIn(StatementCall)'
    BY <1>3 DEF StatementSaves, Answer, Continue
  <2>4. statements' = statements \cup {[payee |-> RunOf(s), format |-> call[s].format]}
    BY <1>3 DEF StatementSaves
  <2> QED BY <2>2, <2>3, <2>4 DEF StatementTypes
<1>4. CASE Restart /\ UNCHANGED settlementVars
  BY <1>4 DEF Restart, StatementTypes, settlementVars
<1> QED BY <1>1, <1>2, <1>3, <1>4 DEF StatementsNext

\* One step of the service a behaviour is about.
LEMMA NextTypes ==
    ASSUME FanoutsInv, FanoutsInv', PayoutsInv, PayoutsInv', ImportsInv, ImportsInv', EscalationsInv,
           EscalationsInv', ChainInv, ChainInv', ReviewsInv, ReviewsInv', RulesInv, RulesInv',
           CallsIn(CallsOf), StateTypes, [Next]_vars
    PROVE  CallsIn(CallsOf)' /\ StateTypes'
<1>1. part' = part
  BY PartKept
<1>2. QueueTypes'
  BY <1>1, OwnPart DEF StateTypes, QueueTypes, FanoutsInv, FanoutInv
<1>3. BatchTypesOK' /\ ImportTypesOK'
  BY <1>1, OwnPart DEF StateTypes, BatchTypesOK, ImportTypesOK, PayoutsInv, PayoutInv, ImportsInv, ImportInv, ImportTypes
<1>4. TicketTypes'
  BY <1>1, OwnPart DEF StateTypes, TicketTypes, EscalationsInv, SupportInv, SupportTypes
<1>5. ReviewTypes' /\ PolicyTypes'
  BY <1>1, OwnPart DEF StateTypes, ReviewTypes, PolicyTypes, reviewVars, ReviewsInv, ReviewInv, RulesInv, PolicyInv
<1>6. AuditTypes'
  <2>1. chain' \in Seq(AuditEvent)
    BY <1>1, OwnPart DEF StateTypes, AuditTypes, auditVars, ChainInv, AuditInv
  <2>2. VerifyChain \in BOOLEAN
    BY DEF VerifyChain
  <2>3. AuditNext => evidence' = evidence \/ evidence' = VerifyChain
    BY DEF AuditNext, AppendEvent, AuditReadsLatest, AuditAppends, GenerateEvidenceReport,
           ComplianceRestart, complianceVars, auditVars
  <2>4. UNCHANGED vars => evidence' = evidence
    BY DEF vars, complianceVars
  <2>5. part = "audit" => AuditNext \/ UNCHANGED vars
    BY DEF Next
  <2>6. evidence' = evidence \/ evidence' = VerifyChain
    BY <2>3, <2>4, <2>5, OwnPart DEF auditVars
  <2> QED BY <2>1, <2>2, <2>6 DEF StateTypes, AuditTypes
<1>7. DeliveryTypes'
  <2>1. part = "deliveries" => DeliveriesNext \/ UNCHANGED vars
    BY DEF Next
  <2>2. UNCHANGED vars => UNCHANGED <<retries, deadLetters, receipts>>
    BY DEF vars, notificationVars
  <2>3. CASE UNCHANGED <<retries, deadLetters, receipts>>
    BY <2>3 DEF StateTypes, DeliveryTypes
  <2>4. CASE DeliveriesNext
    BY <2>4, DeliveryKeepsTypes DEF StateTypes
  <2> QED BY <2>1, <2>2, <2>3, <2>4, OwnPart
<1>8. StatementTypes' /\ LedgerTypes' /\ InterventionTypes'
  <2>1. part = "statements" => StatementsNext \/ UNCHANGED vars
    BY DEF Next
  <2>2. part = "ledger" => LedgerNext \/ UNCHANGED vars
    BY DEF Next
  <2>3. part = "interventions" => InterventionNext \/ UNCHANGED vars
    BY DEF Next
  <2>4. UNCHANGED vars => UNCHANGED <<statements, journal, interventions>>
    BY DEF vars, settlementVars, supportVars
  <2>5. StatementTypes'
    <3>1. CASE part = "statements" /\ StatementsNext
      <4>1. CallsIn(StatementCall)
        BY <3>1 DEF CallsOf
      <4> QED BY <3>1, <4>1, StatementKeepsTypes DEF StateTypes
    <3>2. CASE UNCHANGED statements
      BY <3>2 DEF StateTypes, StatementTypes
    <3> QED BY <2>1, <2>4, <3>1, <3>2, OwnPart
  <2>6. LedgerTypes'
    <3>1. LedgerNext => \E lines \in JournalLines : journal' = journal \cup {lines}
      BY DEF LedgerNext, PostJournalEntry
    <3> QED BY <2>2, <2>4, <3>1, OwnPart DEF StateTypes, LedgerTypes
  <2>7. InterventionTypes'
    <3>1. InterventionNext => \E a \in ActionTypes : \E st : interventions' \in
                                 {interventions, interventions \cup {[actionType |-> a, status |-> st]}}
      BY DEF InterventionNext, Intervene
    <3> QED BY <2>3, <2>4, <3>1, OwnPart DEF StateTypes, InterventionTypes
  <2> QED BY <2>5, <2>6, <2>7
<1>9. CallsIn(CallsOf)'
  <2> USE DEF CallsIn
  <2>1. CASE UNCHANGED vars
    BY <1>1, <2>1 DEF vars, handlerVars, CallsOf
  <2>2. CASE part = "fanout"
    BY <1>1, <2>2 DEF CallsOf, FanoutsInv, FanoutInv
  <2>3. CASE part = "payouts"
    BY <1>1, <2>3 DEF CallsOf, PayoutsInv, PayoutInv
  <2>4. CASE part = "imports"
    BY <1>1, <2>4 DEF CallsOf, ImportsInv, ImportInv
  <2>5. CASE part = "support"
    BY <1>1, <2>5 DEF CallsOf, EscalationsInv, SupportInv
  <2>6. CASE part = "audit"
    BY <1>1, <2>6 DEF CallsOf, ChainInv, AuditInv
  <2>7. CASE part = "review"
    BY <1>1, <2>7 DEF CallsOf, ReviewsInv, ReviewInv
  <2>8. CASE part = "policy"
    BY <1>1, <2>8 DEF CallsOf, RulesInv, PolicyInv
  <2>9. CASE part = "statements" /\ StatementsNext
    <3>1. CallsIn(StatementCall)'
      BY <2>9, StatementKeepsTypes DEF CallsOf, StateTypes
    <3>2. CallsOf' = StatementCall
      BY <1>1, <2>9 DEF CallsOf
    <3> QED BY <3>1, <3>2
  <2>10. CASE DeliveriesNext \/ ReconciliationNext \/ LedgerNext \/ InterventionNext
    <3>1. call' = call
      BY <2>10, DeliveryKeepsTypes DEF StateTypes, ReconciliationNext, Reconcile, LedgerNext,
         PostJournalEntry, InterventionNext, Intervene, handlerVars
    <3>2. CallsOf' = CallsOf
      BY <1>1 DEF CallsOf
    <3> QED BY <3>1, <3>2
  <2> QED BY <2>1, <2>2, <2>3, <2>4, <2>5, <2>6, <2>7, <2>8, <2>9, <2>10 DEF Next
<1> QED BY <1>2, <1>3, <1>4, <1>5, <1>6, <1>7, <1>8, <1>9 DEF StateTypes

\* NotificationRetryService, PayoutStatementService, LedgerPostingService and the
\* services above: whatever their store holds keeps its shape, no retry is named
\* past the cap and no delay is shorter than the first or longer than the cap.
THEOREM BackOfficeTypesKept == Spec => []BackOfficeTypeOK
<1> DEFINE Inv == /\ FanoutsInv /\ PayoutsInv /\ ImportsInv /\ EscalationsInv
                  /\ ChainInv /\ ReviewsInv /\ RulesInv
                  /\ CallsIn(CallsOf) /\ StateTypes
<1>1. Init => Inv
  BY InitFanouts, InitPayouts, InitImports, InitEscalations, InitChain, InitReviews, InitRules, InitTypes
<1>2. Inv /\ [Next]_vars => Inv'
  <2> SUFFICES ASSUME Inv, [Next]_vars PROVE Inv'
    OBVIOUS
  <2>1. FanoutsInv' /\ PayoutsInv' /\ ImportsInv' /\ EscalationsInv' /\ ChainInv' /\ ReviewsInv' /\ RulesInv'
    BY NextFanouts, NextPayouts, NextImports, NextEscalations, NextChain, NextReviews, NextRules
  <2> QED BY <2>1, NextTypes
<1>3. Inv => BackOfficeTypeOK
  <2> SUFFICES ASSUME CallsIn(CallsOf), StateTypes PROVE BackOfficeTypeOK
    OBVIOUS
  <2> USE DEF StateTypes, CallsIn, CallsOf
  <2>1. ASSUME part \in {"fanout", "deliveries"} PROVE NotificationsTypeOK
    <3>1. \A s \in Slots : call[s] # Idle => call[s] \in FanoutBusy
      BY <2>1
    <3>2. \A r \in retries : r.attempt \in 1..maxRetries
      BY DEF DeliveryTypes, maxRetries
    <3> QED BY <3>1, <3>2 DEF NotificationsTypeOK, QueueTypes, DeliveryTypes, FanoutBusy
  <2>2. ASSUME part \in {"payouts", "imports", "statements", "reconciliation", "ledger"}
        PROVE  SettlementTypeOK
    <3>1. \A s \in Slots : call[s] # Idle => call[s] \in SettlementCall
      BY <2>2 DEF SettlementCall
    <3>2. \A r \in Runs : \A i \in DOMAIN batches[r] : batches[r][i] \in Batch
      BY DEF BatchTypesOK
    <3> QED BY <3>1, <3>2 DEF SettlementTypeOK, BatchTypesOK, ImportTypesOK, StatementTypes, LedgerTypes
  <2>3. ASSUME part \in {"support", "interventions"} PROVE SupportTypeOK
    <3>1. \A s \in Slots : call[s] # Idle => call[s] \in SlaCall
      BY <2>3 DEF SlaBusy
    <3> QED BY <3>1 DEF SupportTypeOK, TicketTypes, InterventionTypes
  <2>4. ASSUME part \in {"audit", "review", "policy"} PROVE ComplianceTypeOK
    <3>1. \A s \in Slots : call[s] # Idle => call[s] \in ComplianceCall
      BY <2>4 DEF ComplianceCall
    <3> QED BY <3>1 DEF ComplianceTypeOK, AuditTypes, ReviewTypes, PolicyTypes
  <2> QED BY <2>1, <2>2, <2>3, <2>4 DEF BackOfficeTypeOK
<1> QED BY <1>1, <1>2, <1>3, PTL DEF Spec

-----------------------------------------------------------------------------
(* Reconciliation.  A total is a fold in no fixed order, so what it is worth  *)
(* is shown first: a table of partial sums, one for every subset, that each   *)
(* element enters once.  Totals then add, follow an injection, and are        *)
(* bounded by the bound of their terms.                                       *)

LEMMA LeastNumber == ASSUME NEW A \in SUBSET Nat, A # {} PROVE \E n \in A : \A m \in A : n <= m
<1> DEFINE Lower == {ss \in Nat \X Nat : ss[1] < ss[2]}
<1>1. IsWellFoundedOn(Lower, Nat)
  BY NatLessThanWellFounded DEF OpToRel
<1>2. PICK n \in A : \A m \in A : <<m, n>> \notin Lower
  <2> HIDE DEF Lower
  <2> QED BY <1>1, WFMin
<1>3. \A m \in A : ~(m < n)
  BY <1>2
<1> QED BY <1>3

\* A family of subsets of a finite set that is closed under adding an element.
LEMMA FiniteInduct ==
    ASSUME NEW S, IsFiniteSet(S), NEW B, {} \in B,
           \A T \in SUBSET S : \A x \in S \ T : T \in B => T \cup {x} \in B
    PROVE  S \in B
<1> SUFFICES ASSUME S \notin B PROVE FALSE
  OBVIOUS
<1> DEFINE Bad == (SUBSET S) \ B
           Sizes == {Cardinality(T) : T \in Bad}
<1>1. \A T \in SUBSET S : IsFiniteSet(T) /\ Cardinality(T) \in Nat
  BY FS_Subset, FS_CardinalityType
<1>2. Sizes \in SUBSET Nat /\ Sizes # {}
  BY <1>1
<1>3. PICK n \in Sizes : \A m \in Sizes : n <= m
  <2> HIDE DEF Sizes
  <2> QED BY <1>2, LeastNumber
<1>4. PICK T \in Bad : n = Cardinality(T)
  BY <1>3
<1>5. PICK x \in T : TRUE
  BY <1>4
<1>6. T \ {x} \in SUBSET S /\ x \in S \ (T \ {x}) /\ (T \ {x}) \cup {x} = T
  BY <1>4, <1>5
<1>7. Cardinality(T \ {x}) = n - 1 /\ n \in Nat
  BY <1>1, <1>4, <1>5, FS_RemoveElement
<1>8. T \ {x} \in B
  <2> SUFFICES ASSUME T \ {x} \notin B PROVE FALSE
    OBVIOUS
  <2>1. Cardinality(T \ {x}) \in Sizes
    BY <1>6
  <2>2. n <= n - 1
    BY <1>3, <1>7, <2>1
  <2> QED BY <1>7, <2>2
<1> QED BY <1>4, <1>6, <1>8

\* g sums f over every subset of S.
Adds(f, S, g) ==
    /\ g \in [SUBSET S -> Int] /\ g[{}] = 0
    /\ \A T \in SUBSET S : \A x \in T : g[T] = f[x] + g[T \ {x}]

LEMMA AddsExists == ASSUME NEW S, IsFiniteSet(S), NEW f \in [S -> Int] PROVE \E g : Adds(f, S, g)
<1> DEFINE B == {T \in SUBSET S : \E g : Adds(f, T, g)}
<1>1. {} \in B
  <2> DEFINE g == [T \in SUBSET {} |-> 0]
  <2>1. Adds(f, {}, g)
    BY DEF Adds
  <2> QED BY <2>1
<1>2. ASSUME NEW T \in SUBSET S, NEW x \in S \ T, T \in B PROVE T \cup {x} \in B
  <2>1. PICK h : Adds(f, T, h)
    BY <1>2
  <2> DEFINE g == [U \in SUBSET (T \cup {x}) |-> IF x \in U THEN f[x] + h[U \ {x}] ELSE h[U]]
  <2>2. f[x] \in Int /\ \A U \in SUBSET T : h[U] \in Int
    BY <2>1 DEF Adds
  <2>3. \A U \in SUBSET (T \cup {x}) : U \ {x} \in SUBSET T /\ (x \notin U => U \in SUBSET T)
    OBVIOUS
  <2>4. g \in [SUBSET (T \cup {x}) -> Int]
    BY <2>2, <2>3
  <2>5. g[{}] = 0
    BY <2>1 DEF Adds
  <2>6. ASSUME NEW U \in SUBSET (T \cup {x}), NEW y \in U PROVE g[U] = f[y] + g[U \ {y}]
    <3>1. CASE y = x
      <4>1. g[U] = f[x] + h[U \ {x}] /\ g[U \ {x}] = h[U \ {x}]
        BY <3>1
      <4> QED BY <3>1, <4>1
    <3>2. CASE y # x /\ x \in U
      <4>1. g[U] = f[x] + h[U \ {x}] /\ g[U \ {y}] = f[x] + h[(U \ {y}) \ {x}]
        BY <3>2
      <4>2. h[U \ {x}] = f[y] + h[(U \ {x}) \ {y}]
        BY <2>1, <2>3, <3>2 DEF Adds
      <4>3. (U \ {x}) \ {y} = (U \ {y}) \ {x} /\ (U \ {y}) \ {x} \in SUBSET T
        OBVIOUS
      <4>4. f[y] \in Int /\ h[(U \ {y}) \ {x}] \in Int
        BY <2>2, <3>2, <4>3
      <4>5. h[U \ {x}] = f[y] + h[(U \ {y}) \ {x}]
        BY <4>2, <4>3
      <4>6. f[x] \in Int
        BY <2>2
      <4>7. \A i, j, k \in Int : i + (j + k) = j + (i + k)
        OBVIOUS
      <4>8. f[x] + (f[y] + h[(U \ {y}) \ {x}]) = f[y] + (f[x] + h[(U \ {y}) \ {x}])
        BY <4>4, <4>6, <4>7
      <4> HIDE DEF g
      <4> QED BY <4>1, <4>5, <4>8
    <3>3. CASE y # x /\ x \notin U
      <4>1. g[U] = h[U] /\ g[U \ {y}] = h[U \ {y}]
        BY <3>3
      <4>2. h[U] = f[y] + h[U \ {y}]
        BY <2>1, <2>3, <3>3 DEF Adds
      <4> QED BY <4>1, <4>2
    <3> QED BY <3>1, <3>2, <3>3
  <2>7. Adds(f, T \cup {x}, g)
    <3> HIDE DEF g
    <3> QED BY <2>4, <2>5, <2>6 DEF Adds
  <2> HIDE DEF g
  <2> QED BY <2>7
<1> HIDE DEF B
<1>3. S \in B
  BY <1>1, <1>2, FiniteInduct
<1> QED BY <1>3 DEF B

\* The sum the model takes, one element after another, is that sum.
LEMMA TotalIs ==
    ASSUME NEW S, IsFiniteSet(S), NEW f \in [S -> Int], NEW g, Adds(f, S, g)
    PROVE  Total(f) = g[S]
<1> DEFINE Pick(T) == CHOOSE x \in T : TRUE
           Step(h) == [T \in SUBSET S |-> IF T = {} THEN 0 ELSE f[Pick(T)] + h[T \ {Pick(T)}]]
           iter == CHOOSE h : h = Step(h)
<1>1. Total(f) = iter[S]
  BY DEF Total, MapThenSumSet, MapThenFoldSet
<1>2. \A T \in SUBSET S : T # {} => Pick(T) \in T
  OBVIOUS
<1>3. g = Step(g)
  <2>1. \A T \in SUBSET S : g[T] = IF T = {} THEN 0 ELSE f[Pick(T)] + g[T \ {Pick(T)}]
    <3> HIDE DEF Pick
    <3> QED BY <1>2 DEF Adds
  <2>2. g = [T \in SUBSET S |-> g[T]]
    BY DEF Adds
  <2> HIDE DEF Pick
  <2> QED BY <2>1, <2>2
<1>4. iter = Step(iter)
  <2> HIDE DEF Step
  <2> QED BY <1>3
<1>5. \A T \in SUBSET S : iter[T] = IF T = {} THEN 0 ELSE f[Pick(T)] + iter[T \ {Pick(T)}]
  <2> HIDE DEF Pick, iter
  <2> QED BY <1>4
<1> DEFINE Bad == {T \in SUBSET S : iter[T] # g[T]}
<1> HIDE DEF Pick, iter, Step
<1>6. Bad = {}
  <2> SUFFICES ASSUME Bad # {} PROVE FALSE
    OBVIOUS
  <2> DEFINE Sizes == {Cardinality(T) : T \in Bad}
  <2>1. \A T \in SUBSET S : IsFiniteSet(T) /\ Cardinality(T) \in Nat
    BY FS_Subset, FS_CardinalityType
  <2>2. Sizes \in SUBSET Nat /\ Sizes # {}
    BY <2>1
  <2>3. PICK n \in Sizes : \A m \in Sizes : n <= m
    <3> HIDE DEF Sizes
    <3> QED BY <2>2, LeastNumber
  <2>4. PICK T \in Bad : n = Cardinality(T)
    BY <2>3
  <2>5. T # {}
    BY <2>4, <1>5 DEF Adds
  <2>6. T \in SUBSET S /\ Pick(T) \in T
    BY <1>2, <2>4, <2>5
  <2>7. Cardinality(T \ {Pick(T)}) = n - 1 /\ n \in Nat
    BY <2>1, <2>4, <2>6, FS_RemoveElement
  <2>8. T \ {Pick(T)} \notin Bad
    <3> SUFFICES ASSUME T \ {Pick(T)} \in Bad PROVE FALSE
      OBVIOUS
    <3>1. Cardinality(T \ {Pick(T)}) \in Sizes
      OBVIOUS
    <3>2. n <= n - 1
      <4> HIDE DEF Sizes, Bad
      <4> QED BY <2>3, <2>7, <3>1
    <3> QED BY <2>7, <3>2
  <2>9. iter[T \ {Pick(T)}] = g[T \ {Pick(T)}]
    BY <2>6, <2>8
  <2>10. g[T] = f[Pick(T)] + g[T \ {Pick(T)}]
    BY <2>6 DEF Adds
  <2>11. iter[T] = f[Pick(T)] + iter[T \ {Pick(T)}]
    BY <1>5, <2>5, <2>6
  <2> QED BY <2>4, <2>9, <2>10, <2>11
<1> QED BY <1>1, <1>6

\* Every finite table of integers has such a sum, and Total is it.
LEMMA TotalAdds ==
    ASSUME NEW S, IsFiniteSet(S), NEW f \in [S -> Int]
    PROVE  \E g : Adds(f, S, g) /\ Total(f) = g[S]
BY AddsExists, TotalIs

LEMMA TotalInt == ASSUME NEW S, IsFiniteSet(S), NEW f \in [S -> Int] PROVE Total(f) \in Int
<1>1. PICK g : Adds(f, S, g) /\ Total(f) = g[S]
  BY TotalAdds
<1>2. g \in [SUBSET S -> Int] /\ S \in SUBSET S
  BY <1>1 DEF Adds
<1> QED BY <1>1, <1>2

LEMMA SumsAdd ==
    ASSUME NEW S, IsFiniteSet(S), NEW f \in [S -> Int], NEW h \in [S -> Int]
    PROVE  Total([x \in S |-> f[x] + h[x]]) = Total(f) + Total(h)
<1>1. PICK a : Adds(f, S, a) /\ Total(f) = a[S]
  BY TotalAdds
<1>2. PICK b : Adds(h, S, b) /\ Total(h) = b[S]
  BY TotalAdds
<1> DEFINE both == [x \in S |-> f[x] + h[x]]
           c == [T \in SUBSET S |-> a[T] + b[T]]
<1>3. both \in [S -> Int]
  OBVIOUS
<1>4. c \in [SUBSET S -> Int] /\ c[{}] = 0
  BY <1>1, <1>2 DEF Adds
<1>5. ASSUME NEW T \in SUBSET S, NEW x \in T PROVE c[T] = both[x] + c[T \ {x}]
  <2>1. a[T] = f[x] + a[T \ {x}] /\ b[T] = h[x] + b[T \ {x}]
    BY <1>1, <1>2 DEF Adds
  <2>2. f[x] \in Int /\ h[x] \in Int /\ a[T \ {x}] \in Int /\ b[T \ {x}] \in Int
    BY <1>1, <1>2 DEF Adds
  <2>3. \A i, j, k, l \in Int : (i + j) + (k + l) = (i + k) + (j + l)
    OBVIOUS
  <2>4. (f[x] + a[T \ {x}]) + (h[x] + b[T \ {x}]) = (f[x] + h[x]) + (a[T \ {x}] + b[T \ {x}])
    BY <2>2, <2>3
  <2>5. c[T] = a[T] + b[T] /\ c[T \ {x}] = a[T \ {x}] + b[T \ {x}] /\ both[x] = f[x] + h[x]
    OBVIOUS
  <2> HIDE DEF c, both
  <2> QED BY <2>1, <2>4, <2>5
<1>6. c[S] = a[S] + b[S]
  OBVIOUS
<1> HIDE DEF both, c
<1>7. Adds(both, S, c)
  BY <1>4, <1>5 DEF Adds
<1>8. Total(both) = c[S]
  BY <1>3, <1>7, TotalIs
<1> QED BY <1>1, <1>2, <1>6, <1>8 DEF both

\* Summing along an injection: what it does not reach is 0 and does not count.
LEMMA Reindexed ==
    ASSUME NEW S, NEW T, IsFiniteSet(S), IsFiniteSet(T), NEW f \in [T -> Int], NEW b \in [S -> T],
           \A x, y \in S : b[x] = b[y] => x = y,
           \A z \in T : (\A x \in S : b[x] # z) => f[z] = 0
    PROVE  Total([x \in S |-> f[b[x]]]) = Total(f)
<1>1. PICK g : Adds(f, T, g) /\ Total(f) = g[T]
  BY TotalAdds
<1> DEFINE along == [x \in S |-> f[b[x]]]
           Image(U) == {b[x] : x \in U}
           h == [U \in SUBSET S |-> g[Image(U)]]
<1>2. along \in [S -> Int]
  OBVIOUS
<1>3. \A U \in SUBSET S : Image(U) \in SUBSET T
  OBVIOUS
<1>4. h \in [SUBSET S -> Int] /\ h[{}] = 0
  <2>1. Image({}) = {}
    OBVIOUS
  <2>2. g \in [SUBSET T -> Int] /\ g[{}] = 0
    BY <1>1 DEF Adds
  <2>3. \A U \in SUBSET S : g[Image(U)] \in Int
    <3> HIDE DEF Image
    <3> QED BY <1>3, <2>2
  <2>4. g[Image({})] = 0
    <3> HIDE DEF Image
    <3> QED BY <2>1, <2>2
  <2> HIDE DEF Image
  <2> QED BY <2>3, <2>4
<1>5. ASSUME NEW U \in SUBSET S, NEW x \in U PROVE h[U] = along[x] + h[U \ {x}]
  <2>1. b[x] \in Image(U)
    OBVIOUS
  <2>2. Image(U) \ {b[x]} = Image(U \ {x})
    OBVIOUS
  <2>3. g[Image(U)] = f[b[x]] + g[Image(U) \ {b[x]}]
    <3> HIDE DEF Image
    <3> QED BY <1>1, <1>3, <2>1 DEF Adds
  <2>4. h[U] = g[Image(U)] /\ h[U \ {x}] = g[Image(U \ {x})] /\ along[x] = f[b[x]]
    OBVIOUS
  <2> HIDE DEF h, along, Image
  <2> QED BY <2>2, <2>3, <2>4
<1>6. h[S] = g[Image(S)] /\ Image(S) \in SUBSET T
  BY <1>3
<1>7. \A z \in T \ Image(S) : f[z] = 0
  OBVIOUS
<1>8. along = [x \in S |-> f[b[x]]]
  OBVIOUS
<1> HIDE DEF along, h, Image
<1>9. Adds(along, S, h)
  BY <1>4, <1>5 DEF Adds
<1>10. Total(along) = g[Image(S)]
  BY <1>2, <1>6, <1>9, TotalIs
<1> DEFINE Rest == T \ Image(S)
           B == {V \in SUBSET Rest : g[Image(S) \cup V] = g[Image(S)]}
<1>11. Rest \in B
  <2>1. {} \in B
    <3>1. Image(S) \cup {} = Image(S)
      OBVIOUS
    <3> QED BY <3>1
  <2>2. ASSUME NEW V \in SUBSET Rest, NEW z \in Rest \ V, V \in B PROVE V \cup {z} \in B
    <3>1. Image(S) \cup (V \cup {z}) \in SUBSET T /\ z \in Image(S) \cup (V \cup {z})
      BY <1>6
    <3>2. (Image(S) \cup (V \cup {z})) \ {z} = Image(S) \cup V
      OBVIOUS
    <3> DEFINE W == Image(S) \cup (V \cup {z})
    <3>7. g[W] = f[z] + g[W \ {z}]
      <4> HIDE DEF W
      <4>1. W \in SUBSET T /\ z \in W
        BY <3>1 DEF W
      <4> QED BY <1>1, <4>1 DEF Adds
    <3>3. g[Image(S) \cup (V \cup {z})] = f[z] + g[Image(S) \cup V]
      BY <3>2, <3>7
    <3>4. f[z] = 0
      BY <1>7
    <3>5. g[Image(S)] \in Int /\ g[Image(S) \cup V] = g[Image(S)]
      BY <1>1, <1>6, <2>2 DEF Adds
    <3>6. g[Image(S) \cup (V \cup {z})] = g[Image(S)]
      BY <3>3, <3>4, <3>5
    <3> QED BY <3>6
  <2>3. IsFiniteSet(Rest)
    BY FS_Difference
  <2> HIDE DEF B, Rest
  <2> QED BY <2>1, <2>2, <2>3, FiniteInduct
<1>12. Image(S) \cup Rest = T
  BY <1>6
<1>13. g[Image(S) \cup Rest] = g[Image(S)]
  BY <1>11
<1> HIDE DEF Rest, B
<1> QED BY <1>1, <1>8, <1>10, <1>12, <1>13

LEMMA Widened ==
    ASSUME NEW x \in Int, NEW y \in Int, NEW t \in Nat, NEW n \in Nat,
           x <= t, 0 - t <= x, y <= t * n, 0 - (t * n) <= y
    PROVE  x + y <= t * (n + 1) /\ 0 - (t * (n + 1)) <= x + y
<1>1. t * (n + 1) = t * n + t /\ t * n \in Int
  OBVIOUS
<1> DEFINE p == t * n
<1>2. p \in Int /\ t * (n + 1) = p + t /\ y <= p /\ 0 - p <= y
  BY <1>1
<1> HIDE DEF p
<1> QED BY <1>2

LEMMA TotalBounded ==
    ASSUME NEW S, IsFiniteSet(S), NEW f \in [S -> Int], NEW t \in Nat,
           \A x \in S : f[x] <= t /\ 0 - t <= f[x]
    PROVE  Total(f) <= t * Cardinality(S) /\ 0 - (t * Cardinality(S)) <= Total(f)
<1>1. PICK g : Adds(f, S, g) /\ Total(f) = g[S]
  BY TotalAdds
<1> DEFINE Within(T) == g[T] <= t * Cardinality(T) /\ 0 - (t * Cardinality(T)) <= g[T]
           B == {T \in SUBSET S : Within(T)}
<1>2. {} \in B
  <2>1. g[{}] = 0 /\ Cardinality({}) = 0 /\ t * 0 = 0
    BY <1>1, FS_EmptySet DEF Adds
  <2> QED BY <2>1
<1>3. ASSUME NEW T \in SUBSET S, NEW x \in S \ T, T \in B PROVE T \cup {x} \in B
  <2>1. IsFiniteSet(T) /\ Cardinality(T) \in Nat
    BY FS_Subset, FS_CardinalityType
  <2>2. Cardinality(T \cup {x}) = Cardinality(T) + 1
    BY <2>1, FS_AddElement
  <2>3. T \cup {x} \in SUBSET S /\ (T \cup {x}) \ {x} = T
    OBVIOUS
  <2>4. g[T \cup {x}] = f[x] + g[T] /\ g[T] \in Int
    BY <1>1, <2>3 DEF Adds
  <2>5. Within(T)
    BY <1>3
  <2>6. Within(T \cup {x})
    BY <2>1, <2>2, <2>4, <2>5, Widened
  <2> HIDE DEF Within
  <2> QED BY <2>3, <2>6
<1>4. S \in B
  <2> HIDE DEF B
  <2> QED BY <1>2, <1>3, FiniteInduct
<1> QED BY <1>1, <1>4

\* The entities of a list of records.
Listed(records) == {records[i].entity : i \in DOMAIN records}

LEMMA GreatestNumber ==
    ASSUME NEW n \in Nat, NEW A \in SUBSET (1..n), A # {}
    PROVE  \E m \in A : \A i \in A : m >= i
<1> DEFINE Gaps == {n - i : i \in A}
<1>1. Gaps \in SUBSET Nat /\ Gaps # {}
  <2>1. \A i \in A : n - i \in Nat
    OBVIOUS
  <2> QED BY <2>1
<1>2. PICK d \in Gaps : \A m \in Gaps : d <= m
  <2> HIDE DEF Gaps
  <2> QED BY <1>1, LeastNumber
<1>3. PICK m \in A : d = n - m
  BY <1>2
<1>4. ASSUME NEW i \in A PROVE m >= i
  <2>1. n - i \in Gaps
    OBVIOUS
  <2>2. n - m <= n - i /\ m \in Nat /\ i \in Nat
    <3> HIDE DEF Gaps
    <3> QED BY <1>2, <1>3, <2>1
  <2> QED BY <2>2
<1> QED BY <1>4

LEMMA TupleIsSeq == ASSUME NEW S, NEW n \in Nat, NEW s \in [1..n -> S] PROVE s \in Seq(S) /\ Len(s) = n
<1>1. s \in Seq(S)
  BY SeqDef
<1>2. DOMAIN s = 1..n
  OBVIOUS
<1>3. Len(s) \in Nat /\ DOMAIN s = 1..Len(s)
  BY <1>1, LenProperties
<1> QED BY <1>1, <1>2, <1>3

LEMMA RecordsTyped ==
    ASSUME NEW records \in ReconRecords
    PROVE  /\ \E n \in Nat : DOMAIN records = 1..n
           /\ Len(records) \in Nat /\ DOMAIN records = 1..Len(records)
           /\ IsFiniteSet(DOMAIN records) /\ Cardinality(DOMAIN records) = Len(records)
           /\ \A i \in DOMAIN records : records[i].amount \in Int
           /\ IsFiniteSet(Listed(records))
           /\ [i \in DOMAIN records |-> records[i].entity] \in Surjection(DOMAIN records, Listed(records))
<1>1. PICK n \in 0..MaxRecords : records \in [1..n -> [entity : ReconEntities, amount : ReconAmounts]]
  BY DEF ReconRecords
<1>2. n \in Nat /\ DOMAIN records = 1..n
  BY <1>1, ReconciliationAssumption
<1>3. records \in Seq([entity : ReconEntities, amount : ReconAmounts])
  BY <1>1, <1>2, TupleIsSeq
<1>4. Len(records) = n
  BY <1>1, <1>2, TupleIsSeq
<1>5. IsFiniteSet(1..n) /\ Cardinality(1..n) = n
  BY <1>2, FS_Interval
<1>6. \A i \in DOMAIN records : records[i].amount \in Int
  BY <1>1, <1>2, ReconciliationAssumption
<1> DEFINE b == [i \in DOMAIN records |-> records[i].entity]
<1>7. b \in Surjection(DOMAIN records, Listed(records))
  BY DEF Surjection, Listed
<1>8. IsFiniteSet(DOMAIN records)
  BY <1>2, <1>5
<1>9. IsFiniteSet(Listed(records))
  <2> HIDE DEF b
  <2> QED BY <1>7, <1>8, FS_Surjection
<1> QED BY <1>2, <1>4, <1>5, <1>6, <1>7, <1>9

\* The record of an entity that counts is one of its records.
LEMMA LastRecord ==
    ASSUME NEW records \in ReconRecords, NEW e \in Listed(records)
    PROVE  /\ Max({i \in DOMAIN records : records[i].entity = e}) \in DOMAIN records
           /\ records[Max({i \in DOMAIN records : records[i].entity = e})].entity = e
<1> DEFINE A == {i \in DOMAIN records : records[i].entity = e}
<1>1. PICK n \in Nat : DOMAIN records = 1..n
  BY RecordsTyped
<1>2. A \in SUBSET (1..n) /\ A # {}
  BY <1>1 DEF Listed
<1>3. PICK m \in A : \A i \in A : m >= i
  <2> HIDE DEF A
  <2> QED BY <1>2, GreatestNumber
<1>4. Max(A) \in A
  <2> HIDE DEF A
  <2> QED BY <1>3 DEF Max
<1> QED BY <1>4

LEMMA AmountsTyped ==
    ASSUME NEW records \in ReconRecords
    PROVE  AmountsOf(records) \in [Listed(records) -> Int] /\ IsFiniteSet(Listed(records))
<1>1. \A e \in Listed(records) :
          records[Max({i \in DOMAIN records : records[i].entity = e})].amount \in Int
  BY LastRecord, RecordsTyped
<1>2. IsFiniteSet(Listed(records))
  BY RecordsTyped
<1>3. AmountsOf(records) = [e \in Listed(records) |->
          records[Max({i \in DOMAIN records : records[i].entity = e})].amount]
  BY DEF AmountsOf, Listed
<1> QED BY <1>1, <1>2, <1>3

\* Without a repeated entity nothing is dropped from a side's total.
LEMMA DistinctTotal ==
    ASSUME NEW records \in ReconRecords, Cardinality(Listed(records)) = Len(records)
    PROVE  Total(AmountsOf(records)) = Total([i \in DOMAIN records |-> records[i].amount])
<1> DEFINE b == [i \in DOMAIN records |-> records[i].entity]
           f == AmountsOf(records)
<1>1. b \in Surjection(DOMAIN records, Listed(records)) /\ IsFiniteSet(DOMAIN records)
      /\ Cardinality(DOMAIN records) = Len(records)
  BY RecordsTyped
<1>2. b \in Injection(DOMAIN records, Listed(records))
  <2> HIDE DEF b
  <2> QED BY <1>1, FS_SurjSameCardinalityImpliesInj
<1>3. \A i, j \in DOMAIN records : records[i].entity = records[j].entity => i = j
  <2>1. \A i, j \in DOMAIN records : b[i] = b[j] => i = j
    <3> HIDE DEF b
    <3> QED BY <1>2 DEF Injection, IsInjective
  <2> QED BY <2>1
<1>4. \A e \in Listed(records) : \E i \in DOMAIN records : b[i] = e
  BY DEF Listed
<1>5. b \in [DOMAIN records -> Listed(records)]
  BY DEF Listed
<1>6. ASSUME NEW i \in DOMAIN records PROVE f[b[i]] = records[i].amount
  <2>1. b[i] \in Listed(records) /\ b[i] = records[i].entity
    BY DEF Listed
  <2> DEFINE j == Max({k \in DOMAIN records : records[k].entity = b[i]})
  <2>2. j \in DOMAIN records /\ records[j].entity = b[i]
    <3> HIDE DEF b
    <3> QED BY <2>1, LastRecord
  <2>3. j = i
    <3> HIDE DEF j
    <3> QED BY <1>3, <2>1, <2>2
  <2>4. f[b[i]] = records[j].amount
    <3> HIDE DEF b
    <3> QED BY <2>1 DEF AmountsOf, Listed
  <2> HIDE DEF j, f, b
  <2> QED BY <2>3, <2>4
<1>7. [i \in DOMAIN records |-> f[b[i]]] = [i \in DOMAIN records |-> records[i].amount]
  <2> HIDE DEF f, b
  <2> QED BY <1>6
<1>8. \A i, j \in DOMAIN records : b[i] = b[j] => i = j
  BY <1>3
<1>9. f \in [Listed(records) -> Int] /\ IsFiniteSet(Listed(records))
  BY AmountsTyped
<1> HIDE DEF f, b
<1>11. \A z \in Listed(records) : (\A i \in DOMAIN records : b[i] # z) => f[z] = 0
  BY <1>4
<1> DEFINE D == DOMAIN records
           L == Listed(records)
<1>12. /\ IsFiniteSet(D) /\ IsFiniteSet(L) /\ f \in [L -> Int] /\ b \in [D -> L]
       /\ \A x, y \in D : b[x] = b[y] => x = y
       /\ \A z \in L : (\A x \in D : b[x] # z) => f[z] = 0
  BY <1>1, <1>5, <1>8, <1>9, <1>11
<1>10. Total([i \in DOMAIN records |-> f[b[i]]]) = Total(f)
    <2>1. Total([x \in D |-> f[b[x]]]) = Total(f)
    <3> HIDE DEF D, L
    <3> QED BY <1>12, Reindexed
  <2> QED BY <2>1
<1> QED BY <1>7, <1>10 DEF f
LEMMA ZeroExtended ==
    ASSUME NEW T, IsFiniteSet(T), NEW S \in SUBSET T, NEW f \in [S -> Int]
    PROVE  Total([e \in T |-> IF e \in S THEN f[e] ELSE 0]) = Total(f)
<1> DEFINE wide == [e \in T |-> IF e \in S THEN f[e] ELSE 0]
           b == [e \in S |-> e]
<1>1. wide \in [T -> Int] /\ b \in [S -> T] /\ IsFiniteSet(S)
  BY FS_Subset
<1>2. \A e \in S : b[e] = e
  OBVIOUS
<1>3. \A z \in T : (\A x \in S : b[x] # z) => wide[z] = 0
  OBVIOUS
<1>4. \A e \in S : wide[b[e]] = f[e]
  OBVIOUS
<1>7. \A x, y \in S : b[x] = b[y] => x = y
  BY <1>2
<1> HIDE DEF wide, b
<1>5. Total([e \in S |-> wide[b[e]]]) = Total(wide)
  BY <1>1, <1>3, <1>7, Reindexed
<1>6. [e \in S |-> wide[b[e]]] = f
  BY <1>4
<1> QED BY <1>5, <1>6 DEF wide

\* A difference is its entities above the tolerance and what the others leave.
LEMMA SplitTotal ==
    ASSUME NEW E, IsFiniteSet(E), NEW F \in SUBSET E, NEW v \in [E -> Int], NEW t \in Nat,
           \A e \in E \ F : v[e] <= t /\ 0 - t <= v[e]
    PROVE  /\ Total(v) - Total([e \in F |-> v[e]]) <= t * (Cardinality(E) - Cardinality(F))
           /\ 0 - (t * (Cardinality(E) - Cardinality(F))) <= Total(v) - Total([e \in F |-> v[e]])
           /\ Total(v) \in Int /\ Total([e \in F |-> v[e]]) \in Int
           /\ Cardinality(E) - Cardinality(F) \in Nat
<1> DEFINE G == E \ F
           f == [e \in F |-> v[e]]
           g == [e \in G |-> v[e]]
           wf == [e \in E |-> IF e \in F THEN f[e] ELSE 0]
           wg == [e \in E |-> IF e \in G THEN g[e] ELSE 0]
<1>1. f \in [F -> Int] /\ g \in [G -> Int] /\ G \in SUBSET E
  OBVIOUS
<1>2. wf \in [E -> Int] /\ wg \in [E -> Int]
  OBVIOUS
<1>3. Total(wf) = Total(f) /\ Total(wg) = Total(g)
  <2> HIDE DEF f, g, G
  <2> QED BY <1>1, ZeroExtended
<1>4. [e \in E |-> wf[e] + wg[e]] = v
  <2>1. \A e \in E : wf[e] + wg[e] = v[e]
    OBVIOUS
  <2> HIDE DEF wf, wg
  <2> QED BY <2>1
<1>5. IsFiniteSet(F) /\ IsFiniteSet(G)
  BY FS_Subset
<1>6. Cardinality(E) = Cardinality(F) + Cardinality(G)
      /\ Cardinality(E) \in Nat /\ Cardinality(F) \in Nat /\ Cardinality(G) \in Nat
  <2>1. F \cup G = E /\ F \cap G = {}
    OBVIOUS
  <2>2. Cardinality(F \cup G) = Cardinality(F) + Cardinality(G) - Cardinality(F \cap G)
    BY <1>5, FS_Union
  <2>3. Cardinality({}) = 0
    BY FS_EmptySet
  <2>4. Cardinality(E) \in Nat /\ Cardinality(F) \in Nat /\ Cardinality(G) \in Nat
    BY <1>5, FS_CardinalityType
  <2> HIDE DEF G
  <2>5. Cardinality(E) = Cardinality(F) + Cardinality(G) - 0
    BY <2>1, <2>2, <2>3
  <2> QED BY <2>4, <2>5
<1>7. \A e \in G : g[e] <= t /\ 0 - t <= g[e]
  OBVIOUS
<1> HIDE DEF f, g, G, wf, wg
<1>8. Total(v) = Total(wf) + Total(wg)
  BY <1>2, <1>4, SumsAdd
<1>9. Total(g) <= t * Cardinality(G) /\ 0 - (t * Cardinality(G)) <= Total(g)
  BY <1>1, <1>5, <1>7, TotalBounded
<1>10. Total(f) \in Int /\ Total(g) \in Int
  BY <1>1, <1>5, TotalInt
<1>11. Total(v) - Total(f) = Total(g) /\ Cardinality(E) - Cardinality(F) = Cardinality(G)
  BY <1>3, <1>6, <1>8, <1>10
<1>12. Total(v) \in Int
  BY <1>3, <1>8, <1>10
<1> QED BY <1>6, <1>9, <1>10, <1>11, <1>12 DEF f

\* The exception cases of two sides, one for each entity above the tolerance.
LEMMA CasesExplain ==
    ASSUME NEW A, NEW B, IsFiniteSet(A), IsFiniteSet(B),
           NEW X \in [A -> Int], NEW Y \in [B -> Int], NEW t \in Nat
    PROVE  LET C == ExceptionCases(X, Y, t)
           IN  /\ Abs(Total(Y) - Total(X) - Total([c \in C |-> c.variance]))
                    <= t * (Cardinality(A \cup B) - Cardinality(C))
               /\ \A c \in C : (c.reason = "AMOUNT_MISMATCH") <=> c.entity \in A \cap B
<1> DEFINE E == A \cup B
           C == ExceptionCases(X, Y, t)
           F == {e \in E : Abs(Variance(X, Y, e)) > t}
           v == [e \in E |-> Variance(X, Y, e)]
           f == [e \in F |-> v[e]]
           case(e) == [entity |-> e, variance |-> Variance(X, Y, e), reason |-> ResolveReason(X, Y, e)]
           wx == [e \in E |-> IF e \in A THEN X[e] ELSE 0]
           wy == [e \in E |-> IF e \in B THEN Y[e] ELSE 0]
<1>1. IsFiniteSet(E) /\ A \in SUBSET E /\ B \in SUBSET E /\ F \in SUBSET E
  BY FS_Union
<1>2. wx \in [E -> Int] /\ wy \in [E -> Int]
  OBVIOUS
<1>3. \A e \in E : v[e] = wy[e] - wx[e]
  BY DEF Variance
<1>4. v \in [E -> Int]
  <2>1. \A e \in E : v[e] \in Int
    <3> HIDE DEF wx, wy, v
    <3> QED BY <1>2, <1>3
  <2> QED BY <2>1
<1>5. Total(wx) = Total(X) /\ Total(wy) = Total(Y)
  <2> HIDE DEF E
  <2> QED BY <1>1, ZeroExtended
<1>6. [e \in E |-> wx[e] + v[e]] = wy
  <2>1. \A e \in E : wx[e] + v[e] = wy[e]
    <3> HIDE DEF wx, wy, v
    <3> QED BY <1>2, <1>3
  <2>2. wy = [e \in E |-> wy[e]]
    OBVIOUS
  <2> HIDE DEF wx, wy, v
  <2> QED BY <2>1, <2>2
<1>7. Total(wy) = Total(wx) + Total(v)
  <2> HIDE DEF wx, wy, v, E
  <2> QED BY <1>1, <1>2, <1>4, <1>6, SumsAdd
<1>8. \A e \in E \ F : v[e] <= t /\ 0 - t <= v[e]
  <2> SUFFICES ASSUME NEW e \in E \ F PROVE v[e] <= t /\ 0 - t <= v[e]
    OBVIOUS
  <2>1. ~(Abs(v[e]) > t) /\ v[e] \in Int
    BY <1>4
  <2> HIDE DEF v
  <2> QED BY <2>1 DEF Abs
<1>9. C = {case(e) : e \in F}
  BY DEF ExceptionCases
<1>10. \A e \in F : case(e) \in C /\ case(e).entity = e /\ case(e).variance = f[e]
  BY <1>9
<1>11. \A c \in C : c.entity \in F /\ c = case(c.entity)
  BY <1>9
<1>12. [e \in F |-> case(e)] \in Bijection(F, C)
  <2>1. [e \in F |-> case(e)] \in Surjection(F, C)
    <3>1. \A c \in C : \E e \in F : [d \in F |-> case(d)][e] = c
      BY <1>11
    <3> QED BY <1>10, <3>1 DEF Surjection
  <2>2. [e \in F |-> case(e)] \in Injection(F, C)
    BY <1>10 DEF Injection, IsInjective
  <2> QED BY <2>1, <2>2 DEF Bijection
<1>13. IsFiniteSet(F)
  BY <1>1, FS_Subset
<1> HIDE DEF C
<1>14. IsFiniteSet(C) /\ Cardinality(C) = Cardinality(F)
  <2>1. ExistsBijection(F, C)
    BY <1>12 DEF ExistsBijection
  <2> HIDE DEF F
  <2> QED BY <1>13, <2>1, FS_Bijection
<1> DEFINE b == [c \in C |-> c.entity]
<1>15. b \in [C -> F] /\ \A e \in F : \E c \in C : b[c] = e
  BY <1>10, <1>11
<1>16. \A c, d \in C : b[c] = b[d] => c = d
  <2> SUFFICES ASSUME NEW c \in C, NEW d \in C, b[c] = b[d] PROVE c = d
    OBVIOUS
  <2>1. c.entity = d.entity
    OBVIOUS
  <2> HIDE DEF case
  <2> QED BY <1>11, <2>1
<1>17. f \in [F -> Int]
  BY <1>1, <1>4
<1>18. \A c \in C : f[b[c]] = c.variance
  BY <1>10, <1>11
<1>19. \A e \in F : (\A c \in C : b[c] # e) => f[e] = 0
  BY <1>15
<1>20. Total([c \in C |-> f[b[c]]]) = Total(f)
  <2> HIDE DEF F, f, b
  <2> QED BY <1>13, <1>14, <1>15, <1>16, <1>17, <1>19, Reindexed
<1>21. [c \in C |-> f[b[c]]] = [c \in C |-> c.variance]
  <2> HIDE DEF F, f, b
  <2> QED BY <1>18
<1>22. /\ Total(v) - Total(f) <= t * (Cardinality(E) - Cardinality(F))
       /\ 0 - (t * (Cardinality(E) - Cardinality(F))) <= Total(v) - Total(f)
       /\ Total(v) \in Int /\ Total(f) \in Int /\ Cardinality(E) - Cardinality(F) \in Nat
  <2> HIDE DEF F, v, E
  <2> QED BY <1>1, <1>4, <1>8, SplitTotal
<1>23. Total(X) \in Int /\ Total(Y) \in Int
  BY TotalInt
<1>24. Abs(Total(Y) - Total(X) - Total([c \in C |-> c.variance]))
         <= t * (Cardinality(E) - Cardinality(C))
  <2> DEFINE m == Cardinality(E) - Cardinality(F)
             p == t * m
             s == Total([c \in C |-> c.variance])
  <2>1. s = Total(f) /\ Cardinality(E) - Cardinality(C) = m
    BY <1>14, <1>20, <1>21
  <2>2. Total(Y) = Total(X) + Total(v)
    BY <1>5, <1>7
  <2>3. p \in Int
    BY <1>22
  <2>4. Total(v) - s <= p /\ 0 - p <= Total(v) - s
    BY <1>22, <2>1
  <2>5. Total(Y) - Total(X) - s = Total(v) - s /\ Total(v) - s \in Int
    BY <1>22, <1>23, <2>1, <2>2
  <2> HIDE DEF s, p, m
  <2>6. Abs(Total(Y) - Total(X) - s) <= p
    BY <2>3, <2>4, <2>5 DEF Abs
  <2> QED BY <2>1, <2>6 DEF s, p
<1>25. ASSUME NEW c \in C PROVE (c.reason = "AMOUNT_MISMATCH") <=> c.entity \in A \cap B
  <2>1. c.entity \in F /\ c.reason = ResolveReason(X, Y, c.entity)
    BY <1>11
  <2>2. c.entity \in A \/ c.entity \in B
    BY <2>1
  <2> QED BY <2>1, <2>2 DEF ResolveReason
<1> QED BY <1>24, <1>25 DEF C

LEMMA ResultExplained ==
    ASSUME NEW x \in ReconRecords, NEW y \in ReconRecords, NEW t \in Tolerances,
           reconciled = ReconciliationOf(x, y, t)
    PROVE  ReconciliationExplained
<1> DEFINE X == AmountsOf(x)
           Y == AmountsOf(y)
           C == ExceptionCases(X, Y, t)
           A == Listed(x)
           B == Listed(y)
<1>1. /\ reconciled.expectedRecords = x /\ reconciled.actualRecords = y /\ reconciled.tolerance = t
      /\ reconciled.totalExpected = Total(X) /\ reconciled.totalActual = Total(Y)
      /\ reconciled.exceptions = C
  BY DEF ReconciliationOf
<1>2. X \in [A -> Int] /\ Y \in [B -> Int] /\ IsFiniteSet(A) /\ IsFiniteSet(B)
  BY AmountsTyped
<1>3. t \in Nat
  BY ReconciliationAssumption
<1>4. /\ Abs(Total(Y) - Total(X) - Total([c \in C |-> c.variance]))
           <= t * (Cardinality(A \cup B) - Cardinality(C))
      /\ \A c \in C : (c.reason = "AMOUNT_MISMATCH") <=> c.entity \in A \cap B
  <2> HIDE DEF X, Y, A, B
  <2> QED BY <1>2, <1>3, CasesExplain
<1>5. Cardinality(B) = Len(y) => Total(Y) = Total([i \in DOMAIN y |-> y[i].amount])
  BY DistinctTotal
<1> HIDE DEF X, Y, C
<1> QED BY <1>1, <1>4, <1>5 DEF ReconciliationExplained, Listed

\* The result kept is the one of some request.
ReconciledInv ==
    reconciled # Null =>
        \E x, y \in ReconRecords, t \in Tolerances : reconciled = ReconciliationOf(x, y, t)

\* SettlementReconciliationService.reconcile: whatever the records of the two
\* sides, their entities, their number and the tolerance, the exception cases
\* explain the difference of the totals up to the tolerance of each other entity.
THEOREM DifferencesExplained == Spec => []ReconciliationExplained
<1>1. Init => ReconciledInv
  BY DEF Init, SettlementInit, ReconciledInv
<1>2. ReconciledInv /\ [Next]_vars => ReconciledInv'
  <2> SUFFICES ASSUME ReconciledInv, [Next]_vars PROVE ReconciledInv'
    OBVIOUS
  <2>1. CASE part = "reconciliation" /\ ReconciliationNext
    <3>1. PICK x \in ReconRecords, y \in ReconRecords, t \in Tolerances : Reconcile(x, y, t)
      BY <2>1 DEF ReconciliationNext
    <3>2. reconciled' = ReconciliationOf(x, y, t)
      BY <3>1 DEF Reconcile
    <3> QED BY <3>2 DEF ReconciledInv
  <2>2. CASE reconciled' = reconciled
    BY <2>2 DEF ReconciledInv
  <2>3. part = "reconciliation" /\ Next => ReconciliationNext
    BY DEF Next
  <2>4. UNCHANGED vars => reconciled' = reconciled
    BY DEF vars, settlementVars
  <2> QED BY <2>1, <2>2, <2>3, <2>4, OwnPart
<1>3. ReconciledInv => ReconciliationExplained
  <2> SUFFICES ASSUME ReconciledInv, reconciled # Null PROVE ReconciliationExplained
    BY DEF ReconciliationExplained
  <2> QED BY ResultExplained DEF ReconciledInv
<1> QED BY <1>1, <1>2, <1>3, PTL DEF Spec
=============================================================================
