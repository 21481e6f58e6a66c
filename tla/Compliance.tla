----------------------------- MODULE Compliance -----------------------------
(***************************************************************************)
(* ComplianceAuditService, ManualReviewService and RiskPolicyService.      *)
(*                                                                         *)
(* An audit event carries the hash of the event before it.  The latest     *)
(* event is read, the hash computed and the event appended, across awaits. *)
(* The hash covers the metadata as JSON text; a JSONB column gives the     *)
(* keys of an object back in an order of its own, so text and hash of an   *)
(* event whose metadata had another order differ after a round trip.       *)
(* An event stands for its hash here, and "GENESIS" for the first one's.   *)
(***************************************************************************)
EXTENDS Handlers, Sequences, SequencesExt, FiniteSetsExt

CONSTANTS
    AuditEvents,     \* the ids randomUUID can hand out
    JsonbStore,      \* whether documents live in PostgreSQL
    Reviews,         \* manual review ids
    RiskActions,     \* action types with a rule of their own by default or not
    Cents            \* amounts and thresholds of the risk policy

VARIABLES
    chain,           \* the stored audit events in the order they are listed
    evidence,        \* history: the last evidence report's chainIntegrity, or Null
    auditAlerts,     \* history: an append failed and was alerted
    reviews,         \* ManualReviewRepository
    decisions,       \* history: review -> risk.manual_review_resolved.v1
    memoryRules,     \* the rules in the memory of the process
    storedRules,     \* the rules in the store
    unstored         \* history: the actions for which this process failed to store a rule

complianceVars == <<chain, evidence, auditAlerts, reviews, decisions, memoryRules,
                    storedRules, unstored>>

\* Whether the metadata's keys are in the order JSONB keeps them in.
AuditEvent == [id : AuditEvents, previousHash : AuditEvents \cup {"GENESIS"}, ordered : BOOLEAN]
ReviewStatus == {"ABSENT", "QUEUED", "APPROVED", "REJECTED"}
\* upsertRule refuses a rule whose review threshold is below the other one.
Rule == {r \in [allowUpTo : Cents, reviewUpTo : Cents] : r.allowUpTo <= r.reviewUpTo}

Decision == {"APPROVED", "REJECTED"}
AuditCall == [phase : {"latest", "append"}, subject : {<<"audit">>}, event : AuditEvent]
ReviewCall == [phase : {"find", "save", "announce"}, subject : {"review"} \X Reviews,
               decision : Decision]
PolicyCall == [phase : {"put"}, subject : {"rule"} \X RiskActions, rule : Rule]
ComplianceCall == AuditCall \cup ReviewCall \cup PolicyCall

\* There is a greatest amount, as there is a MAX_SAFE_INTEGER.
ASSUME ComplianceAssumption ==
    /\ JsonbStore \in BOOLEAN
    /\ Cents \subseteq Nat /\ \E m \in Cents : \A c \in Cents : c <= m
    /\ Null \notin Rule /\ Idle \notin ComplianceCall

\* defaultRiskPolicyRules; Unlimited stands for MAX_SAFE_INTEGER.
Unlimited == Max(Cents)
DefaultRules == [a \in RiskActions |->
    CASE a = "REFUND_APPROVAL" -> [allowUpTo |-> 1000, reviewUpTo |-> 5000]
      [] a = "PAYOUT_RELEASE" -> [allowUpTo |-> 5000, reviewUpTo |-> 20000]
      [] a = "ORDER_CANCEL" -> [allowUpTo |-> Unlimited, reviewUpTo |-> Unlimited]
      [] OTHER -> Null]

ComplianceInit ==
    /\ chain = <<>> /\ evidence = Null /\ auditAlerts = 0
    /\ reviews = [r \in Reviews |-> "ABSENT"]
    /\ decisions = [r \in Reviews |-> <<>>]
    /\ memoryRules = DefaultRules
    /\ storedRules = [a \in RiskActions |-> Null] /\ unstored = {}

-----------------------------------------------------------------------------
(* The audit chain *)

auditVars == <<chain, evidence, auditAlerts>>
reviewVars == <<reviews, decisions>>
policyVars == <<memoryRules, storedRules, unstored>>

\* A fresh randomUUID, and the hash that covers it.
FreshAuditId(id) ==
    /\ \A i \in DOMAIN chain : chain[i].id # id
    /\ \A t \in Slots : At(t, "latest") \/ At(t, "append") => call[t].event.id # id

AppendEvent(s, id, ordered) ==
    /\ FreshAuditId(id)
    /\ Begin(s, [phase |-> "latest", subject |-> <<"audit">>,
                 event |-> [id |-> id, previousHash |-> "GENESIS", ordered |-> ordered]])
    /\ UNCHANGED complianceVars

\* Mutant of AuditReadsLatest: the list is taken to begin with the latest event.
AuditReadsFirst(s) ==
    /\ At(s, "latest")
    /\ Continue(s, [call[s] EXCEPT !.phase = "append", !.event.previousHash =
                       IF chain = <<>> THEN "GENESIS" ELSE Head(chain).id])
    /\ UNCHANGED complianceVars

\* latest: the last event listed, whose hash the new event names.
AuditReadsLatest(s) ==
    /\ At(s, "latest")
    /\ Continue(s, [call[s] EXCEPT !.phase = "append", !.event.previousHash =
                       IF chain = <<>> THEN "GENESIS" ELSE Last(chain).id])
    /\ UNCHANGED complianceVars

\* The store appends the event, or fails: the failure is alerted and answered.
AuditAppends(s) ==
    /\ At(s, "append")
    /\ \/ chain' = Append(chain, call[s].event) /\ UNCHANGED auditAlerts
       \/ auditAlerts' = 1 /\ UNCHANGED chain
    /\ Answer(s)
    /\ UNCHANGED <<evidence, reviewVars, policyVars>>

\* verifyChain: each event names the hash before it and hashes to its own.
VerifyChain ==
    \A i \in DOMAIN chain :
        /\ chain[i].previousHash = IF i = 1 THEN "GENESIS" ELSE chain[i - 1].id
        /\ JsonbStore => chain[i].ordered

GenerateEvidenceReport ==
    /\ evidence' = VerifyChain
    /\ UNCHANGED <<handlerVars, chain, auditAlerts, reviewVars, policyVars>>

-----------------------------------------------------------------------------
(* Manual reviews *)

QueueReview(r) ==
    /\ reviews[r] = "ABSENT"
    /\ reviews' = [reviews EXCEPT ![r] = "QUEUED"]
    /\ UNCHANGED <<handlerVars, decisions, auditVars, policyVars>>

ResolveReview(s, r, decision) ==
    /\ Begin(s, [phase |-> "find", subject |-> <<"review", r>>, decision |-> decision])
    /\ UNCHANGED complianceVars

\* Mutant of ReviewFinds: a decided review is decided again.
ReviewFindsAny(s) ==
    /\ At(s, "find")
    /\ IF reviews[call[s].subject[2]] = "ABSENT" THEN Answer(s) ELSE Await(s, "save")
    /\ UNCHANGED complianceVars

\* A review that is absent is an error, one that is decided the answer.
ReviewFinds(s) ==
    /\ At(s, "find")
    /\ IF reviews[call[s].subject[2]] # "QUEUED" THEN Answer(s) ELSE Await(s, "save")
    /\ UNCHANGED complianceVars

ReviewSaves(s) ==
    /\ At(s, "save")
    /\ reviews' = [reviews EXCEPT ![call[s].subject[2]] = call[s].decision]
    /\ Await(s, "announce")
    /\ UNCHANGED <<decisions, auditVars, policyVars>>

ReviewAnnounces(s) ==
    /\ At(s, "announce")
    /\ decisions' = [decisions EXCEPT ![call[s].subject[2]] = Append(@, call[s].decision)]
    /\ Answer(s)
    /\ UNCHANGED <<reviews, auditVars, policyVars>>

-----------------------------------------------------------------------------
(* The risk policy *)

\* upsertRule: the memory has the rule at once, the store after an await.
UpsertRule(s, action, rule) ==
    /\ rule \in Rule
    /\ Begin(s, [phase |-> "put", subject |-> <<"rule", action>>, rule |-> rule])
    /\ memoryRules' = [memoryRules EXCEPT ![action] = rule]
    /\ UNCHANGED <<storedRules, unstored, auditVars, reviewVars>>

\* The store takes the rule, or the put is rejected: the request is answered with
\* an error, and the memory keeps the rule.
RulePut(s) ==
    /\ At(s, "put")
    /\ LET action == call[s].subject[2]
       IN \/ storedRules' = [storedRules EXCEPT ![action] = call[s].rule] /\ UNCHANGED unstored
          \/ unstored' = unstored \cup {action} /\ UNCHANGED storedRules
    /\ Answer(s)
    /\ UNCHANGED <<memoryRules, auditVars, reviewVars>>

\* Mutant of FindRule: the memory is asked first.
FindInMemory(action) == IF memoryRules[action] # Null THEN memoryRules[action]
                        ELSE storedRules[action]

\* findRule prefers the store, listRules merges in the same way.
FindRule(action) == IF storedRules[action] # Null THEN storedRules[action]
                    ELSE memoryRules[action]

Decide(rule, amount) ==
    CASE rule = Null -> "DENY"
      [] rule # Null /\ amount <= rule.allowUpTo -> "ALLOW"
      [] rule # Null /\ amount > rule.allowUpTo /\ amount <= rule.reviewUpTo -> "REVIEW"
      [] OTHER -> "DENY"

\* evaluate changes nothing but the event log.
Evaluate(action, amount) == Decide(FindRule(action), amount)

\* A new process starts from the default rules and what the store holds.
ComplianceRestart ==
    /\ Restart
    /\ memoryRules' = DefaultRules /\ unstored' = {}
    /\ UNCHANGED <<storedRules, auditVars, reviewVars>>

-----------------------------------------------------------------------------

\* The three services share no state; each runs with its own restarts.
AuditNext ==
    \/ \E s \in Slots :
         \/ \E id \in AuditEvents, ordered \in BOOLEAN : AppendEvent(s, id, ordered)
         \/ AuditReadsLatest(s)
         \/ AuditAppends(s)
    \/ GenerateEvidenceReport
    \/ ComplianceRestart

ReviewNext ==
    \/ \E r \in Reviews : QueueReview(r)
    \/ \E s \in Slots :
         \/ \E r \in Reviews, d \in Decision : ResolveReview(s, r, d)
         \/ ReviewFinds(s) \/ ReviewSaves(s) \/ ReviewAnnounces(s)
    \/ ComplianceRestart

PolicyNext ==
    \/ \E s \in Slots :
         \/ \E a \in RiskActions, r \in Rule : UpsertRule(s, a, r)
         \/ RulePut(s)
    \/ ComplianceRestart

-----------------------------------------------------------------------------

ComplianceTypeOK ==
    /\ \A i \in DOMAIN chain : chain[i] \in AuditEvent
    /\ evidence \in BOOLEAN \cup {Null}
    /\ reviews \in [Reviews -> ReviewStatus]
    /\ \A s \in Slots : call[s] # Idle => call[s] \in ComplianceCall
    /\ \A a \in RiskActions : storedRules[a] # Null => storedRules[a] \in Rule
    /\ unstored \subseteq RiskActions

\* The audit chain verifies unless two appends overlapped or a JSONB column
\* reordered the keys of some metadata; a restart between reading the latest
\* event and appending does not break it.  Even a forked chain names, in every
\* event, the beginning or an event stored before.
ChainVerifies ==
    /\ <<"audit">> \notin overlapped => VerifyChain \/ \E i \in DOMAIN chain : ~chain[i].ordered
    /\ \A i \in DOMAIN chain :
          \/ chain[i].previousHash = "GENESIS"
          \/ \E j \in 1..(i - 1) : chain[j].id = chain[i].previousHash

\* A review is decided once, and announced with the decision it has, unless two
\* resolutions of it overlapped; a restart between the two may lose the
\* announcement but never lets a second decision in.
ReviewDecidedOnce ==
    \A r \in Reviews : <<"review", r>> \notin overlapped =>
        /\ Len(decisions[r]) <= 1
        /\ \A i \in DOMAIN decisions[r] : decisions[r][i] = reviews[r]

\* A larger amount never gets a more permissive decision.  And every decision is
\* the one a restarted process would take, except while a rule of the action is
\* being stored, and after storing one failed when the store has none: findRule
\* then answers from the memory, until the restart.  A rule whose storing failed
\* never decides where the store has another.
PolicySurvivesRestart ==
    \A a \in RiskActions :
        /\ \A c, d \in Cents : c <= d =>
              /\ Evaluate(a, d) = "ALLOW" => Evaluate(a, c) = "ALLOW"
              /\ Evaluate(a, c) = "DENY" => Evaluate(a, d) = "DENY"
        /\ LET durable == IF storedRules[a] # Null THEN storedRules[a] ELSE DefaultRules[a]
           IN \/ \E s \in Slots : call[s] # Idle /\ call[s].subject = <<"rule", a>>
              \/ a \in unstored /\ storedRules[a] = Null
              \/ \A c \in Cents : Evaluate(a, c) = Decide(durable, c)
=============================================================================
