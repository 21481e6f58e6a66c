---------------------------- MODULE MCBackOffice ----------------------------
(***************************************************************************)
(* The back office: notifications, settlement, support and compliance.     *)
(* The services share no state with one another, so a behaviour is about   *)
(* one of them, chosen in the initial state.                               *)
(***************************************************************************)
EXTENDS Notifications, Settlement, Support, Compliance

vars == <<handlerVars, notificationVars, settlementVars, supportVars, complianceVars>>

Init ==
    /\ \E name \in {"fanout", "deliveries", "payouts", "imports", "statements", "reconciliation",
                    "ledger", "support", "interventions", "audit", "review", "policy"} :
          HandlersInit(name)
    /\ NotificationsInit /\ SettlementInit /\ SupportInit /\ ComplianceInit

OnlyNotifications == UNCHANGED <<settlementVars, supportVars, complianceVars>>
OnlySettlement == UNCHANGED <<notificationVars, supportVars, complianceVars>>
OnlySupport == UNCHANGED <<notificationVars, settlementVars, complianceVars>>
OnlyCompliance == UNCHANGED <<notificationVars, settlementVars, supportVars>>

Next ==
    \/ part = "fanout" /\ NotificationsNext /\ OnlyNotifications
    \/ part = "deliveries" /\ DeliveriesNext /\ OnlyNotifications
    \/ part = "payouts" /\ PayoutsNext /\ OnlySettlement
    \/ part = "imports" /\ ImportsNext /\ OnlySettlement
    \/ part = "statements" /\ StatementsNext /\ OnlySettlement
    \/ part = "reconciliation" /\ ReconciliationNext /\ OnlySettlement
    \/ part = "ledger" /\ LedgerNext /\ OnlySettlement
    \/ part = "support" /\ SupportNext /\ OnlySupport
    \/ part = "interventions" /\ InterventionNext /\ OnlySupport
    \/ part = "audit" /\ AuditNext /\ OnlyCompliance
    \/ part = "review" /\ ReviewNext /\ OnlyCompliance
    \/ part = "policy" /\ PolicyNext /\ OnlyCompliance

Spec == Init /\ [][Next]_vars

\* Node never leaves an evaluation waiting once the store has answered it.
FairSpec ==
    /\ Spec
    /\ \A s \in Slots : WF_vars(part = "support" /\ SlaContinues(s) /\ OnlySupport)

\* Whatever is to happen once happens once, unless two handlers worked on it at
\* the same time: a notification per key, a batch per run of a schedule, an
\* escalation per ticket, a decision per review.  Restarts and repeated requests
\* do not make it happen again.
OnceUnlessOverlapped == NotifiedOnce /\ SettledOncePerRun /\ EscalatedOnce /\ ReviewDecidedOnce

\* The state of every service keeps its shape.
BackOfficeTypeOK ==
    /\ part \in {"fanout", "deliveries"} => NotificationsTypeOK
    /\ part \in {"payouts", "imports", "statements", "reconciliation", "ledger"} => SettlementTypeOK
    /\ part \in {"support", "interventions"} => SupportTypeOK
    /\ part \in {"audit", "review", "policy"} => ComplianceTypeOK
=============================================================================
