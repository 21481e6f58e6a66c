------------------------------ MODULE Support ------------------------------
(***************************************************************************)
(* SupportTicketService, SupportSLAService and SupportInterventionService. *)
(*                                                                         *)
(* An evaluation of the service levels lists the open tickets and works    *)
(* through them: has the ticket been escalated, is it old enough, save,    *)
(* publish, each across an await.  The time of the evaluation comes with   *)
(* the request.  No handler ever closes a ticket.  Time is counted in      *)
(* quarters of an hour.                                                    *)
(***************************************************************************)
EXTENDS Handlers, Sequences, FiniteSets

CONSTANTS
    IssueTypes,           \* issue types of tickets
    EvaluationTimes,      \* times evaluations are asked for
    MaxTickets, MaxTime   \* bounds on the tickets and on the clock

ASSUME SupportAssumption ==
    MaxTickets \in Nat /\ MaxTime \in Nat /\ EvaluationTimes \subseteq 0..MaxTime

VARIABLES
    now,                  \* the clock tickets are created by
    tickets,              \* tickets in the order they are listed
    escalations,          \* ticket number -> escalations saved for it
    escalationEvents,     \* history: support.ticket_escalated.v1 per ticket
    interventions         \* history: interventions announced

supportVars == <<now, tickets, escalations, escalationEvents, interventions>>

\* issueTypeSlaMinutes: half an hour, three quarters, or an hour by default.
Threshold(issueType) ==
    CASE issueType = "PAYMENT_ISSUE" -> 2
      [] issueType = "LATE_DELIVERY" -> 2
      [] issueType = "MISSING_ITEM" -> 3
      [] OTHER -> 4

Ticket == [issueType : IssueTypes, createdAt : 0..MaxTime, status : {"OPEN"}]

SlaCall == [phase : {"list", "find", "save", "publish"}, subject : {<<"sla">>},
            evaluatedAt : 0..MaxTime, todo : Seq(1..MaxTickets)]

ActionTypes == {"CANCEL_ORDER", "REFUND_PAYMENT", "REASSIGN_COURIER"}

SupportInit ==
    /\ now = 0
    /\ tickets = <<>>
    /\ escalations = [i \in 1..MaxTickets |-> 0]
    /\ escalationEvents = [i \in 1..MaxTickets |-> 0]
    /\ interventions = {}

-----------------------------------------------------------------------------

Tick ==
    /\ now < MaxTime
    /\ now' = now + 1
    /\ UNCHANGED <<handlerVars, tickets, escalations, escalationEvents, interventions>>

CreateTicket(issueType) ==
    /\ Len(tickets) < MaxTickets
    /\ tickets' = Append(tickets, [issueType |-> issueType, createdAt |-> now, status |-> "OPEN"])
    /\ UNCHANGED <<handlerVars, now, escalations, escalationEvents, interventions>>

EvaluateEscalations(s, evaluatedAt) ==
    /\ Begin(s, [phase |-> "list", subject |-> <<"sla">>, evaluatedAt |-> evaluatedAt, todo |-> <<>>])
    /\ UNCHANGED supportVars

\* The evaluation works through the tickets left in todo, or answers.
WorkThrough(s, todo) ==
    IF todo = <<>> THEN Answer(s)
    ELSE Continue(s, [call[s] EXCEPT !.phase = "find", !.todo = todo])

OpenTickets == {i \in DOMAIN tickets : tickets[i].status = "OPEN"}

\* The open tickets, as they are listed.
SlaLists(s) ==
    /\ At(s, "list")
    /\ \E todo \in [1..Cardinality(OpenTickets) -> OpenTickets] :
         /\ \A i, j \in DOMAIN todo : i < j => todo[i] < todo[j]
         /\ WorkThrough(s, todo)
    /\ UNCHANGED supportVars

Breached(i, at) == at - tickets[i].createdAt >= Threshold(tickets[i].issueType)

\* Mutant of SlaFinds: tickets escalated before are not skipped.
SlaFindsBreach(s) ==
    /\ At(s, "find")
    /\ IF ~Breached(Head(call[s].todo), call[s].evaluatedAt)
       THEN WorkThrough(s, Tail(call[s].todo)) ELSE Await(s, "save")
    /\ UNCHANGED supportVars

\* Mutant of SlaFinds: the first ticket that needs nothing ends the evaluation.
SlaStopsEarly(s) ==
    /\ At(s, "find")
    /\ LET i == Head(call[s].todo)
       IN IF escalations[i] > 0 \/ ~Breached(i, call[s].evaluatedAt)
          THEN Answer(s) ELSE Await(s, "save")
    /\ UNCHANGED supportVars

SlaFinds(s) ==
    /\ At(s, "find")
    /\ LET i == Head(call[s].todo)
       IN IF escalations[i] > 0 \/ ~Breached(i, call[s].evaluatedAt)
          THEN WorkThrough(s, Tail(call[s].todo)) ELSE Await(s, "save")
    /\ UNCHANGED supportVars

SlaSaves(s) ==
    /\ At(s, "save")
    /\ escalations' = [escalations EXCEPT ![Head(call[s].todo)] = @ + 1]
    /\ Await(s, "publish")
    /\ UNCHANGED <<now, tickets, escalationEvents, interventions>>

SlaPublishes(s) ==
    /\ At(s, "publish")
    /\ escalationEvents' = [escalationEvents EXCEPT ![Head(call[s].todo)] = @ + 1]
    /\ WorkThrough(s, Tail(call[s].todo))
    /\ UNCHANGED <<now, tickets, escalations, interventions>>

\* execute: cancellations and refunds are the order and the payment service's,
\* whose refusal ends the request; any other action is announced as queued and
\* nothing is done about it.
Intervene(actionType, refused) ==
    /\ interventions' =
         IF actionType \in {"CANCEL_ORDER", "REFUND_PAYMENT"}
         THEN IF refused THEN interventions
              ELSE interventions \cup {[actionType |-> actionType, status |-> "COMPLETED"]}
         ELSE interventions \cup {[actionType |-> actionType, status |-> "QUEUED"]}
    /\ UNCHANGED <<handlerVars, now, tickets, escalations, escalationEvents>>

SlaContinues(s) == SlaLists(s) \/ SlaFinds(s) \/ SlaSaves(s) \/ SlaPublishes(s)

SupportNext ==
    \/ Tick
    \/ \E issueType \in IssueTypes : CreateTicket(issueType)
    \/ \E s \in Slots : \E at \in EvaluationTimes : EvaluateEscalations(s, at)
    \/ \E s \in Slots : SlaContinues(s)
    \/ Restart /\ UNCHANGED supportVars

\* Interventions share no state with the tickets.
InterventionNext ==
    \E actionType \in ActionTypes, refused \in BOOLEAN : Intervene(actionType, refused)

-----------------------------------------------------------------------------

SupportTypeOK ==
    /\ now \in 0..MaxTime
    /\ \A i \in DOMAIN tickets : tickets[i] \in Ticket
    /\ \A s \in Slots : call[s] # Idle => call[s] \in SlaCall
    /\ \A x \in interventions : x.actionType \in ActionTypes

\* A ticket is escalated, and its escalation announced, once at most unless two
\* evaluations overlapped, also after a restart; and only a ticket that some
\* evaluation can have found in breach of its service level.
EscalatedOnce ==
    \A i \in 1..MaxTickets :
        /\ escalationEvents[i] <= escalations[i]
        /\ <<"sla">> \notin overlapped => escalations[i] <= 1
        /\ escalations[i] > 0 => i \in DOMAIN tickets /\ Breached(i, MaxTime)

\* An evaluation that has a breached ticket on its list escalates it in the
\* end, unless the process restarts first: no ticket before it on the list, no
\* escalation of another evaluation makes it skip one.
BreachEscalated ==
    \A i \in 1..MaxTickets : \A n \in 0..MaxRestarts :
        (/\ restarts = n
         /\ \E s \in Slots : /\ call[s] # Idle /\ call[s].subject = <<"sla">>
                             /\ i \in {call[s].todo[j] : j \in DOMAIN call[s].todo}
                             /\ Breached(i, call[s].evaluatedAt))
          ~> (escalations[i] > 0 \/ restarts > n)
=============================================================================
