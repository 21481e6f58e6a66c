---------------------------- MODULE OfflineQueue ----------------------------
(***************************************************************************)
(* The offline actions of the courier app: OfflineActionQueue behind       *)
(* PersistentOfflineActionQueue, its JSON file, and                        *)
(* CourierWorkflowService, which flushes one action at a time.             *)
(*                                                                         *)
(* Every change of the queue rewrites the whole file: it is emptied first  *)
(* and then written, and an app that is killed between the two finds no    *)
(* action at its next start.  The idempotency key stands for the intent.   *)
(***************************************************************************)
EXTENDS Handlers, Sequences

CONSTANTS
    Intents,             \* the idempotency keys of what a courier did offline
    maxAttempts,         \* RetryPolicy; 5 by default
    MaxKills,            \* bound on the times the app is killed
    MaxEnqueued          \* bound on the actions made

ASSUME OfflineQueueAssumption == maxAttempts \in Nat \ {0} /\ MaxKills \in Nat /\ MaxEnqueued \in Nat

VARIABLES
    actions,             \* OfflineActionQueue.actions: the actions in their order
    file,                \* the actions in the JSON file
    appStep,             \* what the app does next: "idle", "save" or "dispatch", after a save or now
    leased,              \* the action that is dispatched, or 0
    kills,               \* history: how often the app was killed
    torn,                \* history: a kill came between emptying the file and writing it
    sends,               \* history: action -> how often it was dispatched
    cutOff,              \* history: the actions whose dispatch was cut off by a kill or an exception
    promised             \* history: the intents the app was answered for

queueVars == <<actions, file, appStep, leased, kills, torn, sends, cutOff, promised>>
offlineVars == queueVars

Statuses == {"PENDING", "IN_FLIGHT", "RETRY_SCHEDULED", "SUCCEEDED", "FAILED"}
OfflineAction(intent) == [idempotencyKey |-> intent, attempts |-> 0, status |-> "PENDING"]

OfflineQueueInit ==
    /\ actions = <<>> /\ file = <<>>
    /\ appStep = "idle" /\ leased = 0
    /\ kills = 0 /\ torn = FALSE
    /\ sends = [i \in 1..MaxEnqueued |-> 0] /\ cutOff = {} /\ promised = {}

-----------------------------------------------------------------------------

\* The app changes its queue, empties the file and goes on when it is written.
Change(queue, then) ==
    /\ actions' = queue
    /\ file' = <<>>
    /\ appStep' = then
    /\ UNCHANGED <<kills, torn, cutOff>>

Enqueued(intent) == \E i \in DOMAIN actions : actions[i].idempotencyKey = intent

\* An intent the queue knows is answered with the action there is, and saved
\* again all the same.
Enqueue(intent) ==
    /\ appStep = "idle"
    /\ IF Enqueued(intent) THEN Change(actions, "save")
       ELSE /\ Len(actions) < MaxEnqueued
            /\ Change(Append(actions, OfflineAction(intent)), "save")
    /\ promised' = promised \cup {intent}
    /\ UNCHANGED <<leased, sends>>

Waiting == {i \in DOMAIN actions : actions[i].status \in {"PENDING", "RETRY_SCHEDULED"}}

\* Mutant of LeaseNext: a failed action is leased again.
LeaseNextFailed ==
    /\ appStep = "idle"
    /\ \E i \in {i \in DOMAIN actions : actions[i].status \in {"PENDING", "RETRY_SCHEDULED", "FAILED"}} :
         /\ leased' = i
         /\ Change([actions EXCEPT ![i].attempts = @ + 1, ![i].status = "IN_FLIGHT"], "saveLease")
    /\ UNCHANGED <<sends, promised>>

\* The first that waits.
LeaseNext ==
    /\ appStep = "idle"
    /\ \E i \in Waiting :
         /\ \A j \in Waiting : i <= j
         /\ leased' = i
         /\ Change([actions EXCEPT ![i].attempts = @ + 1, ![i].status = "IN_FLIGHT"], "saveLease")
    /\ UNCHANGED <<sends, promised>>

\* saveAll has written the file; a lease goes on to its dispatch.
Saved ==
    /\ appStep \in {"save", "saveLease"}
    /\ file' = actions
    /\ appStep' = IF appStep = "save" THEN "idle" ELSE "dispatch"
    /\ UNCHANGED <<actions, leased, kills, torn, sends, cutOff, promised>>

Retryable(action) == action.attempts < maxAttempts

CountsSend == sends' = [sends EXCEPT ![leased] = @ + 1]

\* The action is sent; it is delivered, or refused and tried again a number of
\* times.
Dispatch(delivered) ==
    /\ appStep = "dispatch"
    /\ CountsSend
    /\ Change([actions EXCEPT ![leased].status =
                  IF delivered THEN "SUCCEEDED"
                  ELSE IF Retryable(actions[leased]) THEN "RETRY_SCHEDULED" ELSE "FAILED"], "save")
    /\ leased' = 0
    /\ UNCHANGED promised

\* The dispatch throws, past the service: the action stays as it is.
DispatchThrows ==
    /\ appStep = "dispatch"
    /\ CountsSend
    /\ cutOff' = cutOff \cup {leased}
    /\ appStep' = "idle" /\ leased' = 0
    /\ UNCHANGED <<actions, file, kills, torn, promised>>

\* The app is killed, before or after what it dispatches is sent, and starts again
\* from the file.
Kill ==
    /\ kills < MaxKills
    /\ kills' = kills + 1
    /\ torn' = (torn \/ (appStep \in {"save", "saveLease"} /\ actions # <<>>))
    /\ cutOff' = IF leased # 0 THEN cutOff \cup {leased} ELSE cutOff
    /\ actions' = file
    /\ appStep' = "idle" /\ leased' = 0
    /\ (appStep = "dispatch" /\ CountsSend) \/ UNCHANGED sends
    /\ UNCHANGED <<file, promised>>

OfflineQueueNext ==
    /\ \/ \E intent \in Intents : Enqueue(intent)
       \/ LeaseNext \/ Saved
       \/ \E delivered \in BOOLEAN : Dispatch(delivered)
       \/ DispatchThrows \/ Kill
    /\ UNCHANGED handlerVars

-----------------------------------------------------------------------------

\* What a courier did offline is kept, once per intent; it is sent at most as often
\* as the policy says, and for the first time only when all before it are settled;
\* it is stuck in flight only if its sending was cut off.  A kill that tears the
\* file loses everything, and nothing is claimed after one.
QueueKeepsItsWord ==
    ~torn =>
        /\ promised \subseteq {actions[i].idempotencyKey : i \in DOMAIN actions}
        /\ \A i, j \in DOMAIN actions :
              actions[i].idempotencyKey = actions[j].idempotencyKey => i = j
        /\ \A i \in DOMAIN actions :
              /\ sends[i] <= maxAttempts
              /\ actions[i].status = "IN_FLIGHT" => i = leased \/ i \in cutOff
              /\ sends[i] > 0 => \A j \in 1..(i - 1) :
                    actions[j].status \in {"SUCCEEDED", "FAILED"} \/ j \in cutOff
        /\ appStep = "idle" => file = actions
=============================================================================
