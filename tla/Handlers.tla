------------------------------ MODULE Handlers ------------------------------
(***************************************************************************)
(* The request handlers of one Node process over a document store.         *)
(*                                                                         *)
(* A handler runs until it awaits the store and lets others run meanwhile, *)
(* so its pieces between two awaits are the steps of the model.  A handler *)
(* in flight occupies a slot with a record: the phase that says where it   *)
(* awaits, the subject it works on, and what it read so far.  A restart    *)
(* loses every handler in flight and keeps what the store holds.           *)
(*                                                                         *)
(* The services that share no state extend this module together; part says *)
(* which of them a behaviour is about.                                     *)
(***************************************************************************)
EXTENDS Naturals, FiniteSets

CONSTANTS
    Slots,        \* how many handlers run at once
    Null, Idle,
    MaxRestarts   \* bound on the restarts of the process

ASSUME HandlersAssumption == IsFiniteSet(Slots) /\ MaxRestarts \in Nat

VARIABLES
    part,         \* the service this behaviour is about; never changes
    call,         \* slot -> the handler it runs, or Idle
    overlapped,   \* history: the subjects two handlers worked on at once
    restarts      \* history: how often the process restarted

handlerVars == <<part, call, overlapped, restarts>>

HandlersInit(name) ==
    /\ part = name
    /\ call = [s \in Slots |-> Idle]
    /\ overlapped = {}
    /\ restarts = 0

Busy(subject) == \E t \in Slots : call[t] # Idle /\ call[t].subject = subject

\* A request arrives and its handler runs up to its first await; overlaps says
\* whether it runs beside another one on its subject.
BeginBeside(s, handler, overlaps) ==
    /\ call[s] = Idle
    /\ call' = [call EXCEPT ![s] = handler]
    /\ overlapped' = IF overlaps THEN overlapped \cup {handler.subject} ELSE overlapped
    /\ UNCHANGED <<part, restarts>>

Begin(s, handler) == BeginBeside(s, handler, Busy(handler.subject))

At(s, phase) == call[s] # Idle /\ call[s].phase = phase

\* The handler goes on with what it now knows, or answers.
Continue(s, handler) ==
    /\ call' = [call EXCEPT ![s] = handler]
    /\ UNCHANGED <<part, overlapped, restarts>>

Await(s, phase) == Continue(s, [call[s] EXCEPT !.phase = phase])
Answer(s) == Continue(s, Idle)

Restart ==
    /\ restarts < MaxRestarts
    /\ restarts' = restarts + 1
    /\ call' = [s \in Slots |-> Idle]
    /\ UNCHANGED <<part, overlapped>>

\* No handler is between two awaits.
Quiet == \A s \in Slots : call[s] = Idle
=============================================================================
