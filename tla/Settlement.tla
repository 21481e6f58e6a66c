----------------------------- MODULE Settlement -----------------------------
(***************************************************************************)
(* PayoutService, SettlementReconciliationImportService with the           *)
(* reconciliation it runs, the ledger and the payout statements.           *)
(*                                                                         *)
(* Batches and imports belong to a schedule run, a pair of scheduleId and  *)
(* runAt.  The run is looked up, the work is done and saved, across        *)
(* awaits; batches are stored under a random id, import runs under the     *)
(* run, so a second import replaces the first and a second batch does not. *)
(***************************************************************************)
EXTENDS Handlers, Integers, Sequences, FiniteSets, FiniteSetsExt

CONSTANTS
    Runs,             \* schedule runs
    Payees,           \* merchants and couriers a batch pays
    ReconEntities,    \* entities a reconciliation compares
    ReconAmounts,     \* amounts in its records
    Tolerances,       \* toleranceCents
    MaxRecords,       \* bound: records on one side of a reconciliation
    MaxFailedSaves    \* bound: saves of a run's import that fail

VARIABLES
    batches,          \* run -> the batches saved for it, as a sequence
    batchEvents,      \* history: payout.batch_generated.v1 per run
    importRuns,       \* run -> number of the reconciliation its record names, or 0
    importEvents,     \* history: ...reconciliation_import.completed.v1 per run
    reconciliations,  \* run -> reconciliation results stored for its imports
    failedSaves,      \* history: run -> how many saves of its import failed
    reconciled,       \* the last reconciliation asked for directly, or Null
    journal,          \* ledger entries: their lines
    statements        \* published statements: payee and format

settlementVars == <<batches, batchEvents, importRuns, importEvents, reconciliations,
                    failedSaves, reconciled, journal, statements>>

Batch == [payouts : SUBSET Payees, holds : SUBSET Payees]

PayoutCall ==
    [phase : {"find batch", "save batch", "publish batch"},
     subject : {"payout"} \X Runs, candidates : SUBSET (Payees \X BOOLEAN)]
ImportCall ==
    [phase : {"find import", "append", "save import", "publish import"},
     subject : {"import"} \X Runs, number : Nat]
StatementCall ==
    [phase : {"render", "save statement"}, subject : {"statement"} \X Payees,
     attempt : 1..3, format : {"PDF", "PLAINTEXT"}]
SettlementCall == PayoutCall \cup ImportCall \cup StatementCall

ASSUME SettlementAssumption == Idle \notin SettlementCall
ASSUME ReconciliationAssumption ==
    ReconAmounts \subseteq Int /\ Tolerances \subseteq Nat /\ MaxRecords \in Nat

SettlementInit ==
    /\ batches = [r \in Runs |-> <<>>]
    /\ batchEvents = [r \in Runs |-> 0]
    /\ importRuns = [r \in Runs |-> 0]
    /\ importEvents = [r \in Runs |-> 0]
    /\ reconciliations = [r \in Runs |-> 0] /\ failedSaves = [r \in Runs |-> 0]
    /\ reconciled = Null
    /\ journal = {}
    /\ statements = {}

RunOf(s) == call[s].subject[2]

-----------------------------------------------------------------------------
(* Payout batches *)

GenerateBatch(s, run, candidates) ==
    /\ Begin(s, [phase |-> "find batch", subject |-> <<"payout", run>>, candidates |-> candidates])
    /\ UNCHANGED settlementVars

\* Mutant of BatchFinds: the run is not looked up.
BatchFindsNothing(s) ==
    /\ At(s, "find batch")
    /\ Await(s, "save batch")
    /\ UNCHANGED settlementVars

BatchFinds(s) ==
    /\ At(s, "find batch")
    /\ IF batches[RunOf(s)] # <<>> THEN Answer(s) ELSE Await(s, "save batch")
    /\ UNCHANGED settlementVars

\* A candidate with an open exception is held, every other one is paid.
BatchSaves(s) ==
    /\ At(s, "save batch")
    /\ batches' = [batches EXCEPT ![RunOf(s)] = Append(@,
           [payouts |-> {p \in Payees : <<p, FALSE>> \in call[s].candidates},
            holds |-> {p \in Payees : <<p, TRUE>> \in call[s].candidates}])]
    /\ Await(s, "publish batch")
    /\ UNCHANGED <<batchEvents, importRuns, importEvents, reconciliations, failedSaves,
                   reconciled, journal, statements>>

BatchPublishes(s) ==
    /\ At(s, "publish batch")
    /\ batchEvents' = [batchEvents EXCEPT ![RunOf(s)] = @ + 1]
    /\ Answer(s)
    /\ UNCHANGED <<batches, importRuns, importEvents, reconciliations, failedSaves,
                   reconciled, journal, statements>>

-----------------------------------------------------------------------------
(* Reconciliation and its scheduled imports *)

\* A Map built from the records: the last record of an entity counts.
AmountsOf(records) ==
    [e \in {records[i].entity : i \in DOMAIN records} |->
        records[Max({i \in DOMAIN records : records[i].entity = e})].amount]

Total(amounts) == MapThenSumSet(LAMBDA e : amounts[e], DOMAIN amounts)

Variance(expected, actual, e) ==
    (IF e \in DOMAIN actual THEN actual[e] ELSE 0)
      - (IF e \in DOMAIN expected THEN expected[e] ELSE 0)

Abs(n) == IF n < 0 THEN -n ELSE n

ResolveReason(expected, actual, e) ==
    CASE e \notin DOMAIN expected -> "MISSING_EXPECTED_RECORD"
      [] e \notin DOMAIN actual -> "MISSING_ACTUAL_RECORD"
      [] OTHER -> "AMOUNT_MISMATCH"

\* Mutant of ExceptionCases: only positive variances are compared.
PositiveExceptionCases(expected, actual, tolerance) ==
    {[entity |-> e, variance |-> Variance(expected, actual, e),
      reason |-> ResolveReason(expected, actual, e)] :
        e \in {x \in DOMAIN expected \cup DOMAIN actual :
                  Variance(expected, actual, x) > tolerance}}

ExceptionCases(expected, actual, tolerance) ==
    {[entity |-> e, variance |-> Variance(expected, actual, e),
      reason |-> ResolveReason(expected, actual, e)] :
        e \in {x \in DOMAIN expected \cup DOMAIN actual :
                  Abs(Variance(expected, actual, x)) > tolerance}}

\* What reconcile computes, kept with what it was asked.
ReconciliationOf(expectedRecords, actualRecords, tolerance) ==
    LET expected == AmountsOf(expectedRecords)
        actual == AmountsOf(actualRecords)
    IN [expectedRecords |-> expectedRecords, actualRecords |-> actualRecords,
        tolerance |-> tolerance,
        totalExpected |-> Total(expected), totalActual |-> Total(actual),
        exceptions |-> ExceptionCases(expected, actual, tolerance)]

\* reconcile, asked for directly: one result.
Reconcile(expectedRecords, actualRecords, tolerance) ==
    /\ reconciled' = ReconciliationOf(expectedRecords, actualRecords, tolerance)
    /\ UNCHANGED <<handlerVars, batches, batchEvents, importRuns, importEvents,
                   reconciliations, failedSaves, journal, statements>>

RunScheduledImport(s, run) ==
    /\ Begin(s, [phase |-> "find import", subject |-> <<"import", run>>, number |-> 0])
    /\ UNCHANGED settlementVars

\* An import that finds no record of its run reconciles: the result is
\* announced first and appended to the history after.
ImportFinds(s) ==
    /\ At(s, "find import")
    /\ IF importRuns[RunOf(s)] # 0 THEN Answer(s) ELSE Await(s, "append")
    /\ UNCHANGED settlementVars

ImportAppends(s) ==
    /\ At(s, "append")
    /\ reconciliations' = [reconciliations EXCEPT ![RunOf(s)] = @ + 1]
    /\ Continue(s, [call[s] EXCEPT !.phase = "save import",
                                   !.number = reconciliations[RunOf(s)] + 1])
    /\ UNCHANGED <<batches, batchEvents, importRuns, importEvents, failedSaves,
                   reconciled, journal, statements>>

\* The record is stored under the run and replaces one stored meanwhile; or the
\* save is rejected, and the reconciliation stays without a record.
ImportSaves(s) ==
    /\ At(s, "save import")
    /\ \/ /\ importRuns' = [importRuns EXCEPT ![RunOf(s)] = call[s].number]
          /\ Await(s, "publish import")
          /\ UNCHANGED failedSaves
       \/ /\ failedSaves[RunOf(s)] < MaxFailedSaves
          /\ failedSaves' = [failedSaves EXCEPT ![RunOf(s)] = @ + 1]
          /\ Answer(s)
          /\ UNCHANGED importRuns
    /\ UNCHANGED <<batches, batchEvents, importEvents, reconciliations,
                   reconciled, journal, statements>>

ImportPublishes(s) ==
    /\ At(s, "publish import")
    /\ importEvents' = [importEvents EXCEPT ![RunOf(s)] = @ + 1]
    /\ Answer(s)
    /\ UNCHANGED <<batches, batchEvents, importRuns, reconciliations, failedSaves,
                   reconciled, journal, statements>>

-----------------------------------------------------------------------------
(* Ledger and statements *)

SumOfSide(lines, side) ==
    MapThenSumSet(LAMBDA i : lines[i].amount, {i \in DOMAIN lines : lines[i].side = side})

\* postJournalEntry: an entry whose sides differ is refused.
PostJournalEntry(lines) ==
    /\ SumOfSide(lines, "DEBIT") = SumOfSide(lines, "CREDIT")
    /\ journal' = journal \cup {lines}
    /\ UNCHANGED <<handlerVars, batches, batchEvents, importRuns, importEvents,
                   reconciliations, failedSaves, reconciled, statements>>

PublishStatement(s, payee) ==
    /\ Begin(s, [phase |-> "render", subject |-> <<"statement", payee>>,
                 attempt |-> 1, format |-> "PDF"])
    /\ UNCHANGED settlementVars

\* The renderer answers or fails; after the third failure it is plain text.
StatementRenders(s) ==
    /\ At(s, "render")
    /\ \/ Await(s, "save statement")
       \/ Continue(s, IF call[s].attempt < 3 THEN [call[s] EXCEPT !.attempt = @ + 1]
                      ELSE [call[s] EXCEPT !.phase = "save statement", !.format = "PLAINTEXT"])
    /\ UNCHANGED settlementVars

\* save and the event after it, which nothing reads.
StatementSaves(s) ==
    /\ At(s, "save statement")
    /\ statements' = statements \cup {[payee |-> RunOf(s), format |-> call[s].format]}
    /\ Answer(s)
    /\ UNCHANGED <<batches, batchEvents, importRuns, importEvents, reconciliations,
                   failedSaves, reconciled, journal>>

-----------------------------------------------------------------------------

ReconRecords ==
    UNION {[1..n -> [entity : ReconEntities, amount : ReconAmounts]] : n \in 0..MaxRecords}
JournalLines == [1..2 -> [side : {"DEBIT", "CREDIT"}, amount : ReconAmounts]]

\* Batches, imports, statements, reconciliations and the ledger share no state.
PayoutsNext ==
    \/ \E s \in Slots :
         \/ \E r \in Runs, c \in SUBSET (Payees \X BOOLEAN) : GenerateBatch(s, r, c)
         \/ BatchFinds(s) \/ BatchSaves(s) \/ BatchPublishes(s)
    \/ Restart /\ UNCHANGED settlementVars

ImportsNext ==
    \/ \E s \in Slots :
         \/ \E r \in Runs : RunScheduledImport(s, r)
         \/ ImportFinds(s) \/ ImportAppends(s) \/ ImportSaves(s) \/ ImportPublishes(s)
    \/ Restart /\ UNCHANGED settlementVars

StatementsNext ==
    \/ \E s \in Slots :
         \/ \E p \in Payees : PublishStatement(s, p)
         \/ StatementRenders(s) \/ StatementSaves(s)
    \/ Restart /\ UNCHANGED settlementVars

\* A result depends on its request alone, so one reconciliation is enough.
ReconciliationNext ==
    reconciled = Null /\ \E x, y \in ReconRecords, t \in Tolerances : Reconcile(x, y, t)
LedgerNext == \E lines \in JournalLines : PostJournalEntry(lines)

-----------------------------------------------------------------------------

SettlementTypeOK ==
    /\ \A r \in Runs : \A i \in DOMAIN batches[r] : batches[r][i] \in Batch
    /\ batchEvents \in [Runs -> Nat]
    /\ importRuns \in [Runs -> Nat] /\ importEvents \in [Runs -> Nat]
    /\ reconciliations \in [Runs -> Nat] /\ failedSaves \in [Runs -> Nat]
    /\ \A s \in Slots : call[s] # Idle => call[s] \in SettlementCall
    /\ \A lines \in journal : lines \in JournalLines
    /\ statements \subseteq [payee : Payees, format : {"PDF", "PLAINTEXT"}]

\* A schedule run pays once and is imported once unless two requests for it
\* overlapped, whatever restarts and failed saves cut off: one batch, one
\* announcement at most, and one reconciliation more than restarts and failed
\* saves at most, the last one recorded.
SettledOncePerRun ==
    \A r \in Runs :
        /\ batchEvents[r] <= Len(batches[r])
        /\ <<"payout", r>> \notin overlapped => Len(batches[r]) <= 1
        /\ importRuns[r] <= reconciliations[r]
        /\ <<"import", r>> \notin overlapped =>
              /\ importEvents[r] <= 1
              /\ reconciliations[r] <= 1 + restarts + failedSaves[r]
              /\ importRuns[r] # 0 => importRuns[r] = reconciliations[r]

\* A reconciliation explains the difference of its totals: what its exception
\* cases leave over is within the tolerance for each entity without a case, and
\* an entity missing on one side is never taken for a mismatch.  Records that
\* repeat an entity are compared by their last one.
ReconciliationExplained ==
    reconciled # Null =>
        LET r == reconciled
            listed(records) == {records[i].entity : i \in DOMAIN records}
            lineTotal(records) == Total([i \in DOMAIN records |-> records[i].amount])
            entities == listed(r.expectedRecords) \cup listed(r.actualRecords)
            explained == Total([x \in r.exceptions |-> x.variance])
        IN /\ Abs(r.totalActual - r.totalExpected - explained)
                 <= r.tolerance * (Cardinality(entities) - Cardinality(r.exceptions))
           /\ \A x \in r.exceptions :
                 (x.reason = "AMOUNT_MISMATCH")
                   <=> x.entity \in listed(r.expectedRecords) \cap listed(r.actualRecords)
           /\ Cardinality(listed(r.actualRecords)) = Len(r.actualRecords)
                 => r.totalActual = lineTotal(r.actualRecords)
=============================================================================
