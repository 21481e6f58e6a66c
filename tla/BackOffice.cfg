SPECIFICATION FairSpec
CONSTANTS
    Slots = {s1, s2}
    Null = Null
    Idle = Idle
    MaxRestarts = 1
    Entities = {x1}
    Topics = {"order.created.v1", "support.ticket_escalated.v1"}
    Locales = {"es-US"}
    Runs = {r1}
    Payees = {p1}
    ReconEntities = {e1, e2}
    ReconAmounts = {0, 2, 3}
    Tolerances = {0, 1}
    MaxRecords = 2
    MaxFailedSaves = 1
    IssueTypes = {"LATE_DELIVERY", "MISSING_ITEM"}
    MaxTickets = 2
    MaxTime = 3
    EvaluationTimes = {2, 3}
    AuditEvents = {a1, a2, a3}
    JsonbStore = TRUE
    Reviews = {v1}
    RiskActions = {"REFUND_APPROVAL", "REASSIGN_COURIER"}
    Cents = {1000, 5001}
INVARIANTS
    BackOfficeTypeOK
    OnceUnlessOverlapped
    ReconciliationExplained
    ChainVerifies
    PolicySurvivesRestart
PROPERTIES
    BreachEscalated
CHECK_DEADLOCK FALSE
