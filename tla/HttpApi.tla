------------------------------ MODULE HttpApi ------------------------------
(***************************************************************************)
(* The request handler of core-api: routing, the steps of a route, and the *)
(* answer an error becomes.                                                *)
(*                                                                         *)
(* A route takes its steps in order and calls its service when all have    *)
(* passed; the first one that fails throws.  What the services do is in    *)
(* the other modules: here one returns, throws one of its own errors or    *)
(* fails because something it depends on does.  Requests do not meet here, *)
(* so one is followed at a time.                                           *)
(***************************************************************************)
EXTENDS HttpValidation, FiniteSets, SequencesExt

VARIABLES
    request,   \* the request being handled, or the value of NoRequest
    route,     \* the route it took, or NoRoute
    toDo,      \* the steps left
    called,    \* the service of the route was called
    thrown,    \* the error thrown, or "none"
    status     \* the status answered, or 0

httpVars == <<request, route, toDo, called, thrown, status>>

-----------------------------------------------------------------------------
(* Routes *)

Api(path) == <<"api", "v1">> \o path
Internal(path) == <<"internal">> \o path
Id == ":id"

Route(method, path, steps, checks, ok, errors) ==
    [method |-> method, path |-> path, steps |-> steps, checks |-> checks,
     ok |-> ok, errors |-> errors]

\* The usual orders of steps: the id of a read is decoded before its query is
\* checked, the id of a write after its payload; where the validator takes the
\* id it is decoded between.
Read(path, checks, errors) == Route("GET", path, <<"decode", "validate">>, checks, {200}, errors)
Write(method, path, checks, ok, errors) ==
    Route(method, path, <<"parse", "validate", "decode">>, checks, ok, errors)
WriteTo(method, path, checks, ok, errors) ==
    Route(method, path, <<"parse", "decode", "validate">>, checks, ok, errors)
Post(path, checks, ok, errors) == Write("POST", path, checks, ok, errors)
\* A command has no payload.
Command(path, errors) == Route("POST", path, <<"decode">>, <<>>, {200}, errors)

identityRoutes == <<
    Read(Internal(<<"observability", "logs">>), <<>>, {}),
    Read(Internal(<<"observability", "slo", "dashboard">>), <<>>, {}),
    Read(<<"health">>, <<>>, {}),
    Post(Api(<<"identity", "register">>), validateRegistrationPayload, {201}, {"DuplicateIdentityError"}),
    Post(Api(<<"identity", "login">>), validateLoginPayload, {200}, {"AuthError"}),
    Post(Api(<<"identity", "token", "refresh">>), validateRefreshPayload, {200}, {"AuthError"}),
    Post(Api(<<"identity", "mfa", "verify">>), validateMfaVerifyPayload, {200}, {"AuthError"})>>

orderingRoutes == <<
    Post(Api(<<"admin", "delivery-zones">>), validateUpsertDeliveryZonePayload, {201}, {}),
    Post(Api(<<"consumer", "quotes", "validate-zone">>), validateZonePointPayload, {200}, {}),
    Post(Api(<<"consumer", "quotes">>), validateGenerateQuotePayload, {200}, {"QuoteBasketNotFoundError"}),
    Read(Api(<<"consumer", "stores">>), validateStoreDiscoveryQuery, {}),
    Read(Api(<<"consumer", "stores", Id, "menu">>), validateStoreMenuQuery, {"StoreMenuNotFoundError"}),
    Post(Api(<<"consumer", "promotions", "evaluate">>), validatePromotionEvaluatePayload, {200}, {}),
    Post(Api(<<"consumer", "checkout">>), validateCheckoutPayload, {200}, {"StaleQuoteError"}),
    Post(Api(<<"consumer", "orders">>), validateCreateOrderPayload, {201},
         {"InvalidCheckoutError", "QuoteHashMismatchError"}),
    Read(Api(<<"consumer", "orders">>), validateConsumerOrderListQuery, {}),
    Read(Api(<<"consumer", "orders", Id>>), <<>>, {"OrderNotFoundError"}),
    Read(Api(<<"consumer", "orders", Id, "timeline">>), <<>>, {}),
    Post(Api(<<"consumer", "orders", Id, "cancel">>), validateOrderCancellationPayload, {200},
         {"OrderNotFoundError", "CancellationNotAllowedError"})>>

paymentRoutes == <<
    Post(Api(<<"payments", "authorize">>), validatePaymentAuthorizePayload, {201},
         {"PaymentOrderNotFoundError", "PaymentMethodNotSupportedError"}),
    Post(Api(<<"payments", "capture">>), validatePaymentCapturePayload, {200},
         {"PaymentIntentNotFoundError", "PaymentOrderNotFoundError", "PaymentCapturePreconditionError"}),
    Post(Internal(<<"payments", "cash", "expected">>), validateCashExpectedPayload, {201},
         {"PaymentOrderNotFoundError"}),
    Post(Api(<<"courier", "orders", Id, "cash-collection">>), validateCashCollectionPayload, {200},
         {"PaymentCashExpectationNotFoundError"})>>

JobErrors == {"CourierJobNotFoundError", "CourierJobStateConflictError", "OrderNotFoundError"}

\* Mutant of courierRoutes: the detail route comes first.
courierRoutesDetailFirst == <<
    Read(Api(<<"courier", "jobs", Id>>), <<>>, {"CourierJobNotFoundError"}),
    Read(Api(<<"courier", "jobs", "available">>), <<>>, {}),
    Read(Api(<<"courier", "jobs">>), validateCourierJobListQuery, {}),
    Post(Api(<<"courier", "telemetry">>), validateCourierTelemetryPayload, {200}, {})>>

courierRoutes == <<
    Read(Api(<<"courier", "jobs", "available">>), <<>>, {}),
    Read(Api(<<"courier", "jobs">>), validateCourierJobListQuery, {}),
    Read(Api(<<"courier", "jobs", Id>>), <<>>, {"CourierJobNotFoundError"}),
    Post(Api(<<"courier", "telemetry">>), validateCourierTelemetryPayload, {200}, {}),
    Post(Api(<<"courier", "jobs", Id, "accept">>), validateCourierJobCourierPayload, {200}, JobErrors),
    Post(Api(<<"courier", "jobs", Id, "pickup">>), validateCourierJobCourierPayload, {200}, JobErrors),
    Post(Api(<<"courier", "jobs", Id, "dropoff">>), validateCourierJobCourierPayload, {200}, JobErrors)>>

RefundErrors == {"PaymentIntentNotFoundError", "PaymentCapturePreconditionError",
                 "PaymentRefundAmountInvalidError"}

supportRoutes == <<
    Post(Api(<<"support", "tickets">>), validateCreateSupportTicketPayload, {201}, {}),
    Read(Api(<<"support", "tickets", Id, "timeline">>), <<>>, {"SupportTicketNotFoundError"}),
    Post(Api(<<"support", "interventions", "execute">>), validateSupportInterventionPayload, {200, 202},
         RefundErrors \cup {"OrderNotFoundError", "CancellationNotAllowedError"}),
    Post(Internal(<<"support", "sla", "evaluate">>), validateSupportSlaEvaluationPayload, {200}, {})>>

riskRoutes == <<
    Post(Internal(<<"risk", "policy", "evaluate">>), validateRiskPolicyEvaluatePayload, {200}, {}),
    Read(Internal(<<"risk", "policy", "rules">>), <<>>, {}),
    WriteTo("PUT", Internal(<<"risk", "policy", "rules", Id>>), validateRiskPolicyRulePayload, {200},
            {"InvalidRiskPolicyRuleError"}),
    Post(Internal(<<"risk", "manual-reviews">>), validateQueueManualReviewPayload, {201}, {}),
    WriteTo("POST", Api(<<"admin", "risk", "reviews", Id, "resolve">>),
            validateResolveManualReviewPayload, {200}, {"ManualReviewNotFoundError"}),
    Post(Internal(<<"risk", "compliance", "audit", "events">>), validateAppendComplianceAuditPayload,
         {201}, {"ComplianceAuditWriteError"}),
    Read(Internal(<<"risk", "compliance", "audit", "events">>), <<>>, {}),
    Post(Internal(<<"risk", "compliance", "evidence", "jobs">>),
         validateGenerateComplianceEvidencePayload, {200}, {}),
    Post(Api(<<"support", "refunds">>), validateRefundRequestPayload, {201}, RefundErrors),
    Post(Internal(<<"payments", "refunds", Id, "approve">>), validateRefundApprovalPayload, {200},
         {"PaymentRefundRequestNotFoundError"}),
    Read(Internal(<<"payments", "audit", Id>>), <<>>, {})>>

\* The payload of a payout schedule run is copied before it is looked at.
settlementRoutes == <<
    Post(Internal(<<"settlement", "ledger", "entries">>), validateSettlementJournalPayload, {201},
         {"UnbalancedJournalError"}),
    Post(Internal(<<"settlement", "reconciliation", "run">>), validateSettlementReconciliationPayload,
         {200}, {}),
    Post(Internal(<<"settlement", "reconciliation", "ingest">>),
         validateSettlementReconciliationIngestPayload, {200}, {}),
    WriteTo("POST", Internal(<<"settlement", "reconciliation", "import-schedules", Id, "run">>),
            validateSettlementReconciliationImportRunPayload, {200, 201}, {}),
    Read(Internal(<<"settlement", "reconciliation", "results">>), validateSettlementReconciliationQuery, {}),
    Post(Api(<<"admin", "payouts", "generate">>), validatePayoutBatchPayload, {201}, {}),
    Route("POST", Internal(<<"settlement", "payout-schedules", Id, "run">>),
          <<"parse", "decode", "copy", "validate">>, validatePayoutScheduleRunPayload, {200, 201}, {}),
    Post(Internal(<<"settlement", "payout-statements", "publish">>), validatePublishPayoutStatementPayload,
         {201}, {}),
    Read(Api(<<"merchant", "payouts">>), merchantPayoutQuery, {}),
    Read(Api(<<"courier", "payouts">>), courierPayoutQuery, {})>>

notificationRoutes == <<
    Post(Internal(<<"notifications", "fanout">>), validateNotificationFanoutPayload, {202},
         {"NotificationTemplateNotFoundError"}),
    Post(Internal(<<"notifications", "templates", "resolve">>), validateTemplateResolvePayload, {200},
         {"NotificationTemplateNotFoundError"}),
    Post(Internal(<<"notifications", "retry">>), validateNotificationRetryPayload, {202}, {}),
    Post(Internal(<<"notifications", "receipts">>), validateNotificationReceiptPayload, {201}, {}),
    Read(Internal(<<"notifications", "receipts">>), receiptQuery, {})>>

merchantOrderRoutes == <<
    Command(Api(<<"merchant", "orders", Id, "accept">>), {"OrderNotFoundError"}),
    Post(Api(<<"merchant", "orders", Id, "reject">>), validateMerchantOrderRejectPayload, {200},
         {"OrderNotFoundError", "CancellationNotAllowedError"}),
    Read(Api(<<"merchant", "orders">>), validateMerchantOrderListQuery, {}),
    Command(Internal(<<"orders", Id, "merchant-timeout">>),
            {"OrderNotFoundError", "CancellationNotAllowedError"}),
    Route("POST", Internal(<<"orders", Id, "request-dispatch">>), <<"decode", "parse", "validate">>,
          validateDispatchAssignmentPayload, {200}, {"OrderNotFoundError"}),
    Command(Internal(<<"orders", "timeline", "rebuild">>), {})>>

catalogRoutes == <<
    Post(Api(<<"consumer", "baskets">>), validateCreateBasketPayload, {201}, {}),
    Write("PATCH", Api(<<"consumer", "baskets", Id>>), validateBasketItems, {200},
          {"BasketNotFoundError", "BasketItemUnavailableError"}),
    Read(Api(<<"consumer", "baskets", Id>>), <<>>, {"BasketNotFoundError"}),
    Post(Api(<<"merchant", "catalog", "menus">>), validateCreateMenuPayload, {201}, {}),
    Write("PUT", Api(<<"merchant", "catalog", "menus", Id>>), validateUpdateMenuPayload, {200},
          {"MenuNotFoundError"}),
    Read(Api(<<"merchant", "catalog", "menus", Id, "versions">>), <<>>, {"MenuNotFoundError"}),
    Read(Api(<<"merchant", "catalog", "menus", Id>>), <<>>, {"MenuNotFoundError"}),
    Post(Api(<<"merchant", "stores", Id, "status">>), validateStoreStatusPayload, {200}, {}),
    Read(Internal(<<"catalog", "stores", Id, "orderability">>), orderabilityQuery, {}),
    Read(Internal(<<"catalog", "stores", Id, "prep-time">>), <<>>, {}),
    Post(Api(<<"merchant", "items", Id, "availability">>), validateItemAvailabilityPayload, {200}, {}),
    Read(Internal(<<"catalog", "items", Id, "availability">>), <<>>, {})>>

\* The operator's token is looked at before the payload.
adminRoutes == <<
    Route("GET", Api(<<"admin", "health">>), <<"authorize">>, <<>>, {200}, {}),
    Route("POST", Api(<<"admin", "break-glass", "activate">>), <<"authorize", "parse", "validate">>,
          validateBreakGlassActivationPayload, {201}, {"ComplianceAuditWriteError"})>>

Routes == identityRoutes \o orderingRoutes \o paymentRoutes \o courierRoutes \o supportRoutes
          \o riskRoutes \o settlementRoutes \o notificationRoutes \o merchantOrderRoutes
          \o catalogRoutes \o adminRoutes
NoRoute == 0

\* The first route that matches is taken.
Matches(r, method, path) ==
    /\ r.method = method
    /\ Len(r.path) = Len(path)
    /\ \A i \in DOMAIN path : r.path[i] \in {Id, path[i]}
RouteOf(method, path) ==
    SelectInSeq(Routes, LAMBDA r : Matches(r, method, path))

-----------------------------------------------------------------------------
(* Errors *)

NotFoundErrors == {"MenuNotFoundError", "StoreMenuNotFoundError", "BasketNotFoundError",
    "QuoteBasketNotFoundError", "InvalidCheckoutError", "OrderNotFoundError",
    "CourierJobNotFoundError", "SupportTicketNotFoundError", "ManualReviewNotFoundError",
    "PaymentOrderNotFoundError", "PaymentIntentNotFoundError",
    "PaymentCashExpectationNotFoundError", "PaymentRefundRequestNotFoundError",
    "NotificationTemplateNotFoundError"}

ConflictErrors == {"DuplicateIdentityError", "StaleQuoteError", "QuoteHashMismatchError",
    "CourierJobStateConflictError", "PaymentCapturePreconditionError",
    "PaymentRefundAmountInvalidError", "UnbalancedJournalError", "PaymentMethodNotSupportedError",
    "CancellationNotAllowedError", "BasketItemUnavailableError"}

InvalidRequests == {"InvalidRiskPolicyRuleError", "SyntaxError",
    "INVALID_REGISTRATION_PAYLOAD", "INVALID_LOGIN_PAYLOAD", "INVALID_REFRESH_PAYLOAD",
    "INVALID_MFA_VERIFY_PAYLOAD", "INVALID_MENU_ITEMS", "INVALID_MENU_CREATE_PAYLOAD",
    "INVALID_MENU_UPDATE_PAYLOAD", "INVALID_STORE_STATUS_PAYLOAD", "INVALID_STORE_DISCOVERY_QUERY",
    "INVALID_STORE_MENU_QUERY", "INVALID_ORDERABILITY_QUERY", "INVALID_ITEM_AVAILABILITY_PAYLOAD",
    "INVALID_BASKET_CREATE_PAYLOAD", "INVALID_BASKET_ITEMS", "INVALID_DELIVERY_ZONE_PAYLOAD",
    "INVALID_ZONE_POINT_PAYLOAD", "INVALID_QUOTE_PAYLOAD", "INVALID_PROMOTION_EVALUATION_PAYLOAD",
    "INVALID_CHECKOUT_PAYLOAD", "INVALID_ORDER_CREATE_PAYLOAD", "INVALID_ORDER_CANCELLATION_PAYLOAD",
    "INVALID_CONSUMER_ORDER_QUERY", "INVALID_ORDER_STATUS_QUERY",
    "INVALID_MERCHANT_ORDER_REJECT_PAYLOAD", "INVALID_MERCHANT_ORDER_QUERY",
    "INVALID_COURIER_JOB_QUERY", "INVALID_COURIER_JOB_COURIER_PAYLOAD",
    "INVALID_COURIER_TELEMETRY_PAYLOAD", "INVALID_DISPATCH_REQUEST_PAYLOAD",
    "INVALID_SUPPORT_TICKET_PAYLOAD", "INVALID_SUPPORT_INTERVENTION_PAYLOAD",
    "INVALID_SUPPORT_SLA_PAYLOAD", "INVALID_RISK_POLICY_EVALUATE_PAYLOAD",
    "INVALID_RISK_POLICY_RULE_PAYLOAD", "INVALID_MANUAL_REVIEW_QUEUE_PAYLOAD",
    "INVALID_MANUAL_REVIEW_RESOLVE_PAYLOAD", "INVALID_COMPLIANCE_AUDIT_PAYLOAD",
    "INVALID_COMPLIANCE_EVIDENCE_PAYLOAD", "INVALID_BREAK_GLASS_PAYLOAD",
    "INVALID_PAYMENT_AUTHORIZE_PAYLOAD", "INVALID_PAYMENT_CAPTURE_PAYLOAD",
    "INVALID_CASH_EXPECTED_PAYLOAD", "INVALID_CASH_COLLECTION_PAYLOAD",
    "INVALID_REFUND_REQUEST_PAYLOAD", "INVALID_REFUND_APPROVAL_PAYLOAD",
    "INVALID_SETTLEMENT_JOURNAL_PAYLOAD", "INVALID_SETTLEMENT_RECONCILIATION_PAYLOAD",
    "INVALID_SETTLEMENT_RECONCILIATION_INGEST_PAYLOAD",
    "INVALID_SETTLEMENT_RECONCILIATION_IMPORT_RUN_PAYLOAD", "INVALID_SETTLEMENT_RECONCILIATION_QUERY",
    "INVALID_PAYOUT_BATCH_PAYLOAD", "INVALID_PAYOUT_SCHEDULE_RUN_PAYLOAD",
    "INVALID_PAYOUT_STATEMENT_PAYLOAD", "INVALID_MERCHANT_PAYOUT_QUERY",
    "INVALID_COURIER_PAYOUT_QUERY", "INVALID_NOTIFICATION_FANOUT_PAYLOAD",
    "INVALID_NOTIFICATION_TEMPLATE_PAYLOAD", "INVALID_NOTIFICATION_RETRY_PAYLOAD",
    "INVALID_NOTIFICATION_RECEIPT_PAYLOAD", "INVALID_NOTIFICATION_RECEIPT_QUERY"}

\* Mutant of StatusOf: the errors of the query checks are not listed.
StatusOfPayloads(error) ==
    CASE error \in NotFoundErrors -> 404
      [] error \in ConflictErrors -> 409
      [] error \in InvalidRequests \ {"INVALID_ORDERABILITY_QUERY"} -> 400
      [] error \in {"AuthError", "MISSING_BEARER_TOKEN"} -> 401
      [] error = "PERMISSION_DENIED" -> 403
      [] OTHER -> 500

\* The answer to an error; what is not listed is an internal error.
StatusOf(error) ==
    CASE error \in NotFoundErrors -> 404
      [] error \in ConflictErrors -> 409
      [] error \in InvalidRequests -> 400
      [] error \in {"AuthError", "MISSING_BEARER_TOKEN"} -> 401
      [] error = "PERMISSION_DENIED" -> 403
      [] OTHER -> 500

-----------------------------------------------------------------------------
(* A request *)

\* Ids in a path: one like any other, one that is a word some route has there,
\* one of encoded blanks, and one that does not decode.
PathIds == {"x1", "available", "%20", "%E0"}
PathOf(path, id) == [i \in DOMAIN path |-> IF path[i] = Id THEN id ELSE path[i]]
Tokens == {"missing", "forged", "consumer", "system_admin"}
Bodies == {"none", "json", "null", "unparsable"}

FieldsOf(checks) == UNION {DOMAIN checks[i].fields : i \in DOMAIN checks}

\* The field of a request that is not as it should be, and the classes it can
\* have: texts only in a query, as in the route's id.
Deviations(r) ==
    {<<"none", "absent">>} \cup
    ((FieldsOf(r.checks) \ {"routeId"}) \X
        (IF r.method = "GET" THEN Optional(String) ELSE Value))

\* A request made for a route.  A bound: at most one field deviates.
RequestsFor(i) ==
    {r \in [meant : {i}, method : {Routes[i].method},
            path : {PathOf(Routes[i].path, id) : id \in PathIds},
            token : IF Contains(Routes[i].steps, "authorize") THEN Tokens ELSE {"missing"},
            body : IF Routes[i].method = "GET" THEN {"none"} ELSE Bodies,
            deviation : Deviations(Routes[i])] :
        r.method # "GET" /\ r.body # "json" => r.deviation[1] = "none"}

\* One for no route.
Unrouted == [meant |-> NoRoute, method |-> "DELETE", path |-> <<"health">>, token |-> "missing",
             body |-> "none", deviation |-> <<"none", "absent">>]
NoRequest == [Unrouted EXCEPT !.method = "NONE"]

HttpInit ==
    /\ request = NoRequest /\ route = NoRoute /\ toDo = <<>>
    /\ called = FALSE /\ thrown = "none" /\ status = 0

\* An empty body is an empty object.
FieldClass(f, accepted) ==
    CASE f = "routeId" -> IF Contains(request.path, "%20") THEN "blank" ELSE "text"
      [] f # "routeId" /\ request.method # "GET" /\ request.body # "json" -> "absent"
      [] f # "routeId" /\ (request.method = "GET" \/ request.body = "json") ->
            IF f = request.deviation[1] THEN request.deviation[2]
            ELSE CHOOSE class \in accepted : TRUE

Fails(check) ==
    \E f \in DOMAIN check.fields : FieldClass(f, check.fields[f]) \notin check.fields[f]

\* The payload of a dispatch request may be empty, or be no object at all.
NothingToValidate ==
    /\ Routes[route].checks = validateDispatchAssignmentPayload
    /\ request.body = "none"

TokenThrows(token) ==
    CASE token = "missing" -> "MISSING_BEARER_TOKEN"
      [] token = "forged" -> "AuthError"
      [] token = "consumer" -> "PERMISSION_DENIED"
      [] token = "system_admin" -> "none"

\* What a step throws, "none" if it passes.
StepThrows(step) ==
    LET checks == Routes[route].checks
        failing == SelectInSeq(checks, Fails)
    IN CASE step = "parse" -> IF request.body = "unparsable" THEN "SyntaxError" ELSE "none"
         [] step = "decode" -> IF Contains(request.path, "%E0") THEN "URIError" ELSE "none"
         [] step = "copy" -> "none"
         [] step = "authorize" -> TokenThrows(request.token)
         [] step = "validate" ->
               IF request.body = "null" /\ ~Contains(Routes[route].steps, "copy") THEN "TypeError"
               ELSE IF failing = 0 \/ NothingToValidate THEN "none" ELSE checks[failing].error

Receive(r) ==
    /\ request = NoRequest
    /\ request' = r
    /\ route' = RouteOf(r.method, r.path)
    /\ IF route' = NoRoute
       THEN status' = 404 /\ UNCHANGED toDo
       ELSE toDo' = Routes[route'].steps /\ UNCHANGED status
    /\ UNCHANGED <<called, thrown>>

Throw(error) ==
    /\ thrown' = error
    /\ status' = StatusOf(error)
    /\ UNCHANGED <<request, route, called, toDo>>

Handling == route # NoRoute /\ status = 0

Step ==
    /\ Handling /\ toDo # <<>>
    /\ IF StepThrows(Head(toDo)) = "none"
       THEN toDo' = Tail(toDo) /\ UNCHANGED <<request, route, called, thrown, status>>
       ELSE Throw(StepThrows(Head(toDo)))

CallService ==
    /\ Handling /\ toDo = <<>> /\ ~called
    /\ called' = TRUE
    /\ UNCHANGED <<request, route, toDo, thrown, status>>

\* The service returns, throws an error of its own, or fails with the store or
\* the dispatch engine.
ServiceEnds ==
    /\ Handling /\ called
    /\ \/ /\ status' \in Routes[route].ok
          /\ UNCHANGED <<request, route, toDo, called, thrown>>
       \/ \E error \in Routes[route].errors \cup {"DependencyFailure"} : Throw(error)

HttpNext ==
    \/ request = NoRequest /\ \E i \in DOMAIN Routes : \E r \in RequestsFor(i) : Receive(r)
    \/ Receive(Unrouted)
    \/ Step
    \/ CallService
    \/ ServiceEnds

-----------------------------------------------------------------------------

\* A request is answered for what it is: nothing a client left out or mistyped
\* is an internal error, but for a body that is null and an id that does not
\* decode; nothing invalid and no one without the right reaches a service, and
\* a payload is not even read for an operator without the right.
HttpAnswers ==
    /\ status = 500 =>
          \/ request.body = "null" \/ Contains(request.path, "%E0")
          \/ called /\ thrown \in {"DependencyFailure", "ComplianceAuditWriteError"}
    /\ called =>
          /\ Contains(Routes[route].steps, "authorize") => request.token = "system_admin"
          /\ NothingToValidate \/ \A i \in DOMAIN Routes[route].checks : ~Fails(Routes[route].checks[i])
          /\ Contains(Routes[route].steps, "decode") => ~Contains(request.path, "%E0")
          /\ Contains(Routes[route].steps, "parse") => request.body # "unparsable"
    /\ status \in {400, 401, 403} /\ thrown # "AuthError" => ~called \/ thrown = "InvalidRiskPolicyRuleError"
    /\ status \in {200, 201, 202} => called /\ thrown = "none"

\* A request made for a route takes it, whatever id it names: no route hides a
\* later one.  The one exception is a job called "available".
RoutesReachable ==
    request # NoRequest =>
        \/ route = request.meant
        \/ /\ request.path = Api(<<"courier", "jobs", "available">>)
           /\ Routes[route].path = request.path
=============================================================================
