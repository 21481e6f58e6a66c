------------------------------- MODULE BffApi -------------------------------
(***************************************************************************)
(* The data routes of the consumer, courier and ops BFFs, and the calls    *)
(* they make to core-api.                                                  *)
(*                                                                         *)
(* A route authorizes (the ops BFF's do), checks what it was sent, calls   *)
(* core-api one call after the other, and answers.  A call core-api does   *)
(* not answer with a success is thrown, and the framework answers 500.     *)
(* Core-api is the routes and validators of HttpApi here: it refuses a     *)
(* call no route matches and a payload its checks do not let through.      *)
(***************************************************************************)
EXTENDS HttpApi

VARIABLES
    bffRequest,      \* the request being handled: its route, token and fields
    bffStep,         \* "authorize", "validate", then "call"
    madeCalls,       \* how many of the route's calls core-api answered with a success
    bffStatus,       \* the status answered, or 0
    refusedFor       \* history: the field, or "path", core-api refused a call for, or "none"

bffApiVars == <<bffRequest, bffStep, madeCalls, bffStatus, refusedFor>>

-----------------------------------------------------------------------------
(* Routes *)

App(path) == <<"app", "v1">> \o path
Anyone == [persona |-> "any", roles |-> {}]
MERCHANT_ALLOWED_ROLES == [persona |-> "merchant", roles |-> {"merchant_operator"}]
ADMIN_ALLOWED_ROLES == [persona |-> "admin", roles |-> {"system_admin", "support_agent", "finance_ops"}]

\* A call: the classes each field of its payload can have, where they are not
\* those of the field of that name the BFF was sent.
CoreCall(method, path, sends) == [method |-> method, path |-> path, sends |-> sends]
Passes == <<>>

BffRoute(method, path, policy, checks, calls) ==
    [method |-> method, path |-> App(path), policy |-> policy, checks |-> checks, calls |-> calls]

\* No integer is a half or infinite.
PositiveInteger == Positive \cap Integer
NaturalInteger == NonNegative \cap Integer

\* Mutant of quickCreateChecks: a quantity of zero is let through.
quickCreateChecksZero == <<
    Check("INVALID_CONSUMER_QUICK_CREATE_PAYLOAD",
          [consumerId |-> NonBlank, merchantId |-> NonBlank, currency |-> NonBlank,
           item |-> Object]),
    Check("INVALID_CONSUMER_QUICK_CREATE_ITEM",
          [itemsItemId |-> NonBlank, itemsName |-> NonBlank, itemsQuantity |-> NaturalInteger,
           itemPriceCents |-> NaturalInteger, itemsModifiers |-> Array]),
    Check("INVALID_CONSUMER_QUICK_CREATE_ITEM",
          [modifiersName |-> NonBlank, modifiersPriceCents |-> Integer])>>

\* A modifier may lower the price.
quickCreateChecks == <<
    Check("INVALID_CONSUMER_QUICK_CREATE_PAYLOAD",
          [consumerId |-> NonBlank, merchantId |-> NonBlank, currency |-> NonBlank,
           item |-> Object]),
    Check("INVALID_CONSUMER_QUICK_CREATE_ITEM",
          [itemsItemId |-> NonBlank, itemsName |-> NonBlank, itemsQuantity |-> PositiveInteger,
           itemPriceCents |-> NaturalInteger, itemsModifiers |-> Array]),
    Check("INVALID_CONSUMER_QUICK_CREATE_ITEM",
          [modifiersName |-> NonBlank, modifiersPriceCents |-> Integer])>>

\* quickCreateOrder: a basket, its item, a quote, a checkout and the order, each
\* with the ids of the answer before it.  The unit price is the item's and its
\* modifiers' together.
quickCreateOrder == <<
    CoreCall("POST", Api(<<"consumer", "baskets">>), Passes),
    CoreCall("PATCH", Api(<<"consumer", "baskets", "x1">>),
             [items |-> NonEmptyArray, itemsUnitPriceCents |-> Integer]),
    CoreCall("POST", Api(<<"consumer", "quotes">>), [basketId |-> {"text"}]),
    CoreCall("POST", Api(<<"consumer", "checkout">>),
             [basketId |-> {"text"}, quoteId |-> {"text"}, quoteHash |-> {"text"}]),
    CoreCall("POST", Api(<<"consumer", "orders">>), [checkoutId |-> {"text"}, quoteHash |-> {"text"}])>>

\* Feature flags are the BFF's own.
featureFlagQuery == <<Check("INVALID_FEATURE_FLAG_QUERY",
    [userId |-> NonBlank, role |-> NonBlank, tenantId |-> Optional(String)])>>

consumerBffRoutes == <<
    BffRoute("GET", <<"consumer", "orders", Id>>, Anyone, <<>>,
             <<CoreCall("GET", Api(<<"consumer", "orders", Id>>), Passes)>>),
    BffRoute("POST", <<"consumer", "orders", "quick-create">>, Anyone, quickCreateChecks,
             quickCreateOrder),
    BffRoute("GET", <<"consumer", "feature-flags">>, Anyone, featureFlagQuery, <<>>)>>

courierAction == <<Check("INVALID_COURIER_JOB_ACTION_PAYLOAD", [courierId |-> NonBlank])>>
CourierRoute(action) ==
    BffRoute("POST", <<"courier", "jobs", Id, action>>, Anyone, courierAction,
             <<CoreCall("POST", Api(<<"courier", "jobs", Id, action>>), Passes)>>)

courierBffRoutes == <<
    BffRoute("GET", <<"courier", "jobs", "available">>, Anyone, <<>>,
             <<CoreCall("GET", Api(<<"courier", "jobs", "available">>), Passes)>>),
    CourierRoute("accept"), CourierRoute("pickup"), CourierRoute("dropoff"),
    BffRoute("GET", <<"courier", "feature-flags">>, Anyone, featureFlagQuery, <<>>)>>

merchantQuery == <<Check("INVALID_MERCHANT_QUERY", [merchantId |-> NonBlank])>>

\* A dispatch payload is any object, an array too, and is passed on as it is.
dispatchPayload ==
    <<Check("INVALID_DISPATCH_REQUEST_PAYLOAD", [payload |-> Optional(Object \cup Array)])>>

opsBffRoutes == <<
    BffRoute("POST", <<"merchant", "orders", Id, "accept">>, MERCHANT_ALLOWED_ROLES, <<>>,
             <<CoreCall("POST", Api(<<"merchant", "orders", Id, "accept">>), Passes)>>),
    BffRoute("POST", <<"merchant", "orders", Id, "request-dispatch">>, MERCHANT_ALLOWED_ROLES,
             dispatchPayload, <<CoreCall("POST", Internal(<<"orders", Id, "request-dispatch">>),
                                         [candidates |-> Value])>>),
    BffRoute("GET", <<"merchant", "orders">>, MERCHANT_ALLOWED_ROLES, merchantQuery,
             <<CoreCall("GET", Api(<<"merchant", "orders">>), Passes)>>),
    BffRoute("GET", <<"merchant", "payouts">>, MERCHANT_ALLOWED_ROLES, merchantQuery,
             <<CoreCall("GET", Api(<<"merchant", "payouts">>), Passes)>>),
    BffRoute("GET", <<"merchant", "feature-flags">>, MERCHANT_ALLOWED_ROLES, featureFlagQuery, <<>>),
    BffRoute("GET", <<"admin", "incidents">>, ADMIN_ALLOWED_ROLES, <<>>,
             <<CoreCall("GET", Internal(<<"observability", "logs">>), Passes)>>),
    BffRoute("GET", <<"admin", "compliance", "audit-events">>, ADMIN_ALLOWED_ROLES, <<>>,
             <<CoreCall("GET", Internal(<<"risk", "compliance", "audit", "events">>), Passes)>>),
    BffRoute("GET", <<"admin", "slo-dashboard">>, ADMIN_ALLOWED_ROLES, <<>>,
             <<CoreCall("GET", Internal(<<"observability", "slo", "dashboard">>), Passes)>>),
    BffRoute("GET", <<"admin", "feature-flags">>, ADMIN_ALLOWED_ROLES, featureFlagQuery, <<>>)>>

BffRoutes == consumerBffRoutes \o courierBffRoutes \o opsBffRoutes

-----------------------------------------------------------------------------
(* A request *)

\* App sessions, by what their claims allow; one that does not verify; none.
AppToken(persona, role) == [persona |-> persona, role |-> role]
NoToken == AppToken("none", "none")
AppTokens == {NoToken, AppToken("invalid", "none"), AppToken("merchant", "merchant_operator"),
              AppToken("admin", "finance_ops"), AppToken("admin", "merchant_operator")}

\* A bound: at most one field deviates from what the checks let through.
BffRequests(i) ==
    [route : {i}, id : {"text", "blank"},
     token : IF BffRoutes[i].policy = Anyone THEN {NoToken} ELSE AppTokens,
     deviation : {<<"none", "absent">>} \cup
        (FieldsOf(BffRoutes[i].checks) \X
            (IF BffRoutes[i].method = "GET" THEN Optional(String) ELSE Value))]

NoBffRequest == [route |-> 0, id |-> "text", token |-> NoToken, deviation |-> <<"none", "absent">>]

BffInit ==
    /\ bffRequest = NoBffRequest /\ bffStep = "authorize"
    /\ madeCalls = 0 /\ bffStatus = 0 /\ refusedFor = "none"

Taken == BffRoutes[bffRequest.route]

BffChecksFail ==
    \/ bffRequest.id = "blank" /\ Contains(Taken.path, Id)
    \/ \E i \in DOMAIN Taken.checks : \E f \in DOMAIN Taken.checks[i].fields :
          f = bffRequest.deviation[1] /\ bffRequest.deviation[2] \notin Taken.checks[i].fields[f]

\* authorizeDataRoute
Authorizes ==
    CASE Taken.policy = Anyone -> 200
      [] Taken.policy # Anyone /\ bffRequest.token.persona \in {"none", "invalid"} -> 401
      [] OTHER -> IF /\ bffRequest.token.persona = Taken.policy.persona
                     /\ bffRequest.token.role \in Taken.policy.roles
                  THEN 200 ELSE 403

BffReceive(r) ==
    /\ bffRequest = NoBffRequest
    /\ bffRequest' = r
    /\ UNCHANGED <<bffStep, madeCalls, bffStatus, refusedFor>>

BffHandling == bffRequest # NoBffRequest /\ bffStatus = 0
BffAnswer(code) == bffStatus' = code /\ UNCHANGED <<bffRequest, bffStep, madeCalls>>
BffGoesOn(step) == bffStep' = step /\ UNCHANGED <<bffRequest, madeCalls, bffStatus>>

\* The policy is looked at before anything else.
BffAuthorize ==
    /\ BffHandling /\ bffStep = "authorize"
    /\ IF Authorizes = 200 THEN BffGoesOn("validate") ELSE BffAnswer(Authorizes)
    /\ UNCHANGED refusedFor

BffValidate ==
    /\ BffHandling /\ bffStep = "validate"
    /\ IF BffChecksFail THEN BffAnswer(400) ELSE BffGoesOn("call")
    /\ UNCHANGED refusedFor

\* The classes a field of a call can have: what the call sends, or what the BFF
\* let through in the field of that name.
SentClasses(call, f) ==
    LET checked == {i \in DOMAIN Taken.checks : f \in DOMAIN Taken.checks[i].fields}
    IN CASE f \in DOMAIN call.sends -> call.sends[f]
         [] f \notin DOMAIN call.sends /\ checked # {} ->
               UNION {Taken.checks[i].fields[f] : i \in checked}
         [] OTHER -> {"absent"}

\* What core-api may refuse the call for.
MayRefuseFor(call) ==
    LET r == RouteOf(call.method, call.path) IN
    IF r = NoRoute THEN {"path"}
    ELSE UNION {{f \in DOMAIN Routes[r].checks[i].fields :
                    ~(SentClasses(call, f) \subseteq Routes[r].checks[i].fields[f])} :
                i \in DOMAIN Routes[r].checks}

\* Core-api succeeds, or does not: for a reason of its own, or for the form of
\* the call.
CallCore ==
    /\ BffHandling /\ bffStep = "call" /\ madeCalls < Len(Taken.calls)
    /\ \/ /\ madeCalls' = madeCalls + 1
          /\ UNCHANGED <<bffRequest, bffStep, bffStatus, refusedFor>>
       \/ BffAnswer(500) /\ UNCHANGED refusedFor
       \/ /\ refusedFor' \in MayRefuseFor(Taken.calls[madeCalls + 1])
          /\ BffAnswer(500)

\* A query for feature flags that names another user or role than the session is
\* forbidden where there is a session.
BffAnswers ==
    /\ BffHandling /\ bffStep = "call" /\ madeCalls = Len(Taken.calls)
    /\ \/ BffAnswer(IF Taken.calls = quickCreateOrder THEN 201 ELSE 200)
       \/ Taken.checks = featureFlagQuery /\ Taken.policy # Anyone /\ BffAnswer(403)
    /\ UNCHANGED refusedFor

BffNext ==
    \/ \E i \in DOMAIN BffRoutes : \E r \in BffRequests(i) : BffReceive(r)
    \/ BffAuthorize \/ BffValidate \/ CallCore \/ BffAnswers

-----------------------------------------------------------------------------

\* What a BFF lets through, core-api takes: every call takes a route core-api
\* has, and its payload passes that route's checks.  Two exceptions are known:
\* modifiers may lower a unit price below zero, and a dispatch request is passed
\* on unchecked.
BffCallsAccepted ==
    refusedFor \in {"none", "itemsUnitPriceCents"} \cup FieldsOf(validateDispatchAssignmentPayload)
=============================================================================
