--------------------------- MODULE HttpValidation ---------------------------
(***************************************************************************)
(* What the request validators of core-api let through.                    *)
(*                                                                         *)
(* A value is a class of JSON values: those the validators tell apart.  A  *)
(* validator is a sequence of checks, made in order; a check names its     *)
(* error and, for each field, the classes it lets through.  A field of an  *)
(* element of an array is named after both: items.name.  What a validator  *)
(* returns is the payload itself, trimmed or in upper case at most.        *)
(***************************************************************************)
EXTENDS Naturals, Sequences

\* Texts: no characters but blanks; none of the others; a member of the field's
\* enumeration; a date; a numeral; an HH:MM; three letters; a CSV document.
String == {"blank", "text", "member", "date", "numeral", "hhmm", "code3", "csv"}
NonBlank == String \ {"blank"}
\* new Date takes a numeral for a year or a month.
Date == {"date", "numeral"}
Member == {"member"}
HHMM == {"hhmm"}

\* -1, 0, 0.5, 1, 2, and 1e999, which JSON.parse makes Infinity.
Number == {"negative", "zero", "half", "one", "two", "infinite"}
NonNegative == Number \ {"negative"}
Positive == NonNegative \ {"zero"}
Finite == Number \ {"infinite"}
Integer == {"negative", "zero", "one", "two"}

Bool == {"bool"}
Array == {"array", "emptyArray"}
NonEmptyArray == {"array"}
Object == {"object"}
Value == String \cup Number \cup Array \cup {"absent", "null", "bool", "object"}

Optional(classes) == classes \cup {"absent"}
Check(error, fields) == [error |-> error, fields |-> fields]

-----------------------------------------------------------------------------
(* Identity and sessions *)

validateRegistrationPayload == <<Check("INVALID_REGISTRATION_PAYLOAD",
    [email |-> String, phone |-> String, passwordHash |-> String, role |-> Member])>>

validateLoginPayload == <<Check("INVALID_LOGIN_PAYLOAD",
    [email |-> String, passwordHash |-> String, mfaCode |-> Optional(String)])>>

validateRefreshPayload == <<Check("INVALID_REFRESH_PAYLOAD", [refreshToken |-> NonBlank])>>

\* The code must be there and not empty; a blank stands for the empty text.
validateMfaVerifyPayload == validateLoginPayload \o
    <<Check("INVALID_MFA_VERIFY_PAYLOAD", [mfaCode |-> NonBlank])>>

validateBreakGlassActivationPayload == <<Check("INVALID_BREAK_GLASS_PAYLOAD",
    [reasonCode |-> NonBlank, justification |-> Optional(String)])>>

-----------------------------------------------------------------------------
(* Catalog and ordering *)

validateMenuItems == <<
    Check("INVALID_MENU_ITEMS", [items |-> NonEmptyArray]),
    Check("INVALID_MENU_ITEMS", [itemsItemId |-> String, itemsName |-> NonBlank,
                                 itemsPriceCents |-> NonNegative])>>

validateCreateMenuPayload == <<Check("INVALID_MENU_CREATE_PAYLOAD",
    [merchantId |-> String, storeId |-> String, name |-> NonBlank])>> \o validateMenuItems

validateUpdateMenuPayload ==
    <<Check("INVALID_MENU_UPDATE_PAYLOAD", [name |-> NonBlank])>> \o validateMenuItems

\* open and close are well-formed times in any order: a schedule may go past
\* midnight.
validateStoreStatusPayload == <<
    Check("INVALID_STORE_STATUS_PAYLOAD", [paused |-> Bool, schedule |-> Object]),
    Check("INVALID_STORE_STATUS_PAYLOAD", [open |-> HHMM, close |-> HHMM, timezone |-> NonBlank])>>

validateItemAvailabilityPayload == <<Check("INVALID_ITEM_AVAILABILITY_PAYLOAD",
    [available |-> Bool, reason |-> Optional(String)])>>

validateCreateBasketPayload == <<Check("INVALID_BASKET_CREATE_PAYLOAD",
    [consumerId |-> String, merchantId |-> String, currency |-> NonBlank])>>

\* A basket may be emptied; a quantity need not be whole.
validateBasketItems == <<
    Check("INVALID_BASKET_ITEMS", [items |-> Array]),
    Check("INVALID_BASKET_ITEMS",
          [itemsItemId |-> String, itemsName |-> String, itemsQuantity |-> Positive,
           itemsUnitPriceCents |-> NonNegative, itemsModifiers |-> Array,
           itemsNote |-> Optional(String)])>>

\* The corners of a zone are any numbers, in any order.
validateUpsertDeliveryZonePayload == <<Check("INVALID_DELIVERY_ZONE_PAYLOAD",
    [zoneId |-> String, name |-> String, minLat |-> Number, maxLat |-> Number,
     minLng |-> Number, maxLng |-> Number])>>

validateZonePointPayload == <<Check("INVALID_ZONE_POINT_PAYLOAD",
    [latitude |-> Number, longitude |-> Number])>>

validateGenerateQuotePayload == <<Check("INVALID_QUOTE_PAYLOAD",
    [basketId |-> String, promoCode |-> Optional(String)])>>

validatePromotionEvaluatePayload == <<Check("INVALID_PROMOTION_EVALUATION_PAYLOAD",
    [consumerId |-> String, merchantId |-> String, subtotalCents |-> NonNegative,
     promoCode |-> Optional(String)])>>

validateCheckoutPayload == <<Check("INVALID_CHECKOUT_PAYLOAD",
    [basketId |-> String, quoteId |-> String, quoteHash |-> String])>>

-----------------------------------------------------------------------------
(* Orders, courier jobs and dispatch *)

validateCreateOrderPayload == <<Check("INVALID_ORDER_CREATE_PAYLOAD",
    [checkoutId |-> String, quoteHash |-> String])>>

validateOrderCancellationPayload ==
    <<Check("INVALID_ORDER_CANCELLATION_PAYLOAD", [reasonCode |-> NonBlank])>>

validateMerchantOrderRejectPayload ==
    <<Check("INVALID_MERCHANT_ORDER_REJECT_PAYLOAD", [reasonCode |-> NonBlank])>>

validateCourierJobCourierPayload ==
    <<Check("INVALID_COURIER_JOB_COURIER_PAYLOAD", [courierId |-> NonBlank])>>

validateCourierTelemetryPayload == <<Check("INVALID_COURIER_TELEMETRY_PAYLOAD",
    [courierId |-> NonBlank, observedAtEpochMs |-> Number, speedMps |-> Number,
     distanceToDropoffMeters |-> Number])>>

\* ?? takes null for absent.  An empty payload asks for no assignment and is
\* not checked at all.
validateDispatchAssignmentPayload == <<
    Check("INVALID_DISPATCH_REQUEST_PAYLOAD", [candidates |-> NonEmptyArray]),
    Check("INVALID_DISPATCH_REQUEST_PAYLOAD",
          [candidatesCourierId |-> NonBlank,
           candidatesDistanceMeters |-> NonNegative \cap Finite,
           candidatesAvailable |-> Bool,
           candidatesActiveOrders |-> NonNegative \cap Integer,
           candidatesWithinRestWindow |-> Bool]),
    Check("INVALID_DISPATCH_REQUEST_PAYLOAD",
          [slaPressure |-> {"absent", "null", "zero", "half", "one"},
           merchantSelfDeliveryEnabled |-> {"absent", "null", "bool"}])>>

-----------------------------------------------------------------------------
(* Payments *)

validatePaymentAuthorizePayload == <<Check("INVALID_PAYMENT_AUTHORIZE_PAYLOAD",
    [orderId |-> String, method |-> Member, amount |-> Positive, currency |-> {"code3"}])>>

validatePaymentCapturePayload == <<Check("INVALID_PAYMENT_CAPTURE_PAYLOAD",
    [paymentIntentId |-> NonBlank, idempotencyKey |-> NonBlank])>>

validateCashExpectedPayload == <<Check("INVALID_CASH_EXPECTED_PAYLOAD",
    [orderId |-> String, expectedAmount |-> Positive, currency |-> {"code3"}])>>

validateCashCollectionPayload == <<Check("INVALID_CASH_COLLECTION_PAYLOAD",
    [collectedAmount |-> Positive, courierId |-> NonBlank])>>

validateRefundRequestPayload == <<Check("INVALID_REFUND_REQUEST_PAYLOAD",
    [orderId |-> String, paymentIntentId |-> String, amount |-> Positive,
     reasonCode |-> NonBlank, requestedBy |-> NonBlank])>>

validateRefundApprovalPayload ==
    <<Check("INVALID_REFUND_APPROVAL_PAYLOAD", [approvedBy |-> NonBlank])>>

-----------------------------------------------------------------------------
(* Settlement and payouts *)

\* lines is an array of two lines or more.
validateSettlementJournalPayload == <<
    Check("INVALID_SETTLEMENT_JOURNAL_PAYLOAD",
          [sourceType |-> NonBlank, sourceId |-> NonBlank, lines |-> NonEmptyArray]),
    Check("INVALID_SETTLEMENT_JOURNAL_PAYLOAD",
          [linesAccount |-> NonBlank, linesSide |-> Member, linesAmount |-> Positive])>>

expectedRecords == Check("INVALID_SETTLEMENT_RECONCILIATION_PAYLOAD",
    [expectedEntityId |-> NonBlank, expectedAmount |-> NonNegative \cap Finite])

validateSettlementReconciliationPayload == <<
    Check("INVALID_SETTLEMENT_RECONCILIATION_PAYLOAD",
          [expectedRecords |-> Array, actualRecords |-> Array,
           toleranceCents |-> NonNegative \cap Finite]),
    expectedRecords,
    Check("INVALID_SETTLEMENT_RECONCILIATION_PAYLOAD",
          [actualEntityId |-> NonBlank, actualAmount |-> NonNegative \cap Finite])>>

\* The fields of a CSV line are texts; Number makes 0 of a blank one.
parseSettlementReconciliationCsv == Check("INVALID_SETTLEMENT_RECONCILIATION_INGEST_PAYLOAD",
    [csvEntityId |-> NonBlank, csvAmount |-> {"blank", "numeral"}])

validateSettlementReconciliationIngestPayload == <<
    Check("INVALID_SETTLEMENT_RECONCILIATION_INGEST_PAYLOAD",
          [expectedRecords |-> Array, actualRecordsCsv |-> {"csv"},
           toleranceCents |-> NonNegative \cap Finite]),
    parseSettlementReconciliationCsv,
    expectedRecords>>

\* Whatever the ingest validator throws becomes the one error of the run.
validateSettlementReconciliationImportRunPayload ==
    <<Check("INVALID_SETTLEMENT_RECONCILIATION_IMPORT_RUN_PAYLOAD",
            [routeId |-> NonBlank, runAt |-> Date, sourceFileName |-> NonBlank])>> \o
    [i \in 1..3 |-> [validateSettlementReconciliationIngestPayload[i] EXCEPT
        !.error = "INVALID_SETTLEMENT_RECONCILIATION_IMPORT_RUN_PAYLOAD"]]

validatePayoutBatchPayload == <<
    Check("INVALID_PAYOUT_BATCH_PAYLOAD",
          [scheduleId |-> NonBlank, runAt |-> Date, candidates |-> Array]),
    Check("INVALID_PAYOUT_BATCH_PAYLOAD",
          [candidatesEntityType |-> Member, candidatesEntityId |-> NonBlank,
           candidatesAmount |-> NonNegative, candidatesHasException |-> Bool,
           candidatesHoldReason |-> Optional(String)])>>

\* The schedule is the one of the route.
validatePayoutScheduleRunPayload == <<
    Check("INVALID_PAYOUT_SCHEDULE_RUN_PAYLOAD",
          [routeId |-> NonBlank, runAt |-> Date, candidates |-> Array]),
    [validatePayoutBatchPayload[2] EXCEPT !.error = "INVALID_PAYOUT_SCHEDULE_RUN_PAYLOAD"]>>

validatePublishPayoutStatementPayload == <<
    Check("INVALID_PAYOUT_STATEMENT_PAYLOAD",
          [payoutBatchId |-> NonBlank, entityType |-> Member, entityId |-> NonBlank,
           periodStart |-> Date, periodEnd |-> Date, currency |-> NonBlank,
           totalAmount |-> Number, lineItems |-> Array]),
    Check("INVALID_PAYOUT_STATEMENT_PAYLOAD",
          [lineItemsLabel |-> NonBlank, lineItemsAmount |-> Number])>>

-----------------------------------------------------------------------------
(* Notifications *)

validateNotificationFanoutPayload == <<Check("INVALID_NOTIFICATION_FANOUT_PAYLOAD",
    [eventType |-> NonBlank, entityId |-> NonBlank, recipientId |-> NonBlank,
     actorType |-> Optional(Member), locale |-> Optional(NonBlank)])>>

validateTemplateResolvePayload == <<Check("INVALID_NOTIFICATION_TEMPLATE_PAYLOAD",
    [eventType |-> NonBlank, actorType |-> Member, locale |-> NonBlank])>>

validateNotificationRetryPayload == <<Check("INVALID_NOTIFICATION_RETRY_PAYLOAD",
    [notificationId |-> NonBlank, eventType |-> NonBlank, channel |-> Member,
     entityId |-> NonBlank, currentAttempt |-> NonNegative \cap Integer,
     errorCode |-> NonBlank, retriable |-> Bool])>>

validateNotificationReceiptPayload == <<Check("INVALID_NOTIFICATION_RECEIPT_PAYLOAD",
    [notificationId |-> NonBlank, channel |-> Member, entityId |-> NonBlank,
     status |-> Member, providerMessageId |-> Optional(NonBlank)])>>

-----------------------------------------------------------------------------
(* Support, risk and compliance *)

validateCreateSupportTicketPayload == <<Check("INVALID_SUPPORT_TICKET_PAYLOAD",
    [orderId |-> NonBlank, actorId |-> NonBlank, issueType |-> NonBlank, summary |-> NonBlank])>>

\* The second check is for a refund, which the conforming payload asks for.
validateSupportInterventionPayload == <<
    Check("INVALID_SUPPORT_INTERVENTION_PAYLOAD",
          [actionType |-> Member, actorId |-> NonBlank, orderId |-> NonBlank,
           reasonCode |-> NonBlank]),
    Check("INVALID_SUPPORT_INTERVENTION_PAYLOAD",
          [paymentIntentId |-> NonBlank, refundAmount |-> Positive])>>

validateSupportSlaEvaluationPayload ==
    <<Check("INVALID_SUPPORT_SLA_PAYLOAD", [evaluatedAt |-> Date])>>

validateRiskPolicyEvaluatePayload == <<Check("INVALID_RISK_POLICY_EVALUATE_PAYLOAD",
    [actionType |-> NonBlank, amountCents |-> NonNegative \cap Finite, actorId |-> NonBlank])>>

validateRiskPolicyRulePayload == <<Check("INVALID_RISK_POLICY_RULE_PAYLOAD",
    [routeId |-> NonBlank, allowUpToCents |-> NonNegative \cap Finite,
     reviewUpToCents |-> NonNegative \cap Finite])>>

validateQueueManualReviewPayload == <<Check("INVALID_MANUAL_REVIEW_QUEUE_PAYLOAD",
    [entityType |-> Member, entityId |-> NonBlank, orderId |-> Optional(String),
     amountCents |-> NonNegative \cap Finite, reasonCode |-> NonBlank,
     requestedBy |-> NonBlank])>>

validateResolveManualReviewPayload == <<Check("INVALID_MANUAL_REVIEW_RESOLVE_PAYLOAD",
    [routeId |-> NonBlank, decision |-> Member, resolvedBy |-> NonBlank,
     note |-> Optional(String)])>>

validateAppendComplianceAuditPayload == <<Check("INVALID_COMPLIANCE_AUDIT_PAYLOAD",
    [actionType |-> NonBlank, actorId |-> NonBlank, targetType |-> NonBlank,
     targetId |-> NonBlank, reasonCode |-> NonBlank, metadata |-> Object])>>

validateGenerateComplianceEvidencePayload == <<Check("INVALID_COMPLIANCE_EVIDENCE_PAYLOAD",
    [generatedBy |-> NonBlank, generatedAt |-> Date])>>

-----------------------------------------------------------------------------
(* Queries: every value is a text or absent *)

validateStoreDiscoveryQuery == <<Check("INVALID_STORE_DISCOVERY_QUERY",
    [orderable |-> Optional(Member), at |-> Optional(Date)])>>

validateStoreMenuQuery ==
    <<Check("INVALID_STORE_MENU_QUERY", [availableOnly |-> Optional(Member)])>>

\* A blank time stands for now.
orderabilityQuery == <<Check("INVALID_ORDERABILITY_QUERY", [at |-> Optional(Date \cup {"blank"})])>>

validateCourierJobListQuery == <<Check("INVALID_COURIER_JOB_QUERY",
    [courierId |-> NonBlank, status |-> Optional(Member)])>>

parseOptionalOrderStatus == <<Check("INVALID_ORDER_STATUS_QUERY", [status |-> Optional(Member)])>>

validateConsumerOrderListQuery ==
    <<Check("INVALID_CONSUMER_ORDER_QUERY", [consumerId |-> NonBlank])>> \o parseOptionalOrderStatus

validateMerchantOrderListQuery ==
    <<Check("INVALID_MERCHANT_ORDER_QUERY", [merchantId |-> NonBlank])>> \o parseOptionalOrderStatus

\* A numeral stands for a positive integer.
validateSettlementReconciliationQuery == <<Check("INVALID_SETTLEMENT_RECONCILIATION_QUERY",
    [hasExceptions |-> Optional(Member), limit |-> Optional({"numeral"})])>>

merchantPayoutQuery == <<Check("INVALID_MERCHANT_PAYOUT_QUERY", [merchantId |-> NonBlank])>>
courierPayoutQuery == <<Check("INVALID_COURIER_PAYOUT_QUERY", [courierId |-> NonBlank])>>
receiptQuery == <<Check("INVALID_NOTIFICATION_RECEIPT_QUERY", [entityId |-> NonBlank])>>
=============================================================================
