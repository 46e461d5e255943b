---------------------------- MODULE RefundLedger ----------------------------
(***************************************************************************)
(* The rows that fulfilment and refunds share: one paid order, its payment, *)
(* its lines and its refunds.  Handlers of either side change them inside   *)
(* one database transaction that makes several writes, each reading what    *)
(* the one before left; a transaction is therefore written as a composition *)
(* of operators that take the rows, "b", and return them changed.           *)
(*                                                                          *)
(* Amounts are abstracted to what they cover: a full refund covers the      *)
(* payment, a partial one the lines that carry its id.                      *)
(***************************************************************************)
EXTENDS OrderProjection, Naturals, FiniteSets

CONSTANTS
    Lines,                 \* the order's items, one unit each
    Refunds,               \* ids for refund rows (a bound on their number)
    NoRefund,              \* order_items.refund_id is null
    PartialRefunds         \* does the provider support partial refunds?

ASSUME LedgerAssumption ==
    /\ IsFiniteSet(Lines) /\ Lines # {}
    /\ IsFiniteSet(Refunds)
    /\ NoRefund \notin Refunds
    /\ PartialRefunds \in BOOLEAN

LineStatuses == {"pending", "dispensed", "dispense_failed"}
LineRefundStatuses == {"not_required", "pending", "refunded", "failed", "manual_handling"}
RefundStatuses == {"created", "processing", "succeeded", "failed"}
ACTIVE_REFUND_STATUSES == {"created", "processing", "succeeded"}
OpenRefundStatuses == {"created", "processing"}
MAX_REFUND_ATTEMPTS == 3
PartialReason == "auto_partial_dispense_failed"
Reasons == {"auto_dispense_failed", PartialReason, "admin_refund"}

(* The rows of one order.                                                   *)
Books ==
    [status : OrderStatuses,                      \* orders.status
     paymentState : OrderPaymentStates,           \* orders.payment_state
     fulfillmentState : OrderFulfillmentStates,   \* orders.fulfillment_state
     payment : PaymentStatuses,                   \* payments.status
     line : [Lines -> LineStatuses],              \* order_items.fulfillment_status
     lineRefund : [Lines -> LineRefundStatuses],  \* order_items.refund_status
     lineRefundId : [Lines -> Refunds \union {NoRefund}],
     refund : [Refunds -> RefundStatuses \union {"none"}],   \* refunds.status
     reason : [Refunds -> Reasons \union {"none"}]]          \* refunds.reason

(* A paid order whose commands are about to be dispatched.                  *)
PaidOrder ==
    [status |-> "paid", paymentState |-> "paid",
     fulfillmentState |-> "awaiting_fulfillment", payment |-> "succeeded",
     line |-> [l \in Lines |-> "pending"],
     lineRefund |-> [l \in Lines |-> "not_required"],
     lineRefundId |-> [l \in Lines |-> NoRefund],
     refund |-> [r \in Refunds |-> "none"],
     reason |-> [r \in Refunds |-> "none"]]

Active(b, reason) ==
    \E r \in Refunds : b.reason[r] = reason /\ b.refund[r] \in ACTIVE_REFUND_STATUSES

ActiveRefundExists(b) == \E reason \in Reasons : Active(b, reason)

LinesIn(b, status) == {l \in Lines : b.line[l] = status}

-----------------------------------------------------------------------------
(* The order follows its lines.                                             *)

fulfillmentFromLines(b) ==
    CASE LinesIn(b, "dispensed") = Lines -> "dispensed"
      [] LinesIn(b, "dispense_failed") = Lines -> "dispense_failed"
      [] LinesIn(b, "dispensed") # {} /\ LinesIn(b, "dispense_failed") # {} ->
           "partial_dispensed"
      [] OTHER -> "dispensing"

(* The projection is written only when the fulfilment state changes.        *)
syncOrderFulfillmentStateFromLines(b) ==
    LET state == fulfillmentFromLines(b) IN
    IF b.fulfillmentState = state THEN b
    ELSE [b EXCEPT !.fulfillmentState = state,
                   !.status = projectOrderStatus(b.paymentState, state)]

-----------------------------------------------------------------------------
(* Refunds that a fulfilment transaction stages: rows with status created,  *)
(* which the dispatcher sends to the provider later.  The unique index on   *)
(* active refunds of one order and reason makes a second one a no-op.       *)

Insert(b, r, status, reason) ==
    [b EXCEPT !.refund[r] = status, !.reason[r] = reason]

stageAutomaticFullRefund(b, r) ==
    IF Active(b, "auto_dispense_failed") THEN b
    ELSE [Insert(b, r, "created", "auto_dispense_failed") EXCEPT
            !.lineRefundId = [l \in Lines |->
                IF b.lineRefund[l] = "pending" THEN r ELSE b.lineRefundId[l]],
            !.status = "refund_pending",
            !.paymentState = "refund_pending",
            !.payment = "refund_pending"]

(* A provider without partial refunds leaves the lines to an operator.      *)
stageAutomaticPartialRefund(b, r, lines) ==
    CASE ~PartialRefunds ->
           [b EXCEPT !.lineRefund = [l \in Lines |->
                          IF l \in lines THEN "manual_handling" ELSE b.lineRefund[l]],
                     !.payment = "manual_handling",
                     !.status = "manual_handling",
                     !.paymentState = "manual_handling"]
      [] PartialRefunds /\ Active(b, PartialReason) -> b
      [] OTHER ->
           [Insert(b, r, "created", PartialReason) EXCEPT
              !.lineRefundId = [l \in Lines |->
                  IF l \in lines /\ b.lineRefund[l] = "pending"
                  THEN r ELSE b.lineRefundId[l]],
              !.status = "refund_pending",
              !.paymentState = "partial_refund_pending",
              !.payment = "partial_refund_pending"]

(* Mutation: the refund is decided while lines are still open.              *)
StageTooEarly(b, r) ==
    IF LinesIn(b, "dispensed") = {} THEN stageAutomaticFullRefund(b, r) ELSE b

(* Nothing is refunded while a line may still be dispensed; then all lines  *)
(* failed, or the failed ones next to dispensed ones.                       *)
stageFailedLineRefund(b, r) ==
    LET failed == LinesIn(b, "dispense_failed") IN
    CASE LinesIn(b, "pending") # {} -> b
      [] failed = Lines -> stageAutomaticFullRefund(b, r)
      [] OTHER -> stageAutomaticPartialRefund(b, r, failed)

(* A line's failure is recorded and the order follows.                      *)
markOrderLineFailed(b, l) ==
    syncOrderFulfillmentStateFromLines(
        [b EXCEPT !.line[l] = "dispense_failed", !.lineRefund[l] = "pending"])

(* Mutation: failed lines that waited for the success are forgotten.        *)
ForgetWaitingLines(b, l, r) ==
    syncOrderFulfillmentStateFromLines(
        [b EXCEPT !.line[l] = "dispensed", !.lineRefund[l] = "not_required"])

(* A line's success is confirmed; failed lines that waited for it can now   *)
(* be refunded.                                                             *)
markOrderLineDispensed(b, l, r) ==
    LET done == syncOrderFulfillmentStateFromLines(
                   [b EXCEPT !.line[l] = "dispensed", !.lineRefund[l] = "not_required"])
        waiting == {k \in LinesIn(done, "dispense_failed") : done.lineRefund[k] = "pending"}
    IN IF LinesIn(done, "pending") = {} /\ waiting # {}
       THEN stageAutomaticPartialRefund(done, r, waiting) ELSE done

-----------------------------------------------------------------------------
(* The operator's full refund: its row is inserted as processing and the    *)
(* same request calls the provider.                                         *)

Refundable == {"dispense_failed", "manual_handling", "refund_pending"}

(* Mutation: an earlier refund for the same reason is not looked for.       *)
RequestAgain(b, reason) == b.status \in Refundable

CanRequestFullRefund(b, reason) ==
    /\ ~Active(b, reason)
    /\ Cardinality({r \in Refunds : b.reason[r] = reason /\ b.refund[r] = "failed"})
         < MAX_REFUND_ATTEMPTS
    /\ b.status \in Refundable

requestFullRefund(b, r, reason) ==
    [Insert(b, r, "processing", reason) EXCEPT
        !.status = "refund_pending",
        !.paymentState = "refund_pending",
        !.payment = "refund_pending"]

-----------------------------------------------------------------------------
(* The end of a refund.                                                     *)

Relabel(b, lines, r, status) ==
    [b EXCEPT !.lineRefund = [l \in Lines |->
                 IF l \in lines THEN status ELSE b.lineRefund[l]],
              !.lineRefundId = [l \in Lines |->
                 IF l \in lines THEN r ELSE b.lineRefundId[l]]]

SetOrder(b, status, paymentState, fulfillmentState, payment) ==
    [b EXCEPT !.status = status, !.paymentState = paymentState,
              !.fulfillmentState = fulfillmentState, !.payment = payment]

(* "seen" is the fulfilment state read before the provider was called: it   *)
(* is written back.                                                         *)
applyPartialRefundTerminalState(b, r, outcome, seen) ==
    LET ended == [b EXCEPT !.refund[r] = outcome]
        mine == {l \in Lines : b.lineRefundId[l] = r}
    IN IF outcome = "succeeded"
       THEN SetOrder(Relabel(ended, mine, r, "refunded"),
                     projectOrderStatus("partial_refunded", seen),
                     "partial_refunded", seen, "partial_refunded")
       ELSE SetOrder(Relabel(ended, mine, r, "failed"),
                     "manual_handling", "manual_handling", seen, "manual_handling")

(* Mutation: the refund's failure is booked like its success.               *)
BookedAnyway(b, r, outcome) ==
    LET waiting == {l \in Lines : b.lineRefund[l] = "pending"}
    IN SetOrder(Relabel([b EXCEPT !.refund[r] = outcome], waiting, r, "refunded"),
                projectOrderStatus("refunded", "manual_handling"),
                "refunded", b.fulfillmentState, "refunded")

applyFullRefundTerminalState(b, r, outcome) ==
    LET ended == [b EXCEPT !.refund[r] = outcome]
        waiting == {l \in Lines : b.lineRefund[l] = "pending"}
    IN IF outcome = "succeeded"
       THEN SetOrder(Relabel(ended, waiting, r, "refunded"),
                     projectOrderStatus("refunded", "manual_handling"),
                     "refunded", b.fulfillmentState, "refunded")
       ELSE SetOrder(Relabel(ended, waiting, r, "failed"),
                     projectOrderStatus("paid", "manual_handling"),
                     "paid", "manual_handling", "succeeded")

applyRefundTerminalState(b, r, outcome, seen) ==
    IF b.reason[r] = PartialReason
    THEN applyPartialRefundTerminalState(b, r, outcome, seen)
    ELSE applyFullRefundTerminalState(b, r, outcome)
=============================================================================
