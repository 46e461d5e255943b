--------------------------- MODULE OrderProjection ---------------------------
(***************************************************************************)
(* The vocabulary that the order-side modules share: the status columns of  *)
(* orders, payments and vending commands, and the projection that collapses *)
(* an order's two state axes into the single status the admin pages show.   *)
(***************************************************************************)

PaymentStatuses ==
    {"created", "pending", "processing", "unknown", "succeeded", "failed",
     "canceled", "expired", "manual_handling", "refund_pending", "refunded",
     "partial_refund_pending", "partial_refunded"}

OrderPaymentStates ==
    {"awaiting_payment", "paid", "payment_failed", "payment_expired",
     "canceled", "payment_unknown", "manual_handling", "refund_pending",
     "refunded", "partial_refund_pending", "partial_refunded"}

OrderFulfillmentStates ==
    {"awaiting_fulfillment", "dispensing", "dispensed", "dispense_failed",
     "partial_dispensed", "manual_handling", "canceled"}

OrderStatuses ==
    {"pending_payment", "paid", "dispensing", "fulfilled", "dispense_failed",
     "canceled", "payment_expired", "manual_handling", "refund_pending",
     "refunded", "closed"}

(* The statuses a provider's terminal answer may still change.              *)
ProviderMutable == {"created", "pending", "processing", "unknown"}

(* The order's status is a projection of its payment and fulfillment axes:  *)
(* an unsettled or reversed payment decides it, and only a paid order is    *)
(* described by what the machine did.                                       *)
projectOrderStatus(paymentState, fulfillmentState) ==
    CASE paymentState \in {"payment_unknown", "manual_handling"} -> "manual_handling"
      [] paymentState = "payment_expired" -> "payment_expired"
      [] paymentState \in {"payment_failed", "canceled"} -> "canceled"
      [] paymentState \in {"refund_pending", "partial_refund_pending"} -> "refund_pending"
      [] paymentState \in {"refunded", "partial_refunded"} -> "refunded"
      [] OTHER ->
           CASE fulfillmentState = "manual_handling" -> "manual_handling"
             [] fulfillmentState \in {"dispense_failed", "partial_dispensed"} -> "dispense_failed"
             [] fulfillmentState = "dispensed" -> "fulfilled"
             [] fulfillmentState = "dispensing" -> "dispensing"
             [] OTHER -> IF paymentState = "paid" THEN "paid" ELSE "pending_payment"

(* An incident-locked order waits for an operator: ordinary provider        *)
(* answers no longer move it.                                               *)
isPaymentIncidentLocked(orderStatus, paymentState, fulfillmentState, paymentStatus) ==
    \/ orderStatus = "manual_handling"
    \/ paymentState \in {"payment_unknown", "manual_handling"}
    \/ fulfillmentState = "manual_handling"
    \/ paymentStatus \in {"unknown", "manual_handling"}
==============================================================================
