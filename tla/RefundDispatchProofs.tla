------------------------ MODULE RefundDispatchProofs ------------------------
(***************************************************************************)
(* Proofs about RefundDispatch, for every order, every set of refund        *)
(* numbers and any number of overlapping calls.                             *)
(***************************************************************************)
EXTENDS RefundDispatch, TLAPS

USE LedgerAssumption, DispatchAssumption DEF LedgerAssumption, DispatchAssumption

(* A call is about a refund that exists; what it was answered, once it is   *)
(* final, is still the provider's decision; a partial refund remembers the  *)
(* fulfilment it will write back.                                           *)
JobsInv ==
    \A j \in jobs :
        /\ order.refund[j.refund] # "none"
        /\ j.answer \in {"succeeded", "failed"} => provider[j.refund] = j.answer
        /\ order.reason[j.refund] = PartialReason => j.seen \in OrderFulfillmentStates

(* The provider does not know a number without a row.                       *)
FreshInv == \A r \in Refunds : order.refund[r] = "none" => provider[r] = "absent"

(* refunds_order_reason_active_unique: one active row per reason.           *)
UniqueInv ==
    \A r, q \in Refunds :
        /\ order.refund[r] \in ACTIVE_REFUND_STATUSES
        /\ order.refund[q] \in ACTIVE_REFUND_STATUSES
        /\ order.reason[r] = order.reason[q]
        => r = q

IndInv == TypeOK /\ JobsInv /\ FreshInv /\ UniqueInv /\ RowIsBacked /\ MoneyIsBacked

-----------------------------------------------------------------------------
(* What the operators of RefundLedger do to the rows.                       *)

(* Nothing is said to have been paid back that was not before.              *)
MoneyKept(b, c) ==
    /\ \A l \in Lines : c.lineRefund[l] = "refunded" =>
           b.lineRefund[l] = "refunded" /\ c.lineRefundId[l] = b.lineRefundId[l]
    /\ c.paymentState \in {"refunded", "partial_refunded"} => c.paymentState = b.paymentState

(* The rows change without a refund being inserted.                         *)
Kept(b, c) ==
    c \in Books /\ MoneyKept(b, c) /\ c.refund = b.refund /\ c.reason = b.reason

(* A refund is inserted under the number r.                                 *)
Inserted(b, c, r) ==
    /\ c \in Books /\ MoneyKept(b, c)
    /\ \E q \in Reasons, s \in OpenRefundStatuses :
          /\ ~Active(b, q)
          /\ c.refund = [b.refund EXCEPT ![r] = s]
          /\ c.reason = [b.reason EXCEPT ![r] = q]

LEMMA ProjectType ==
    ASSUME NEW p \in OrderPaymentStates, NEW f \in OrderFulfillmentStates
    PROVE  projectOrderStatus(p, f) \in OrderStatuses
  BY DEF projectOrderStatus, OrderPaymentStates, OrderFulfillmentStates, OrderStatuses

LEMMA SyncKeeps ==
    ASSUME NEW b \in Books
    PROVE  Kept(b, syncOrderFulfillmentStateFromLines(b))
  <1> DEFINE state == fulfillmentFromLines(b)
             c == [b EXCEPT !.fulfillmentState = state,
                            !.status = projectOrderStatus(b.paymentState, state)]
  <1>1. state \in OrderFulfillmentStates
    BY DEF fulfillmentFromLines, OrderFulfillmentStates
  <1>2. projectOrderStatus(b.paymentState, state) \in OrderStatuses
    BY <1>1, ProjectType DEF Books
  <1> HIDE DEF state
  <1>3. c \in Books /\ c.refund = b.refund /\ c.reason = b.reason /\ MoneyKept(b, c)
    BY <1>1, <1>2 DEF Books, MoneyKept
  <1>4. b \in Books /\ MoneyKept(b, b)
    BY DEF MoneyKept
  <1> QED
    BY <1>3, <1>4 DEF syncOrderFulfillmentStateFromLines, Kept, state

LEMMA KeptTwice ==
    ASSUME NEW b \in Books, NEW c, NEW d, Kept(b, c), Kept(c, d)
    PROVE  Kept(b, d)
  BY DEF Kept, MoneyKept

LEMMA KeptThenInserted ==
    ASSUME NEW b \in Books, NEW c, NEW d, NEW r, Kept(b, c), Inserted(c, d, r)
    PROVE  Inserted(b, d, r)
  <1>1. \A q : Active(c, q) = Active(b, q)
    BY DEF Kept, Active
  <1>2. MoneyKept(b, d)
    BY DEF Kept, Inserted, MoneyKept
  <1> QED
    BY <1>1, <1>2 DEF Kept, Inserted

(* A line's end without its refund.                                         *)
LEMMA LineKeeps ==
    ASSUME NEW b \in Books, NEW l \in Lines,
           NEW s \in LineStatuses, NEW t \in {"pending", "not_required"}
    PROVE  Kept(b, [b EXCEPT !.line[l] = s, !.lineRefund[l] = t])
  <1> DEFINE c == [b EXCEPT !.line[l] = s, !.lineRefund[l] = t]
  <1>1. c \in Books /\ c.refund = b.refund /\ c.reason = b.reason
    BY DEF Books, LineRefundStatuses
  <1>2. c.lineRefund = [b.lineRefund EXCEPT ![l] = t] /\ c.lineRefundId = b.lineRefundId
        /\ c.paymentState = b.paymentState
    BY DEF Books
  <1>3. MoneyKept(b, c)
    BY <1>2 DEF MoneyKept, Books
  <1> QED
    BY <1>1, <1>3 DEF Kept

LEMMA InsertType ==
    ASSUME NEW b \in Books, NEW r \in Refunds, NEW s \in OpenRefundStatuses, NEW q \in Reasons
    PROVE  /\ Insert(b, r, s, q) \in Books
           /\ Insert(b, r, s, q).refund = [b.refund EXCEPT ![r] = s]
           /\ Insert(b, r, s, q).reason = [b.reason EXCEPT ![r] = q]
           /\ Insert(b, r, s, q).lineRefund = b.lineRefund
           /\ Insert(b, r, s, q).lineRefundId = b.lineRefundId
           /\ Insert(b, r, s, q).paymentState = b.paymentState
  BY DEF Insert, Books, OpenRefundStatuses, RefundStatuses

LEMMA FullStages ==
    ASSUME NEW b \in Books, NEW r \in Refunds
    PROVE  LET c == stageAutomaticFullRefund(b, r)
           IN  Kept(b, c) \/ Inserted(b, c, r)
  <1> DEFINE q == "auto_dispense_failed"
             i == Insert(b, r, "created", q)
             ids == [l \in Lines |-> IF b.lineRefund[l] = "pending" THEN r ELSE b.lineRefundId[l]]
             c == [i EXCEPT !.lineRefundId = ids, !.status = "refund_pending",
                            !.paymentState = "refund_pending", !.payment = "refund_pending"]
  <1>1. CASE Active(b, q)
    <2>1. Kept(b, b)
      BY DEF Kept, MoneyKept
    <2> QED
      BY <1>1, <2>1 DEF stageAutomaticFullRefund
  <1>2. CASE ~Active(b, q)
    <2>1. q \in Reasons /\ "created" \in OpenRefundStatuses
      BY DEF Reasons, OpenRefundStatuses
    <2>2. /\ i \in Books /\ i.lineRefund = b.lineRefund
          /\ i.refund = [b.refund EXCEPT ![r] = "created"]
          /\ i.reason = [b.reason EXCEPT ![r] = q]
      BY <2>1, InsertType
    <2>3. ids \in [Lines -> Refunds \union {NoRefund}]
      BY DEF Books
    <2> HIDE DEF i, ids
    <2>4. /\ c \in Books /\ c.refund = i.refund /\ c.reason = i.reason
          /\ c.lineRefund = i.lineRefund /\ c.lineRefundId = ids
          /\ c.paymentState = "refund_pending"
      BY <2>2, <2>3 DEF Books, OrderStatuses, OrderPaymentStates, PaymentStatuses
    <2>5. MoneyKept(b, c)
      BY <2>2, <2>4 DEF MoneyKept, ids
    <2>6. Inserted(b, c, r)
      BY <1>2, <2>1, <2>2, <2>4, <2>5 DEF Inserted
    <2>7. stageAutomaticFullRefund(b, r) = c
      BY <1>2 DEF stageAutomaticFullRefund, i, ids
    <2> QED
      BY <2>6, <2>7
  <1> QED
    BY <1>1, <1>2

LEMMA PartialStages ==
    ASSUME NEW b \in Books, NEW r \in Refunds, NEW lines
    PROVE  LET c == stageAutomaticPartialRefund(b, r, lines)
           IN  Kept(b, c) \/ Inserted(b, c, r)
  <1>1. CASE ~PartialRefunds
    <2> DEFINE refunds == [l \in Lines |-> IF l \in lines THEN "manual_handling" ELSE b.lineRefund[l]]
               c == [b EXCEPT !.lineRefund = refunds, !.payment = "manual_handling",
                              !.status = "manual_handling", !.paymentState = "manual_handling"]
    <2>1. refunds \in [Lines -> LineRefundStatuses]
      BY DEF Books, LineRefundStatuses
    <2> HIDE DEF refunds
    <2>2. /\ c \in Books /\ c.refund = b.refund /\ c.reason = b.reason
          /\ c.lineRefund = refunds /\ c.lineRefundId = b.lineRefundId
          /\ c.paymentState = "manual_handling"
      BY <2>1 DEF Books, OrderStatuses, OrderPaymentStates, PaymentStatuses
    <2>3. MoneyKept(b, c)
      BY <2>2 DEF MoneyKept, refunds
    <2>4. stageAutomaticPartialRefund(b, r, lines) = c
      BY <1>1 DEF stageAutomaticPartialRefund, refunds
    <2> QED
      BY <2>2, <2>3, <2>4 DEF Kept
  <1>2. CASE PartialRefunds /\ Active(b, PartialReason)
    <2>1. Kept(b, b)
      BY DEF Kept, MoneyKept
    <2> QED
      BY <1>2, <2>1 DEF stageAutomaticPartialRefund
  <1>3. CASE PartialRefunds /\ ~Active(b, PartialReason)
    <2> DEFINE i == Insert(b, r, "created", PartialReason)
               ids == [l \in Lines |-> IF l \in lines /\ b.lineRefund[l] = "pending"
                                       THEN r ELSE b.lineRefundId[l]]
               c == [i EXCEPT !.lineRefundId = ids, !.status = "refund_pending",
                              !.paymentState = "partial_refund_pending",
                              !.payment = "partial_refund_pending"]
    <2>1. PartialReason \in Reasons /\ "created" \in OpenRefundStatuses
      BY DEF Reasons, OpenRefundStatuses
    <2>2. /\ i \in Books /\ i.lineRefund = b.lineRefund
          /\ i.refund = [b.refund EXCEPT ![r] = "created"]
          /\ i.reason = [b.reason EXCEPT ![r] = PartialReason]
      BY <2>1, InsertType
    <2>3. ids \in [Lines -> Refunds \union {NoRefund}]
      BY DEF Books
    <2> HIDE DEF i, ids
    <2>4. /\ c \in Books /\ c.refund = i.refund /\ c.reason = i.reason
          /\ c.lineRefund = i.lineRefund /\ c.lineRefundId = ids
          /\ c.paymentState = "partial_refund_pending"
      BY <2>2, <2>3 DEF Books, OrderStatuses, OrderPaymentStates, PaymentStatuses
    <2>5. MoneyKept(b, c)
      BY <2>2, <2>4 DEF MoneyKept, ids
    <2>6. Inserted(b, c, r)
      BY <1>3, <2>1, <2>2, <2>4, <2>5 DEF Inserted
    <2>7. stageAutomaticPartialRefund(b, r, lines) = c
      BY <1>3 DEF stageAutomaticPartialRefund, i, ids
    <2> QED
      BY <2>6, <2>7
  <1> QED
    BY <1>1, <1>2, <1>3

LEMMA StagedInserts ==
    ASSUME NEW b \in Books, NEW r \in Refunds
    PROVE  LET c == stageFailedLineRefund(b, r) IN Kept(b, c) \/ Inserted(b, c, r)
  <1>1. Kept(b, b)
    BY DEF Kept, MoneyKept
  <1> QED
    BY <1>1, FullStages, PartialStages DEF stageFailedLineRefund

LEMMA FailureKeeps ==
    ASSUME NEW b \in Books, NEW l \in Lines
    PROVE  Kept(b, markOrderLineFailed(b, l))
  <1> DEFINE c == [b EXCEPT !.line[l] = "dispense_failed", !.lineRefund[l] = "pending"]
  <1>1. Kept(b, c)
    BY LineKeeps DEF LineStatuses
  <1>2. Kept(c, syncOrderFulfillmentStateFromLines(c))
    BY <1>1, SyncKeeps DEF Kept
  <1> QED
    BY <1>1, <1>2, KeptTwice DEF markOrderLineFailed

LEMMA SuccessInserts ==
    ASSUME NEW b \in Books, NEW l \in Lines, NEW r \in Refunds
    PROVE  LET c == markOrderLineDispensed(b, l, r) IN Kept(b, c) \/ Inserted(b, c, r)
  <1> DEFINE c == [b EXCEPT !.line[l] = "dispensed", !.lineRefund[l] = "not_required"]
             done == syncOrderFulfillmentStateFromLines(c)
             waiting == {k \in LinesIn(done, "dispense_failed") : done.lineRefund[k] = "pending"}
             staged == stageAutomaticPartialRefund(done, r, waiting)
  <1>1. Kept(b, c)
    BY LineKeeps DEF LineStatuses
  <1>2. Kept(c, done)
    BY <1>1, SyncKeeps DEF Kept
  <1>3. Kept(b, done)
    BY <1>1, <1>2, KeptTwice
  <1>4. done \in Books
    BY <1>3 DEF Kept
  <1> HIDE DEF c, done
  <1>5. Kept(done, staged) \/ Inserted(done, staged, r)
    BY <1>4, PartialStages
  <1>6. Kept(b, staged) \/ Inserted(b, staged, r)
    BY <1>3, <1>5, KeptTwice, KeptThenInserted
  <1>7. markOrderLineDispensed(b, l, r) \in {done, staged}
    BY DEF markOrderLineDispensed, done, c
  <1> QED
    BY <1>3, <1>6, <1>7

LEMMA RequestInserts ==
    ASSUME NEW b \in Books, NEW r \in Refunds, NEW q \in Reasons, ~Active(b, q)
    PROVE  /\ Inserted(b, requestFullRefund(b, r, q), r)
           /\ requestFullRefund(b, r, q).refund = [b.refund EXCEPT ![r] = "processing"]
           /\ requestFullRefund(b, r, q).reason = [b.reason EXCEPT ![r] = q]
  <1> DEFINE i == Insert(b, r, "processing", q)
             c == [i EXCEPT !.status = "refund_pending", !.paymentState = "refund_pending",
                            !.payment = "refund_pending"]
  <1>1. "processing" \in OpenRefundStatuses
    BY DEF OpenRefundStatuses
  <1>2. /\ i \in Books /\ i.lineRefund = b.lineRefund /\ i.lineRefundId = b.lineRefundId
        /\ i.refund = [b.refund EXCEPT ![r] = "processing"]
        /\ i.reason = [b.reason EXCEPT ![r] = q]
    BY <1>1, InsertType
  <1>3. requestFullRefund(b, r, q) = c
    BY DEF requestFullRefund
  <1> HIDE DEF i
  <1>4. /\ c \in Books /\ c.refund = i.refund /\ c.reason = i.reason
        /\ c.lineRefund = i.lineRefund /\ c.lineRefundId = i.lineRefundId
        /\ c.paymentState = "refund_pending"
    BY <1>2 DEF Books, OrderStatuses, OrderPaymentStates, PaymentStatuses
  <1>5. MoneyKept(b, c)
    BY <1>2, <1>4 DEF MoneyKept
  <1> QED
    BY <1>1, <1>2, <1>3, <1>4, <1>5 DEF Inserted

-----------------------------------------------------------------------------
(* The end of a refund: what is said to have been paid back after it was    *)
(* said before, or is what this refund paid back.                           *)

Ends(b, c, r, outcome) ==
    /\ c \in Books
    /\ c.refund = [b.refund EXCEPT ![r] = outcome] /\ c.reason = b.reason
    /\ \A l \in Lines : c.lineRefund[l] = "refunded" =>
           \/ b.lineRefund[l] = "refunded" /\ c.lineRefundId[l] = b.lineRefundId[l]
           \/ outcome = "succeeded" /\ c.lineRefundId[l] = r
    /\ c.paymentState = "refunded" => outcome = "succeeded" /\ b.reason[r] # PartialReason
    /\ c.paymentState = "partial_refunded" => outcome = "succeeded" /\ b.reason[r] = PartialReason

LEMMA SetOrderType ==
    ASSUME NEW b \in Books, NEW s \in OrderStatuses, NEW p \in OrderPaymentStates,
           NEW f \in OrderFulfillmentStates, NEW m \in PaymentStatuses
    PROVE  /\ SetOrder(b, s, p, f, m) \in Books
           /\ SetOrder(b, s, p, f, m).refund = b.refund
           /\ SetOrder(b, s, p, f, m).reason = b.reason
           /\ SetOrder(b, s, p, f, m).lineRefund = b.lineRefund
           /\ SetOrder(b, s, p, f, m).lineRefundId = b.lineRefundId
           /\ SetOrder(b, s, p, f, m).paymentState = p
  BY DEF SetOrder, Books

(* The lines in a set carry the refund and its result.                      *)
Relabelled(b, d, lines, r, s) ==
    /\ d \in Books /\ d.refund = b.refund /\ d.reason = b.reason
    /\ \A l \in Lines : d.lineRefund[l] = IF l \in lines THEN s ELSE b.lineRefund[l]
    /\ \A l \in Lines : d.lineRefundId[l] = IF l \in lines THEN r ELSE b.lineRefundId[l]

LEMMA RelabelType ==
    ASSUME NEW b \in Books, NEW lines, NEW r \in Refunds, NEW s \in LineRefundStatuses
    PROVE  Relabelled(b, Relabel(b, lines, r, s), lines, r, s)
  <1> DEFINE refunds == [l \in Lines |-> IF l \in lines THEN s ELSE b.lineRefund[l]]
             ids == [l \in Lines |-> IF l \in lines THEN r ELSE b.lineRefundId[l]]
  <1>1. refunds \in [Lines -> LineRefundStatuses]
    BY DEF Books
  <1>2. ids \in [Lines -> Refunds \union {NoRefund}]
    BY DEF Books
  <1> DEFINE c == [b EXCEPT !.lineRefund = refunds, !.lineRefundId = ids]
  <1>3. Relabel(b, lines, r, s) = c
    BY DEF Relabel
  <1> HIDE DEF refunds, ids
  <1>4. /\ c \in Books /\ c.refund = b.refund /\ c.reason = b.reason
        /\ c.lineRefund = refunds /\ c.lineRefundId = ids
    BY <1>1, <1>2 DEF Books
  <1>5. Relabelled(b, c, lines, r, s)
    BY <1>4 DEF refunds, ids, Relabelled
  <1> QED
    BY <1>3, <1>5

(* The row alone.                                                           *)
Ended(b, e, r, outcome) ==
    /\ e \in Books /\ e.refund = [b.refund EXCEPT ![r] = outcome] /\ e.reason = b.reason
    /\ e.lineRefund = b.lineRefund /\ e.lineRefundId = b.lineRefundId

LEMMA EndedType ==
    ASSUME NEW b \in Books, NEW r \in Refunds, NEW outcome \in {"succeeded", "failed"}
    PROVE  Ended(b, [b EXCEPT !.refund[r] = outcome], r, outcome)
  BY DEF Books, RefundStatuses, Ended

(* Both kinds of refund end by relabelling their lines and setting the      *)
(* order.                                                                   *)
LEMMA EndsBy ==
    ASSUME NEW b \in Books, NEW r \in Refunds, NEW outcome \in {"succeeded", "failed"},
           NEW lines, NEW s \in OrderStatuses, NEW p \in OrderPaymentStates,
           NEW f \in OrderFulfillmentStates, NEW m \in PaymentStatuses,
           NEW t \in {"refunded", "failed"}, t = "refunded" => outcome = "succeeded",
           p = "refunded" => outcome = "succeeded" /\ b.reason[r] # PartialReason,
           p = "partial_refunded" => outcome = "succeeded" /\ b.reason[r] = PartialReason,
           NEW ended, Ended(b, ended, r, outcome)
    PROVE  Ends(b, SetOrder(Relabel(ended, lines, r, t), s, p, f, m), r, outcome)
  <1> DEFINE d == Relabel(ended, lines, r, t)
             c == SetOrder(d, s, p, f, m)
  <1>1. t \in LineRefundStatuses
    BY DEF LineRefundStatuses
  <1>2. Relabelled(ended, d, lines, r, t)
    <2>1. ended \in Books
      BY DEF Ended
    <2> QED
      BY <1>1, <2>1, RelabelType
  <1> HIDE DEF d
  <1>3. /\ c \in Books /\ c.refund = d.refund /\ c.reason = d.reason
        /\ c.lineRefund = d.lineRefund /\ c.lineRefundId = d.lineRefundId /\ c.paymentState = p
    BY <1>2, SetOrderType DEF Relabelled
  <1> HIDE DEF c
  <1>4. Ends(b, c, r, outcome)
    BY <1>2, <1>3 DEF Ends, Ended, Relabelled
  <1> QED
    BY <1>4 DEF c, d

LEMMA TerminalEnds ==
    ASSUME NEW b \in Books, NEW r \in Refunds, NEW outcome \in {"succeeded", "failed"},
           NEW seen, b.reason[r] = PartialReason => seen \in OrderFulfillmentStates
    PROVE  Ends(b, applyRefundTerminalState(b, r, outcome, seen), r, outcome)
  <1>1. /\ {"refunded", "partial_refunded", "manual_handling", "paid"} \subseteq OrderPaymentStates
        /\ {"refunded", "partial_refunded", "manual_handling", "succeeded"} \subseteq PaymentStatuses
        /\ "manual_handling" \in OrderStatuses
        /\ "manual_handling" \in OrderFulfillmentStates
        /\ b.fulfillmentState \in OrderFulfillmentStates
    BY DEF OrderPaymentStates, PaymentStatuses, OrderStatuses, OrderFulfillmentStates, Books
  <1>2. CASE b.reason[r] = PartialReason
    <2> DEFINE mine == {l \in Lines : b.lineRefundId[l] = r}
               ended == [b EXCEPT !.refund[r] = outcome]
    <2>1. Ended(b, ended, r, outcome)
      BY EndedType
    <2>2. "refunded" \in {"refunded", "failed"} /\ "failed" \in {"refunded", "failed"}
      OBVIOUS
    <2>3. projectOrderStatus("partial_refunded", seen) \in OrderStatuses
      BY <1>1, <1>2, ProjectType
    <2>4. CASE outcome = "succeeded"
      <3>1. Ends(b, SetOrder(Relabel(ended, mine, r, "refunded"),
                             projectOrderStatus("partial_refunded", seen),
                             "partial_refunded", seen, "partial_refunded"), r, outcome)
        <4> HIDE DEF mine, ended
        <4> QED
          BY <1>1, <1>2, <2>1, <2>2, <2>3, <2>4, EndsBy
      <3> QED
        BY <1>2, <2>4, <3>1 DEF applyRefundTerminalState, applyPartialRefundTerminalState
    <2>5. CASE outcome = "failed"
      <3>1. Ends(b, SetOrder(Relabel(ended, mine, r, "failed"),
                             "manual_handling", "manual_handling", seen, "manual_handling"),
                 r, outcome)
        <4> HIDE DEF mine, ended
        <4> QED
          BY <1>1, <1>2, <2>1, <2>2, <2>5, EndsBy
      <3> QED
        BY <1>2, <2>5, <3>1 DEF applyRefundTerminalState, applyPartialRefundTerminalState
    <2> QED
      BY <2>4, <2>5
  <1>3. CASE b.reason[r] # PartialReason
    <2> DEFINE waiting == {l \in Lines : b.lineRefund[l] = "pending"}
               ended == [b EXCEPT !.refund[r] = outcome]
    <2>1. Ended(b, ended, r, outcome)
      BY EndedType
    <2>2. "refunded" \in {"refunded", "failed"} /\ "failed" \in {"refunded", "failed"}
      OBVIOUS
    <2>3. /\ projectOrderStatus("refunded", "manual_handling") \in OrderStatuses
          /\ projectOrderStatus("paid", "manual_handling") \in OrderStatuses
      BY <1>1, ProjectType
    <2>4. CASE outcome = "succeeded"
      <3>1. Ends(b, SetOrder(Relabel(ended, waiting, r, "refunded"),
                             projectOrderStatus("refunded", "manual_handling"),
                             "refunded", b.fulfillmentState, "refunded"), r, outcome)
        <4> HIDE DEF waiting, ended
        <4> QED
          BY <1>1, <1>3, <2>1, <2>2, <2>3, <2>4, EndsBy
      <3> QED
        BY <1>3, <2>4, <3>1 DEF applyRefundTerminalState, applyFullRefundTerminalState
    <2>5. CASE outcome = "failed"
      <3>1. Ends(b, SetOrder(Relabel(ended, waiting, r, "failed"),
                             projectOrderStatus("paid", "manual_handling"),
                             "paid", "manual_handling", "succeeded"), r, outcome)
        <4> HIDE DEF waiting, ended
        <4> QED
          BY <1>1, <1>3, <2>1, <2>2, <2>3, <2>5, EndsBy
      <3> QED
        BY <1>3, <2>5, <3>1 DEF applyRefundTerminalState, applyFullRefundTerminalState
    <2> QED
      BY <2>4, <2>5
  <1> QED
    BY <1>2, <1>3

-----------------------------------------------------------------------------
(* What a step does to the rows and to what the provider has decided, and   *)
(* that it leaves the invariant true of the calls already under way.        *)

JobOK(j) ==
    /\ order.refund[j.refund] # "none"
    /\ j.answer \in {"succeeded", "failed"} => provider[j.refund] = j.answer
    /\ order.reason[j.refund] = PartialReason => j.seen \in OrderFulfillmentStates

OrderType ==
    /\ order \in Books
    /\ provider \in [Refunds -> {"absent", "processing", "succeeded", "failed"}]

RestType ==
    /\ leased \in [Refunds -> BOOLEAN]
    /\ events \in [Refunds -> SUBSET EventTypes]
    /\ hooks \in [Refunds -> SUBSET HookKinds]
    /\ attempts \in [Refunds -> 0 .. MaxAttempts]
    /\ gaveUp \in [Refunds -> BOOLEAN]
    /\ jobs \subseteq Jobs

RowsInv == OrderType /\ FreshInv /\ UniqueInv /\ RowIsBacked /\ MoneyIsBacked

LEMMA Parts == IndInv <=> RowsInv /\ RestType /\ \A j \in jobs : JobOK(j)
  BY DEF IndInv, TypeOK, RowsInv, OrderType, RestType, JobsInv, JobOK

LEMMA PartsNext == (RowsInv /\ RestType /\ \A j \in jobs : JobOK(j))' => IndInv'
  BY DEF IndInv, TypeOK, RowsInv, OrderType, RestType, JobsInv, JobOK

OldJobs == \A j \in jobs : JobOK(j)'

LEMMA SameRows ==
    ASSUME IndInv, UNCHANGED <<order, provider>>
    PROVE  RowsInv' /\ OldJobs
  BY DEF IndInv, TypeOK, OrderType, RowsInv, FreshInv, UniqueInv, RowIsBacked, MoneyIsBacked,
         OldJobs, JobsInv, JobOK

LEMMA KeptRows ==
    ASSUME IndInv, Kept(order, order'), provider' = provider
    PROVE  RowsInv' /\ OldJobs
  <1>1. OrderType' /\ FreshInv' /\ UniqueInv' /\ RowIsBacked'
    BY DEF IndInv, TypeOK, OrderType, FreshInv, UniqueInv, RowIsBacked, Kept
  <1>2. MoneyIsBacked'
    BY DEF IndInv, MoneyIsBacked, Kept, MoneyKept
  <1>3. OldJobs
    BY DEF IndInv, JobsInv, JobOK, OldJobs, Kept
  <1> QED
    BY <1>1, <1>2, <1>3 DEF RowsInv

LEMMA InsertedRows ==
    ASSUME IndInv, NEW r \in Fresh, Inserted(order, order', r), provider' = provider
    PROVE  RowsInv' /\ OldJobs
  <1> r \in Refunds /\ order.refund[r] = "none" /\ provider[r] = "absent"
    BY DEF Fresh, IndInv, FreshInv
  <1>1. PICK q \in Reasons, s \in OpenRefundStatuses :
            /\ ~Active(order, q)
            /\ order'.refund = [order.refund EXCEPT ![r] = s]
            /\ order'.reason = [order.reason EXCEPT ![r] = q]
    BY DEF Inserted
  <1>2. /\ order \in Books /\ order' \in Books /\ MoneyKept(order, order')
        /\ order.refund \in [Refunds -> RefundStatuses \union {"none"}]
        /\ order.reason \in [Refunds -> Reasons \union {"none"}]
    BY DEF Inserted, IndInv, TypeOK, Books
  <1>3. /\ order'.refund[r] = s /\ order'.reason[r] = q
        /\ \A p \in Refunds \ {r} : /\ order'.refund[p] = order.refund[p]
                                    /\ order'.reason[p] = order.reason[p]
    BY <1>1, <1>2
  <1>4. OrderType' /\ FreshInv' /\ RowIsBacked'
    BY <1>2, <1>3 DEF IndInv, TypeOK, OrderType, FreshInv, RowIsBacked, OpenRefundStatuses
  <1>5. \A p \in Refunds \ {r} :
            order'.refund[p] \in ACTIVE_REFUND_STATUSES => order'.reason[p] # q
    BY <1>1, <1>3 DEF Active
  <1>6. UniqueInv'
    BY <1>3, <1>5 DEF IndInv, UniqueInv
  <1>7. MoneyIsBacked'
    <2>1. \A p \in Refunds : provider[p] = "succeeded" => order'.reason[p] = order.reason[p]
      BY <1>3
    <2> QED
      BY <1>2, <2>1 DEF IndInv, MoneyIsBacked, MoneyKept
  <1>8. OldJobs
    BY <1>3 DEF IndInv, JobsInv, JobOK, OldJobs, TypeOK, Jobs
  <1> QED
    BY <1>4, <1>6, <1>7, <1>8 DEF RowsInv

(* A refund goes back to processing.                                        *)
LEMMA ReopenedRows ==
    ASSUME IndInv, NEW r \in Refunds, order.refund[r] # "none", CanReopen(r),
           order' = [order EXCEPT !.refund[r] = "processing"], provider' = provider
    PROVE  RowsInv' /\ OldJobs
  <1>1. /\ order \in Books /\ order' \in Books
        /\ order.refund \in [Refunds -> RefundStatuses \union {"none"}]
        /\ order.reason \in [Refunds -> Reasons \union {"none"}]
        /\ order'.refund = [order.refund EXCEPT ![r] = "processing"]
        /\ order'.reason = order.reason /\ order'.lineRefund = order.lineRefund
        /\ order'.lineRefundId = order.lineRefundId
        /\ order'.paymentState = order.paymentState
    BY DEF IndInv, TypeOK, Books, RefundStatuses
  <1>2. /\ order'.refund[r] = "processing"
        /\ \A p \in Refunds \ {r} : order'.refund[p] = order.refund[p]
    BY <1>1
  <1>3. OrderType' /\ FreshInv' /\ RowIsBacked'
    BY <1>1, <1>2 DEF IndInv, TypeOK, OrderType, FreshInv, RowIsBacked
  <1>4. UniqueInv'
    <2>1. CASE order.refund[r] \in ACTIVE_REFUND_STATUSES
      BY <1>1, <1>2, <2>1 DEF IndInv, UniqueInv
    <2>2. CASE ~Active(order, order.reason[r])
      BY <1>1, <1>2, <2>2 DEF IndInv, UniqueInv, Active
    <2> QED
      BY <2>1, <2>2 DEF CanReopen
  <1>5. MoneyIsBacked'
    BY <1>1 DEF IndInv, MoneyIsBacked
  <1>6. OldJobs
    BY <1>1, <1>2 DEF IndInv, JobsInv, JobOK, OldJobs, TypeOK, Jobs
  <1> QED
    BY <1>3, <1>4, <1>5, <1>6 DEF RowsInv

(* The provider hears of a refund, or decides it.                           *)
LEMMA DecidedRows ==
    ASSUME IndInv, order' = order, NEW r \in Refunds, order.refund[r] # "none",
           provider[r] \notin {"succeeded", "failed"},
           NEW s \in {"processing", "succeeded", "failed"},
           provider' = [provider EXCEPT ![r] = s]
    PROVE  RowsInv' /\ OldJobs
  <1>1. /\ provider'[r] = s
        /\ \A p \in Refunds \ {r} : provider'[p] = provider[p]
    BY DEF IndInv, TypeOK
  <1>2. OrderType' /\ UniqueInv'
    BY DEF IndInv, TypeOK, OrderType, UniqueInv
  <1>3. FreshInv' /\ RowIsBacked'
    BY <1>1 DEF IndInv, FreshInv, RowIsBacked
  <1>4. \A p \in Refunds : provider[p] = "succeeded" => provider'[p] = "succeeded"
    BY <1>1
  <1>5. MoneyIsBacked'
    BY <1>4 DEF IndInv, MoneyIsBacked
  <1>6. OldJobs
    BY <1>1 DEF IndInv, JobsInv, JobOK, OldJobs, TypeOK, Jobs
  <1> QED
    BY <1>2, <1>3, <1>5, <1>6 DEF RowsInv

(* A refund ends as the provider has decided.                               *)
LEMMA EndedRows ==
    ASSUME IndInv, NEW r \in Refunds, order.refund[r] # "none",
           NEW outcome \in {"succeeded", "failed"}, provider[r] = outcome,
           Ends(order, order', r, outcome), provider' = provider
    PROVE  RowsInv' /\ OldJobs
  <1>1. /\ order \in Books /\ order' \in Books
        /\ order.refund \in [Refunds -> RefundStatuses \union {"none"}]
        /\ order.reason \in [Refunds -> Reasons \union {"none"}]
        /\ order'.refund = [order.refund EXCEPT ![r] = outcome]
        /\ order'.reason = order.reason
    BY DEF IndInv, TypeOK, Books, Ends
  <1>2. /\ order'.refund[r] = outcome
        /\ \A p \in Refunds \ {r} : order'.refund[p] = order.refund[p]
    BY <1>1
  <1>3. OrderType' /\ FreshInv' /\ RowIsBacked'
    BY <1>1, <1>2 DEF IndInv, TypeOK, OrderType, FreshInv, RowIsBacked
  <1>4. UniqueInv'
    <2>1. CASE outcome = "succeeded"
      <3>1. order.refund[r] # "failed"
        BY <2>1 DEF IndInv, RowIsBacked
      <3>2. order.refund[r] \in ACTIVE_REFUND_STATUSES
        BY <1>1, <3>1 DEF RefundStatuses, ACTIVE_REFUND_STATUSES
      <3> QED
        BY <1>1, <1>2, <3>2 DEF IndInv, UniqueInv
    <2>2. CASE outcome = "failed"
      <3>1. order'.refund[r] \notin ACTIVE_REFUND_STATUSES
        BY <1>2, <2>2 DEF ACTIVE_REFUND_STATUSES
      <3> QED
        BY <1>1, <1>2, <3>1 DEF IndInv, UniqueInv
    <2> QED
      BY <2>1, <2>2
  <1>5. MoneyIsBacked'
    <2>1. \A l \in Lines : order'.lineRefund[l] = "refunded" =>
              /\ order'.lineRefundId[l] \in Refunds
              /\ provider[order'.lineRefundId[l]] = "succeeded"
      BY DEF Ends, IndInv, MoneyIsBacked
    <2>2. order'.paymentState = "refunded" =>
              provider[r] = "succeeded" /\ order'.reason[r] # PartialReason
      BY <1>1 DEF Ends
    <2>3. order'.paymentState = "partial_refunded" =>
              provider[r] = "succeeded" /\ order'.reason[r] = PartialReason
      BY <1>1 DEF Ends
    <2> QED
      BY <2>1, <2>2, <2>3 DEF MoneyIsBacked
  <1>6. OldJobs
    BY <1>1, <1>2 DEF IndInv, JobsInv, JobOK, OldJobs, TypeOK, Jobs
  <1> QED
    BY <1>3, <1>4, <1>5, <1>6 DEF RowsInv

-----------------------------------------------------------------------------
(* The invariant holds at first, and every step keeps it.                   *)

LEMMA InitInd == Init => IndInv
  <1> SUFFICES ASSUME Init PROVE IndInv
    OBVIOUS
  <1>1. PaidOrder \in Books
    BY DEF PaidOrder, Books, OrderStatuses, OrderPaymentStates, OrderFulfillmentStates,
           PaymentStatuses, LineStatuses, LineRefundStatuses
  <1>2. /\ \A r \in Refunds : order.refund[r] = "none"
        /\ \A l \in Lines : order.lineRefund[l] = "not_required"
        /\ order.paymentState = "paid"
    BY DEF Init, PaidOrder
  <1>3. TypeOK
    BY <1>1 DEF Init, TypeOK
  <1>4. JobsInv /\ FreshInv /\ UniqueInv /\ RowIsBacked /\ MoneyIsBacked
    BY <1>2 DEF Init, JobsInv, FreshInv, UniqueInv, RowIsBacked, MoneyIsBacked,
                ACTIVE_REFUND_STATUSES
  <1> QED
    BY <1>3, <1>4 DEF IndInv

LEMMA NoNewJob ==
    ASSUME RowsInv', RestType', OldJobs, jobs' \subseteq jobs
    PROVE  IndInv'
  BY PartsNext DEF OldJobs

LEMMA LineStep ==
    ASSUME IndInv, NEW l \in Lines,
           DispenseLine(l) \/ \E staged \in BOOLEAN : FailLine(l, staged)
    PROVE  IndInv'
  <1> order \in Books
    BY DEF IndInv, TypeOK
  <1>1. PICK r \in Fresh : Kept(order, order') \/ Inserted(order, order', r)
    <2>1. CASE DispenseLine(l)
      BY <2>1, SuccessInserts DEF DispenseLine, Fresh
    <2>2. ASSUME NEW staged \in BOOLEAN, FailLine(l, staged)
          PROVE  \E r \in Fresh : Kept(order, order') \/ Inserted(order, order', r)
      <3> DEFINE marked == markOrderLineFailed(order, l)
      <3>1. Kept(order, marked)
        BY FailureKeeps
      <3>2. marked \in Books
        BY <3>1 DEF Kept
      <3>3. PICK r \in Fresh :
                order' = IF staged THEN stageFailedLineRefund(marked, r) ELSE marked
        BY <2>2 DEF FailLine
      <3> HIDE DEF marked
      <3>4. r \in Refunds
        BY DEF Fresh
      <3>5. LET c == stageFailedLineRefund(marked, r)
            IN Kept(marked, c) \/ Inserted(marked, c, r)
        BY <3>2, <3>4, StagedInserts
      <3>6. LET c == stageFailedLineRefund(marked, r)
            IN Kept(order, c) \/ Inserted(order, c, r)
        BY <3>1, <3>5, KeptTwice, KeptThenInserted
      <3> QED
        BY <3>1, <3>3, <3>6
    <2> QED
      BY <2>1, <2>2
  <1>2. provider' = provider /\ UNCHANGED <<rowVars, jobs>>
    BY DEF DispenseLine, FailLine
  <1>3. RowsInv' /\ OldJobs
    BY <1>1, <1>2, KeptRows, InsertedRows
  <1>4. RestType'
    BY <1>2 DEF IndInv, TypeOK, RestType, rowVars
  <1> QED
    BY <1>2, <1>3, <1>4, NoNewJob

(* A job's own fields.                                                      *)
LEMMA JobType ==
    ASSUME IndInv, NEW r \in Refunds, NEW kind \in Kinds,
           NEW step \in {"send", "wait", "apply"}, NEW answer \in Answers \union {"none"}
    PROVE  /\ Job(r, kind, step, answer) \in Jobs
           /\ Job(r, kind, step, answer).refund = r
           /\ Job(r, kind, step, answer).answer = answer
           /\ order.reason[r] = PartialReason =>
                  Job(r, kind, step, answer).seen \in OrderFulfillmentStates
  <1> order.fulfillmentState \in OrderFulfillmentStates
    BY DEF IndInv, TypeOK, Books
  <1> QED
    BY DEF Job, Jobs

(* The rows stay or one is claimed, and a job starts with what it has read. *)
LEMMA NewJob ==
    ASSUME IndInv, RowsInv', OldJobs, NEW r \in Refunds, NEW kind \in Kinds,
           NEW step \in {"send", "wait", "apply"}, NEW answer \in Answers \union {"none"},
           order'.refund[r] # "none", order'.reason = order.reason,
           answer \in {"succeeded", "failed"} => provider'[r] = answer,
           Begin(Job(r, kind, step, answer)),
           leased' \in [Refunds -> BOOLEAN], hooks' \in [Refunds -> SUBSET HookKinds],
           attempts' \in [Refunds -> 0 .. MaxAttempts], UNCHANGED <<events, gaveUp>>
    PROVE  IndInv'
  <1> DEFINE job == Job(r, kind, step, answer)
  <1>1. /\ job \in Jobs /\ job.refund = r /\ job.answer = answer
        /\ order.reason[r] = PartialReason => job.seen \in OrderFulfillmentStates
    BY JobType
  <1> HIDE DEF job
  <1>2. jobs' = jobs \union {job}
    BY DEF Begin, job
  <1>3. RestType'
    BY <1>1, <1>2 DEF IndInv, TypeOK, RestType
  <1>4. \A j \in jobs' : JobOK(j)'
    <2> SUFFICES ASSUME NEW j \in jobs' PROVE JobOK(j)'
      OBVIOUS
    <2>1. CASE j \in jobs
      BY <2>1 DEF OldJobs
    <2>2. CASE j = job
      BY <1>1, <2>2 DEF JobOK
    <2> QED
      BY <1>2, <2>1, <2>2
  <1> QED
    BY <1>3, <1>4, PartsNext

LEMMA DispatchStep ==
    ASSUME IndInv, NEW r \in Refunds, dispatchPendingRefunds(r)
    PROVE  IndInv'
  <1>1. /\ order.refund[r] # "none" /\ CanReopen(r)
        /\ order' = [order EXCEPT !.refund[r] = "processing"] /\ provider' = provider
    BY DEF dispatchPendingRefunds, Dispatchable, CanReopen, ACTIVE_REFUND_STATUSES
  <1>2. RowsInv' /\ OldJobs
    BY <1>1, ReopenedRows
  <1>3. order'.refund[r] # "none" /\ order'.reason = order.reason
    BY <1>1 DEF IndInv, TypeOK, Books
  <1>4. /\ leased' \in [Refunds -> BOOLEAN] /\ hooks' \in [Refunds -> SUBSET HookKinds]
        /\ attempts' \in [Refunds -> 0 .. MaxAttempts]
    BY DEF dispatchPendingRefunds, IndInv, TypeOK
  <1>5. Begin(Job(r, "dispatch", "send", "none")) /\ UNCHANGED <<events, gaveUp>>
    BY DEF dispatchPendingRefunds
  <1>6. "dispatch" \in Kinds /\ "none" \in Answers \union {"none"}
    BY DEF Kinds, Senders
  <1> QED
    BY <1>2, <1>3, <1>4, <1>5, <1>6, NewJob

LEMMA RequestStep ==
    ASSUME IndInv, NEW r \in Refunds, RequestFullRefund(r)
    PROVE  IndInv'
  <1> DEFINE job == [refund |-> r, kind |-> "request", step |-> "send", answer |-> "none",
                     seen |-> "none"]
             q == "admin_refund"
  <1>1. order \in Books /\ r \in Fresh /\ q \in Reasons /\ ~Active(order, q)
    BY DEF RequestFullRefund, CanRequestFullRefund, IndInv, TypeOK, Reasons
  <1>2. /\ Inserted(order, order', r)
        /\ order'.refund = [order.refund EXCEPT ![r] = "processing"]
        /\ order'.reason = [order.reason EXCEPT ![r] = q]
    BY <1>1, RequestInserts DEF RequestFullRefund
  <1>3. RowsInv' /\ OldJobs
    BY <1>1, <1>2, InsertedRows DEF RequestFullRefund
  <1>4. order'.refund[r] = "processing" /\ order'.reason[r] # PartialReason
    BY <1>1, <1>2 DEF Books, PartialReason
  <1>5. jobs' = jobs \union {job} /\ job \in Jobs
    BY DEF RequestFullRefund, Begin, Jobs, Kinds, Senders
  <1>6. RestType'
    BY <1>5 DEF RequestFullRefund, IndInv, TypeOK, RestType
  <1>7. JobOK(job)'
    BY <1>4 DEF JobOK
  <1>8. \A j \in jobs' : JobOK(j)'
    BY <1>3, <1>5, <1>7 DEF OldJobs
  <1> QED
    BY <1>3, <1>6, <1>8, PartsNext

(* Asking starts a job without an answer, and needs a row.                  *)
LEMMA AskStep ==
    ASSUME IndInv, NEW r \in Refunds, reconcileProcessingRefunds(r) \/ queryRefund(r)
    PROVE  IndInv'
  <1>1. order.refund[r] # "none" /\ UNCHANGED <<order, provider, leased, events, hooks>>
    BY DEF reconcileProcessingRefunds, queryRefund, OpenRefundStatuses
  <1>2. RowsInv' /\ OldJobs
    BY <1>1, SameRows
  <1>3. \/ /\ \E kind \in Askers : Begin(Job(r, kind, "wait", "none"))
           /\ attempts' = [attempts EXCEPT ![r] = @ + 1] /\ attempts[r] < MaxAttempts
           /\ UNCHANGED gaveUp
        \/ gaveUp' = [gaveUp EXCEPT ![r] = TRUE] /\ UNCHANGED <<attempts, jobs>>
    BY DEF reconcileProcessingRefunds, queryRefund, Askers
  <1>4. CASE gaveUp' = [gaveUp EXCEPT ![r] = TRUE] /\ UNCHANGED <<attempts, jobs>>
    <2>1. RestType'
      BY <1>1, <1>4 DEF IndInv, TypeOK, RestType
    <2> QED
      BY <1>2, <1>4, <2>1, NoNewJob
  <1>5. ASSUME NEW kind \in Askers, Begin(Job(r, kind, "wait", "none")),
               attempts' = [attempts EXCEPT ![r] = @ + 1], attempts[r] < MaxAttempts,
               UNCHANGED gaveUp
        PROVE  IndInv'
    <2>1. attempts[r] \in 0 .. MaxAttempts /\ MaxAttempts \in Nat
      BY DEF IndInv, TypeOK
    <2>2. attempts[r] + 1 \in 0 .. MaxAttempts
      BY <1>5, <2>1
    <2>3. /\ leased' \in [Refunds -> BOOLEAN] /\ hooks' \in [Refunds -> SUBSET HookKinds]
          /\ attempts' \in [Refunds -> 0 .. MaxAttempts] /\ UNCHANGED <<events, gaveUp>>
      BY <1>1, <1>5, <2>2 DEF IndInv, TypeOK
    <2>4. kind \in Kinds /\ "none" \in Answers \union {"none"}
      BY DEF Kinds
    <2>5. order'.refund[r] # "none" /\ order'.reason = order.reason
      BY <1>1
    <2> QED
      BY <1>2, <1>5, <2>3, <2>4, <2>5, NewJob
  <1> QED
    BY <1>3, <1>4, <1>5

(* A webhook reports what the provider has decided.                         *)
LEMMA HookStep ==
    ASSUME IndInv, NEW r \in Refunds, NEW status \in HookKinds,
           applyProviderRefundWebhook(r, status)
    PROVE  IndInv'
  <1>1. UNCHANGED <<order, provider>> /\ order.refund[r] # "none"
    BY DEF applyProviderRefundWebhook, IndInv, FreshInv
  <1>2. RowsInv' /\ OldJobs
    BY <1>1, SameRows
  <1>3. status \in {"succeeded", "failed"} => provider'[r] = status
    BY <1>1 DEF applyProviderRefundWebhook
  <1>4. /\ leased' \in [Refunds -> BOOLEAN] /\ hooks' \in [Refunds -> SUBSET HookKinds]
        /\ attempts' \in [Refunds -> 0 .. MaxAttempts] /\ UNCHANGED <<events, gaveUp>>
    BY DEF applyProviderRefundWebhook, IndInv, TypeOK
  <1>5. Begin(Job(r, "webhook", "apply", status))
    BY DEF applyProviderRefundWebhook
  <1>6. "webhook" \in Kinds /\ status \in Answers \union {"none"}
    BY DEF Kinds, Answers
  <1>7. order'.refund[r] # "none" /\ order'.reason = order.reason
    BY <1>1
  <1> QED
    BY <1>2, <1>3, <1>4, <1>5, <1>6, <1>7, NewJob

(* A job goes on; a final answer is the provider's.                         *)
LEMMA JobGoesOn ==
    ASSUME IndInv, RowsInv', OldJobs, NEW job \in jobs,
           NEW step \in {"send", "wait", "apply"}, NEW answer \in Answers \union {"none"},
           answer \in {"succeeded", "failed"} => provider'[job.refund] = answer,
           Advance(job, step, answer), UNCHANGED rowVars
    PROVE  IndInv'
  <1> DEFINE next == [job EXCEPT !.step = step, !.answer = answer]
  <1>1. job \in Jobs
    BY DEF IndInv, TypeOK
  <1>2. next \in Jobs /\ next.refund = job.refund /\ next.answer = answer /\ next.seen = job.seen
    BY <1>1 DEF Jobs
  <1>3. jobs' = (jobs \ {job}) \union {next}
    BY DEF Advance
  <1> HIDE DEF next
  <1>4. RestType'
    BY <1>2, <1>3 DEF IndInv, TypeOK, RestType, rowVars
  <1>5. \A j \in jobs' : JobOK(j)'
    <2> SUFFICES ASSUME NEW j \in jobs' PROVE JobOK(j)'
      OBVIOUS
    <2>1. CASE j \in jobs
      BY <2>1 DEF OldJobs
    <2>2. CASE j = next
      <3>1. JobOK(job)'
        BY DEF OldJobs
      <3> QED
        BY <1>2, <2>2, <3>1 DEF JobOK
    <2> QED
      BY <1>3, <2>1, <2>2
  <1> QED
    BY <1>4, <1>5, PartsNext

LEMMA SendStep ==
    ASSUME IndInv, NEW job \in jobs, refundPayment(job)
    PROVE  IndInv'
  <1> DEFINE r == job.refund
  <1>1. /\ r \in Refunds /\ order.refund[r] # "none" /\ order' = order
        /\ UNCHANGED rowVars
        /\ provider \in [Refunds -> {"absent", "processing", "succeeded", "failed"}]
    BY DEF refundPayment, IndInv, TypeOK, JobsInv, Jobs
  <1>2. "none" \in Answers \union {"none"} /\ "error" \in Answers \union {"none"}
    BY DEF Answers
  <1>3. CASE /\ provider' = IF provider[r] = "absent"
                            THEN [provider EXCEPT ![r] = "processing"] ELSE provider
             /\ Advance(job, "wait", "none")
    <2>1. RowsInv' /\ OldJobs
      <3>1. CASE provider[r] = "absent"
        <4>1. provider' = [provider EXCEPT ![r] = "processing"]
          BY <1>3, <3>1
        <4> HIDE DEF r
        <4> QED
          BY <1>1, <3>1, <4>1, DecidedRows
      <3>2. CASE provider[r] # "absent"
        BY <1>1, <1>3, <3>2, SameRows
      <3> QED
        BY <3>1, <3>2
    <2> QED
      BY <1>1, <1>2, <1>3, <2>1, JobGoesOn
  <1>4. CASE Advance(job, "apply", "error") /\ UNCHANGED provider
    <2>1. RowsInv' /\ OldJobs
      BY <1>1, <1>4, SameRows
    <2> QED
      BY <1>1, <1>2, <1>4, <2>1, JobGoesOn
  <1> QED
    BY <1>3, <1>4 DEF refundPayment

LEMMA AnswerStep ==
    ASSUME IndInv, NEW job \in jobs, ProviderAnswers(job)
    PROVE  IndInv'
  <1>1. UNCHANGED <<order, rowVars, provider>> /\ job.refund \in Refunds
    BY DEF ProviderAnswers, IndInv, TypeOK, Jobs
  <1>2. RowsInv' /\ OldJobs
    BY <1>1, SameRows
  <1>3. PICK answer \in Answers \union {"none"} :
            /\ Advance(job, "apply", answer)
            /\ answer \in {"succeeded", "failed"} => provider[job.refund] = answer
    <2>1. CASE Advance(job, "apply", "error")
      BY <2>1 DEF Answers
    <2>2. CASE provider[job.refund] # "absent" /\ Advance(job, "apply", provider[job.refund])
      <3>1. provider[job.refund] \in Answers
        BY <1>1, <2>2 DEF IndInv, TypeOK, Answers
      <3> QED
        BY <2>2, <3>1
    <2> QED
      BY <2>1, <2>2 DEF ProviderAnswers
  <1>4. answer \in {"succeeded", "failed"} => provider'[job.refund] = answer
    BY <1>1, <1>3
  <1> QED
    BY <1>1, <1>2, <1>3, <1>4, JobGoesOn

LEMMA DecideStep ==
    ASSUME IndInv, NEW r \in Refunds, NEW status \in {"succeeded", "failed"},
           ProviderDecides(r, status)
    PROVE  IndInv'
  <1>1. order.refund[r] # "none" /\ order' = order /\ UNCHANGED <<rowVars, jobs>>
    BY DEF ProviderDecides, IndInv, FreshInv
  <1>2. RowsInv' /\ OldJobs
    BY <1>1, DecidedRows DEF ProviderDecides
  <1>3. RestType'
    BY <1>1 DEF IndInv, TypeOK, RestType, rowVars
  <1> QED
    BY <1>1, <1>2, <1>3, NoNewJob

(* An answer is written: the refund ends, goes back to processing, or stays.*)
LEMMA ApplyStep ==
    ASSUME IndInv, NEW job \in jobs, Apply(job)
    PROVE  IndInv'
  <1> DEFINE r == job.refund
  <1>1. /\ r \in Refunds /\ order.refund[r] # "none" /\ order \in Books
        /\ job.answer \in {"succeeded", "failed"} => provider[r] = job.answer
        /\ order.reason[r] = PartialReason => job.seen \in OrderFulfillmentStates
    BY DEF IndInv, TypeOK, JobsInv, Jobs
  <1>2. provider' = provider /\ jobs' \subseteq jobs /\ UNCHANGED <<hooks, attempts, gaveUp>>
    BY DEF Apply
  <1>3. CASE ApplyTerminal(job)
    <2>1. ASSUME order' = order
          PROVE  RowsInv' /\ OldJobs
      BY <1>2, <2>1, SameRows
    <2>2. ASSUME order' = applyRefundTerminalState(order, r, job.answer, job.seen)
          PROVE  RowsInv' /\ OldJobs
      <3> DEFINE outcome == job.answer
                 seen == job.seen
      <3>1. outcome \in {"succeeded", "failed"}
        BY <1>3 DEF ApplyTerminal
      <3>2. order' = applyRefundTerminalState(order, r, outcome, seen)
        BY <2>2
      <3>3. provider[r] = outcome /\ (order.reason[r] = PartialReason =>
                                        seen \in OrderFulfillmentStates)
        BY <1>1, <3>1
      <3> HIDE DEF r, outcome, seen
      <3>4. Ends(order, order', r, outcome)
        BY <1>1, <3>1, <3>2, <3>3, TerminalEnds
      <3> QED
        BY <1>1, <1>2, <3>1, <3>3, <3>4, EndedRows
    <2>3. order' = order \/ order' = applyRefundTerminalState(order, r, job.answer, job.seen)
      BY <1>3 DEF ApplyTerminal
    <2>4. /\ UNCHANGED leased
          /\ events' = events \/ events' = [events EXCEPT ![r] = @ \union {job.answer}]
      BY <1>3 DEF ApplyTerminal, AddEvent
    <2>5. job.answer \in EventTypes
      BY <1>3 DEF ApplyTerminal, EventTypes
    <2>6. RestType'
      BY <1>1, <1>2, <2>4, <2>5 DEF IndInv, TypeOK, RestType
    <2> QED
      BY <1>2, <2>1, <2>2, <2>3, <2>6, NoNewJob
  <1>4. CASE ApplyProcessing(job) \/ recordRefundRequestUncertain(job)
    <2>1. \/ Reopen(r)
          \/ UNCHANGED <<order, leased>>
      BY <1>4 DEF ApplyProcessing, recordRefundRequestUncertain
    <2>2. \/ events' = events
          \/ \E type \in EventTypes : events' = [events EXCEPT ![r] = @ \union {type}]
      BY <1>4 DEF ApplyProcessing, recordRefundRequestUncertain, AddEvent, EventTypes
    <2>3. leased' \in [Refunds -> BOOLEAN]
      BY <1>1, <2>1 DEF Reopen, IndInv, TypeOK
    <2>4. RestType'
      BY <1>1, <1>2, <2>2, <2>3 DEF IndInv, TypeOK, RestType
    <2>5. RowsInv' /\ OldJobs
      <3>1. CASE Reopen(r)
        <4>1. CanReopen(r) /\ order' = [order EXCEPT !.refund[r] = "processing"]
          BY <3>1 DEF Reopen
        <4> HIDE DEF r
        <4> QED
          BY <1>1, <1>2, <4>1, ReopenedRows
      <3>2. CASE UNCHANGED <<order, leased>>
        BY <1>2, <3>2, SameRows
      <3> QED
        BY <2>1, <3>1, <3>2
    <2> QED
      BY <1>2, <2>4, <2>5, NoNewJob
  <1> QED
    BY <1>3, <1>4 DEF Apply

(* Leases, crashes and steps of others touch neither rows nor provider.     *)
LEMMA QuietStep ==
    ASSUME IndInv, UNCHANGED vars \/ Crash \/ \E r \in Refunds : LeaseExpires(r)
    PROVE  IndInv'
  <1>1. UNCHANGED <<order, provider>> /\ jobs' \subseteq jobs
    BY DEF vars, Crash, LeaseExpires
  <1>2. RowsInv' /\ OldJobs
    BY <1>1, SameRows
  <1>3. RestType'
    BY DEF vars, rowVars, Crash, LeaseExpires, IndInv, TypeOK, RestType
  <1> QED
    BY <1>1, <1>2, <1>3, NoNewJob

LEMMA IndStep == IndInv /\ [Next]_vars => IndInv'
  <1> SUFFICES ASSUME IndInv, [Next]_vars PROVE IndInv'
    OBVIOUS
  <1>1. ASSUME NEW r \in Refunds, RefundStep(r) PROVE IndInv'
    BY <1>1, DispatchStep, RequestStep, AskStep, HookStep, DecideStep, QuietStep DEF RefundStep
  <1>2. ASSUME NEW job \in jobs, refundPayment(job) \/ ProviderAnswers(job) \/ Apply(job)
        PROVE  IndInv'
    BY <1>2, SendStep, AnswerStep, ApplyStep
  <1> QED
    BY <1>1, <1>2, LineStep, QuietStep DEF Next

-----------------------------------------------------------------------------
(* Theorems.                                                                *)

(* The conjunction of the parts above, an inductive invariant.              *)
THEOREM IndInvHolds == Spec => []IndInv
  BY InitInd, IndStep, PTL DEF Spec

(* The rows, the events, the attempts and the calls under way keep their    *)
(* types whatever handlers overlap.                                         *)
THEOREM TypeCorrect == Spec => []TypeOK
  <1>1. IndInv => TypeOK
    BY DEF IndInv
  <1> QED
    BY <1>1, IndInvHolds, PTL

(* A refund row is closed only as the provider decided                      *)
(* (applyRefundTerminalState, recordRefundRequestUncertain), for any number *)
(* of overlapping calls.                                                    *)
THEOREM RowsAreBacked == Spec => []RowIsBacked
  <1>1. IndInv => RowIsBacked
    BY DEF IndInv
  <1> QED
    BY <1>1, IndInvHolds, PTL

(* Where lines or order say that money went back, a refund that the         *)
(* provider carried out brought it (applyRefundTerminalState).              *)
THEOREM MoneyAlwaysBacked == Spec => []MoneyIsBacked
  <1>1. IndInv => MoneyIsBacked
    BY DEF IndInv
  <1> QED
    BY <1>1, IndInvHolds, PTL

(* At most one refund of a reason is with the provider or carried out:      *)
(* the unique index on active refunds, and that a refund is closed as       *)
(* failed only when it has failed, together rule out a second payment.      *)
THEOREM OneRefund == Spec => []OneRefundPerReason
  <1>1. IndInv => OneRefundPerReason
    <2> SUFFICES ASSUME IndInv, NEW r \in Refunds, NEW q \in Refunds,
                        order.reason[r] = order.reason[q],
                        {provider[r], provider[q]} \subseteq {"processing", "succeeded"}
                 PROVE  r = q
      BY DEF OneRefundPerReason
    <2>1. ASSUME NEW p \in Refunds, provider[p] \in {"processing", "succeeded"}
          PROVE  order.refund[p] \in ACTIVE_REFUND_STATUSES
      <3>1. order.refund[p] \notin {"none", "failed"}
        BY <2>1 DEF IndInv, FreshInv, RowIsBacked
      <3>2. order.refund[p] \in RefundStatuses \union {"none"}
        BY DEF IndInv, TypeOK, Books
      <3> QED
        BY <3>1, <3>2 DEF RefundStatuses, ACTIVE_REFUND_STATUSES
    <2> QED
      BY <2>1 DEF IndInv, UniqueInv
  <1> QED
    BY <1>1, IndInvHolds, PTL
=============================================================================
