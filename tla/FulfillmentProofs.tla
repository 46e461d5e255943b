-------------------------- MODULE FulfillmentProofs --------------------------
(***************************************************************************)
(* Proofs about Fulfillment, for every order, any stock, any number of      *)
(* refunds and confirmations under way, and whatever operators may do.      *)
(***************************************************************************)
EXTENDS Fulfillment, FiniteSetTheorems, TLAPS

USE LedgerAssumption, StockAssumption DEF LedgerAssumption, StockAssumption

CND == "confirm_not_dispensed"
CDC == "compensation_dispense"

(* A reservation that is still held belongs to a command that may still     *)
(* end; every line has had its dispatch command from the start.             *)
RowsInv ==
    /\ \A c \in Commands :
          /\ reservation[c] = "active" => command[c] \in Claimable
          /\ command[c] = "none" => reservation[c] = "none"
    /\ \A l \in Lines : command[Dispatch(l)] # "none"

(* A compensation follows a failed dispatch command.                        *)
CompensationInv ==
    \A l \in Lines : command[Compensation(l)] # "none" => command[Dispatch(l)] = "failed"

(* Operators confirm the failure of one command; it has failed then, and so *)
(* has the one that is to be compensated; the compensation is created once. *)
RecoveryInv ==
    /\ \A c, d \in about[CND] : c = d
    /\ action[CND] = "completed" \/ acting[CND] = "done" =>
           \A c \in about[CND] : command[c] = "failed"
    /\ \A c \in about[CDC] : command[c] = "failed"
    /\ action[CDC] = "none" => acting[CDC] = "idle"
    /\ action[CDC] = "none" \/ acting[CDC] = "started" =>
           \A l \in Lines : command[Compensation(l)] = "none"

(* Without operators there are no recovery actions, and what is being       *)
(* confirmed is a success that the machine has told.                        *)
UnattendedInv ==
    OperatorActs = {} =>
        /\ \A a \in RecoveryActions : action[a] = "none" /\ acting[a] = "idle"
        /\ \A x \in confirming : x.way = "mqtt" /\ machine[x.command] = "success"

(* A refund, of the whole order or with that id on the line, pays for l.    *)
PaidBack(b, l) ==
    \/ b.lineRefund[l] = "manual_handling"
    \/ \E r \in Refunds :
          b.refund[r] # "none" /\ (b.reason[r] # PartialReason \/ b.lineRefundId[l] = r)

(* Without operators: only failed lines are marked for a refund; while a    *)
(* line is open nothing is refunded and the failed lines wait; afterwards   *)
(* each failed line is paid back, in full only when all have failed.        *)
MoneyIsRight(b) ==
    /\ \A l \in Lines :
          b.lineRefundId[l] # NoRefund \/ b.lineRefund[l] = "pending" =>
              b.line[l] = "dispense_failed"
    /\ \A r \in Refunds : b.refund[r] # "none" =>
          /\ LinesIn(b, "pending") = {}
          /\ b.reason[r] # PartialReason => LinesIn(b, "dispense_failed") = Lines
    /\ LinesIn(b, "pending") # {} =>
          \A l \in LinesIn(b, "dispense_failed") : b.lineRefund[l] = "pending"
    /\ LinesIn(b, "pending") = {} =>
          \A l \in LinesIn(b, "dispense_failed") : PaidBack(b, l)

MoneyInv == OperatorActs = {} => MoneyIsRight(order)

IndInv ==
    /\ TypeOK /\ RowsInv /\ CompensationInv /\ RecoveryInv /\ UnattendedInv
    /\ StockFollowsCommands /\ LineIsCoherent /\ OutcomeIsMachines /\ MoneyInv

-----------------------------------------------------------------------------
(* Commands and what is counted of them.                                    *)

LEMMA CommandShape ==
    /\ \A c \in Commands : c.line \in Lines /\ c \in CommandsOf(c.line)
    /\ \A l \in Lines : CommandsOf(l) \subseteq Commands
    /\ \A l \in Lines : Dispatch(l) \in Commands /\ Compensation(l) \in Commands
    /\ \A l \in Lines : \A c \in CommandsOf(l) : c.line = l
    /\ \A l, m \in Lines : Dispatch(l) # Compensation(m)
  <1>1. \A l \in Lines : Dispatch(l) \in Commands /\ Compensation(l) \in Commands
    BY DEF Commands, Dispatch, Compensation
  <1>2. ASSUME NEW c \in Commands PROVE c.line \in Lines /\ c \in CommandsOf(c.line)
    <2>1. c.line \in Lines /\ (c.kind = "dispatch" \/ c.kind = "compensation")
      BY DEF Commands
    <2>2. c = [line |-> c.line, kind |-> c.kind]
      BY DEF Commands
    <2> QED
      BY <2>1, <2>2 DEF CommandsOf, Dispatch, Compensation
  <1>3. \A l \in Lines : Dispatch(l).line = l /\ Compensation(l).line = l
    BY DEF Dispatch, Compensation
  <1>4. \A l, m \in Lines : Dispatch(l) # Compensation(m)
    <2> SUFFICES ASSUME NEW l \in Lines, NEW m \in Lines, Dispatch(l) = Compensation(m)
                 PROVE  FALSE
      OBVIOUS
    <2>1. Dispatch(l).kind = "dispatch" /\ Compensation(m).kind = "compensation"
      BY DEF Dispatch, Compensation
    <2> QED
      BY <2>1
  <1> QED
    BY <1>1, <1>2, <1>3, <1>4 DEF CommandsOf

(* The two commands of a line are never both unfinished or successful.      *)
LEMMA OneOpen ==
    ASSUME RowsInv, CompensationInv, NEW l \in Lines,
           NEW c \in CommandsOf(l), NEW d \in CommandsOf(l),
           command[c] \notin {"none", "failed"}, command[d] \notin {"none", "failed"}
    PROVE  c = d
  BY DEF CompensationInv, CommandsOf

LEMMA OneActiveRow ==
    ASSUME RowsInv, CompensationInv, NEW l \in Lines, NEW c \in ActiveRows(l)
    PROVE  ActiveRows(l) = {c}
  <1>1. \A d \in ActiveRows(l) : d \in CommandsOf(l) /\ command[d] \notin {"none", "failed"}
    BY CommandShape DEF ActiveRows, RowsInv, Claimable
  <1> QED
    BY <1>1, OneOpen

LEMMA OneSuccess ==
    ASSUME RowsInv, CompensationInv, NEW l \in Lines, NEW c \in Having(l, "succeeded")
    PROVE  Having(l, "succeeded") = {c}
  <1>1. \A d \in Having(l, "succeeded") :
            d \in CommandsOf(l) /\ command[d] \notin {"none", "failed"}
    BY DEF Having
  <1> QED
    BY <1>1, OneOpen

LEMMA Counts == Cardinality({}) = 0 /\ \A x : Cardinality({x}) = 1
  BY FS_EmptySet, FS_Singleton

-----------------------------------------------------------------------------
(* What the operators of RefundLedger do to the rows.                       *)

(* The rows differ in the order's and the payment's status only.            *)
Alike(b, c) ==
    /\ c \in Books
    /\ c.line = b.line /\ c.lineRefund = b.lineRefund /\ c.lineRefundId = b.lineRefundId
    /\ c.refund = b.refund /\ c.reason = b.reason

LEMMA ProjectionType ==
    ASSUME NEW p \in OrderPaymentStates, NEW f \in OrderFulfillmentStates
    PROVE  projectOrderStatus(p, f) \in OrderStatuses
  BY DEF projectOrderStatus, OrderPaymentStates, OrderFulfillmentStates, OrderStatuses

LEMMA SyncAlike ==
    ASSUME NEW b \in Books
    PROVE  Alike(b, syncOrderFulfillmentStateFromLines(b))
  <1> DEFINE state == fulfillmentFromLines(b)
             c == [b EXCEPT !.fulfillmentState = state,
                            !.status = projectOrderStatus(b.paymentState, state)]
  <1>1. state \in OrderFulfillmentStates
    BY DEF fulfillmentFromLines, OrderFulfillmentStates
  <1>2. projectOrderStatus(b.paymentState, state) \in OrderStatuses
    BY <1>1, ProjectionType DEF Books
  <1> HIDE DEF state
  <1>3. Alike(b, c) /\ Alike(b, b)
    BY <1>1, <1>2 DEF Books, Alike
  <1> QED
    BY <1>3 DEF syncOrderFulfillmentStateFromLines, state

(* A line ends; its refund is wanted or not.                                *)
LineEnds(b, c, l, status, refundStatus) ==
    /\ c \in Books
    /\ c.line = [b.line EXCEPT ![l] = status]
    /\ c.lineRefund = [b.lineRefund EXCEPT ![l] = refundStatus]
    /\ c.lineRefundId = b.lineRefundId /\ c.refund = b.refund /\ c.reason = b.reason

LEMMA LineEnded ==
    ASSUME NEW b \in Books, NEW l \in Lines,
           NEW s \in LineStatuses, NEW t \in LineRefundStatuses
    PROVE  LineEnds(b, syncOrderFulfillmentStateFromLines(
                           [b EXCEPT !.line[l] = s, !.lineRefund[l] = t]), l, s, t)
  <1> DEFINE c == [b EXCEPT !.line[l] = s, !.lineRefund[l] = t]
  <1>1. LineEnds(b, c, l, s, t)
    BY DEF Books, LineEnds
  <1>2. Alike(c, syncOrderFulfillmentStateFromLines(c))
    BY <1>1, SyncAlike DEF LineEnds
  <1> QED
    BY <1>1, <1>2 DEF LineEnds, Alike

LEMMA FailedLine ==
    ASSUME NEW b \in Books, NEW l \in Lines
    PROVE  LineEnds(b, markOrderLineFailed(b, l), l, "dispense_failed", "pending")
  BY LineEnded DEF markOrderLineFailed, LineStatuses, LineRefundStatuses

(* A staged refund leaves the lines as they are; it is a new row, or the    *)
(* lines are left to an operator, or one is there already.                  *)
LEMMA FullStaged ==
    ASSUME NEW b \in Books, NEW r \in Refunds
    PROVE  LET c == stageAutomaticFullRefund(b, r) IN
           /\ c \in Books /\ c.line = b.line /\ c.lineRefund = b.lineRefund
           /\ Active(b, "auto_dispense_failed") => c = b
           /\ ~Active(b, "auto_dispense_failed") =>
                /\ c.refund = [b.refund EXCEPT ![r] = "created"]
                /\ c.reason = [b.reason EXCEPT ![r] = "auto_dispense_failed"]
                /\ c.lineRefundId = [l \in Lines |->
                        IF b.lineRefund[l] = "pending" THEN r ELSE b.lineRefundId[l]]
  <1> DEFINE ids == [l \in Lines |-> IF b.lineRefund[l] = "pending" THEN r ELSE b.lineRefundId[l]]
             i == Insert(b, r, "created", "auto_dispense_failed")
             c == [i EXCEPT !.lineRefundId = ids, !.status = "refund_pending",
                            !.paymentState = "refund_pending", !.payment = "refund_pending"]
  <1>1. CASE Active(b, "auto_dispense_failed")
    BY <1>1 DEF stageAutomaticFullRefund
  <1>2. CASE ~Active(b, "auto_dispense_failed")
    <2>1. ids \in [Lines -> Refunds \union {NoRefund}]
      BY DEF Books
    <2>2. /\ i \in Books /\ i.line = b.line /\ i.lineRefund = b.lineRefund
          /\ i.refund = [b.refund EXCEPT ![r] = "created"]
          /\ i.reason = [b.reason EXCEPT ![r] = "auto_dispense_failed"]
      BY DEF Insert, Books, RefundStatuses, Reasons
    <2> HIDE DEF i, ids
    <2>3. /\ c \in Books /\ c.line = i.line /\ c.lineRefund = i.lineRefund
          /\ c.refund = i.refund /\ c.reason = i.reason /\ c.lineRefundId = ids
      BY <2>1, <2>2 DEF Books, OrderStatuses, OrderPaymentStates, PaymentStatuses
    <2>4. c = stageAutomaticFullRefund(b, r)
      BY <1>2 DEF stageAutomaticFullRefund, i, ids
    <2> QED
      BY <1>2, <2>2, <2>3, <2>4 DEF ids
  <1> QED
    BY <1>1, <1>2

PartialStages(b, c, r, lines) ==
    /\ c \in Books /\ c.line = b.line
    /\ ~PartialRefunds =>
         /\ c.lineRefund = [l \in Lines |->
                 IF l \in lines THEN "manual_handling" ELSE b.lineRefund[l]]
         /\ c.lineRefundId = b.lineRefundId
         /\ c.refund = b.refund /\ c.reason = b.reason
    /\ PartialRefunds /\ Active(b, PartialReason) => c = b
    /\ PartialRefunds /\ ~Active(b, PartialReason) =>
         /\ c.lineRefund = b.lineRefund
         /\ c.refund = [b.refund EXCEPT ![r] = "created"]
         /\ c.reason = [b.reason EXCEPT ![r] = PartialReason]
         /\ c.lineRefundId = [l \in Lines |->
                 IF l \in lines /\ b.lineRefund[l] = "pending"
                 THEN r ELSE b.lineRefundId[l]]

LEMMA PartialStaged ==
    ASSUME NEW b \in Books, NEW r \in Refunds, NEW lines, lines \subseteq Lines
    PROVE  PartialStages(b, stageAutomaticPartialRefund(b, r, lines), r, lines)
  <1> DEFINE marks == [l \in Lines |->
                          IF l \in lines THEN "manual_handling" ELSE b.lineRefund[l]]
             m == [b EXCEPT !.lineRefund = marks, !.payment = "manual_handling",
                            !.status = "manual_handling",
                            !.paymentState = "manual_handling"]
             ids == [l \in Lines |-> IF l \in lines /\ b.lineRefund[l] = "pending"
                                     THEN r ELSE b.lineRefundId[l]]
             i == Insert(b, r, "created", PartialReason)
             c == [i EXCEPT !.lineRefundId = ids, !.status = "refund_pending",
                            !.paymentState = "partial_refund_pending",
                            !.payment = "partial_refund_pending"]
  <1>1. CASE ~PartialRefunds
    <2>1. marks \in [Lines -> LineRefundStatuses]
      BY DEF Books, LineRefundStatuses
    <2>2. m = stageAutomaticPartialRefund(b, r, lines)
      BY <1>1 DEF stageAutomaticPartialRefund
    <2> HIDE DEF marks
    <2>3. /\ m \in Books /\ m.line = b.line /\ m.lineRefund = marks
          /\ m.lineRefundId = b.lineRefundId /\ m.refund = b.refund /\ m.reason = b.reason
      BY <2>1 DEF Books, OrderStatuses, OrderPaymentStates, PaymentStatuses
    <2> QED
      BY <1>1, <2>2, <2>3 DEF marks, PartialStages
  <1>2. CASE PartialRefunds /\ Active(b, PartialReason)
    BY <1>2 DEF stageAutomaticPartialRefund, PartialStages
  <1>3. CASE PartialRefunds /\ ~Active(b, PartialReason)
    <2>1. ids \in [Lines -> Refunds \union {NoRefund}]
      BY DEF Books
    <2>2. /\ i \in Books /\ i.line = b.line /\ i.lineRefund = b.lineRefund
          /\ i.refund = [b.refund EXCEPT ![r] = "created"]
          /\ i.reason = [b.reason EXCEPT ![r] = PartialReason]
      BY DEF Insert, Books, RefundStatuses, Reasons
    <2>3. c = stageAutomaticPartialRefund(b, r, lines)
      BY <1>3 DEF stageAutomaticPartialRefund
    <2> HIDE DEF i, ids
    <2>4. /\ c \in Books /\ c.line = i.line /\ c.lineRefund = i.lineRefund
          /\ c.refund = i.refund /\ c.reason = i.reason /\ c.lineRefundId = ids
      BY <2>1, <2>2 DEF Books, OrderStatuses, OrderPaymentStates, PaymentStatuses
    <2> QED
      BY <1>3, <2>2, <2>3, <2>4 DEF ids, PartialStages
  <1> QED
    BY <1>1, <1>2, <1>3

-----------------------------------------------------------------------------
(* Without operators: the money of the failed lines.                        *)

(* Before a refund is staged: there is none, and the failed lines wait.     *)
Waiting(b) ==
    /\ \A l \in Lines :
          b.lineRefundId[l] # NoRefund \/ b.lineRefund[l] = "pending" =>
              b.line[l] = "dispense_failed"
    /\ \A r \in Refunds : b.refund[r] = "none"
    /\ \A l \in LinesIn(b, "dispense_failed") : b.lineRefund[l] = "pending"

LEMMA OpenWaits ==
    ASSUME NEW b \in Books, MoneyIsRight(b), LinesIn(b, "pending") # {}
    PROVE  Waiting(b)
  BY DEF MoneyIsRight, Waiting

LEMMA FailedWaits ==
    ASSUME NEW b \in Books, NEW c, NEW l \in Lines, Waiting(b),
           LineEnds(b, c, l, "dispense_failed", "pending")
    PROVE  Waiting(c)
  BY DEF Waiting, LineEnds, LinesIn, Books

LEMMA DispensedWaits ==
    ASSUME NEW b \in Books, NEW c, NEW l \in Lines, Waiting(b), b.line[l] = "pending",
           LineEnds(b, c, l, "dispensed", "not_required")
    PROVE  Waiting(c)
  BY DEF Waiting, LineEnds, LinesIn, Books

(* Nothing to refund yet, or nothing at all.                                *)
LEMMA WaitingIsRight ==
    ASSUME NEW b \in Books, Waiting(b),
           LinesIn(b, "pending") # {} \/ LinesIn(b, "dispense_failed") = {}
    PROVE  MoneyIsRight(b)
  BY DEF Waiting, MoneyIsRight

LEMMA WaitingInactive ==
    ASSUME NEW b, Waiting(b), NEW q
    PROVE  ~Active(b, q)
  BY DEF Waiting, Active, ACTIVE_REFUND_STATUSES

LEMMA FullIsRight ==
    ASSUME NEW b \in Books, NEW r \in Refunds, Waiting(b), LinesIn(b, "dispense_failed") = Lines
    PROVE  MoneyIsRight(stageAutomaticFullRefund(b, r))
  <1> DEFINE c == stageAutomaticFullRefund(b, r)
  <1>1. /\ c \in Books /\ c.line = b.line /\ c.lineRefund = b.lineRefund
        /\ c.refund = [b.refund EXCEPT ![r] = "created"]
        /\ c.reason = [b.reason EXCEPT ![r] = "auto_dispense_failed"]
    BY FullStaged, WaitingInactive
  <1> HIDE DEF c
  <1>2. \A l \in Lines : b.line[l] = "dispense_failed"
    BY DEF LinesIn
  <1>3. LinesIn(c, "pending") = {} /\ LinesIn(c, "dispense_failed") = Lines
    BY <1>1, <1>2 DEF LinesIn
  <1>4. c.refund[r] # "none" /\ c.reason[r] # PartialReason
    BY <1>1 DEF Books, PartialReason
  <1>5. \A l \in Lines : PaidBack(c, l)
    BY <1>4 DEF PaidBack
  <1> QED
    BY <1>1, <1>2, <1>3, <1>5 DEF MoneyIsRight, c

LEMMA PartialIsRight ==
    ASSUME NEW b \in Books, NEW r \in Refunds, Waiting(b), LinesIn(b, "pending") = {}
    PROVE  MoneyIsRight(stageAutomaticPartialRefund(b, r, LinesIn(b, "dispense_failed")))
  <1> DEFINE failed == LinesIn(b, "dispense_failed")
             c == stageAutomaticPartialRefund(b, r, failed)
  <1>1. failed \subseteq Lines
    BY DEF LinesIn
  <1>2. ~Active(b, PartialReason)
    BY WaitingInactive
  <1>3. PartialStages(b, c, r, failed)
    BY <1>1, PartialStaged
  <1> HIDE DEF failed, c
  <1>4. LinesIn(c, "pending") = {} /\ LinesIn(c, "dispense_failed") = failed
    BY <1>3 DEF LinesIn, PartialStages, failed
  <1>5. CASE ~PartialRefunds
    <2>1. /\ c.lineRefund = [l \in Lines |->
                 IF l \in failed THEN "manual_handling" ELSE b.lineRefund[l]]
          /\ c.lineRefundId = b.lineRefundId /\ c.refund = b.refund
      BY <1>3, <1>5 DEF PartialStages
    <2>2. \A l \in failed : PaidBack(c, l)
      BY <2>1, <1>1 DEF PaidBack
    <2>3. \A l \in Lines : c.lineRefundId[l] # NoRefund \/ c.lineRefund[l] = "pending" =>
              c.line[l] = "dispense_failed"
      BY <2>1, <1>3 DEF Waiting, PartialStages
    <2>4. \A q \in Refunds : c.refund[q] = "none"
      BY <2>1 DEF Waiting
    <2> QED
      BY <1>4, <2>2, <2>3, <2>4 DEF MoneyIsRight, c, failed
  <1>6. CASE PartialRefunds
    <2>1. /\ c.lineRefund = b.lineRefund
          /\ c.refund = [b.refund EXCEPT ![r] = "created"]
          /\ c.reason = [b.reason EXCEPT ![r] = PartialReason]
          /\ c.lineRefundId = [l \in Lines |->
                 IF l \in failed /\ b.lineRefund[l] = "pending" THEN r ELSE b.lineRefundId[l]]
      BY <1>2, <1>3, <1>6 DEF PartialStages
    <2>2. c.refund[r] # "none"
      BY <2>1 DEF Books
    <2>3. \A l \in failed : c.lineRefundId[l] = r
      BY <2>1, <1>1 DEF Waiting, failed
    <2>4. \A l \in failed : PaidBack(c, l)
      BY <2>2, <2>3 DEF PaidBack
    <2>5. \A l \in Lines : c.lineRefundId[l] # NoRefund \/ c.lineRefund[l] = "pending" =>
              c.line[l] = "dispense_failed"
      BY <2>1, <1>3 DEF Waiting, LinesIn, PartialStages, failed
    <2>6. \A q \in Refunds : c.refund[q] # "none" => c.reason[q] = PartialReason
      BY <2>1 DEF Waiting, Books
    <2> QED
      BY <1>4, <2>4, <2>5, <2>6 DEF MoneyIsRight, c, failed
  <1> QED
    BY <1>5, <1>6

(* A line fails, and what failed is refunded.                               *)
LEMMA FailedIsRight ==
    ASSUME NEW b \in Books, NEW l \in Lines, NEW r \in Refunds,
           MoneyIsRight(b), b.line[l] = "pending"
    PROVE  MoneyIsRight(stageFailedLineRefund(markOrderLineFailed(b, l), r))
  <1> DEFINE c == markOrderLineFailed(b, l)
  <1>1. LineEnds(b, c, l, "dispense_failed", "pending")
    BY FailedLine
  <1>2. Waiting(b)
    BY OpenWaits DEF LinesIn
  <1>3. Waiting(c) /\ c \in Books
    BY <1>1, <1>2, FailedWaits DEF LineEnds
  <1> HIDE DEF c
  <1> SUFFICES MoneyIsRight(stageFailedLineRefund(c, r))
    BY DEF c
  <1>4. CASE LinesIn(c, "pending") # {}
    <2>1. stageFailedLineRefund(c, r) = c
      BY <1>4 DEF stageFailedLineRefund, LinesIn
    <2> QED
      BY <1>3, <1>4, <2>1, WaitingIsRight
  <1>5. CASE LinesIn(c, "pending") = {} /\ LinesIn(c, "dispense_failed") = Lines
    <2>1. stageFailedLineRefund(c, r) = stageAutomaticFullRefund(c, r)
      BY <1>5 DEF stageFailedLineRefund
    <2> QED
      BY <1>3, <1>5, <2>1, FullIsRight
  <1>6. CASE LinesIn(c, "pending") = {} /\ LinesIn(c, "dispense_failed") # Lines
    <2>1. stageFailedLineRefund(c, r) =
              stageAutomaticPartialRefund(c, r, LinesIn(c, "dispense_failed"))
      BY <1>6 DEF stageFailedLineRefund
    <2> QED
      BY <1>3, <1>6, <2>1, PartialIsRight
  <1> QED
    BY <1>4, <1>5, <1>6

(* A line is dispensed, and what failed before is refunded.                 *)
LEMMA DispensedIsRight ==
    ASSUME NEW b \in Books, NEW l \in Lines, NEW r \in Refunds,
           MoneyIsRight(b), b.line[l] = "pending"
    PROVE  MoneyIsRight(markOrderLineDispensed(b, l, r))
  <1> DEFINE c == syncOrderFulfillmentStateFromLines(
                      [b EXCEPT !.line[l] = "dispensed", !.lineRefund[l] = "not_required"])
             failed == LinesIn(c, "dispense_failed")
             waiting == {k \in failed : c.lineRefund[k] = "pending"}
  <1>1. LineEnds(b, c, l, "dispensed", "not_required")
    BY LineEnded DEF LineStatuses, LineRefundStatuses
  <1>2. Waiting(b)
    BY OpenWaits DEF LinesIn
  <1> HIDE DEF c
  <1>3. Waiting(c) /\ c \in Books
    BY <1>1, <1>2, DispensedWaits DEF LineEnds
  <1>4. waiting = failed
    BY <1>3 DEF Waiting
  <1>5. markOrderLineDispensed(b, l, r) =
            IF LinesIn(c, "pending") = {} /\ waiting # {}
            THEN stageAutomaticPartialRefund(c, r, waiting) ELSE c
    BY DEF markOrderLineDispensed, c
  <1> QED
    BY <1>3, <1>4, <1>5, WaitingIsRight, PartialIsRight

(* The types, and the lines, of the two transactions.                       *)
LEMMA FailedRows ==
    ASSUME NEW b \in Books, NEW l \in Lines, NEW r \in Refunds
    PROVE  /\ markOrderLineFailed(b, l) \in Books
           /\ markOrderLineFailed(b, l).line = [b.line EXCEPT ![l] = "dispense_failed"]
           /\ stageFailedLineRefund(markOrderLineFailed(b, l), r) \in Books
           /\ stageFailedLineRefund(markOrderLineFailed(b, l), r).line =
                  [b.line EXCEPT ![l] = "dispense_failed"]
  <1> DEFINE c == markOrderLineFailed(b, l)
  <1>1. c \in Books /\ c.line = [b.line EXCEPT ![l] = "dispense_failed"]
    BY FailedLine DEF LineEnds
  <1> HIDE DEF c
  <1>2. LinesIn(c, "dispense_failed") \subseteq Lines
    BY DEF LinesIn
  <1>3. PartialStages(c, stageAutomaticPartialRefund(c, r, LinesIn(c, "dispense_failed")),
                      r, LinesIn(c, "dispense_failed"))
    BY <1>1, <1>2, PartialStaged
  <1>4. /\ stageFailedLineRefund(c, r) \in Books
        /\ stageFailedLineRefund(c, r).line = c.line
    BY <1>1, <1>3, FullStaged DEF stageFailedLineRefund, PartialStages
  <1> QED
    BY <1>1, <1>4 DEF c

LEMMA DispensedRows ==
    ASSUME NEW b \in Books, NEW l \in Lines, NEW r \in Refunds
    PROVE  /\ markOrderLineDispensed(b, l, r) \in Books
           /\ markOrderLineDispensed(b, l, r).line = [b.line EXCEPT ![l] = "dispensed"]
  <1> DEFINE c == syncOrderFulfillmentStateFromLines(
                      [b EXCEPT !.line[l] = "dispensed", !.lineRefund[l] = "not_required"])
             waiting == {k \in LinesIn(c, "dispense_failed") : c.lineRefund[k] = "pending"}
  <1>1. LineEnds(b, c, l, "dispensed", "not_required")
    BY LineEnded DEF LineStatuses, LineRefundStatuses
  <1> HIDE DEF c
  <1>2. c \in Books /\ c.line = [b.line EXCEPT ![l] = "dispensed"]
    BY <1>1 DEF LineEnds
  <1>3. waiting \subseteq Lines
    BY DEF LinesIn
  <1>4. markOrderLineDispensed(b, l, r) =
            IF LinesIn(c, "pending") = {} /\ waiting # {}
            THEN stageAutomaticPartialRefund(c, r, waiting) ELSE c
    BY DEF markOrderLineDispensed, c
  <1> HIDE DEF waiting
  <1>5. PartialStages(c, stageAutomaticPartialRefund(c, r, waiting), r, waiting)
    BY <1>2, <1>3, PartialStaged
  <1> QED
    BY <1>2, <1>4, <1>5 DEF PartialStages

(* A refund ends: the lines it pays for are marked with it.                 *)
Marked(b, c, r, outcome, lines, mark) ==
    /\ c \in Books /\ c.line = b.line
    /\ c.lineRefund = [l \in Lines |-> IF l \in lines THEN mark ELSE b.lineRefund[l]]
    /\ c.lineRefundId = [l \in Lines |-> IF l \in lines THEN r ELSE b.lineRefundId[l]]
    /\ c.refund = [b.refund EXCEPT ![r] = outcome] /\ c.reason = b.reason

PaidLines(b, r) ==
    IF b.reason[r] = PartialReason THEN {l \in Lines : b.lineRefundId[l] = r}
    ELSE {l \in Lines : b.lineRefund[l] = "pending"}

LEMMA RelabelMarks ==
    ASSUME NEW b \in Books, NEW r \in Refunds, NEW outcome \in {"succeeded", "failed"},
           NEW lines, lines \subseteq Lines, NEW mark \in {"refunded", "failed"},
           NEW s \in OrderStatuses, NEW p \in OrderPaymentStates,
           NEW f \in OrderFulfillmentStates, NEW t \in PaymentStatuses
    PROVE  Marked(b, SetOrder(Relabel([b EXCEPT !.refund[r] = outcome], lines, r, mark),
                              s, p, f, t), r, outcome, lines, mark)
  <1> DEFINE ended == [b EXCEPT !.refund[r] = outcome]
             c == Relabel(ended, lines, r, mark)
  <1>1. /\ ended \in Books /\ ended.line = b.line /\ ended.lineRefund = b.lineRefund
        /\ ended.lineRefundId = b.lineRefundId /\ ended.reason = b.reason
        /\ ended.refund = [b.refund EXCEPT ![r] = outcome]
    BY DEF Books, RefundStatuses
  <1> HIDE DEF ended
  <1>2. Marked(b, c, r, outcome, lines, mark)
    BY <1>1 DEF Relabel, Marked, Books, LineRefundStatuses
  <1> HIDE DEF c
  <1>3. Marked(b, SetOrder(c, s, p, f, t), r, outcome, lines, mark)
    BY <1>2 DEF SetOrder, Marked, Books
  <1> QED
    BY <1>3 DEF c, ended

LEMMA EndMarks ==
    ASSUME NEW b \in Books, NEW r \in Refunds, NEW outcome \in {"succeeded", "failed"},
           NEW seen \in OrderFulfillmentStates
    PROVE  \E mark \in {"refunded", "failed"} :
              Marked(b, applyRefundTerminalState(b, r, outcome, seen),
                     r, outcome, PaidLines(b, r), mark)
  <1> DEFINE lines == PaidLines(b, r)
             ended == [b EXCEPT !.refund[r] = outcome]
             mark == IF outcome = "succeeded" THEN "refunded" ELSE "failed"
  <1>1. lines \subseteq Lines /\ mark \in {"refunded", "failed"}
    BY DEF PaidLines
  <1>2. /\ \A p \in OrderPaymentStates, f \in OrderFulfillmentStates :
              projectOrderStatus(p, f) \in OrderStatuses
        /\ {"partial_refunded", "manual_handling", "refunded", "paid"} \subseteq OrderPaymentStates
        /\ {"partial_refunded", "manual_handling", "refunded", "succeeded"} \subseteq PaymentStatuses
        /\ "manual_handling" \in OrderStatuses /\ "manual_handling" \in OrderFulfillmentStates
        /\ b.fulfillmentState \in OrderFulfillmentStates
    BY ProjectionType
       DEF OrderPaymentStates, PaymentStatuses, OrderStatuses, OrderFulfillmentStates, Books
  <1>3. \E s \in OrderStatuses, p \in OrderPaymentStates, f \in OrderFulfillmentStates,
           t \in PaymentStatuses :
           applyRefundTerminalState(b, r, outcome, seen) =
               SetOrder(Relabel(ended, lines, r, mark), s, p, f, t)
    <2>1. CASE b.reason[r] = PartialReason
      <3>1. lines = {l \in Lines : b.lineRefundId[l] = r}
        BY <2>1 DEF PaidLines
      <3> HIDE DEF lines, ended
      <3>2. applyRefundTerminalState(b, r, outcome, seen) =
              IF outcome = "succeeded"
              THEN SetOrder(Relabel(ended, lines, r, mark),
                            projectOrderStatus("partial_refunded", seen),
                            "partial_refunded", seen, "partial_refunded")
              ELSE SetOrder(Relabel(ended, lines, r, mark),
                            "manual_handling", "manual_handling", seen, "manual_handling")
        BY <2>1, <3>1 DEF applyRefundTerminalState, applyPartialRefundTerminalState, ended
      <3> QED
        BY <3>2, <1>2
    <2>2. CASE b.reason[r] # PartialReason
      <3>1. lines = {l \in Lines : b.lineRefund[l] = "pending"}
        BY <2>2 DEF PaidLines
      <3> HIDE DEF lines, ended
      <3>2. applyRefundTerminalState(b, r, outcome, seen) =
              IF outcome = "succeeded"
              THEN SetOrder(Relabel(ended, lines, r, mark),
                            projectOrderStatus("refunded", "manual_handling"),
                            "refunded", b.fulfillmentState, "refunded")
              ELSE SetOrder(Relabel(ended, lines, r, mark),
                            projectOrderStatus("paid", "manual_handling"),
                            "paid", "manual_handling", "succeeded")
        BY <2>2, <3>1 DEF applyRefundTerminalState, applyFullRefundTerminalState, ended
      <3> QED
        BY <3>2, <1>2
    <2> QED
      BY <2>1, <2>2
  <1>4. PICK s \in OrderStatuses, p \in OrderPaymentStates, f \in OrderFulfillmentStates,
           t \in PaymentStatuses :
           applyRefundTerminalState(b, r, outcome, seen) =
               SetOrder(Relabel(ended, lines, r, mark), s, p, f, t)
    BY <1>3
  <1> HIDE DEF lines, mark
  <1>5. Marked(b, SetOrder(Relabel(ended, lines, r, mark), s, p, f, t),
               r, outcome, lines, mark)
    BY ONLY <1>1, b \in Books, r \in Refunds, outcome \in {"succeeded", "failed"},
             RelabelMarks DEF ended
  <1> QED
    BY <1>1, <1>4, <1>5 DEF lines

LEMMA EndIsRight ==
    ASSUME NEW b \in Books, NEW c, NEW r \in Refunds, NEW outcome \in {"succeeded", "failed"},
           NEW mark \in {"refunded", "failed"}, MoneyIsRight(b), b.refund[r] # "none",
           Marked(b, c, r, outcome, PaidLines(b, r), mark)
    PROVE  MoneyIsRight(c)
  <1>1. PaidLines(b, r) \subseteq Lines
    BY DEF PaidLines
  <1>2. /\ \A l \in Lines : c.line[l] = b.line[l]
        /\ \A l \in PaidLines(b, r) : c.lineRefund[l] = mark /\ c.lineRefundId[l] = r
        /\ \A l \in Lines \ PaidLines(b, r) :
               c.lineRefund[l] = b.lineRefund[l] /\ c.lineRefundId[l] = b.lineRefundId[l]
        /\ \A q \in Refunds : c.refund[q] # "none" <=> b.refund[q] # "none"
        /\ c.reason = b.reason
    BY <1>1 DEF Marked, Books
  <1>3. \A s : LinesIn(c, s) = LinesIn(b, s)
    BY <1>2 DEF LinesIn
  <1>4. \A l \in PaidLines(b, r) : b.line[l] = "dispense_failed"
    BY DEF PaidLines, MoneyIsRight
  <1>5. \A l \in Lines : c.lineRefundId[l] # NoRefund \/ c.lineRefund[l] = "pending" =>
            c.line[l] = "dispense_failed"
    BY <1>2, <1>4 DEF MoneyIsRight
  <1>6. LinesIn(b, "pending") = {}
    BY DEF MoneyIsRight
  <1>7. ASSUME NEW l \in Lines, PaidBack(b, l) PROVE PaidBack(c, l)
    <2>1. CASE l \in PaidLines(b, r)
      BY <1>2, <2>1 DEF PaidBack
    <2>2. CASE l \notin PaidLines(b, r)
      BY <1>2, <1>7, <2>2 DEF PaidBack
    <2> QED
      BY <2>1, <2>2
  <1>8. \A l \in LinesIn(c, "dispense_failed") : PaidBack(c, l)
    BY <1>3, <1>6, <1>7 DEF MoneyIsRight, LinesIn
  <1>9. \A q \in Refunds : c.refund[q] # "none" /\ c.reason[q] # PartialReason =>
            LinesIn(c, "dispense_failed") = Lines
    BY <1>2, <1>3 DEF MoneyIsRight
  <1> QED
    BY <1>3, <1>5, <1>6, <1>8, <1>9 DEF MoneyIsRight

(* The operator's refund inserts a row and touches no line.                 *)
LEMMA RequestRows ==
    ASSUME NEW b \in Books, NEW r \in Refunds
    PROVE  /\ requestFullRefund(b, r, "admin_refund") \in Books
           /\ requestFullRefund(b, r, "admin_refund").line = b.line
  <1> DEFINE i == Insert(b, r, "processing", "admin_refund")
  <1>1. i \in Books /\ i.line = b.line
    BY DEF Insert, Books, RefundStatuses, Reasons
  <1> HIDE DEF i
  <1>2. /\ [i EXCEPT !.status = "refund_pending", !.paymentState = "refund_pending",
                     !.payment = "refund_pending"] \in Books
        /\ [i EXCEPT !.status = "refund_pending", !.paymentState = "refund_pending",
                     !.payment = "refund_pending"].line = b.line
    BY <1>1 DEF Books, OrderStatuses, OrderPaymentStates, PaymentStatuses
  <1> QED
    BY <1>2 DEF requestFullRefund, i

-----------------------------------------------------------------------------
(* The parts that a step leaves alone.                                      *)

(* A command that has ended stays as it is, one that has not does not end.  *)
CommandsGoOn ==
    \A c \in Commands :
        command'[c] = command[c] \/ (command[c] \in Claimable /\ command'[c] \in Claimable)

LEMMA NoneAndEndsAreFinal ==
    "none" \notin Claimable /\ "failed" \notin Claimable /\ "succeeded" \notin Claimable
  BY DEF Claimable

LEMMA RowsSame ==
    ASSUME RowsInv, CompensationInv, CommandsGoOn, UNCHANGED reservation
    PROVE  RowsInv' /\ CompensationInv'
  BY CommandShape, NoneAndEndsAreFinal DEF RowsInv, CompensationInv, CommandsGoOn

LEMMA StockSame ==
    ASSUME StockFollowsCommands, CommandsGoOn, UNCHANGED stockVars
    PROVE  StockFollowsCommands'
  <1>1. ASSUME NEW l \in Lines
        PROVE  ActiveRows(l)' = ActiveRows(l) /\ Having(l, "succeeded")' = Having(l, "succeeded")
    BY CommandShape, NoneAndEndsAreFinal DEF ActiveRows, Having, CommandsGoOn, stockVars
  <1> QED
    BY <1>1 DEF StockFollowsCommands, stockVars

LEMMA LinesSame ==
    ASSUME LineIsCoherent, CommandsGoOn, UNCHANGED reservation, order'.line = order.line,
           \A m \in Commands \X Sources :
               (movement'[m] = "accepted") <=> (movement[m] = "accepted")
    PROVE  LineIsCoherent'
  <1>1. ASSUME NEW l \in Lines
        PROVE  Having(l, "succeeded")' = Having(l, "succeeded")
    BY CommandShape, NoneAndEndsAreFinal DEF Having, CommandsGoOn
  <1>2. ASSUME NEW l \in Lines, NEW c \in Having(l, "failed")
        PROVE  c \in Having(l, "failed")'
    BY CommandShape, NoneAndEndsAreFinal DEF Having, CommandsGoOn
  <1>3. ASSUME NEW l \in Lines, NEW c \in CommandsOf(l), NEW s \in Sources
        PROVE  (movement'[<<c, s>>] = "accepted") <=> (movement[<<c, s>>] = "accepted")
    BY CommandShape
  <1> QED
    BY <1>1, <1>2, <1>3 DEF LineIsCoherent

LEMMA RecoverySame ==
    ASSUME TypeOK, RecoveryInv, UNCHANGED <<action, about, acting>>,
           \A c \in Commands : command[c] \in {"none", "failed"} => command'[c] = command[c]
    PROVE  RecoveryInv'
  <1>1. \A c \in about[CND] \union about[CDC] : c \in Commands
    BY DEF TypeOK, RecoveryActions, Outcomes, Remedies, CND, CDC
  <1> QED
    BY <1>1, CommandShape DEF RecoveryInv

LEMMA UnattendedSame ==
    ASSUME UnattendedInv, UNCHANGED <<action, acting, machine>>, confirming' \subseteq confirming
    PROVE  UnattendedInv'
  BY DEF UnattendedInv

LEMMA OutcomesSame ==
    ASSUME OutcomeIsMachines, CommandsGoOn,
           \A c \in Commands : machine[c] \in MachineOutcomes => machine'[c] = machine[c]
    PROVE  OutcomeIsMachines'
  BY NoneAndEndsAreFinal DEF OutcomeIsMachines, CommandsGoOn, MachineOutcomes

LEMMA MoneySame ==
    ASSUME MoneyInv, Alike(order, order')
    PROVE  MoneyInv'
  <1>1. \A s : LinesIn(order', s) = LinesIn(order, s)
    BY DEF LinesIn, Alike
  <1>2. \A l \in Lines : PaidBack(order', l) <=> PaidBack(order, l)
    BY DEF PaidBack, Alike
  <1>3. MoneyIsRight(order) => MoneyIsRight(order')
    BY <1>1, <1>2 DEF MoneyIsRight, Alike, LinesIn
  <1> QED
    BY <1>3 DEF MoneyInv

LEMMA OrderSame ==
    ASSUME TypeOK, UNCHANGED order
    PROVE  Alike(order, order')
  BY DEF TypeOK, Alike

(* Everything about stock and lines, for a step that ends no command.       *)
LEMMA QuietRows ==
    ASSUME IndInv, CommandsGoOn, UNCHANGED <<stockVars, movement>>, Alike(order, order')
    PROVE  /\ RowsInv' /\ CompensationInv' /\ StockFollowsCommands' /\ LineIsCoherent'
           /\ MoneyInv'
  <1>1. UNCHANGED reservation
    BY DEF stockVars
  <1> QED
    BY <1>1, RowsSame, StockSame, LinesSame, MoneySame DEF IndInv, Alike

LEMMA CommandsStay ==
    ASSUME UNCHANGED command
    PROVE  CommandsGoOn
  BY DEF CommandsGoOn

-----------------------------------------------------------------------------
LEMMA InitInd == Init => IndInv
  <1> SUFFICES ASSUME Init PROVE IndInv
    OBVIOUS
  <1>1. PaidOrder \in Books
    BY DEF PaidOrder, Books, OrderStatuses, OrderPaymentStates, OrderFulfillmentStates,
           PaymentStatuses, LineStatuses, LineRefundStatuses, RefundStatuses
  <1>2. TypeOK
    BY <1>1 DEF Init, TypeOK, CommandStatuses
  <1>3. \A l \in Lines : /\ command[Dispatch(l)] = "pending"
                         /\ command[Compensation(l)] = "none"
                         /\ reservation[Dispatch(l)] = "active"
                         /\ reservation[Compensation(l)] = "none"
    BY CommandShape DEF Init, Dispatch, Compensation
  <1>4. RowsInv /\ CompensationInv
    BY <1>3 DEF Init, RowsInv, CompensationInv, Claimable
  <1>5. RecoveryInv
    BY <1>3 DEF Init, RecoveryInv, RecoveryActions, Outcomes, Remedies, CND, CDC
  <1>6. UnattendedInv
    BY DEF Init, UnattendedInv
  <1>7. ASSUME NEW l \in Lines
        PROVE  /\ ActiveRows(l) = {Dispatch(l)} /\ Having(l, "succeeded") = {}
    BY <1>3, CommandShape DEF ActiveRows, Having, CommandsOf
  <1>8. StockFollowsCommands
    <2>1. ASSUME NEW l \in Lines
          PROVE  Cardinality(ActiveRows(l)) = 1 /\ Cardinality(Having(l, "succeeded")) = 0
      BY <1>7, Counts
    <2> QED
      BY <2>1 DEF Init, StockFollowsCommands
  <1>9. LineIsCoherent
    <2> SUFFICES ASSUME NEW l \in Lines
                 PROVE  /\ order.line[l] = "pending"
                        /\ Having(l, "succeeded") = {}
                        /\ \A c \in CommandsOf(l) : reservation[c] # "confirmed"
                        /\ \A c \in CommandsOf(l), s \in Sources : movement[<<c, s>>] = "none"
      BY DEF LineIsCoherent
    <2> QED
      BY <1>3, <1>7, CommandShape DEF Init, PaidOrder, CommandsOf
  <1>10. OutcomeIsMachines
    BY DEF Init, OutcomeIsMachines
  <1>11. MoneyIsRight(order)
    BY <1>1 DEF Init, PaidOrder, MoneyIsRight, LinesIn
  <1> QED
    BY <1>2, <1>4, <1>5, <1>6, <1>8, <1>9, <1>10, <1>11 DEF IndInv, MoneyInv

-----------------------------------------------------------------------------
(* Steps that end no command.                                               *)

LEMMA QuietStep ==
    ASSUME IndInv, TypeOK', CommandsGoOn, Alike(order, order'),
           UNCHANGED <<stockVars, movement, recoverVars, machine>>,
           confirming' \subseteq confirming
    PROVE  IndInv'
  <1>1. UNCHANGED <<action, about, acting>>
    BY DEF recoverVars
  <1>2. /\ RowsInv' /\ CompensationInv' /\ StockFollowsCommands' /\ LineIsCoherent'
        /\ MoneyInv'
    BY QuietRows
  <1>3. RecoveryInv'
    BY <1>1, RecoverySame, NoneAndEndsAreFinal DEF IndInv, CommandsGoOn
  <1>4. UnattendedInv'
    BY <1>1, UnattendedSame DEF IndInv
  <1>5. OutcomeIsMachines'
    BY OutcomesSame DEF IndInv
  <1> QED
    BY <1>2, <1>3, <1>4, <1>5 DEF IndInv

LEMMA DispatchInd ==
    ASSUME IndInv, NEW c \in Commands,
           dispatchPendingCommandsForOrder(c) \/ markPendingCommandSent(c) \/ handleCommandAck(c)
    PROVE  IndInv'
  <1>1. UNCHANGED <<order, stockVars, movement, recoverVars, confirming, machine>>
    BY DEF dispatchPendingCommandsForOrder, markPendingCommandSent, handleCommandAck, procVars
  <1>2. TypeOK'
    BY DEF IndInv, TypeOK, dispatchPendingCommandsForOrder, markPendingCommandSent,
           handleCommandAck, stockVars, recoverVars, procVars, CommandStatuses
  <1>3. CommandsGoOn
    BY DEF IndInv, TypeOK, CommandsGoOn, Claimable, dispatchPendingCommandsForOrder,
           markPendingCommandSent, handleCommandAck
  <1> QED
    BY <1>1, <1>2, <1>3, QuietStep, OrderSame DEF IndInv

LEMMA UnknownInd ==
    ASSUME IndInv, NEW c \in Commands, NEW eligible, eligible \subseteq Claimable,
           MarkUnknown(c, eligible)
    PROVE  IndInv'
  <1>1. CommandsGoOn
    BY DEF IndInv, TypeOK, CommandsGoOn, Claimable, MarkUnknown
  <1>2. Alike(order, order')
    <2>1. order \in Books
      BY DEF IndInv, TypeOK
    <2>2. projectOrderStatus(order.paymentState, "manual_handling") \in OrderStatuses
      BY <2>1, ProjectionType DEF Books, OrderFulfillmentStates
    <2> QED
      BY <2>1, <2>2 DEF MarkUnknown, Alike, Books, OrderFulfillmentStates
  <1>3. TypeOK'
    BY <1>2 DEF IndInv, TypeOK, MarkUnknown, Alike, stockVars, recoverVars, procVars,
           CommandStatuses
  <1>4. UNCHANGED <<stockVars, movement, recoverVars, machine, confirming>>
    BY DEF MarkUnknown, procVars
  <1> QED
    BY <1>1, <1>2, <1>3, <1>4, QuietStep

LEMMA MachineInd ==
    ASSUME IndInv, NEW c \in Commands, MachineAccepts(c) \/ MachineTells(c)
    PROVE  IndInv'
  <1>1. UNCHANGED <<order, command, stockVars, movement, recoverVars, procVars>>
    BY DEF MachineAccepts, MachineTells
  <1>2. TypeOK'
    BY DEF IndInv, TypeOK, MachineAccepts, MachineTells, stockVars, recoverVars, procVars
  <1>3. \A d \in Commands : machine[d] \in MachineOutcomes => machine'[d] = machine[d]
    BY DEF IndInv, TypeOK, MachineAccepts, MachineTells, MachineOutcomes
  <1>4. /\ RowsInv' /\ CompensationInv' /\ StockFollowsCommands' /\ LineIsCoherent'
        /\ MoneyInv'
    BY <1>1, QuietRows, CommandsStay, OrderSame DEF IndInv
  <1>5. RecoveryInv'
    BY <1>1, RecoverySame DEF IndInv, recoverVars
  <1>6. UnattendedInv'
    BY <1>1, <1>3 DEF IndInv, TypeOK, UnattendedInv, recoverVars, procVars, Confirmations,
           MachineOutcomes
  <1>7. OutcomeIsMachines'
    BY <1>1, <1>3, OutcomesSame, CommandsStay DEF IndInv
  <1> QED
    BY <1>2, <1>4, <1>5, <1>6, <1>7 DEF IndInv

(* A success or an operator's word on its way to the confirmation.          *)
LEMMA ConfirmationType ==
    \A c \in Commands, way \in Ways, step \in {"lookup", "confirm"} :
        /\ Confirmation(c, way, step) \in Confirmations
        /\ Confirmation(c, way, step).command = c /\ Confirmation(c, way, step).way = way
  BY DEF Confirmation, Confirmations

LEMMA SuccessInd ==
    ASSUME IndInv, NEW c \in Commands, SuccessResult(c) \/ resolveCommandAsDispensed(c)
    PROVE  IndInv'
  <1>1. PICK way \in {"mqtt", "resolve"} :
            /\ confirming' = confirming \union {Confirmation(c, way, "lookup")}
            /\ way = "mqtt" => machine[c] = "success"
            /\ way = "resolve" => OperatorActs # {}
    BY DEF SuccessResult, resolveCommandAsDispensed, BeginConfirmation
  <1>2. UNCHANGED <<order, command, stockVars, movement, recoverVars, dispatching, published,
                    machine>>
    BY DEF SuccessResult, resolveCommandAsDispensed
  <1>3. /\ Confirmation(c, way, "lookup") \in Confirmations
        /\ Confirmation(c, way, "lookup").command = c
        /\ Confirmation(c, way, "lookup").way = way
    BY ConfirmationType DEF Ways
  <1>4. TypeOK'
    BY <1>1, <1>2, <1>3 DEF IndInv, TypeOK, stockVars, recoverVars
  <1>5. /\ RowsInv' /\ CompensationInv' /\ StockFollowsCommands' /\ LineIsCoherent'
        /\ MoneyInv'
    BY <1>2, QuietRows, CommandsStay, OrderSame DEF IndInv
  <1>6. RecoveryInv'
    BY <1>2, RecoverySame DEF IndInv, recoverVars
  <1>7. UnattendedInv'
    BY <1>1, <1>2, <1>3 DEF IndInv, UnattendedInv, recoverVars
  <1>8. OutcomeIsMachines'
    BY <1>2, OutcomesSame, CommandsStay DEF IndInv
  <1> QED
    BY <1>4, <1>5, <1>6, <1>7, <1>8 DEF IndInv

-----------------------------------------------------------------------------
(* Recovery actions.                                                        *)

LEMMA ActionNames ==
    /\ CND \in RecoveryActions /\ CDC \in RecoveryActions
    /\ CND \in Outcomes /\ CDC \in Remedies /\ CND \notin Remedies /\ CDC \notin Outcomes
    /\ CND # CDC
  BY DEF RecoveryActions, Outcomes, Remedies, CND, CDC

LEMMA StartInd ==
    ASSUME IndInv, NEW a \in RecoveryActions, startRecoveryAction(a)
    PROVE  IndInv'
  <1>1. PICK c \in Commands :
            /\ a \in Remedies => c \in about[CND] /\ action[CND] = "completed"
            /\ about' = [about EXCEPT ![a] = {c}]
    BY DEF startRecoveryAction, CND
  <1>2. /\ UNCHANGED <<order, command, stockVars, movement, procVars, published, machine>>
        /\ action' = [action EXCEPT ![a] = "started"]
        /\ acting' = [acting EXCEPT ![a] = "started"]
        /\ a \in OperatorActs /\ action[a] = "none"
    BY DEF startRecoveryAction, RecoveryActions
  <1>3. TypeOK'
    BY <1>1, <1>2 DEF IndInv, TypeOK, stockVars, procVars
  <1>4. /\ RowsInv' /\ CompensationInv' /\ StockFollowsCommands' /\ LineIsCoherent'
        /\ MoneyInv'
    BY <1>2, QuietRows, CommandsStay, OrderSame DEF IndInv
  <1>5. RecoveryInv'
    BY <1>1, <1>2, ActionNames DEF IndInv, TypeOK, RecoveryInv
  <1>6. UnattendedInv'
    BY <1>2 DEF UnattendedInv
  <1>7. OutcomeIsMachines'
    BY <1>2, OutcomesSame, CommandsStay DEF IndInv
  <1> QED
    BY <1>3, <1>4, <1>5, <1>6, <1>7 DEF IndInv

LEMMA CompleteInd ==
    ASSUME IndInv, NEW a \in RecoveryActions, completeRecoveryAction(a) \/ failRecoveryAction(a)
    PROVE  IndInv'
  <1>1. PICK s \in {"completed", "failed"} :
            /\ action' = [action EXCEPT ![a] = s]
            /\ acting' = [acting EXCEPT ![a] = "idle"]
            /\ acting[a] \in {"done", "refused"}
            /\ s = "completed" => acting[a] = "done"
    BY DEF completeRecoveryAction, failRecoveryAction
  <1>2. UNCHANGED <<order, command, stockVars, movement, about, procVars, published, machine>>
    BY DEF completeRecoveryAction, failRecoveryAction
  <1>3. TypeOK'
    BY <1>1, <1>2 DEF IndInv, TypeOK, stockVars, procVars
  <1>4. /\ RowsInv' /\ CompensationInv' /\ StockFollowsCommands' /\ LineIsCoherent'
        /\ MoneyInv'
    BY <1>2, QuietRows, CommandsStay, OrderSame DEF IndInv
  <1>5. RecoveryInv'
    BY <1>1, <1>2, ActionNames DEF IndInv, TypeOK, RecoveryInv
  <1>6. UnattendedInv'
    BY <1>1, <1>2 DEF IndInv, TypeOK, UnattendedInv, procVars
  <1>7. OutcomeIsMachines'
    BY <1>2, OutcomesSame, CommandsStay DEF IndInv
  <1> QED
    BY <1>3, <1>4, <1>5, <1>6, <1>7 DEF IndInv

LEMMA CrashInd ==
    ASSUME IndInv, Crash
    PROVE  IndInv'
  <1>1. TypeOK'
    BY DEF IndInv, TypeOK, Crash, stockVars
  <1>2. /\ RowsInv' /\ CompensationInv' /\ StockFollowsCommands' /\ LineIsCoherent'
        /\ MoneyInv'
    BY QuietRows, CommandsStay, OrderSame DEF IndInv, Crash
  <1>3. RecoveryInv'
    BY ActionNames DEF IndInv, RecoveryInv, Crash
  <1>4. UnattendedInv'
    BY DEF IndInv, UnattendedInv, Crash
  <1>5. OutcomeIsMachines'
    BY OutcomesSame, CommandsStay DEF IndInv, Crash
  <1> QED
    BY <1>1, <1>2, <1>3, <1>4, <1>5 DEF IndInv

(* A recovery request goes on; only a confirmed failure counts as done.     *)
GoesOn(a) ==
    /\ UNCHANGED <<action, about>>
    /\ \E how \in {"confirming", "done", "refused"} :
          /\ acting' = [acting EXCEPT ![a] = how]
          /\ a = CND /\ how = "done" => \A c \in about[CND] : command'[c] = "failed"

LEMMA RecoveryGoesOn ==
    ASSUME TypeOK, RecoveryInv, NEW a \in RecoveryActions, acting[a] # "idle", GoesOn(a),
           \A c \in Commands : command[c] \in {"none", "failed"} => command'[c] = command[c]
    PROVE  RecoveryInv'
  <1>1. \A c \in about[CND] \union about[CDC] : c \in Commands
    BY ActionNames DEF TypeOK
  <1> QED
    BY <1>1, CommandShape, ActionNames DEF TypeOK, RecoveryInv, GoesOn

LEMMA ConfirmDispensedInd ==
    ASSUME IndInv, NEW c \in Commands, confirmDispensed(c)
    PROVE  IndInv'
  <1> DEFINE a == "confirm_dispensed"
  <1>1. UNCHANGED <<order, command, stockVars, movement, dispatching, published, machine>>
    BY DEF confirmDispensed
  <1>2. a \in RecoveryActions /\ a # CND /\ acting[a] = "started"
    BY DEF confirmDispensed, RecoveryActions, Outcomes, CND
  <1>3. GoesOn(a)
    BY <1>2 DEF confirmDispensed, Answer, GoesOn
  <1>4. confirming' = confirming \/ confirming' = confirming \union {Confirmation(c, "recovery", "lookup")}
    BY DEF confirmDispensed, BeginConfirmation
  <1>5. TypeOK'
    BY <1>1, <1>2, <1>3, <1>4, ConfirmationType
       DEF IndInv, TypeOK, GoesOn, stockVars, Ways
  <1>6. /\ RowsInv' /\ CompensationInv' /\ StockFollowsCommands' /\ LineIsCoherent'
        /\ MoneyInv'
    BY <1>1, QuietRows, CommandsStay, OrderSame DEF IndInv
  <1>7. RecoveryInv'
    BY <1>1, <1>2, <1>3, RecoveryGoesOn DEF IndInv
  <1>8. UnattendedInv'
    BY <1>2 DEF IndInv, UnattendedInv
  <1>9. OutcomeIsMachines'
    BY <1>1, OutcomesSame, CommandsStay DEF IndInv
  <1> QED
    BY <1>5, <1>6, <1>7, <1>8, <1>9 DEF IndInv

-----------------------------------------------------------------------------
(* Stock that is released.                                                  *)

LEMMA CountRows ==
    ASSUME RowsInv, CompensationInv, NEW l \in Lines
    PROVE  /\ ActiveRows(l) = {} => Cardinality(ActiveRows(l)) = 0
           /\ ActiveRows(l) # {} => Cardinality(ActiveRows(l)) = 1
           /\ Having(l, "succeeded") = {} => Cardinality(Having(l, "succeeded")) = 0
           /\ Having(l, "succeeded") # {} => Cardinality(Having(l, "succeeded")) = 1
  <1>1. ASSUME ActiveRows(l) # {} PROVE Cardinality(ActiveRows(l)) = 1
    <2>1. PICK c \in ActiveRows(l) : TRUE
      BY <1>1
    <2>2. ActiveRows(l) = {c}
      BY OneActiveRow
    <2> QED
      BY <2>2, Counts
  <1>2. ASSUME Having(l, "succeeded") # {} PROVE Cardinality(Having(l, "succeeded")) = 1
    <2>1. PICK c \in Having(l, "succeeded") : TRUE
      BY <1>2
    <2>2. Having(l, "succeeded") = {c}
      BY OneSuccess
    <2> QED
      BY <2>2, Counts
  <1> QED
    BY <1>1, <1>2, Counts

(* What releaseReservation leaves of a line's rows.                         *)
Released(l) ==
    /\ UNCHANGED <<onHand, others>>
    /\ reservation' = [c \in Commands |-> IF c.line = l /\ reservation[c] = "active"
                                          THEN "released" ELSE reservation[c]]
    /\ reserved' \in [Lines -> Nat]
    /\ \A m \in Lines \ {l} : reserved'[m] = reserved[m]
    /\ reserved'[l] = others[l]

LEMMA ReleaseReleases ==
    ASSUME IndInv, NEW l \in Lines, releaseReservation(l)
    PROVE  Released(l)
  <1>1. reservation \in [Commands -> {"none", "active", "confirmed", "released"}]
        /\ reserved \in [Lines -> Nat] /\ others \in [Lines -> Nat]
    BY DEF IndInv, TypeOK
  <1>2. \A c \in Commands : c \in ActiveRows(l) <=> c.line = l /\ reservation[c] = "active"
    BY CommandShape DEF ActiveRows
  <1>3. RowsInv /\ CompensationInv /\ reserved[l] = Cardinality(ActiveRows(l)) + others[l]
    BY DEF IndInv, StockFollowsCommands
  <1>4. CASE ActiveRows(l) = {} /\ UNCHANGED stockVars
    <2>1. \A c \in Commands : ~(c.line = l /\ reservation[c] = "active")
      BY <1>2, <1>4
    <2>2. reservation = [c \in Commands |-> IF c.line = l /\ reservation[c] = "active"
                                            THEN "released" ELSE reservation[c]]
      BY <1>1, <2>1
    <2>3. Cardinality(ActiveRows(l)) = 0 /\ others[l] \in Nat
      BY <1>1, <1>4, Counts
    <2>4. reserved[l] = others[l]
      BY <1>3, <2>3
    <2> QED
      BY <1>1, <1>4, <2>2, <2>4 DEF Released, stockVars
  <1>5. ASSUME NEW c \in ActiveRows(l),
               reserved' = [reserved EXCEPT ![l] = @ - 1],
               reservation' = [reservation EXCEPT ![c] = "released"],
               UNCHANGED <<onHand, others>>
        PROVE  Released(l)
    <2>1. ActiveRows(l) = {c} /\ c \in Commands
      BY <1>3, OneActiveRow, CommandShape DEF ActiveRows
    <2>2. reservation' = [d \in Commands |-> IF d.line = l /\ reservation[d] = "active"
                                             THEN "released" ELSE reservation[d]]
      BY <1>1, <1>2, <1>5, <2>1
    <2>3. Cardinality(ActiveRows(l)) = 1 /\ others[l] \in Nat
      BY <1>1, <2>1, Counts
    <2>4. reserved[l] = others[l] + 1
      BY <1>3, <2>3
    <2>5. /\ reserved' \in [Lines -> Nat] /\ reserved'[l] = others[l]
          /\ \A m \in Lines \ {l} : reserved'[m] = reserved[m]
      BY <1>1, <1>5, <2>3, <2>4
    <2> QED
      BY <1>5, <2>2, <2>5 DEF Released
  <1> QED
    BY <1>4, <1>5 DEF releaseReservation

LEMMA ReleasedRows ==
    ASSUME IndInv, NEW l \in Lines, Released(l),
           \A c \in Commands :
               /\ (command'[c] = "succeeded") <=> (command[c] = "succeeded")
               /\ c.line # l => command'[c] = command[c]
               /\ command[c] \in {"none", "failed"} => command'[c] = command[c]
               /\ command'[c] = "none" => command[c] = "none"
    PROVE  /\ RowsInv' /\ CompensationInv' /\ StockFollowsCommands'
           /\ reservation' \in [Commands -> {"none", "active", "confirmed", "released"}]
  <1>1. reservation \in [Commands -> {"none", "active", "confirmed", "released"}]
        /\ reserved \in [Lines -> Nat] /\ others \in [Lines -> Nat] /\ onHand \in [Lines -> Nat]
    BY DEF IndInv, TypeOK
  <1>2. RowsInv' /\ CompensationInv'
    BY <1>1, CommandShape DEF IndInv, RowsInv, CompensationInv, Released
  <1>3. ASSUME NEW m \in Lines
        PROVE  /\ Having(m, "succeeded")' = Having(m, "succeeded")
               /\ m # l => ActiveRows(m)' = ActiveRows(m)
               /\ ActiveRows(l)' = {}
    BY CommandShape DEF Having, ActiveRows, Released
  <1>4. ASSUME NEW m \in Lines
        PROVE  /\ reserved'[m] = Cardinality(ActiveRows(m)') + others'[m]
               /\ reserved'[m] <= onHand'[m]
    <2>1. /\ reserved[m] = Cardinality(ActiveRows(m)) + others[m]
          /\ reserved[m] <= onHand[m]
      BY DEF IndInv, StockFollowsCommands
    <2>2. CASE m # l
      BY <1>3, <2>1, <2>2 DEF Released
    <2>3. CASE m = l
      <3>1. Cardinality(ActiveRows(l)') = 0
        BY <1>3, Counts
      <3>2. others[l] <= reserved[l]
        BY <1>1, <2>1, <2>3, CountRows DEF IndInv
      <3> QED
        BY <1>1, <2>1, <2>3, <3>1, <3>2 DEF Released
    <2> QED
      BY <2>2, <2>3
  <1>5. StockFollowsCommands'
    BY <1>3, <1>4 DEF IndInv, StockFollowsCommands, Released
  <1> QED
    BY <1>1, <1>2, <1>5 DEF Released

LEMMA ExpiredInd ==
    ASSUME IndInv, NEW l \in Lines, releaseExpiredInventoryReservations(l)
    PROVE  IndInv'
  <1>1. UNCHANGED <<order, command, movement, recoverVars, procVars, published, machine>>
    BY DEF releaseExpiredInventoryReservations
  <1>2. Released(l)
    BY ReleaseReleases DEF releaseExpiredInventoryReservations
  <1>3. /\ RowsInv' /\ CompensationInv' /\ StockFollowsCommands'
        /\ reservation' \in [Commands -> {"none", "active", "confirmed", "released"}]
    BY <1>1, <1>2, ReleasedRows
  <1>4. TypeOK'
    BY <1>1, <1>2, <1>3 DEF IndInv, TypeOK, Released, recoverVars, procVars
  <1>5. LineIsCoherent'
    <2>1. \A m \in Lines, s \in {"succeeded", "failed"} : Having(m, s)' = Having(m, s)
      BY <1>1 DEF Having
    <2>2. \A c \in Commands : (reservation'[c] = "confirmed") <=> (reservation[c] = "confirmed")
      BY <1>2 DEF Released
    <2>3. LineIsCoherent /\ order' = order /\ movement' = movement
      BY <1>1 DEF IndInv
    <2>4. ASSUME NEW m \in Lines
          PROVE  (\A c \in CommandsOf(m) : reservation'[c] # "confirmed")
                     <=> (\A c \in CommandsOf(m) : reservation[c] # "confirmed")
      BY <2>2, CommandShape
    <2> QED
      BY <2>1, <2>3, <2>4 DEF LineIsCoherent
  <1>6. RecoveryInv'
    BY <1>1, RecoverySame DEF IndInv, recoverVars
  <1>7. UnattendedInv'
    BY <1>1, UnattendedSame DEF IndInv, recoverVars, procVars
  <1>8. OutcomeIsMachines'
    BY <1>1, OutcomesSame, CommandsStay DEF IndInv
  <1>9. MoneyInv'
    BY <1>1, MoneySame, OrderSame DEF IndInv
  <1> QED
    BY <1>3, <1>4, <1>5, <1>6, <1>7, <1>8, <1>9 DEF IndInv

LEMMA ReserveInd ==
    ASSUME IndInv, NEW l \in Lines, reserveForOrder(l)
    PROVE  IndInv'
  <1>1. UNCHANGED <<order, command, reservation, onHand, movement, recoverVars, procVars,
                    published, machine>>
    BY DEF reserveForOrder
  <1>2. TypeOK'
    BY <1>1 DEF IndInv, TypeOK, reserveForOrder, recoverVars, procVars
  <1>3. RowsInv' /\ CompensationInv'
    BY <1>1, RowsSame, CommandsStay DEF IndInv
  <1>4. StockFollowsCommands'
    <2>1. \A m \in Lines : /\ ActiveRows(m)' = ActiveRows(m)
                           /\ Having(m, "succeeded")' = Having(m, "succeeded")
      BY <1>1 DEF ActiveRows, Having
    <2>2. ASSUME NEW m \in Lines
          PROVE  Cardinality(ActiveRows(m)) \in Nat
      BY CountRows DEF IndInv
    <2> QED
      BY <1>1, <2>1, <2>2 DEF IndInv, TypeOK, StockFollowsCommands, reserveForOrder
  <1>5. LineIsCoherent'
    BY <1>1, LinesSame, CommandsStay DEF IndInv
  <1>6. RecoveryInv'
    BY <1>1, RecoverySame DEF IndInv, recoverVars
  <1>7. UnattendedInv'
    BY <1>1, UnattendedSame DEF IndInv, recoverVars, procVars
  <1>8. OutcomeIsMachines'
    BY <1>1, OutcomesSame, CommandsStay DEF IndInv
  <1>9. MoneyInv'
    BY <1>1, MoneySame, OrderSame DEF IndInv
  <1> QED
    BY <1>2, <1>3, <1>4, <1>5, <1>6, <1>7, <1>8, <1>9 DEF IndInv

-----------------------------------------------------------------------------
(* A command fails.                                                         *)

(* Without operators the line of a command that may still end is open.      *)
LEMMA OpenLine ==
    ASSUME IndInv, OperatorActs = {}, NEW c \in Commands, command[c] \in Claimable
    PROVE  order.line[c.line] = "pending"
  <1> DEFINE l == c.line
  <1>1. l \in Lines /\ c \in CommandsOf(l)
    BY CommandShape
  <1>2. command[Compensation(l)] = "none"
    BY <1>1, ActionNames DEF IndInv, RecoveryInv, UnattendedInv
  <1>3. c = Dispatch(l)
    BY <1>1, <1>2 DEF CommandsOf, Claimable
  <1>4. Having(l, "failed") = {} /\ Having(l, "succeeded") = {}
    BY <1>2, <1>3 DEF Having, CommandsOf, Claimable
  <1>5. order.line[l] \in LineStatuses
    BY <1>1 DEF IndInv, TypeOK, Books
  <1> QED
    BY <1>1, <1>4, <1>5 DEF IndInv, LineIsCoherent, LineStatuses

LEMMA FailedCommandRows ==
    ASSUME IndInv, NEW c \in Commands, command[c] \in Claimable, NEW stage \in BOOLEAN,
           FailCommand(c, stage), UNCHANGED movement
    PROVE  /\ command' = [command EXCEPT ![c] = "failed"]
           /\ UNCHANGED <<onHand, others>> /\ reserved' \in [Lines -> Nat]
           /\ reservation' \in [Commands -> {"none", "active", "confirmed", "released"}]
           /\ order' \in Books
           /\ RowsInv' /\ CompensationInv' /\ StockFollowsCommands' /\ LineIsCoherent'
  <1> DEFINE l == c.line
  <1>1. l \in Lines /\ c \in CommandsOf(l) /\ command \in [Commands -> CommandStatuses \union {"none"}]
        /\ order \in Books
    BY CommandShape DEF IndInv, TypeOK
  <1>2. command' = [command EXCEPT ![c] = "failed"] /\ Released(l)
    BY <1>1, ReleaseReleases DEF FailCommand
  <1>3. \A d \in Commands :
           /\ (command'[d] = "succeeded") <=> (command[d] = "succeeded")
           /\ d.line # l => command'[d] = command[d]
           /\ command[d] \in {"none", "failed"} => command'[d] = command[d]
           /\ command'[d] = "none" => command[d] = "none"
    BY <1>1, <1>2, NoneAndEndsAreFinal
  <1>4. /\ RowsInv' /\ CompensationInv' /\ StockFollowsCommands'
        /\ reservation' \in [Commands -> {"none", "active", "confirmed", "released"}]
    BY <1>1, <1>2, <1>3, ReleasedRows
  <1>5. order' \in Books /\ order'.line = [order.line EXCEPT ![l] = "dispense_failed"]
    BY <1>1, FailedRows DEF FailCommand, Fresh
  <1>6. LineIsCoherent'
    <2>1. Having(l, "succeeded") = {}
      <3>1. ASSUME NEW d \in Having(l, "succeeded") PROVE FALSE
        BY <1>1, <3>1, OneOpen, NoneAndEndsAreFinal DEF IndInv, Having
      <3> QED
        BY <3>1
    <2>2. \A m \in Lines : Having(m, "succeeded")' = Having(m, "succeeded")
      BY <1>3, CommandShape DEF Having
    <2>3. \A m \in Lines : m # l => Having(m, "failed")' = Having(m, "failed")
      BY <1>3, CommandShape DEF Having
    <2>4. c \in Having(l, "failed")'
      BY <1>1, <1>2 DEF Having
    <2>5. \A d \in Commands : (reservation'[d] = "confirmed") <=> (reservation[d] = "confirmed")
      BY <1>2 DEF Released
    <2>6. order.line \in [Lines -> LineStatuses]
      BY <1>1 DEF Books
    <2>7. ASSUME NEW m \in Lines
          PROVE  /\ (order'.line[m] = "dispensed") <=> (Having(m, "succeeded")' # {})
                 /\ (order'.line[m] = "dispense_failed") => (Having(m, "failed")' # {})
      BY <1>1, <1>5, <2>1, <2>2, <2>3, <2>4, <2>6 DEF IndInv, LineIsCoherent
    <2>8. ASSUME NEW m \in Lines
          PROVE  (Having(m, "succeeded")' = {}) <=>
                     (\A d \in CommandsOf(m) : reservation'[d] # "confirmed")
      <3>1. (Having(m, "succeeded") = {}) <=> (\A d \in CommandsOf(m) : reservation[d] # "confirmed")
        BY DEF IndInv, LineIsCoherent
      <3> QED
        BY <2>2, <2>5, <3>1, CommandShape
    <2>9. ASSUME NEW m \in Lines, NEW d \in CommandsOf(m)
          PROVE  (d \in Having(m, "succeeded")') <=>
                     (\E s \in Sources : movement'[<<d, s>>] = "accepted")
      <3>1. (d \in Having(m, "succeeded")) <=> (\E s \in Sources : movement[<<d, s>>] = "accepted")
        BY DEF IndInv, LineIsCoherent
      <3>2. Having(m, "succeeded")' = Having(m, "succeeded") /\ movement' = movement
        BY <2>2
      <3> QED
        BY <3>1, <3>2
    <2> QED
      BY <2>7, <2>8, <2>9 DEF LineIsCoherent
  <1>7. UNCHANGED <<onHand, others>> /\ reserved' \in [Lines -> Nat]
    BY <1>2 DEF Released
  <1> QED
    BY <1>2, <1>4, <1>5, <1>6, <1>7

LEMMA FailureInd ==
    ASSUME IndInv, NEW c \in Commands, FailureResult(c)
    PROVE  IndInv'
  <1>1. /\ UNCHANGED <<movement, recoverVars, procVars, published, machine>>
        /\ command[c] \in Claimable /\ FailCommand(c, TRUE) /\ machine[c] = "failure"
    BY DEF FailureResult
  <1>2. /\ command' = [command EXCEPT ![c] = "failed"]
        /\ UNCHANGED <<onHand, others>> /\ reserved' \in [Lines -> Nat]
        /\ reservation' \in [Commands -> {"none", "active", "confirmed", "released"}]
        /\ order' \in Books
        /\ RowsInv' /\ CompensationInv' /\ StockFollowsCommands' /\ LineIsCoherent'
    BY <1>1, FailedCommandRows
  <1>3. TypeOK'
    BY <1>1, <1>2 DEF IndInv, TypeOK, recoverVars, procVars, CommandStatuses
  <1>4. \A d \in Commands : command[d] \in {"none", "failed"} => command'[d] = command[d]
    BY <1>1, <1>2, NoneAndEndsAreFinal DEF IndInv, TypeOK
  <1>5. RecoveryInv'
    BY <1>1, <1>4, RecoverySame DEF IndInv, recoverVars
  <1>6. UnattendedInv'
    BY <1>1, UnattendedSame DEF IndInv, recoverVars, procVars
  <1>7. OutcomeIsMachines'
    BY <1>1, <1>2 DEF IndInv, TypeOK, OutcomeIsMachines
  <1>8. MoneyInv'
    <2> SUFFICES ASSUME OperatorActs = {} PROVE MoneyIsRight(order')
      BY DEF MoneyInv
    <2>1. order.line[c.line] = "pending" /\ order \in Books /\ MoneyIsRight(order)
          /\ c.line \in Lines
      BY <1>1, OpenLine, CommandShape DEF IndInv, TypeOK, MoneyInv
    <2>2. PICK r \in Refunds : order' = stageFailedLineRefund(markOrderLineFailed(order, c.line), r)
      BY <1>1 DEF FailCommand, Fresh
    <2> QED
      BY <2>1, <2>2, FailedIsRight
  <1> QED
    BY <1>2, <1>3, <1>5, <1>6, <1>7, <1>8 DEF IndInv

(* The operator decides: what is promised of the service left to itself     *)
(* does not apply.                                                          *)
LEMMA ResolveFailedInd ==
    ASSUME IndInv, NEW c \in Commands, NEW stage \in BOOLEAN,
           resolveCommandAsNotDispensed(c, stage)
    PROVE  IndInv'
  <1>1. /\ UNCHANGED <<movement, recoverVars, procVars, published, machine>>
        /\ command[c] \in Claimable /\ FailCommand(c, stage) /\ OperatorActs # {}
    BY DEF resolveCommandAsNotDispensed, ResolvableAsFailed, Claimable
  <1>2. /\ command' = [command EXCEPT ![c] = "failed"]
        /\ UNCHANGED <<onHand, others>> /\ reserved' \in [Lines -> Nat]
        /\ reservation' \in [Commands -> {"none", "active", "confirmed", "released"}]
        /\ order' \in Books
        /\ RowsInv' /\ CompensationInv' /\ StockFollowsCommands' /\ LineIsCoherent'
    BY <1>1, FailedCommandRows
  <1>3. TypeOK'
    BY <1>1, <1>2 DEF IndInv, TypeOK, recoverVars, procVars, CommandStatuses
  <1>4. \A d \in Commands : command[d] \in {"none", "failed"} => command'[d] = command[d]
    BY <1>1, <1>2, NoneAndEndsAreFinal DEF IndInv, TypeOK
  <1>5. RecoveryInv'
    BY <1>1, <1>4, RecoverySame DEF IndInv, recoverVars
  <1>6. UnattendedInv' /\ OutcomeIsMachines' /\ MoneyInv'
    BY <1>1 DEF UnattendedInv, OutcomeIsMachines, MoneyInv
  <1> QED
    BY <1>2, <1>3, <1>5, <1>6 DEF IndInv

LEMMA ConfirmNotDispensedInd ==
    ASSUME IndInv, NEW c \in Commands, confirmNotDispensed(c)
    PROVE  IndInv'
  <1>1. /\ UNCHANGED <<movement, procVars, published, machine>>
        /\ acting[CND] = "started" /\ c \in about[CND]
    BY DEF confirmNotDispensed, CND
  <1>2. OperatorActs # {}
    BY <1>1, ActionNames DEF IndInv, UnattendedInv
  <1>3. UnattendedInv' /\ OutcomeIsMachines' /\ MoneyInv'
    BY <1>2 DEF UnattendedInv, OutcomeIsMachines, MoneyInv
  <1>4. CASE command[c] \in ResolvableAsFailed
    <2>1. command[c] \in Claimable /\ FailCommand(c, FALSE) /\ Answer(CND, "done")
      BY <1>4 DEF confirmNotDispensed, CND, ResolvableAsFailed, Claimable
    <2>2. /\ command' = [command EXCEPT ![c] = "failed"]
          /\ UNCHANGED <<onHand, others>> /\ reserved' \in [Lines -> Nat]
          /\ reservation' \in [Commands -> {"none", "active", "confirmed", "released"}]
          /\ order' \in Books
          /\ RowsInv' /\ CompensationInv' /\ StockFollowsCommands' /\ LineIsCoherent'
      BY <1>1, <2>1, FailedCommandRows
    <2>3. TypeOK'
      BY <1>1, <2>1, <2>2, ActionNames DEF IndInv, TypeOK, Answer, procVars, CommandStatuses
    <2>4. \A d \in Commands : command[d] \in {"none", "failed"} => command'[d] = command[d]
      BY <2>1, <2>2, NoneAndEndsAreFinal DEF IndInv, TypeOK
    <2>5. \A d \in about[CND] : command'[d] = "failed"
      <3>1. \A d \in about[CND] : d = c
        BY <1>1 DEF IndInv, RecoveryInv
      <3> QED
        BY <2>2, <3>1 DEF IndInv, TypeOK
    <2>6. RecoveryInv'
      BY <1>1, <2>1, <2>4, <2>5, ActionNames, RecoveryGoesOn DEF IndInv, GoesOn, Answer
    <2> QED
      BY <1>3, <2>2, <2>3, <2>6 DEF IndInv
  <1>5. CASE command[c] \notin ResolvableAsFailed
    <2>1. /\ UNCHANGED <<order, command, stockVars>>
          /\ (command[c] = "failed" /\ Answer(CND, "done")) \/ Answer(CND, "refused")
      BY <1>5 DEF confirmNotDispensed, CND
    <2>2. TypeOK'
      BY <1>1, <2>1, ActionNames DEF IndInv, TypeOK, Answer, stockVars, procVars
    <2>3. /\ RowsInv' /\ CompensationInv' /\ StockFollowsCommands' /\ LineIsCoherent'
      BY <1>1, <2>1, QuietRows, CommandsStay, OrderSame DEF IndInv
    <2>4. GoesOn(CND)
      <3>1. \A d \in about[CND] : d = c
        BY <1>1 DEF IndInv, RecoveryInv
      <3> QED
        BY <2>1, <3>1 DEF GoesOn, Answer
    <2> QED
      BY <1>1, <1>3, <2>1, <2>2, <2>3, <2>4, ActionNames, RecoveryGoesOn DEF IndInv
  <1> QED
    BY <1>4, <1>5

-----------------------------------------------------------------------------
(* A compensation is created.                                               *)

LEMMA CompensationInd ==
    ASSUME IndInv, NEW l \in Lines, createCompensationDispenseCommand(l)
    PROVE  IndInv'
  <1> DEFINE c == Compensation(l)
  <1>1. /\ acting[CDC] = "started" /\ Dispatch(l) \in about[CDC]
        /\ UNCHANGED <<order, onHand, others, movement, procVars, published, machine>>
    BY DEF createCompensationDispenseCommand, CDC
  <1>2. /\ c \in Commands /\ c \in CommandsOf(l) /\ command[c] = "none"
        /\ reservation[c] = "none" /\ command[Dispatch(l)] = "failed" /\ Dispatch(l) # c
        /\ \A m \in Lines : Dispatch(m) # c
    BY <1>1, CommandShape DEF IndInv, RecoveryInv, RowsInv, CommandsOf
  <1>3. OperatorActs # {}
    BY <1>1, ActionNames DEF IndInv, UnattendedInv
  <1>4. UnattendedInv' /\ OutcomeIsMachines' /\ MoneyInv'
    BY <1>3 DEF UnattendedInv, OutcomeIsMachines, MoneyInv
  <1>5. GoesOn(CDC)
    BY <1>1, ActionNames DEF createCompensationDispenseCommand, Answer, GoesOn, CDC
  <1>6. CASE onHand[l] - reserved[l] >= 1
    <2>1. /\ command' = [command EXCEPT ![c] = "pending"]
          /\ reservation' = [reservation EXCEPT ![c] = "active"]
          /\ reserved' = [reserved EXCEPT ![l] = @ + 1]
          /\ acting' = [acting EXCEPT ![CDC] = "done"] /\ UNCHANGED <<action, about>>
      BY <1>6 DEF createCompensationDispenseCommand, Answer, CDC
    <2>2. TypeOK'
      BY <1>1, <1>2, <2>1, ActionNames DEF IndInv, TypeOK, procVars, CommandStatuses
    <2>3. RowsInv' /\ CompensationInv'
      <3>1. \A d \in Commands : d # c => /\ command'[d] = command[d]
                                         /\ reservation'[d] = reservation[d]
        BY <2>1 DEF IndInv, TypeOK
      <3>2. command'[c] = "pending" /\ reservation'[c] = "active"
        BY <1>2, <2>1 DEF IndInv, TypeOK
      <3>3. RowsInv'
        BY <1>2, <3>1, <3>2, CommandShape DEF IndInv, RowsInv, Claimable
      <3>4. \A m \in Lines : m # l => Compensation(m) # c
        BY DEF Compensation
      <3>5. CompensationInv'
        BY <1>2, <3>1, <3>2, <3>4, CommandShape DEF IndInv, CompensationInv
      <3> QED
        BY <3>3, <3>5
    <2>4. /\ ActiveRows(l) = {} /\ ActiveRows(l)' = {c}
          /\ \A m \in Lines : m # l => ActiveRows(m)' = ActiveRows(m)
      <3>1. reservation[Dispatch(l)] # "active"
        BY <1>2, CommandShape, NoneAndEndsAreFinal DEF IndInv, RowsInv
      <3>2. ActiveRows(l) = {} /\ ActiveRows(l)' = {c}
        BY <1>2, <2>1, <3>1, CommandShape DEF IndInv, TypeOK, ActiveRows, CommandsOf
      <3>3. ASSUME NEW m \in Lines, m # l PROVE ActiveRows(m)' = ActiveRows(m)
        <4>1. \A d \in CommandsOf(m) : d # c /\ d \in Commands
          BY <1>2, <3>3, CommandShape
        <4> QED
          BY <2>1, <4>1 DEF IndInv, TypeOK, ActiveRows
      <3> QED
        BY <3>2, <3>3
    <2>5. ASSUME NEW m \in Lines
          PROVE  /\ Having(m, "succeeded")' = Having(m, "succeeded")
                 /\ Having(m, "failed")' = Having(m, "failed")
      BY <1>2, <2>1, CommandShape DEF IndInv, TypeOK, Having
    <2>6. StockFollowsCommands'
      <3>1. ASSUME NEW m \in Lines
            PROVE  /\ reserved'[m] = Cardinality(ActiveRows(m)') + others'[m]
                   /\ reserved'[m] <= onHand'[m]
        <4>1. /\ reserved[m] = Cardinality(ActiveRows(m)) + others[m]
              /\ reserved[m] <= onHand[m]
              /\ reserved \in [Lines -> Nat] /\ onHand \in [Lines -> Nat] /\ others \in [Lines -> Nat]
          BY DEF IndInv, StockFollowsCommands, TypeOK
        <4>2. CASE m # l
          BY <1>1, <2>1, <2>4, <4>1, <4>2
        <4>3. CASE m = l
          <5>1. Cardinality(ActiveRows(l)) = 0 /\ Cardinality(ActiveRows(l)') = 1
            BY <2>4, Counts
          <5>2. reserved[l] = others[l] /\ reserved'[l] = reserved[l] + 1 /\ others'[l] = others[l]
            BY <1>1, <2>1, <4>1, <4>3, <5>1
          <5> QED
            BY <1>1, <1>6, <4>1, <4>3, <5>1, <5>2
        <4> QED
          BY <4>2, <4>3
      <3> QED
        BY <1>1, <2>5, <3>1 DEF IndInv, StockFollowsCommands
    <2>7. LineIsCoherent'
      <3>1. \A d \in Commands : (reservation'[d] = "confirmed") <=> (reservation[d] = "confirmed")
        BY <1>2, <2>1 DEF IndInv, TypeOK
      <3>2. ASSUME NEW m \in Lines
            PROVE  (Having(m, "succeeded")' = {}) <=>
                       (\A d \in CommandsOf(m) : reservation'[d] # "confirmed")
        BY <2>5, <3>1, CommandShape DEF IndInv, LineIsCoherent
      <3>3. ASSUME NEW m \in Lines
            PROVE  /\ (order'.line[m] = "dispensed") <=> (Having(m, "succeeded")' # {})
                   /\ (order'.line[m] = "dispense_failed") => (Having(m, "failed")' # {})
        BY <1>1, <2>5 DEF IndInv, LineIsCoherent
      <3>4. ASSUME NEW m \in Lines, NEW d \in CommandsOf(m)
            PROVE  (d \in Having(m, "succeeded")') <=>
                       (\E s \in Sources : movement'[<<d, s>>] = "accepted")
        <4>1. (d \in Having(m, "succeeded")) <=> (\E s \in Sources : movement[<<d, s>>] = "accepted")
          BY DEF IndInv, LineIsCoherent
        <4>2. Having(m, "succeeded")' = Having(m, "succeeded") /\ movement' = movement
          BY <1>1, <2>5
        <4> HIDE DEF c
        <4> QED
          BY <4>1, <4>2
      <3> QED
        BY <3>2, <3>3, <3>4 DEF LineIsCoherent
    <2>8. RecoveryInv'
      <3>1. \A d \in about[CND] \union about[CDC] : d \in Commands /\ (command[d] = "failed" => d # c)
        BY <1>2, ActionNames DEF IndInv, TypeOK
      <3> QED
        BY <1>1, <2>1, <3>1, ActionNames DEF IndInv, TypeOK, RecoveryInv
    <2> QED
      BY <1>4, <2>2, <2>3, <2>6, <2>7, <2>8 DEF IndInv
  <1>7. CASE ~(onHand[l] - reserved[l] >= 1)
    <2>1. UNCHANGED <<command, reservation, reserved>> /\ Answer(CDC, "refused")
      BY <1>7 DEF createCompensationDispenseCommand, CDC
    <2>2. UNCHANGED stockVars
      BY <1>1, <2>1 DEF stockVars
    <2>3. TypeOK'
      BY <1>1, <2>1, ActionNames DEF IndInv, TypeOK, Answer, procVars
    <2>4. /\ RowsInv' /\ CompensationInv' /\ StockFollowsCommands' /\ LineIsCoherent'
      BY <1>1, <2>1, <2>2, QuietRows, CommandsStay, OrderSame DEF IndInv
    <2> QED
      BY <1>1, <1>4, <1>5, <2>1, <2>3, <2>4, ActionNames, RecoveryGoesOn DEF IndInv
  <1> QED
    BY <1>6, <1>7

-----------------------------------------------------------------------------
(* Refunds.                                                                 *)

(* The operator's refund leaves the lines and the commands as they are.     *)
LEMMA RefundRows ==
    ASSUME IndInv, order' \in Books, order'.line = order.line,
           UNCHANGED <<command, stockVars, movement>>
    PROVE  RowsInv' /\ CompensationInv' /\ StockFollowsCommands' /\ LineIsCoherent'
  BY CommandsStay, RowsSame, StockSame, LinesSame DEF IndInv, stockVars

LEMMA AdminRefundRows ==
    ASSUME IndInv, AdminRefund
    PROVE  order' \in Books /\ order'.line = order.line
  BY RequestRows DEF IndInv, TypeOK, AdminRefund, Fresh

LEMMA RequestInd ==
    ASSUME IndInv, requestRefund
    PROVE  IndInv'
  <1> DEFINE a == "request_refund"
  <1>1. /\ acting[a] = "started" /\ a \in RecoveryActions /\ a # CND
        /\ UNCHANGED <<command, stockVars, movement, procVars, published, machine>>
    BY DEF requestRefund, RecoveryActions, Remedies, CND
  <1>2. order' \in Books /\ order'.line = order.line
    BY AdminRefundRows DEF requestRefund, IndInv, TypeOK
  <1>3. GoesOn(a)
    BY <1>1 DEF requestRefund, Answer, GoesOn
  <1>4. OperatorActs # {}
    BY <1>1 DEF IndInv, UnattendedInv
  <1>5. UnattendedInv' /\ OutcomeIsMachines' /\ MoneyInv'
    BY <1>4 DEF UnattendedInv, OutcomeIsMachines, MoneyInv
  <1>6. TypeOK'
    BY <1>1, <1>2, <1>3 DEF IndInv, TypeOK, GoesOn, stockVars, procVars
  <1>7. RecoveryInv'
    BY <1>1, <1>3, RecoveryGoesOn DEF IndInv
  <1> QED
    BY <1>1, <1>2, <1>5, <1>6, <1>7, RefundRows DEF IndInv

LEMMA MockRefundInd ==
    ASSUME IndInv, requestMockRefund
    PROVE  IndInv'
  <1>1. /\ UNCHANGED <<command, stockVars, movement, recoverVars, procVars, published, machine>>
        /\ OperatorActs # {}
    BY DEF requestMockRefund
  <1>2. order' \in Books /\ order'.line = order.line
    BY AdminRefundRows DEF requestMockRefund
  <1>3. UnattendedInv' /\ OutcomeIsMachines' /\ MoneyInv'
    BY <1>1 DEF UnattendedInv, OutcomeIsMachines, MoneyInv
  <1>4. TypeOK'
    BY <1>1, <1>2 DEF IndInv, TypeOK, stockVars, recoverVars, procVars
  <1>5. RecoveryInv'
    BY <1>1, RecoverySame DEF IndInv, recoverVars
  <1> QED
    BY <1>1, <1>2, <1>3, <1>4, <1>5, RefundRows DEF IndInv

LEMMA RefundEndsInd ==
    ASSUME IndInv, NEW r \in Refunds, NEW result \in {"succeeded", "failed"},
           RefundEnds(r, result)
    PROVE  IndInv'
  <1>1. /\ UNCHANGED <<command, stockVars, movement, recoverVars, procVars, published, machine>>
        /\ order.refund[r] \in OpenRefundStatuses
        /\ order' = applyRefundTerminalState(order, r, result, order.fulfillmentState)
        /\ order \in Books /\ order.fulfillmentState \in OrderFulfillmentStates
    BY DEF RefundEnds, IndInv, TypeOK, Books
  <1>2. PICK mark \in {"refunded", "failed"} :
            Marked(order, order', r, result, PaidLines(order, r), mark)
    BY <1>1, EndMarks
  <1>3. order' \in Books /\ order'.line = order.line
    BY <1>2 DEF Marked
  <1>4. MoneyInv'
    <2> SUFFICES ASSUME OperatorActs = {} PROVE MoneyIsRight(order')
      BY DEF MoneyInv
    <2>1. MoneyIsRight(order) /\ order.refund[r] # "none"
      BY <1>1 DEF IndInv, MoneyInv, OpenRefundStatuses
    <2> QED
      BY <1>1, <1>2, <2>1, EndIsRight
  <1>5. TypeOK'
    BY <1>1, <1>3 DEF IndInv, TypeOK, stockVars, recoverVars, procVars
  <1>6. RecoveryInv' /\ UnattendedInv' /\ OutcomeIsMachines'
    BY <1>1, RecoverySame, UnattendedSame, OutcomesSame, CommandsStay
       DEF IndInv, recoverVars, procVars
  <1> QED
    BY <1>1, <1>3, <1>4, <1>5, <1>6, RefundRows DEF IndInv

-----------------------------------------------------------------------------
(* A success is confirmed.                                                  *)

(* A recovery request resumes when its confirmation ends.                   *)
LEMMA ResumeKeeps ==
    ASSUME IndInv, NEW way \in Ways, NEW accepted, Resume(way, accepted),
           \A c \in Commands : command[c] \in {"none", "failed"} => command'[c] = command[c]
    PROVE  /\ UNCHANGED <<action, about>> /\ RecoveryInv'
           /\ acting' \in [RecoveryActions ->
                              {"idle", "started", "confirming", "done", "refused"}]
           /\ way # "recovery" => acting' = acting
  <1>1. "confirm_dispensed" \in RecoveryActions /\ "confirm_dispensed" \notin {CND, CDC}
    BY DEF RecoveryActions, Outcomes, CND, CDC
  <1>2. \A c \in about[CND] \union about[CDC] : c \in Commands
    BY ActionNames DEF IndInv, TypeOK
  <1>3. UNCHANGED <<action, about>> /\ acting'[CND] = acting[CND] /\ acting'[CDC] = acting[CDC]
    BY <1>1, ActionNames DEF IndInv, TypeOK, Resume
  <1>4. RecoveryInv'
    BY <1>2, <1>3, CommandShape DEF IndInv, RecoveryInv
  <1> QED
    BY <1>3, <1>4 DEF IndInv, TypeOK, Resume

(* Without operators only what the machine has told is confirmed.           *)
LEMMA UnattendedWay ==
    ASSUME IndInv, NEW c \in Commands, NEW way \in Ways, NEW step \in {"lookup", "confirm"},
           Confirmation(c, way, step) \in confirming, OperatorActs = {}
    PROVE  way = "mqtt" /\ machine[c] = "success"
  BY ConfirmationType DEF IndInv, UnattendedInv

LEMMA LookupInd ==
    ASSUME IndInv, NEW c \in Commands, NEW way \in Ways, receiveRawMovement(c, way)
    PROVE  IndInv'
  <1> DEFINE old == Confirmation(c, way, "lookup")
             new == Confirmation(c, way, "confirm")
             key == <<c, SourceOf(way)>>
  <1>1. /\ old \in confirming
        /\ confirming' \subseteq confirming \union {new}
        /\ movement' = movement
           \/ (movement[key] = "none" /\ movement' = [movement EXCEPT ![key] = "reconciliation"])
        /\ UNCHANGED recoverVars \/ \E accepted : Resume(way, accepted)
        /\ UNCHANGED <<order, command, stockVars, dispatching, published, machine>>
    BY DEF receiveRawMovement
  <1>2. /\ new \in Confirmations /\ new.command = c /\ new.way = way
        /\ key \in Commands \X Sources
    BY ConfirmationType DEF SourceOf, Sources
  <1>3. /\ UNCHANGED <<action, about>> /\ RecoveryInv'
        /\ acting' \in [RecoveryActions ->
                           {"idle", "started", "confirming", "done", "refused"}]
        /\ way # "recovery" => acting' = acting
    <2>1. CASE UNCHANGED recoverVars
      BY <1>1, <2>1, RecoverySame DEF IndInv, TypeOK, recoverVars
    <2>2. CASE \E accepted : Resume(way, accepted)
      BY <1>1, <2>2, ResumeKeeps
    <2>3. UNCHANGED recoverVars \/ \E accepted : Resume(way, accepted)
      BY <1>1
    <2> QED
      BY <2>1, <2>2, <2>3
  <1>4. TypeOK'
    <2>1. confirming' \subseteq Confirmations
      BY <1>1, <1>2 DEF IndInv, TypeOK
    <2>2. movement' \in [Commands \X Sources -> {"none", "accepted", "reconciliation"}]
      BY <1>1, <1>2 DEF IndInv, TypeOK
    <2>3. UNCHANGED <<order, command, stockVars, dispatching, published, machine>>
      BY <1>1
    <2> QED
      BY <1>3, <2>1, <2>2, <2>3 DEF IndInv, TypeOK, stockVars
  <1>5. RowsInv' /\ CompensationInv' /\ StockFollowsCommands' /\ MoneyInv'
    <2>1. RowsInv /\ CompensationInv /\ StockFollowsCommands /\ MoneyInv
      BY DEF IndInv
    <2>2. UNCHANGED <<order, command, stockVars>>
      BY <1>1
    <2>3. CommandsGoOn /\ Alike(order, order')
      BY <2>2, CommandsStay, OrderSame DEF IndInv
    <2> QED
      BY ONLY <2>1, <2>2, <2>3, RowsSame, StockSame, MoneySame DEF stockVars
  <1>6. LineIsCoherent'
    <2>1. \A m \in Commands \X Sources :
              (movement'[m] = "accepted") <=> (movement[m] = "accepted")
      <3>1. movement \in [Commands \X Sources -> {"none", "accepted", "reconciliation"}]
        BY DEF IndInv, TypeOK
      <3> HIDE DEF key
      <3> QED
        BY <1>1, <3>1
    <2>2. LineIsCoherent /\ UNCHANGED <<order, command, reservation>>
      BY <1>1 DEF IndInv, stockVars
    <2>3. CommandsGoOn /\ UNCHANGED reservation /\ order'.line = order.line
      BY ONLY <2>2, CommandsStay
    <2>4. LineIsCoherent
      BY <2>2
    <2> QED
      BY ONLY <2>1, <2>3, <2>4, LinesSame
  <1>7. UnattendedInv'
    <2> SUFFICES ASSUME OperatorActs = {}
                 PROVE  /\ \A a \in RecoveryActions : action'[a] = "none" /\ acting'[a] = "idle"
                        /\ \A x \in confirming' : x.way = "mqtt" /\ machine'[x.command] = "success"
      BY DEF UnattendedInv
    <2>1. way = "mqtt" /\ machine[c] = "success"
      BY <1>1, UnattendedWay
    <2> HIDE DEF old, new
    <2> QED
      BY <1>1, <1>2, <1>3, <2>1 DEF IndInv, UnattendedInv
  <1>8. OutcomeIsMachines'
    BY <1>1, OutcomesSame, CommandsStay DEF IndInv
  <1> QED
    BY <1>3, <1>4, <1>5, <1>6, <1>7, <1>8 DEF IndInv

(* The transaction takes the command's own reservation.                     *)
LEMMA OwnRow ==
    ASSUME IndInv, NEW c \in Commands, CanConfirm(c)
    PROVE  ActiveRows(c.line) = {c} /\ Having(c.line, "succeeded") = {}
  <1> DEFINE l == c.line
  <1>1. l \in Lines /\ c \in CommandsOf(l) /\ command[c] \notin {"none", "failed"}
        /\ command[c] # "succeeded"
    BY CommandShape, NoneAndEndsAreFinal DEF CanConfirm
  <1>2. PICK d \in ActiveRows(l) : TRUE
    BY DEF CanConfirm
  <1>3. d \in CommandsOf(l) /\ command[d] \notin {"none", "failed"}
    BY <1>1, CommandShape, NoneAndEndsAreFinal DEF ActiveRows, IndInv, RowsInv
  <1>4. c = d
    BY <1>1, <1>3, OneOpen DEF IndInv
  <1>5. ActiveRows(l) = {c}
    BY <1>1, <1>4, OneActiveRow DEF IndInv
  <1>6. ASSUME NEW e \in Having(l, "succeeded") PROVE FALSE
    <2>1. e \in CommandsOf(l) /\ command[e] = "succeeded"
      BY DEF Having
    <2> QED
      BY <1>1, <2>1, OneOpen DEF IndInv
  <1> QED
    BY <1>5, <1>6

(* What the confirming transaction changes.                                 *)
Confirms(c, key) ==
    /\ movement' = [movement EXCEPT ![key] = "accepted"]
    /\ command' = [command EXCEPT ![c] = "succeeded"]
    /\ onHand' = [onHand EXCEPT ![c.line] = @ - 1]
    /\ reserved' = [reserved EXCEPT ![c.line] = @ - 1]
    /\ reservation' = [reservation EXCEPT ![c] = "confirmed"]
    /\ order' \in Books /\ order'.line = [order.line EXCEPT ![c.line] = "dispensed"]
    /\ UNCHANGED others

LEMMA ConfirmedRows ==
    ASSUME IndInv, NEW c \in Commands, CanConfirm(c), NEW s \in Sources, Confirms(c, <<c, s>>)
    PROVE  /\ RowsInv' /\ CompensationInv' /\ StockFollowsCommands' /\ LineIsCoherent'
           /\ onHand' \in [Lines -> Nat] /\ reserved' \in [Lines -> Nat]
  <1> DEFINE l == c.line
             key == <<c, s>>
  <1>1. /\ l \in Lines /\ c \in CommandsOf(l) /\ \A m \in Lines : m # l => c \notin CommandsOf(m)
        /\ ActiveRows(l) = {c} /\ Having(l, "succeeded") = {}
        /\ onHand[l] >= 1 /\ reserved[l] >= 1 /\ command[c] \in Claimable
    BY CommandShape, OwnRow DEF CanConfirm
  <1>2. /\ reserved \in [Lines -> Nat] /\ onHand \in [Lines -> Nat] /\ others \in [Lines -> Nat]
        /\ command \in [Commands -> CommandStatuses \union {"none"}]
        /\ reservation \in [Commands -> {"none", "active", "confirmed", "released"}]
        /\ movement \in [Commands \X Sources -> {"none", "accepted", "reconciliation"}]
        /\ order.line \in [Lines -> LineStatuses]
    BY DEF IndInv, TypeOK, Books
  <1>3. /\ command'[c] = "succeeded" /\ reservation'[c] = "confirmed"
        /\ \A d \in Commands : d # c => /\ command'[d] = command[d]
                                        /\ reservation'[d] = reservation[d]
    BY <1>2 DEF Confirms
  <1>4. RowsInv' /\ CompensationInv'
    <2>1. RowsInv'
      BY <1>3, CommandShape DEF IndInv, RowsInv
    <2>2. CompensationInv'
      BY <1>1, <1>3, CommandShape, NoneAndEndsAreFinal DEF IndInv, CompensationInv
    <2> QED
      BY <2>1, <2>2
  <1>5. /\ ActiveRows(l)' = {} /\ Having(l, "succeeded")' = {c}
        /\ \A m \in Lines : m # l => /\ ActiveRows(m)' = ActiveRows(m)
                                     /\ Having(m, "succeeded")' = Having(m, "succeeded")
                                     /\ Having(m, "failed")' = Having(m, "failed")
    <2>1. \A d \in CommandsOf(l) : d # c => reservation[d] # "active" /\ command[d] # "succeeded"
      BY <1>1 DEF ActiveRows, Having
    <2>2. ActiveRows(l)' = {} /\ Having(l, "succeeded")' = {c}
      BY <1>1, <1>3, <2>1, CommandShape DEF ActiveRows, Having
    <2>3. ASSUME NEW m \in Lines, m # l
          PROVE  /\ ActiveRows(m)' = ActiveRows(m)
                 /\ Having(m, "succeeded")' = Having(m, "succeeded")
                 /\ Having(m, "failed")' = Having(m, "failed")
      <3>1. \A d \in CommandsOf(m) : d \in Commands /\ d # c
        BY <1>1, <2>3, CommandShape
      <3> QED
        BY <1>3, <3>1 DEF ActiveRows, Having
    <2> QED
      BY <2>2, <2>3
  <1>6. StockFollowsCommands'
    <2>1. ASSUME NEW m \in Lines
          PROVE  /\ reserved'[m] = Cardinality(ActiveRows(m)') + others'[m]
                 /\ onHand'[m] + Cardinality(Having(m, "succeeded")') = Stock
                 /\ reserved'[m] <= onHand'[m]
      <3>1. /\ reserved[m] = Cardinality(ActiveRows(m)) + others[m]
            /\ onHand[m] + Cardinality(Having(m, "succeeded")) = Stock
            /\ reserved[m] <= onHand[m]
        BY DEF IndInv, StockFollowsCommands
      <3>2. CASE m # l
        BY <1>2, <1>5, <3>1, <3>2 DEF Confirms
      <3>3. CASE m = l
        <4>1. /\ Cardinality(ActiveRows(l)) = 1 /\ Cardinality(ActiveRows(l)') = 0
              /\ Cardinality(Having(l, "succeeded")) = 0
              /\ Cardinality(Having(l, "succeeded")') = 1
          BY <1>1, <1>5, Counts
        <4>2. /\ reserved'[l] = reserved[l] - 1 /\ onHand'[l] = onHand[l] - 1
              /\ others'[l] = others[l]
              /\ reserved[l] \in Nat /\ onHand[l] \in Nat /\ others[l] \in Nat
          BY <1>1, <1>2 DEF Confirms
        <4>3. /\ reserved[l] = 1 + others[l] /\ onHand[l] + 0 = Stock /\ reserved[l] <= onHand[l]
          BY <3>1, <3>3, <4>1
        <4> HIDE DEF l
        <4>4. /\ reserved'[l] = 0 + others'[l] /\ onHand'[l] + 1 = Stock
              /\ reserved'[l] <= onHand'[l]
          BY <4>2, <4>3
        <4> QED
          BY <3>3, <4>1, <4>4
      <3> QED
        BY <3>2, <3>3
    <2> QED
      BY <2>1 DEF StockFollowsCommands
  <1>7. LineIsCoherent'
    <2>1. ASSUME NEW m \in Lines, m # l
          PROVE  /\ (order'.line[m] = "dispensed") <=> (Having(m, "succeeded")' # {})
                 /\ (order'.line[m] = "dispense_failed") => (Having(m, "failed")' # {})
      BY <1>2, <1>5, <2>1 DEF IndInv, LineIsCoherent, Confirms
    <2>2. ASSUME NEW m \in Lines, m # l
          PROVE  (Having(m, "succeeded")' = {}) <=>
                     (\A d \in CommandsOf(m) : reservation'[d] # "confirmed")
      <3>1. \A d \in CommandsOf(m) : d \in Commands /\ d # c
        BY <1>1, <2>2, CommandShape
      <3> QED
        BY <1>3, <1>5, <2>2, <3>1 DEF IndInv, LineIsCoherent
    <2>3. ASSUME NEW d \in Commands, NEW t \in Sources, d # c
          PROVE  movement'[<<d, t>>] = movement[<<d, t>>]
      BY <1>2, <2>3 DEF Confirms
    <2>4. ASSUME NEW m \in Lines, m # l, NEW d \in CommandsOf(m)
          PROVE  (d \in Having(m, "succeeded")') <=>
                     (\E t \in Sources : movement'[<<d, t>>] = "accepted")
      <3>1. d \in Commands /\ d # c
        BY <1>1, <2>4, CommandShape
      <3>2. (d \in Having(m, "succeeded")) <=> (\E t \in Sources : movement[<<d, t>>] = "accepted")
        BY <2>4 DEF IndInv, LineIsCoherent
      <3>3. \A t \in Sources : movement'[<<d, t>>] = movement[<<d, t>>]
        BY <2>3, <3>1
      <3> QED
        BY <1>5, <2>4, <3>2, <3>3
    <2>5. order'.line[l] = "dispensed" /\ movement'[key] = "accepted"
      BY <1>1, <1>2 DEF Confirms
    <2>6. ASSUME NEW d \in CommandsOf(l), NEW t \in Sources, d # c
          PROVE  movement'[<<d, t>>] # "accepted"
      BY <1>1, <2>3, <2>6, CommandShape DEF IndInv, LineIsCoherent
    <2> HIDE DEF l, key
    <2>7. /\ Having(l, "succeeded")' # {}
          /\ ~\A d \in CommandsOf(l) : reservation'[d] # "confirmed"
          /\ \A d \in CommandsOf(l), t \in Sources :
                 movement'[<<d, t>>] = "accepted" => d \in Having(l, "succeeded")'
          /\ \A d \in CommandsOf(l) : d \in Having(l, "succeeded")' =>
                 \E t \in Sources : movement'[<<d, t>>] = "accepted"
      BY <1>1, <1>3, <1>5, <2>5, <2>6 DEF key
    <2> QED
      BY <2>1, <2>2, <2>4, <2>5, <2>7 DEF LineIsCoherent
  <1> QED
    BY <1>1, <1>2, <1>4, <1>6, <1>7 DEF Confirms

LEMMA ConfirmInd ==
    ASSUME IndInv, NEW c \in Commands, NEW way \in Ways,
           confirmOrderBoundDispenseSucceeded(c, way)
    PROVE  IndInv'
  <1> DEFINE s == SourceOf(way)
             key == <<c, s>>
             old == Confirmation(c, way, "confirm")
  <1>1. /\ old \in confirming /\ confirming' = confirming \ {old}
        /\ UNCHANGED <<others, dispatching, published, machine>>
        /\ \E accepted : Resume(way, accepted)
    BY DEF confirmOrderBoundDispenseSucceeded
  <1>2. s \in Sources /\ c.line \in Lines
    BY CommandShape DEF SourceOf, Sources
  <1>3. \/ UNCHANGED <<movement, command, onHand, reserved, reservation, order>>
        \/ /\ CanConfirm(c) /\ Confirms(c, key)
           /\ \E r \in Refunds : order' = markOrderLineDispensed(order, c.line, r)
    <2>1. CASE movement[key] = "none" /\ CanConfirm(c)
      <3>1. /\ movement' = [movement EXCEPT ![key] = "accepted"]
            /\ command' = [command EXCEPT ![c] = "succeeded"]
            /\ onHand' = [onHand EXCEPT ![c.line] = @ - 1]
            /\ reserved' = [reserved EXCEPT ![c.line] = @ - 1]
            /\ reservation' = [k \in Commands |->
                 IF k \in ActiveRows(c.line) THEN "confirmed" ELSE reservation[k]]
            /\ \E r \in Refunds : order' = markOrderLineDispensed(order, c.line, r)
            /\ UNCHANGED others
        BY <2>1 DEF confirmOrderBoundDispenseSucceeded, Fresh
      <3>2. reservation' = [reservation EXCEPT ![c] = "confirmed"]
        <4>1. ActiveRows(c.line) = {c}
          BY <2>1, OwnRow
        <4> QED
          BY <3>1, <4>1 DEF IndInv, TypeOK
      <3>3. order' \in Books /\ order'.line = [order.line EXCEPT ![c.line] = "dispensed"]
        <4>1. PICK r \in Refunds : order' = markOrderLineDispensed(order, c.line, r)
          BY <3>1
        <4>2. order \in Books
          BY DEF IndInv, TypeOK
        <4> QED
          BY <1>2, <4>1, <4>2, DispensedRows
      <3> QED
        BY <2>1, <3>1, <3>2, <3>3 DEF Confirms
    <2>2. CASE ~(movement[key] = "none" /\ CanConfirm(c))
      BY <2>2 DEF confirmOrderBoundDispenseSucceeded
    <2> QED
      BY <2>1, <2>2
  <1> HIDE DEF s, old
  <1>4. \A d \in Commands : command[d] \in {"none", "failed"} => command'[d] = command[d]
    BY <1>3, NoneAndEndsAreFinal DEF IndInv, TypeOK, Confirms, CanConfirm
  <1>5. /\ UNCHANGED <<action, about>> /\ RecoveryInv'
        /\ acting' \in [RecoveryActions ->
                           {"idle", "started", "confirming", "done", "refused"}]
        /\ way # "recovery" => acting' = acting
    BY <1>1, <1>4, ResumeKeeps
  <1>6. OperatorActs = {} => way = "mqtt" /\ machine[c] = "success"
    BY <1>1, UnattendedWay DEF old
  <1>7. UnattendedInv'
    BY <1>1, <1>5, <1>6 DEF IndInv, UnattendedInv
  <1>8. CASE UNCHANGED <<movement, command, onHand, reserved, reservation, order>>
    <2>1. UNCHANGED stockVars
      BY <1>1, <1>8 DEF stockVars
    <2>2. TypeOK'
      BY <1>1, <1>5, <1>8 DEF IndInv, TypeOK
    <2>3. /\ RowsInv' /\ CompensationInv' /\ StockFollowsCommands' /\ LineIsCoherent'
          /\ MoneyInv'
      BY <1>8, <2>1, QuietRows, CommandsStay, OrderSame DEF IndInv
    <2>4. OutcomeIsMachines'
      BY <1>1, <1>8, OutcomesSame, CommandsStay DEF IndInv
    <2> QED
      BY <1>5, <1>7, <2>2, <2>3, <2>4 DEF IndInv
  <1>9. ASSUME CanConfirm(c), Confirms(c, key),
               NEW r \in Refunds, order' = markOrderLineDispensed(order, c.line, r)
        PROVE  IndInv'
    <2>1. /\ RowsInv' /\ CompensationInv' /\ StockFollowsCommands' /\ LineIsCoherent'
          /\ onHand' \in [Lines -> Nat] /\ reserved' \in [Lines -> Nat]
      BY <1>2, <1>9, ConfirmedRows
    <2>2. /\ movement' \in [Commands \X Sources -> {"none", "accepted", "reconciliation"}]
          /\ command' \in [Commands -> CommandStatuses \union {"none"}]
          /\ reservation' \in [Commands -> {"none", "active", "confirmed", "released"}]
          /\ order' \in Books
      BY <1>2, <1>9 DEF IndInv, TypeOK, Confirms, CommandStatuses
    <2>3. TypeOK'
      BY <1>1, <1>5, <2>1, <2>2 DEF IndInv, TypeOK
    <2>4. OutcomeIsMachines'
      BY <1>1, <1>6, <1>9 DEF IndInv, TypeOK, OutcomeIsMachines, Confirms
    <2>5. MoneyInv'
      <3> SUFFICES ASSUME OperatorActs = {} PROVE MoneyIsRight(order')
        BY DEF MoneyInv
      <3>1. order.line[c.line] = "pending" /\ order \in Books /\ MoneyIsRight(order)
        BY <1>9, OpenLine DEF IndInv, TypeOK, MoneyInv, CanConfirm
      <3> QED
        BY <1>2, <1>9, <3>1, DispensedIsRight
    <2> QED
      BY <1>5, <1>7, <2>1, <2>3, <2>4, <2>5 DEF IndInv
  <1> QED
    BY <1>3, <1>8, <1>9

-----------------------------------------------------------------------------
LEMMA NextInd ==
    ASSUME IndInv, [Next]_vars
    PROVE  IndInv'
  <1>1. ASSUME NEW c \in Commands, Outbox(c) PROVE IndInv'
    BY <1>1, DispatchInd, MachineInd DEF Outbox
  <1>2. ASSUME NEW c \in Commands, Results(c) PROVE IndInv'
    <2>1. CASE handleCommandAck(c)
      BY <2>1, DispatchInd
    <2>2. CASE handleDispenseResult(c)
      <3>1. CASE UnknownResult(c)
        BY <3>1, UnknownInd DEF UnknownResult, Claimable
      <3> QED
        BY <2>2, <3>1, SuccessInd, FailureInd DEF handleDispenseResult
    <2>3. CASE markTimedOutCommands(c)
      BY <2>3, UnknownInd DEF markTimedOutCommands, Claimable
    <2> QED
      BY <1>2, <2>1, <2>2, <2>3, LookupInd, ConfirmInd DEF Results
  <1>3. ASSUME Operator PROVE IndInv'
    <2>1. ASSUME NEW c \in Commands,
                 \/ resolveCommandAsDispensed(c)
                 \/ \E refund \in BOOLEAN : resolveCommandAsNotDispensed(c, refund)
                 \/ confirmDispensed(c) \/ confirmNotDispensed(c)
          PROVE  IndInv'
      BY <2>1, SuccessInd, ResolveFailedInd, ConfirmDispensedInd, ConfirmNotDispensedInd
    <2>2. ASSUME NEW a \in RecoveryActions,
                 \/ startRecoveryAction(a)
                 \/ completeRecoveryAction(a) \/ failRecoveryAction(a)
          PROVE  IndInv'
      BY <2>2, StartInd, CompleteInd
    <2> QED
      BY <1>3, <2>1, <2>2, CompensationInd, RequestInd, MockRefundInd DEF Operator
  <1>4. ASSUME NEW l \in Lines, StockStep(l) PROVE IndInv'
    BY <1>4, ExpiredInd, ReserveInd DEF StockStep
  <1>5. CASE UNCHANGED vars
    <2>1. UNCHANGED <<order, command, stockVars, movement, recoverVars, procVars, machine>>
      BY <1>5 DEF vars
    <2>2. TypeOK'
      BY <1>5 DEF IndInv, TypeOK, vars, stockVars, recoverVars, procVars
    <2> QED
      BY <2>1, <2>2, QuietStep, CommandsStay, OrderSame DEF IndInv, procVars
  <1> QED
    BY <1>1, <1>2, <1>3, <1>4, <1>5, RefundEndsInd, CrashInd DEF Next

(* Spec never leaves the inductive invariant.                               *)
THEOREM IndInvHolds == Spec => []IndInv
  <1>1. Init => IndInv
    BY InitInd
  <1>2. IndInv /\ [Next]_vars => IndInv'
    BY NextInd
  <1> QED
    BY <1>1, <1>2, PTL DEF Spec

-----------------------------------------------------------------------------
(* What follows.                                                            *)

(* The tables keep their types.                                             *)
THEOREM TypeCorrect == Spec => []TypeOK
  <1>1. IndInv => TypeOK
    BY DEF IndInv
  <1> QED
    BY <1>1, IndInvHolds, PTL

(* Whatever is repeated, late, swept or resolved by hand, the reserved      *)
(* quantity of a slot is that of its active reservations, each success has  *)
(* taken exactly one unit and no unit is promised twice                     *)
(* (releaseReservation, confirmOrderBoundDispenseSucceeded,                 *)
(* createCompensationDispenseCommand).                                      *)
THEOREM StockIsExact == Spec => []StockFollowsCommands
  <1>1. IndInv => StockFollowsCommands
    BY DEF IndInv
  <1> QED
    BY <1>1, IndInvHolds, PTL

(* A line never has two commands of which each may still give out a unit,   *)
(* or has: the compensation comes after the dispatch command has failed     *)
(* (startRecoveryAction, createCompensationDispenseCommand).                *)
THEOREM NeverTwoLiveCommands == Spec => []OneLiveCommand
  <1>1. IndInv => OneLiveCommand
    BY OneOpen DEF IndInv, OneLiveCommand
  <1> QED
    BY <1>1, IndInvHolds, PTL

(* Line, commands, reservations and movements tell the same story, however  *)
(* a success and a failure of the same command race                         *)
(* (confirmOrderBoundDispenseSucceeded, handleDispenseResult).              *)
THEOREM LinesAreCoherent == Spec => []LineIsCoherent
  <1>1. IndInv => LineIsCoherent
    BY DEF IndInv
  <1> QED
    BY <1>1, IndInvHolds, PTL

(* Without operators a command ends as the machine said it did, over lost,  *)
(* repeated and late messages, timeouts and crashes (handleDispenseResult,  *)
(* markTimedOutCommands).                                                   *)
THEOREM OutcomesAreTheMachines == Spec => []OutcomeIsMachines
  <1>1. IndInv => OutcomeIsMachines
    BY DEF IndInv
  <1> QED
    BY <1>1, IndInvHolds, PTL

(* Without operators nobody gets both the unit and its money: a refund that *)
(* covers a line is never there when the line has been dispensed            *)
(* (markOrderLinesFailedAndBuildRefundDecision, stageFailedLineRefund).     *)
THEOREM NeverUnitAndMoney == Spec => []UnitOrMoney
  <1>1. IndInv => UnitOrMoney
    <2> SUFFICES ASSUME IndInv, OperatorActs = {}, NEW l \in Lines, NEW r \in Refunds,
                        order.line[l] = "dispensed", order.refund[r] # "none", Covers(r, l)
                 PROVE  FALSE
      BY DEF UnitOrMoney
    <2>1. MoneyIsRight(order)
      BY DEF IndInv, MoneyInv
    <2>2. CASE order.reason[r] # PartialReason
      <3>1. LinesIn(order, "dispense_failed") = Lines
        BY <2>1, <2>2 DEF MoneyIsRight
      <3> QED
        BY <3>1 DEF LinesIn
    <2>3. CASE order.lineRefundId[l] = r
      <3>1. r # NoRefund
        OBVIOUS
      <3> QED
        BY <2>1, <2>3, <3>1 DEF MoneyIsRight
    <2> QED
      BY <2>2, <2>3 DEF Covers
  <1> QED
    BY <1>1, IndInvHolds, PTL

(* Without operators every failed line of an order whose lines have all     *)
(* ended is covered by a refund or left to an operator                      *)
(* (buildPendingFailedLinePartialRefundDecision, stageFailedLineRefund).    *)
THEOREM FailedLinesArePaid == Spec => []FailedIsRefunded
  <1>1. IndInv => FailedIsRefunded
    BY DEF IndInv, MoneyInv, MoneyIsRight, FailedIsRefunded, PaidBack, Covers
  <1> QED
    BY <1>1, IndInvHolds, PTL

-----------------------------------------------------------------------------
(* What has ended stays ended.                                              *)

(* The lines follow their commands.                                         *)
LEMMA KeptLines ==
    ASSUME IndInv, IndInv',
           \A c \in Commands : command[c] = "succeeded" => command'[c] = "succeeded",
           NEW l \in Lines, order.line[l] = "dispensed"
    PROVE  order'.line[l] = "dispensed"
  <1>1. PICK c \in Having(l, "succeeded") : TRUE
    BY DEF IndInv, LineIsCoherent
  <1>2. c \in Having(l, "succeeded")'
    BY <1>1, CommandShape DEF Having
  <1> QED
    BY <1>2 DEF IndInv, LineIsCoherent

LEMMA QuietKeeps ==
    ASSUME IndInv, IndInv', UNCHANGED <<reservation, movement>>,
           \A c \in Commands :
               command[c] \in {"succeeded", "failed"} => command'[c] = command[c]
    PROVE  KeepsEnds
  BY KeptLines DEF KeepsEnds

LEMMA FailKeeps ==
    ASSUME IndInv, IndInv', NEW c \in Commands, NEW stage \in BOOLEAN,
           command[c] \in Claimable, FailCommand(c, stage), UNCHANGED movement
    PROVE  KeepsEnds
  <1>1. command' = [command EXCEPT ![c] = "failed"] /\ Released(c.line)
    BY CommandShape, ReleaseReleases DEF FailCommand
  <1>2. \A d \in Commands :
            /\ command[d] \in {"succeeded", "failed"} => command'[d] = command[d]
            /\ reservation[d] \in {"confirmed", "released"} => reservation'[d] = reservation[d]
    BY <1>1, NoneAndEndsAreFinal DEF IndInv, TypeOK, Released
  <1> QED
    BY <1>2, KeptLines DEF KeepsEnds

LEMMA CompensationKeeps ==
    ASSUME IndInv, IndInv', NEW l \in Lines, createCompensationDispenseCommand(l)
    PROVE  KeepsEnds
  <1> DEFINE c == Compensation(l)
  <1>1. acting[CDC] = "started" /\ UNCHANGED movement
    BY DEF createCompensationDispenseCommand, CDC
  <1>2. c \in Commands /\ command[c] = "none" /\ reservation[c] = "none"
    BY <1>1, CommandShape DEF IndInv, RecoveryInv, RowsInv
  <1> HIDE DEF c
  <1>3. \/ UNCHANGED <<command, reservation>>
        \/ /\ command' = [command EXCEPT ![c] = "pending"]
           /\ reservation' = [reservation EXCEPT ![c] = "active"]
    BY DEF createCompensationDispenseCommand, c
  <1>4. \A d \in Commands :
            /\ command[d] \in {"succeeded", "failed"} => command'[d] = command[d]
            /\ reservation[d] \in {"confirmed", "released"} => reservation'[d] = reservation[d]
    BY <1>2, <1>3 DEF IndInv, TypeOK
  <1> QED
    BY <1>1, <1>4, KeptLines DEF KeepsEnds

LEMMA LookupKeeps ==
    ASSUME IndInv, IndInv', NEW c \in Commands, NEW way \in Ways, receiveRawMovement(c, way)
    PROVE  KeepsEnds
  <1> DEFINE key == <<c, SourceOf(way)>>
  <1>1. UNCHANGED <<command, reservation>>
    BY DEF receiveRawMovement, stockVars
  <1>2. movement' = movement
        \/ (movement[key] = "none" /\ movement' = [movement EXCEPT ![key] = "reconciliation"])
    BY DEF receiveRawMovement
  <1> HIDE DEF key
  <1>3. movement \in [Commands \X Sources -> {"none", "accepted", "reconciliation"}]
    BY DEF IndInv, TypeOK
  <1>4. \A m \in Commands \X Sources : movement[m] # "none" => movement'[m] = movement[m]
    BY <1>2, <1>3
  <1> QED
    BY <1>1, <1>4, KeptLines DEF KeepsEnds

LEMMA ConfirmKeeps ==
    ASSUME IndInv, IndInv', NEW c \in Commands, NEW way \in Ways,
           confirmOrderBoundDispenseSucceeded(c, way)
    PROVE  KeepsEnds
  <1> DEFINE key == <<c, SourceOf(way)>>
  <1>1. CASE movement[key] = "none" /\ CanConfirm(c)
    <2>1. /\ movement' = [movement EXCEPT ![key] = "accepted"]
          /\ command' = [command EXCEPT ![c] = "succeeded"]
          /\ reservation' = [k \in Commands |->
               IF k \in ActiveRows(c.line) THEN "confirmed" ELSE reservation[k]]
      BY <1>1 DEF confirmOrderBoundDispenseSucceeded
    <2>2. \A m \in Commands \X Sources : movement[m] # "none" => movement'[m] = movement[m]
      BY <1>1, <2>1 DEF IndInv, TypeOK
    <2>3. \A d \in Commands : command[d] \in {"succeeded", "failed"} => command'[d] = command[d]
      BY <1>1, <2>1, NoneAndEndsAreFinal DEF IndInv, TypeOK, CanConfirm
    <2>4. \A d \in Commands :
             reservation[d] \in {"confirmed", "released"} => reservation'[d] = reservation[d]
      BY <2>1 DEF ActiveRows
    <2> QED
      BY <2>2, <2>3, <2>4, KeptLines DEF KeepsEnds
  <1>2. CASE ~(movement[key] = "none" /\ CanConfirm(c))
    <2>1. UNCHANGED <<movement, command, reservation>>
      BY <1>2 DEF confirmOrderBoundDispenseSucceeded
    <2> QED
      BY <2>1, QuietKeeps
  <1> QED
    BY <1>1, <1>2

LEMMA OutboxKeeps ==
    ASSUME IndInv, IndInv', NEW c \in Commands, Outbox(c) \/ handleCommandAck(c)
    PROVE  KeepsEnds
  <1>1. UNCHANGED <<reservation, movement>>
    BY DEF Outbox, dispatchPendingCommandsForOrder, markPendingCommandSent, MachineAccepts,
           MachineTells, handleCommandAck, stockVars
  <1>2. \A d \in Commands : command[d] \in {"succeeded", "failed"} => command'[d] = command[d]
    BY DEF IndInv, TypeOK, Outbox, dispatchPendingCommandsForOrder, markPendingCommandSent,
           MachineAccepts, MachineTells, handleCommandAck
  <1> QED
    BY <1>1, <1>2, QuietKeeps

LEMMA UnknownKeeps ==
    ASSUME IndInv, IndInv', NEW c \in Commands, NEW eligible, eligible \subseteq Claimable,
           MarkUnknown(c, eligible)
    PROVE  KeepsEnds
  BY QuietKeeps, NoneAndEndsAreFinal DEF IndInv, TypeOK, MarkUnknown, stockVars

LEMMA StockKeeps ==
    ASSUME IndInv, IndInv', NEW l \in Lines, StockStep(l)
    PROVE  KeepsEnds
  <1>1. UNCHANGED <<command, movement>>
    BY DEF StockStep, releaseExpiredInventoryReservations, reserveForOrder
  <1>2. CASE releaseExpiredInventoryReservations(l)
    <2>1. Released(l)
      BY <1>2, ReleaseReleases DEF releaseExpiredInventoryReservations
    <2> QED
      BY <1>1, <2>1, KeptLines DEF KeepsEnds, Released
  <1>3. CASE reserveForOrder(l)
    BY <1>1, <1>3, QuietKeeps DEF reserveForOrder
  <1> QED
    BY <1>2, <1>3 DEF StockStep

(* Once a command has succeeded or failed, a reservation been confirmed or  *)
(* released, a movement been stored or a line been dispensed, no message,   *)
(* timer, operator or crash changes it again (handleCommandAck,             *)
(* markPendingCommandSent, handleDispenseResult, releaseReservation).       *)
THEOREM EndsStay == Spec => EndsAreFinal
  <1>1. ASSUME IndInv, IndInv', Next PROVE KeepsEnds
    <2>1. ASSUME NEW c \in Commands, Outbox(c) \/ handleCommandAck(c) PROVE KeepsEnds
      BY <1>1, <2>1, OutboxKeeps
    <2>2. ASSUME NEW c \in Commands, Results(c), ~handleCommandAck(c) PROVE KeepsEnds
      <3>1. CASE SuccessResult(c)
        BY <1>1, <3>1, QuietKeeps DEF SuccessResult, stockVars
      <3>2. CASE FailureResult(c)
        BY <1>1, <3>2, FailKeeps DEF FailureResult
      <3>3. CASE UnknownResult(c) \/ markTimedOutCommands(c)
        BY <1>1, <3>3, UnknownKeeps DEF UnknownResult, markTimedOutCommands, Claimable
      <3> QED
        BY <1>1, <2>2, <3>1, <3>2, <3>3, LookupKeeps, ConfirmKeeps
           DEF Results, handleDispenseResult
    <2>3. ASSUME Operator PROVE KeepsEnds
      <3>1. ASSUME NEW c \in Commands, NEW stage \in BOOLEAN,
                   resolveCommandAsNotDispensed(c, stage)
            PROVE  KeepsEnds
        BY <1>1, <3>1, FailKeeps
           DEF resolveCommandAsNotDispensed, ResolvableAsFailed, Claimable
      <3>2. ASSUME NEW c \in Commands, confirmNotDispensed(c) PROVE KeepsEnds
        <4>1. CASE command[c] \in ResolvableAsFailed
          BY <1>1, <3>2, <4>1, FailKeeps DEF confirmNotDispensed, ResolvableAsFailed, Claimable
        <4>2. CASE command[c] \notin ResolvableAsFailed
          BY <1>1, <3>2, <4>2, QuietKeeps DEF confirmNotDispensed, stockVars
        <4> QED
          BY <4>1, <4>2
      <3>3. ASSUME NEW c \in Commands, resolveCommandAsDispensed(c) \/ confirmDispensed(c)
            PROVE  KeepsEnds
        BY <1>1, <3>3, QuietKeeps DEF resolveCommandAsDispensed, confirmDispensed, stockVars
      <3>4. ASSUME NEW a \in RecoveryActions,
                   startRecoveryAction(a) \/ completeRecoveryAction(a) \/ failRecoveryAction(a)
            PROVE  KeepsEnds
        BY <1>1, <3>4, QuietKeeps
           DEF startRecoveryAction, completeRecoveryAction, failRecoveryAction, stockVars
      <3>5. CASE requestRefund \/ requestMockRefund
        BY <1>1, <3>5, QuietKeeps DEF requestRefund, requestMockRefund, stockVars
      <3> QED
        BY <1>1, <2>3, <3>1, <3>2, <3>3, <3>4, <3>5, CompensationKeeps DEF Operator
    <2>4. ASSUME NEW r \in Refunds, NEW result \in {"succeeded", "failed"},
                 RefundEnds(r, result)
          PROVE  KeepsEnds
      BY <1>1, <2>4, QuietKeeps DEF RefundEnds, stockVars
    <2>5. CASE Crash
      BY <1>1, <2>5, QuietKeeps DEF Crash, stockVars
    <2> QED
      BY <1>1, <2>1, <2>2, <2>3, <2>4, <2>5, StockKeeps DEF Next
  <1>2. IndInv /\ IndInv' /\ [Next]_vars => [KeepsEnds]_vars
    BY <1>1
  <1> QED
    BY <1>2, IndInvHolds, PTL DEF Spec, EndsAreFinal
=============================================================================
