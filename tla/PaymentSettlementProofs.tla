----------------------- MODULE PaymentSettlementProofs -----------------------
(***************************************************************************)
(* Proofs about PaymentSettlement, for every set of orders, every stock and *)
(* every number of provider calls in flight.                                *)
(***************************************************************************)
EXTENDS PaymentSettlement, FiniteSetTheorems, TLAPS

USE SettlementAssumption

(* The projection always yields one of the order statuses.                  *)
LEMMA ProjectionType ==
    \A p, f : projectOrderStatus(p, f) \in OrderStatuses
  BY DEF projectOrderStatus, OrderStatuses

(* A finite count of active reservations.                                   *)
LEMMA ActiveFinite ==
    /\ IsFiniteSet(Active)
    /\ Cardinality(Active) \in Nat
  <1>1. Active \in SUBSET Orders
    BY DEF Active
  <1>2. IsFiniteSet(Active)
    BY <1>1, FS_Subset
  <1> QED
    BY <1>2, FS_CardinalityType

(* What keeps the accounting: the rows it is about do not change.           *)
LEMMA StockUnchanged ==
    ASSUME StockAccounting, UNCHANGED stockVars
    PROVE  StockAccounting'
  BY DEF StockAccounting, stockVars, Active

(* Giving back an order's reservation lowers the count by the one that left.*)
LEMMA StockRelease ==
    ASSUME TypeOK, StockAccounting, NEW o \in Orders, releaseActiveReservationsForOrder(o)
    PROVE  /\ StockAccounting'
           /\ reservation' \in [Orders -> {"none", "active", "released"}]
           /\ reservedQty' \in Nat
  <1>1. CASE reservation[o] = "active"
    <2>1. /\ reservation' = [reservation EXCEPT ![o] = "released"]
          /\ reservedQty' = reservedQty - 1
      BY <1>1 DEF releaseActiveReservationsForOrder
    <2>2. o \in Active /\ Active' = Active \ {o}
      BY <1>1, <2>1 DEF Active, TypeOK
    <2>3. Cardinality(Active') = Cardinality(Active) - 1
      BY <2>2, ActiveFinite, FS_RemoveElement
    <2>4. Cardinality(Active') \in Nat
      BY <2>2, ActiveFinite, FS_RemoveElement, FS_CardinalityType
    <2> QED
      BY <2>1, <2>3, <2>4, ActiveFinite DEF StockAccounting, TypeOK
  <1>2. CASE reservation[o] # "active"
    BY <1>2, StockUnchanged DEF releaseActiveReservationsForOrder, TypeOK, stockVars
  <1> QED
    BY <1>1, <1>2

(* Reserving for a new order raises it by one, within the stock.            *)
LEMMA StockReserve ==
    ASSUME TypeOK, StockAccounting, NEW o \in Orders, reservedQty < Stock,
           reservation[o] # "active",
           reservation' = [reservation EXCEPT ![o] = "active"],
           reservedQty' = reservedQty + 1
    PROVE  StockAccounting'
  <1>1. o \notin Active /\ Active' = Active \union {o}
    BY DEF Active, TypeOK
  <1>2. Cardinality(Active') = Cardinality(Active) + 1
    BY <1>1, ActiveFinite, FS_AddElement
  <1> QED
    BY <1>2, ActiveFinite DEF StockAccounting, TypeOK

(* The order-level writes of the shared terminal transaction are well typed *)
(* and keep the stock accounted for.                                        *)
LEMMA TransitionType ==
    ASSUME TypeOK, StockAccounting, NEW o \in Orders, NEW s, NEW b,
           transitionProviderPaymentTerminal(o, s, b)
    PROVE  /\ paymentStatus' \in [Orders -> PaymentStatuses \union {"none"}]
           /\ orderStatus' \in [Orders -> OrderStatuses \union {"none"}]
           /\ paymentState' \in [Orders -> OrderPaymentStates \union {"none"}]
           /\ fulfillmentState' \in [Orders -> OrderFulfillmentStates \union {"none"}]
           /\ reservation' \in [Orders -> {"none", "active", "released"}]
           /\ reservedQty' \in Nat
           /\ command' \in [Orders -> {"none", "pending", "sent"}]
           /\ StockAccounting'
  <1>1. CASE UNCHANGED <<paymentStatus, orderVars, stockVars, command>>
    BY <1>1, StockUnchanged DEF TypeOK, orderVars, stockVars
  <1>2. CASE /\ SetPayment(o, "succeeded")
             /\ SetOrder(o, projectOrderStatus("paid", fulfillmentState[o]), "paid",
                         fulfillmentState[o])
             /\ createPendingDispatchCommands(o)
             /\ UNCHANGED stockVars
    BY <1>2, StockUnchanged, ProjectionType
    DEF TypeOK, stockVars, SetPayment, SetOrder, createPendingDispatchCommands,
        PaymentStatuses, OrderPaymentStates
  <1>3. CASE /\ SetPayment(o, "failed")
             /\ IF orderStatus[o] # "canceled"
                THEN SetOrder(o, "canceled", "payment_failed", "canceled")
                ELSE UNCHANGED orderVars
             /\ releaseActiveReservationsForOrder(o)
             /\ UNCHANGED command
    BY <1>3, StockRelease
    DEF TypeOK, orderVars, SetPayment, SetOrder, PaymentStatuses, OrderStatuses,
        OrderPaymentStates, OrderFulfillmentStates
  <1> QED
    BY <1>1, <1>2, <1>3 DEF transitionProviderPaymentTerminal

(* The reservation sweep lowers the count by the reservations it releases.  *)
LEMMA StockSweep ==
    ASSUME TypeOK, StockAccounting, releaseExpiredInventoryReservations
    PROVE  /\ StockAccounting'
           /\ reservation' \in [Orders -> {"none", "active", "released"}]
           /\ reservedQty' \in Nat
  <1> DEFINE expired == {o \in Orders : reservation[o] = "active" /\ clock[o] # "ahead"}
  <1>1. /\ reservation' = [o \in Orders |-> IF o \in expired THEN "released" ELSE reservation[o]]
        /\ reservedQty' = IF Cardinality(expired) > reservedQty THEN 0
                          ELSE reservedQty - Cardinality(expired)
    BY DEF releaseExpiredInventoryReservations
  <1>2. expired \in SUBSET Active /\ Active' = Active \ expired
    BY <1>1 DEF Active, TypeOK
  <1>3. reservation' \in [Orders -> {"none", "active", "released"}]
    BY <1>1 DEF TypeOK
  <1> HIDE DEF expired
  <1>4. /\ IsFiniteSet(expired) /\ Cardinality(expired) \in Nat
        /\ Cardinality(expired) <= Cardinality(Active)
    BY <1>2, ActiveFinite, FS_Subset, FS_CardinalityType
  <1>5. Active \cap expired = expired
    BY <1>2
  <1>6. Cardinality(Active') = Cardinality(Active) - Cardinality(expired)
    BY <1>2, <1>5, ActiveFinite, FS_Difference
  <1> QED
    BY <1>1, <1>3, <1>4, <1>6, ActiveFinite DEF StockAccounting, TypeOK

(* Registering a provider call keeps the set of calls well typed.           *)
LEMMA BeginType ==
    ASSUME TypeOK, NEW op, NEW o \in Orders, NEW saw, Begin(op, o, saw),
           \/ op \in {"scheduled", "onRead", "manual", "expire"} /\ saw \in Answers
           \/ op \in {"cancel", "close"} /\ saw \in CancelResults
    PROVE  tasks' \subseteq Tasks
  BY DEF TypeOK, Begin, Tasks

(* What the provider can answer.                                            *)
LEMMA AnswerType ==
    \A p \in Providers : \A t \in Trades :
        queryPayment(p, t) # "error" => queryPayment(p, t) \in Answers
  BY DEF Trades, queryPayment, Answers

(* What a cancel call can answer, and what it can do to the trade.          *)
LEMMA CancelEffect ==
    ASSUME NEW p \in Providers, NEW t \in Trades, NEW r \in cancelPayment(p, t)
    PROVE  /\ r[1] \in CancelResults /\ r[2] \in Trades
           /\ r[1] = "canceled" => r[2] \in Dead
           /\ r[2] = t \/ (t = "waiting" /\ r[2] = "closed") \/ (t = "paid" /\ r[2] = "reversed")
  <1>1. CASE t = "absent"
    BY <1>1 DEF cancelPayment, CancelResults, Trades
  <1>2. CASE t = "waiting"
    BY <1>2 DEF cancelPayment, Unclear, CancelResults, Trades, Dead
  <1>3. CASE t = "paid"
    BY <1>3 DEF cancelPayment, Unclear, CancelResults, Trades, Dead
  <1>4. CASE t \in {"closed", "failed", "reversed"}
    BY <1>4 DEF cancelPayment, Unclear, CancelResults, Trades, Dead
  <1> QED
    BY <1>1, <1>2, <1>3, <1>4 DEF Trades

(* Updating a history flag keeps it a flag.                                 *)
LEMMA FlagType ==
    ASSUME NEW f \in [Orders -> BOOLEAN], NEW o \in Orders, NEW b \in BOOLEAN
    PROVE  [f EXCEPT ![o] = f[o] \/ b] \in [Orders -> BOOLEAN]
  OBVIOUS

(* Every step of every handler keeps the types and the stock accounted for. *)
LEMMA TypeStep ==
    ASSUME TypeOK, StockAccounting, Untouched, [Next]_vars
    PROVE  TypeOK' /\ StockAccounting'
  <1> USE DEF dbVars, orderVars, ghostVars
  <1>1. ASSUME NEW o \in Orders, NEW t \in {"paid", "failed", "closed"},
               TradeOpens(o) \/ TradeSettles(o, t) \/ Tick(o)
        PROVE  TypeOK' /\ StockAccounting'
    BY <1>1, StockUnchanged DEF TypeOK, TradeOpens, TradeSettles, Tick, Trades, stockVars
  <1>2. ASSUME NEW o \in Orders, createLocalMachineOrderDraft(o)
        PROVE  TypeOK' /\ StockAccounting'
    <2>1. StockAccounting'
      BY <1>2, StockReserve DEF createLocalMachineOrderDraft, Untouched
    <2>2. /\ paymentStatus' \in [Orders -> PaymentStatuses \union {"none"}]
          /\ orderStatus' \in [Orders -> OrderStatuses \union {"none"}]
          /\ paymentState' \in [Orders -> OrderPaymentStates \union {"none"}]
          /\ fulfillmentState' \in [Orders -> OrderFulfillmentStates \union {"none"}]
      BY <1>2 DEF TypeOK, createLocalMachineOrderDraft, SetPayment, SetOrder,
           PaymentStatuses, OrderStatuses, OrderPaymentStates, OrderFulfillmentStates
    <2>3. reservation' \in [Orders -> {"none", "active", "released"}] /\ reservedQty' \in Nat
      BY <1>2 DEF TypeOK, createLocalMachineOrderDraft
    <2> QED
      BY <1>2, <2>1, <2>2, <2>3 DEF TypeOK, createLocalMachineOrderDraft
  <1>3. ASSUME NEW o \in Orders, PersistIntent(o) \/ markPaymentCreationUncertain(o)
        PROVE  TypeOK' /\ StockAccounting'
    <2>1. StockAccounting'
      BY <1>3, StockUnchanged DEF PersistIntent, markPaymentCreationUncertain
    <2>2. /\ paymentStatus' \in [Orders -> PaymentStatuses \union {"none"}]
          /\ paymentUrl' \in [Orders -> BOOLEAN]
      <3>1. CASE PersistIntent(o)
        BY <3>1 DEF TypeOK, PersistIntent, SetPayment, PaymentStatuses
      <3>2. CASE markPaymentCreationUncertain(o)
        BY <3>2 DEF TypeOK, markPaymentCreationUncertain, SetPayment, PaymentStatuses
      <3> QED
        BY <1>3, <3>1, <3>2
    <2> QED
      BY <1>3, <2>1, <2>2 DEF TypeOK, PersistIntent, markPaymentCreationUncertain, stockVars
  <1>4. ASSUME NEW o \in Orders, cancelLocalCreatedPayment(o)
        PROVE  TypeOK' /\ StockAccounting'
    BY <1>4, StockRelease DEF TypeOK, cancelLocalCreatedPayment, SetPayment, SetOrder,
         PaymentStatuses, OrderStatuses, OrderPaymentStates, OrderFulfillmentStates
  <1>5. ASSUME NEW o \in Orders, NEW fact \in Facts, handlePaymentWebhook(o, fact)
        PROVE  TypeOK' /\ StockAccounting'
    <2>1. CASE <<o, fact>> \in handled
      BY <1>5, <2>1, StockUnchanged DEF TypeOK, handlePaymentWebhook, stockVars
    <2>2. CASE <<o, fact>> \notin handled
      <3>1. transitionProviderPaymentTerminal(o, fact, FALSE)
        BY <1>5, <2>2 DEF handlePaymentWebhook
      <3>2. handled' \subseteq (Orders \X Events)
        <4>1. <<o, fact>> \in Orders \X Events
          BY DEF Events
        <4>2. handled' = handled \/ handled' = handled \union {<<o, fact>>}
          BY <1>5, <2>2 DEF handlePaymentWebhook
        <4> QED
          BY <4>1, <4>2 DEF TypeOK
      <3> QED
        BY <1>5, <2>2, <3>1, <3>2, TransitionType DEF TypeOK, handlePaymentWebhook
    <2> QED
      BY <2>1, <2>2
  <1>6. ASSUME NEW o \in Orders, NEW op \in {"scheduled", "onRead", "manual"},
               BeginQuery(op, o) \/ BeginExpire(o)
        PROVE  TypeOK' /\ StockAccounting'
    <2>1. queryPayment(provider[o], trade[o]) \in Answers
      BY <1>6, AnswerType DEF TypeOK, BeginQuery, BeginExpire
    <2>2. tasks' \subseteq Tasks
      BY <1>6, <2>1, BeginType DEF BeginQuery, BeginExpire
    <2> QED
      BY <1>6, <2>2, StockUnchanged DEF TypeOK, BeginQuery, BeginExpire, stockVars
  <1>7. ASSUME NEW o \in Orders, BeginCancel(o) \/ BeginClose(o)
        PROVE  TypeOK' /\ StockAccounting'
    <2>1. PICK r \in cancelPayment(provider[o], trade[o]) :
            /\ trade' = [trade EXCEPT ![o] = r[2]]
            /\ tasks' = tasks \/ Begin("cancel", o, r[1]) \/ Begin("close", o, r[1])
      BY <1>7 DEF BeginCancel, BeginClose
    <2>2. r[1] \in CancelResults /\ r[2] \in Trades
      BY CancelEffect DEF TypeOK
    <2>3. tasks' \subseteq Tasks
      BY <2>1, <2>2, BeginType DEF TypeOK
    <2>4. trade' \in [Orders -> Trades]
      BY <2>1, <2>2 DEF TypeOK
    <2> QED
      BY <1>7, <2>3, <2>4, StockUnchanged DEF TypeOK, BeginCancel, BeginClose, stockVars
  <1>8. ASSUME NEW o \in Orders, markPaymentManualHandling(o)
        PROVE  TypeOK' /\ StockAccounting'
    BY <1>8, StockUnchanged DEF TypeOK, markPaymentManualHandling, SetPayment, SetOrder,
         PaymentStatuses, OrderStatuses, OrderPaymentStates, OrderFulfillmentStates, stockVars
  <1>9. ASSUME NEW o \in Orders, dispatchPendingCommands(o)
        PROVE  TypeOK' /\ StockAccounting'
    BY <1>9, StockUnchanged DEF TypeOK, dispatchPendingCommands, stockVars
  <1>10. ASSUME NEW t \in tasks, Apply(t)
         PROVE  TypeOK' /\ StockAccounting'
    <2> DEFINE o == t.order
    <2>0. o \in Orders /\ (t.op = "manual" => t.saw \in Answers)
      BY DEF TypeOK, Tasks
    <2>1. tasks' \subseteq Tasks /\ UNCHANGED <<paymentUrl, provider, clock, trade>>
      BY <1>10 DEF Apply, TypeOK
    <2> DEFINE RowTypes ==
          /\ paymentStatus' \in [Orders -> PaymentStatuses \union {"none"}]
          /\ orderStatus' \in [Orders -> OrderStatuses \union {"none"}]
          /\ paymentState' \in [Orders -> OrderPaymentStates \union {"none"}]
          /\ fulfillmentState' \in [Orders -> OrderFulfillmentStates \union {"none"}]
          /\ reservation' \in [Orders -> {"none", "active", "released"}]
          /\ reservedQty' \in Nat
          /\ command' \in [Orders -> {"none", "pending", "sent"}]
          /\ StockAccounting'
    <2> DEFINE Ghosts == blind' \in [Orders -> BOOLEAN] /\ unsure' \in [Orders -> BOOLEAN]
    <2>2. CASE ApplyExpireLocal(t)
      <3>1. handled' \subseteq (Orders \X Events)
        <4>1. handled' = handled \/ handled' = handled \union {<<o, "expired">>}
          BY <2>2 DEF ApplyExpireLocal
        <4> QED
          BY <2>0, <4>1 DEF TypeOK, Events
      <3>2. RowTypes
        <4>1. UNCHANGED command
          BY <2>2 DEF ApplyExpireLocal
        <4>2. CASE UNCHANGED <<paymentStatus, orderVars, stockVars>>
          BY <4>1, <4>2, StockUnchanged DEF TypeOK, stockVars
        <4>3. CASE /\ SetPayment(o, "expired")
                   /\ SetOrder(o, "payment_expired", "payment_expired", "canceled")
                   /\ releaseActiveReservationsForOrder(o)
          BY <2>0, <4>1, <4>3, StockRelease
          DEF TypeOK, SetPayment, SetOrder, PaymentStatuses, OrderStatuses,
              OrderPaymentStates, OrderFulfillmentStates
        <4> QED
          BY <2>2, <4>2, <4>3 DEF ApplyExpireLocal
      <3>3. Ghosts
        <4>1. /\ UNCHANGED blind
              /\ unsure' = unsure \/ \E b \in BOOLEAN : unsure' = [unsure EXCEPT ![o] = unsure[o] \/ b]
          BY <2>2 DEF ApplyExpireLocal
        <4> QED
          BY <2>0, <4>1, FlagType DEF TypeOK
      <3> QED
        BY <2>1, <3>1, <3>2, <3>3 DEF TypeOK
    <2>3. CASE UNCHANGED handled /\ (ApplyScheduled(t) \/ ApplyOnRead(t) \/ ApplyExpirePaid(t))
      <3>1. RowTypes
        <4>1. CASE \E s : transitionProviderPaymentTerminal(o, s, FALSE)
          BY <2>0, <4>1, TransitionType
        <4>2. CASE /\ paymentStatus' = [paymentStatus EXCEPT ![o] = "pending"] \/ UNCHANGED paymentStatus
                   /\ UNCHANGED <<orderVars, stockVars, command>>
          BY <2>0, <4>2, StockUnchanged DEF TypeOK, PaymentStatuses, stockVars
        <4> QED
          BY <2>3, <4>1, <4>2 DEF ApplyScheduled, ApplyOnRead, ApplyExpirePaid, SetPayment
      <3>2. Ghosts
        BY <2>3 DEF ApplyScheduled, ApplyOnRead, ApplyExpirePaid, TypeOK
      <3> QED
        BY <2>1, <2>3, <3>1, <3>2 DEF TypeOK
    <2>4. CASE UNCHANGED handled /\ ApplyManual(t)
      <3>1. RowTypes
        <4>1. CASE t.saw \in Facts
          BY <2>0, <2>4, <4>1, TransitionType DEF ApplyManual
        <4>2. CASE t.saw \notin Facts
          BY <2>0, <2>4, <4>2, StockUnchanged
          DEF ApplyManual, SetPayment, TypeOK, stockVars, Answers, PaymentStatuses
        <4> QED
          BY <4>1, <4>2
      <3>2. Ghosts
        <4>1. /\ UNCHANGED unsure
              /\ blind' = blind \/ \E b \in BOOLEAN : blind' = [blind EXCEPT ![o] = blind[o] \/ b]
          BY <2>4 DEF ApplyManual, canApplyProviderTerminalStatus
        <4> QED
          BY <2>0, <4>1, FlagType DEF TypeOK
      <3> QED
        BY <2>1, <2>4, <3>1, <3>2 DEF TypeOK
    <2>5. CASE UNCHANGED handled /\ (ApplyCancel(t) \/ ApplyClose(t))
      <3>1. RowTypes
        BY <2>0, <2>5, StockRelease, StockUnchanged
        DEF ApplyCancel, ApplyClose, markPaymentClosedAfterProviderAction,
            markPaymentUnknownAfterProviderAction, TypeOK, SetPayment, SetOrder, stockVars,
            PaymentStatuses, OrderStatuses, OrderPaymentStates, OrderFulfillmentStates
      <3>2. Ghosts
        <4>1. CASE ApplyCancel(t)
          <5>1. /\ UNCHANGED blind
                /\ unsure' = unsure \/ \E b \in BOOLEAN : unsure' = [unsure EXCEPT ![o] = unsure[o] \/ b]
            BY <4>1 DEF ApplyCancel
          <5> QED
            BY <2>0, <5>1, FlagType DEF TypeOK
        <4>2. CASE ApplyClose(t)
          <5>1. /\ UNCHANGED unsure
                /\ \E b \in BOOLEAN : blind' = [blind EXCEPT ![o] = blind[o] \/ b]
            BY <4>2 DEF ApplyClose, canApplyProviderTerminalStatus
          <5> QED
            BY <2>0, <5>1, FlagType DEF TypeOK
        <4> QED
          BY <2>5, <4>1, <4>2
      <3> QED
        BY <2>1, <2>5, <3>1, <3>2 DEF TypeOK
    <2> QED
      BY <1>10, <2>2, <2>3, <2>4, <2>5 DEF Apply
  <1>11. ASSUME NEW t \in tasks, Crash(t)
         PROVE  TypeOK' /\ StockAccounting'
    BY <1>11, StockUnchanged DEF TypeOK, Crash, stockVars
  <1>12. ASSUME NEW t \in tasks, ExpireAtProvider(t)
         PROVE  TypeOK' /\ StockAccounting'
    <2>0. t.order \in Orders
      BY DEF TypeOK, Tasks
    <2>1. PICK r \in cancelPayment(provider[t.order], trade[t.order]) :
            /\ trade' = [trade EXCEPT ![t.order] = r[2]]
            /\ tasks' = (tasks \ {t}) \union
                  {[op |-> "expireLocal", order |-> t.order, saw |-> a] :
                      a \in {r[1]} \intersect {"canceled", "missing"}}
      BY <1>12 DEF ExpireAtProvider
    <2>2. r[2] \in Trades
      BY <2>0, CancelEffect DEF TypeOK
    <2>3. tasks' \subseteq Tasks
      BY <2>0, <2>1 DEF TypeOK, Tasks, CancelResults
    <2>4. trade' \in [Orders -> Trades]
      BY <2>0, <2>1, <2>2 DEF TypeOK
    <2> QED
      BY <1>12, <2>3, <2>4, StockUnchanged DEF TypeOK, ExpireAtProvider, stockVars
  <1>13. CASE releaseExpiredInventoryReservations
    BY <1>13, StockSweep DEF TypeOK, releaseExpiredInventoryReservations
  <1>14. CASE UNCHANGED vars
    BY <1>14, StockUnchanged DEF TypeOK, vars, stockVars
  <1> QED
    BY <1>1, <1>2, <1>3, <1>4, <1>5, <1>6, <1>7, <1>8, <1>9, <1>10, <1>11, <1>12, <1>13, <1>14
    DEF Next, OrderStep

-----------------------------------------------------------------------------
(* What a step can never undo about a trade, a payment row and its QR code. *)
LEMMA Monotone ==
    ASSUME TypeOK, [Next]_vars, NEW q \in Orders
    PROVE  /\ trade[q] \in Captured => trade'[q] \in Captured
           /\ trade[q] \in Dead => trade'[q] \in Dead
           /\ paymentStatus[q] # "none" => paymentStatus'[q] # "none"
           /\ paymentUrl[q] => paymentUrl'[q]
           /\ blind[q] => blind'[q]
  <1> DEFINE Goal ==
           /\ trade[q] \in Captured => trade'[q] \in Captured
           /\ trade[q] \in Dead => trade'[q] \in Dead
           /\ paymentStatus[q] # "none" => paymentStatus'[q] # "none"
           /\ paymentUrl[q] => paymentUrl'[q]
           /\ blind[q] => blind'[q]
  <1> USE DEF dbVars, ghostVars, SetPayment, Captured, Dead
  <1>0. ASSUME NEW o \in Orders, NEW r \in cancelPayment(provider[o], trade[o]),
               trade' = [trade EXCEPT ![o] = r[2]]
        PROVE  /\ trade[q] \in Captured => trade'[q] \in Captured
               /\ trade[q] \in Dead => trade'[q] \in Dead
    BY <1>0 DEF TypeOK, Trades, cancelPayment
  <1>1. ASSUME NEW o \in Orders, NEW t \in {"paid", "failed", "closed"},
               TradeOpens(o) \/ TradeSettles(o, t) \/ Tick(o)
        PROVE  Goal
    BY <1>1 DEF TypeOK, TradeOpens, TradeSettles, Tick
  <1>2. ASSUME NEW o \in Orders,
               createLocalMachineOrderDraft(o) \/ PersistIntent(o)
                 \/ markPaymentCreationUncertain(o) \/ cancelLocalCreatedPayment(o)
        PROVE  Goal
    BY <1>2 DEF TypeOK, createLocalMachineOrderDraft, PersistIntent,
         markPaymentCreationUncertain, cancelLocalCreatedPayment
  <1>3. ASSUME NEW o \in Orders, NEW s, NEW b, transitionProviderPaymentTerminal(o, s, b),
               UNCHANGED <<paymentUrl, trade, blind>>
        PROVE  Goal
    BY <1>3 DEF TypeOK, transitionProviderPaymentTerminal
  <1>4. ASSUME NEW o \in Orders, NEW fact \in Facts, handlePaymentWebhook(o, fact)
        PROVE  Goal
    BY <1>3, <1>4 DEF handlePaymentWebhook
  <1>5. ASSUME NEW o \in Orders, NEW op \in {"scheduled", "onRead", "manual"},
               BeginQuery(op, o) \/ BeginExpire(o)
        PROVE  Goal
    BY <1>5 DEF BeginQuery, BeginExpire
  <1>6. ASSUME NEW o \in Orders, BeginCancel(o) \/ BeginClose(o)
        PROVE  Goal
    BY <1>0, <1>6 DEF BeginCancel, BeginClose
  <1>7. ASSUME NEW o \in Orders, markPaymentManualHandling(o) \/ dispatchPendingCommands(o)
        PROVE  Goal
    BY <1>7 DEF TypeOK, markPaymentManualHandling, dispatchPendingCommands
  <1>8. ASSUME NEW t \in tasks, Apply(t)
        PROVE  Goal
    <2>0. t.order \in Orders /\ UNCHANGED <<paymentUrl, trade>>
      BY <1>8 DEF TypeOK, Tasks, Apply
    <2>1. CASE ApplyExpireLocal(t)
      <3>1. /\ UNCHANGED blind
            /\ paymentStatus' = paymentStatus
                 \/ paymentStatus' = [paymentStatus EXCEPT ![t.order] = "expired"]
        BY <2>1 DEF ApplyExpireLocal
      <3> QED
        BY <2>0, <3>1 DEF TypeOK
    <2>2. CASE ApplyScheduled(t) \/ ApplyExpirePaid(t)
      BY <1>3, <2>0, <2>2 DEF ApplyScheduled, ApplyExpirePaid
    <2>3. CASE ApplyOnRead(t)
      <3>1. CASE \E v : transitionProviderPaymentTerminal(t.order, v, FALSE)
        BY <1>3, <2>0, <2>3, <3>1 DEF ApplyOnRead
      <3>2. CASE \/ paymentStatus' = paymentStatus
                 \/ /\ paymentStatus[t.order] \in {"pending", "processing", "unknown"}
                    /\ paymentStatus' = [paymentStatus EXCEPT ![t.order] = "pending"]
        BY <2>0, <2>3, <3>2 DEF ApplyOnRead, TypeOK
      <3> QED
        BY <2>3, <3>1, <3>2 DEF ApplyOnRead
    <2>4. CASE ApplyManual(t)
      <3>1. t.saw # "none"
        BY <2>4 DEF ApplyManual, TypeOK, Tasks, Answers
      <3>2. CASE t.saw \in Facts
        BY <1>3, <2>0, <2>4, <3>2 DEF ApplyManual
      <3>3. CASE t.saw \notin Facts
        BY <2>0, <2>4, <3>1, <3>3 DEF ApplyManual, TypeOK
      <3> QED
        BY <3>2, <3>3
    <2>5. CASE ApplyCancel(t)
      BY <2>0, <2>5 DEF ApplyCancel, TypeOK
    <2>6. CASE ApplyClose(t)
      BY <2>0, <2>6 DEF ApplyClose, TypeOK, markPaymentClosedAfterProviderAction,
           markPaymentUnknownAfterProviderAction
    <2> QED
      BY <1>8, <2>1, <2>2, <2>3, <2>4, <2>5, <2>6 DEF Apply
  <1>9. ASSUME NEW t \in tasks, Crash(t)
        PROVE  Goal
    BY <1>9 DEF Crash
  <1>10. ASSUME NEW t \in tasks, ExpireAtProvider(t)
         PROVE  Goal
    <2>1. t.order \in Orders
      BY DEF TypeOK, Tasks
    <2> QED
      BY <1>0, <1>10, <2>1 DEF ExpireAtProvider
  <1>11. CASE releaseExpiredInventoryReservations \/ UNCHANGED vars
    BY <1>11 DEF releaseExpiredInventoryReservations, vars
  <1> QED
    BY <1>1, <1>2, <1>4, <1>5, <1>6, <1>7, <1>8, <1>9, <1>10, <1>11 DEF Next, OrderStep

(* A handler's evidence outlives every step others take, and a new handler  *)
(* starts with evidence.                                                    *)
LEMMA EvidenceStep ==
    ASSUME TypeOK, Evidence, [Next]_vars
    PROVE  Evidence'
  <1> DEFINE Backed(t) ==
           /\ paymentStatus'[t.order] # "none"
           /\ t.saw = "succeeded" => trade'[t.order] \in Captured
           /\ t.saw \in {"failed", "canceled"} => trade'[t.order] \in Dead
  <1> SUFFICES ASSUME NEW t \in tasks' PROVE Backed(t)
    BY DEF Evidence
  <1>1. ASSUME t \in tasks PROVE Backed(t)
    <2>1. t.order \in Orders
      BY <1>1 DEF TypeOK, Tasks
    <2> QED
      BY <1>1, <2>1, Monotone DEF Evidence
  <1>2. ASSUME NEW o \in Orders, t.order = o, paymentStatus[o] # "none",
               UNCHANGED <<paymentStatus, trade>>, t.saw = queryPayment(provider[o], trade[o])
        PROVE  Backed(t)
    BY <1>2 DEF TypeOK, Trades, queryPayment, Captured, Dead
  <1>3. ASSUME NEW o \in Orders, t.order = o, paymentStatus[o] # "none",
               UNCHANGED paymentStatus, NEW r \in cancelPayment(provider[o], trade[o]),
               trade' = [trade EXCEPT ![o] = r[2]], t.saw = r[1]
        PROVE  Backed(t)
    BY <1>3, CancelEffect DEF TypeOK, CancelResults, Captured, Dead
  <1>4. ASSUME NEW o \in Orders, NEW op \in {"scheduled", "onRead", "manual"},
               BeginQuery(op, o) \/ BeginExpire(o)
        PROVE  Backed(t)
    <2>1. /\ paymentStatus[o] # "none"
          /\ UNCHANGED <<paymentStatus, trade>>
          /\ \E n : tasks' = tasks \union {[op |-> n, order |-> o, saw |-> queryPayment(provider[o], trade[o])]}
      BY <1>4 DEF BeginQuery, BeginExpire, Begin, QueryGuard, dbVars
    <2>2. CASE t \notin tasks
      BY <1>2, <2>1, <2>2
    <2> QED
      BY <1>1, <2>2
  <1>5. ASSUME NEW o \in Orders, BeginCancel(o) \/ BeginClose(o)
        PROVE  Backed(t)
    <2>1. paymentStatus[o] # "none" /\ UNCHANGED paymentStatus
      BY <1>5 DEF BeginCancel, BeginClose, canApplyProviderTerminalStatus, ProviderMutable, dbVars
    <2>2. PICK r \in cancelPayment(provider[o], trade[o]) :
            /\ trade' = [trade EXCEPT ![o] = r[2]]
            /\ tasks' = tasks \/ Begin("cancel", o, r[1]) \/ Begin("close", o, r[1])
      BY <1>5 DEF BeginCancel, BeginClose
    <2>3. CASE t \notin tasks
      <3>1. t.order = o /\ t.saw = r[1]
        BY <2>2, <2>3 DEF Begin
      <3> QED
        BY <1>3, <2>1, <2>2, <3>1
    <2> QED
      BY <1>1, <2>3
  <1>6. ASSUME NEW u \in tasks, ExpireAtProvider(u)
        PROVE  Backed(t)
    <2>1. u.order \in Orders /\ paymentStatus[u.order] # "none"
      BY DEF TypeOK, Tasks, Evidence
    <2>2. PICK r \in cancelPayment(provider[u.order], trade[u.order]) :
            /\ trade' = [trade EXCEPT ![u.order] = r[2]]
            /\ tasks' = (tasks \ {u}) \union
                  {[op |-> "expireLocal", order |-> u.order, saw |-> a] :
                      a \in {r[1]} \intersect {"canceled", "missing"}}
      BY <1>6 DEF ExpireAtProvider
    <2>3. UNCHANGED paymentStatus
      BY <1>6 DEF ExpireAtProvider, dbVars
    <2>4. CASE t \notin tasks
      <3>1. t.order = u.order /\ t.saw = r[1]
        BY <2>2, <2>4
      <3> QED
        BY <1>3, <2>1, <2>2, <2>3, <3>1
    <2> QED
      BY <1>1, <2>4
  <1>7. ASSUME tasks' \subseteq tasks
        PROVE  Backed(t)
    BY <1>1, <1>7
  <1>8. ASSUME NEW o \in Orders, OrderStep(o)
        PROVE  Backed(t)
    <2>1. CASE tasks' = tasks
      BY <1>7, <2>1
    <2> QED
      BY <1>4, <1>5, <1>8, <2>1
      DEF OrderStep, TradeOpens, TradeSettles, Tick, createLocalMachineOrderDraft, PersistIntent,
          markPaymentCreationUncertain, cancelLocalCreatedPayment, handlePaymentWebhook,
          markPaymentManualHandling, dispatchPendingCommands
  <1>9. ASSUME NEW u \in tasks, Apply(u) \/ Crash(u)
        PROVE  Backed(t)
    BY <1>7, <1>9 DEF Apply, Crash
  <1>10. CASE releaseExpiredInventoryReservations \/ UNCHANGED vars
    BY <1>7, <1>10 DEF releaseExpiredInventoryReservations, vars
  <1> QED
    BY <1>6, <1>8, <1>9, <1>10 DEF Next

-----------------------------------------------------------------------------
(* What the invariants say of one order.                                    *)
Row(o) ==
    /\ paymentStatus[o] = "none" =>
          /\ reservation[o] = "none" /\ command[o] = "none"
          /\ orderStatus[o] = "none" /\ trade[o] = "absent" /\ ~paymentUrl[o]
    /\ trade[o] \in {"paid", "failed", "reversed"} => paymentUrl[o]
    /\ ~blind[o] =>
          /\ command[o] # "none" => paymentStatus[o] = "succeeded"
          /\ Closed(o) => /\ paymentStatus[o] \in {"failed", "canceled", "expired"}
                          /\ reservation[o] # "active"
          /\ paymentStatus[o] \in {"failed", "canceled", "expired"} /\ ~unsure[o]
                => trade[o] \in Dead \/ ~paymentUrl[o]
    /\ command[o] # "none" => trade[o] \in Captured
    /\ paymentState[o] = "paid" => command[o] # "none"

Rows == \A o \in Orders : Row(o)

(* The invariants are what every row explains.                              *)
LEMMA RowsAre ==
    Rows <=> Untouched /\ PaymentExplains /\ CommandNeedsCapture /\ PaidHasCommand
  BY DEF Rows, Row, Untouched, PaymentExplains, CommandNeedsCapture, PaidHasCommand

(* The shared terminal transaction keeps what the rows explain when the     *)
(* answer it applies is backed by the trade.                                *)
LEMMA TransitionRow ==
    ASSUME TypeOK, Rows, NEW o \in Orders, NEW q \in Orders, NEW s, NEW b,
           transitionProviderPaymentTerminal(o, s, b),
           paymentStatus[o] # "none",
           s = "succeeded" => trade[o] \in Captured,
           s = "failed" => trade[o] \in Dead,
           UNCHANGED <<paymentUrl, trade, blind, unsure>>
    PROVE  Row(q)'
  <1>1. CASE UNCHANGED <<paymentStatus, orderVars, stockVars, command>>
    BY <1>1 DEF Rows, Row, Closed, orderVars, stockVars
  <1>2. CASE /\ CanTransition(o, b) /\ s = "succeeded"
             /\ SetPayment(o, "succeeded")
             /\ SetOrder(o, projectOrderStatus("paid", fulfillmentState[o]), "paid",
                         fulfillmentState[o])
             /\ createPendingDispatchCommands(o)
             /\ UNCHANGED stockVars
    <2>1. projectOrderStatus("paid", fulfillmentState[o]) \notin {"canceled", "payment_expired"}
      BY DEF projectOrderStatus
    <2> QED
      BY <1>2, <2>1 DEF Rows, Row, Closed, TypeOK, stockVars, SetPayment, SetOrder,
           createPendingDispatchCommands
  <1>3. CASE /\ CanTransition(o, b) /\ s = "failed"
             /\ SetPayment(o, "failed")
             /\ IF orderStatus[o] # "canceled"
                THEN SetOrder(o, "canceled", "payment_failed", "canceled")
                ELSE UNCHANGED orderVars
             /\ releaseActiveReservationsForOrder(o)
             /\ UNCHANGED command
    BY <1>3 DEF Rows, Row, Closed, TypeOK, SetPayment, SetOrder, orderVars, stockVars,
         CanTransition, canApplyProviderTerminalStatus, ProviderMutable,
         releaseActiveReservationsForOrder
  <1> QED
    BY <1>1, <1>2, <1>3 DEF transitionProviderPaymentTerminal

(* Updating a history flag touches its own order only.                      *)
LEMMA FlagUpdate ==
    ASSUME NEW f \in [Orders -> BOOLEAN], NEW g, NEW o \in Orders, NEW b \in BOOLEAN,
           g = [f EXCEPT ![o] = f[o] \/ b]
    PROVE  /\ g[o] <=> f[o] \/ b
           /\ \A q \in Orders : q # o => (g[q] <=> f[q])
  OBVIOUS

(* A write to one order leaves what the other rows explain alone.           *)
LEMMA RowFrame ==
    ASSUME Rows, NEW q \in Orders,
           paymentStatus'[q] = paymentStatus[q], orderStatus'[q] = orderStatus[q],
           paymentState'[q] = paymentState[q], reservation'[q] = reservation[q],
           command'[q] = command[q], trade'[q] = trade[q],
           paymentUrl'[q] <=> paymentUrl[q], blind'[q] <=> blind[q], unsure'[q] <=> unsure[q]
    PROVE  Row(q)'
  BY DEF Rows, Row, Closed

(* Every step of every handler keeps what the rows explain.                 *)
LEMMA RowStep ==
    ASSUME TypeOK, Evidence, Rows, [Next]_vars
    PROVE  Rows'
  <1> SUFFICES ASSUME NEW q \in Orders PROVE Row(q)'
    BY DEF Rows
  <1> USE DEF dbVars, ghostVars, SetPayment, SetOrder
  <1>1. ASSUME NEW o \in Orders, NEW t \in {"paid", "failed", "closed"},
               TradeOpens(o) \/ TradeSettles(o, t) \/ Tick(o)
        PROVE  Row(q)'
    BY <1>1 DEF Rows, Row, Closed, TypeOK, TradeOpens, TradeSettles, Tick, orderVars, stockVars,
         Captured, Dead
  <1>2. ASSUME NEW o \in Orders, createLocalMachineOrderDraft(o)
        PROVE  Row(q)'
    BY <1>2 DEF Rows, Row, Closed, TypeOK, createLocalMachineOrderDraft
  <1>3. ASSUME NEW o \in Orders, PersistIntent(o) \/ markPaymentCreationUncertain(o)
        PROVE  Row(q)'
    BY <1>3 DEF Rows, Row, Closed, TypeOK, PersistIntent, markPaymentCreationUncertain,
         orderVars, stockVars
  <1>4. ASSUME NEW o \in Orders, cancelLocalCreatedPayment(o)
        PROVE  Row(q)'
    BY <1>4 DEF Rows, Row, Closed, TypeOK, cancelLocalCreatedPayment,
         releaseActiveReservationsForOrder, stockVars
  <1>5. ASSUME NEW o \in Orders, NEW fact \in Facts, handlePaymentWebhook(o, fact)
        PROVE  Row(q)'
    <2>1. CASE UNCHANGED dbVars
      BY <1>5, <2>1 DEF Rows, Row, Closed, handlePaymentWebhook, orderVars, stockVars
    <2>2. CASE transitionProviderPaymentTerminal(o, fact, FALSE) /\ UNCHANGED paymentUrl
      <3>1. /\ paymentStatus[o] # "none"
            /\ fact = "succeeded" => trade[o] \in Captured
            /\ fact = "failed" => trade[o] \in Dead
            /\ UNCHANGED <<trade, blind, unsure>>
        BY <1>5 DEF Rows, Row, handlePaymentWebhook, Notified, Captured, Dead
      <3> QED
        BY <2>2, <3>1, TransitionRow
    <2> QED
      BY <1>5, <2>1, <2>2 DEF handlePaymentWebhook
  <1>6. ASSUME NEW o \in Orders, NEW op \in {"scheduled", "onRead", "manual"},
               BeginQuery(op, o) \/ BeginExpire(o)
        PROVE  Row(q)'
    BY <1>6 DEF Rows, Row, Closed, BeginQuery, BeginExpire, orderVars, stockVars
  <1>7. ASSUME NEW o \in Orders, NEW r \in cancelPayment(provider[o], trade[o]), paymentStatus[o] # "none",
               trade' = [trade EXCEPT ![o] = r[2]], UNCHANGED <<dbVars, ghostVars>>
        PROVE  Row(q)'
    <2>1. CASE q = o
      <3>1. /\ trade[o] \in Captured => r[2] \in Captured
            /\ trade[o] \in Dead => r[2] \in Dead
            /\ r[2] \in {"paid", "failed", "reversed"} => trade[o] \in {"paid", "failed", "reversed"}
        BY DEF TypeOK, Trades, cancelPayment, Captured, Dead
      <3> QED
        BY <1>7, <2>1, <3>1 DEF Rows, Row, Closed, TypeOK, orderVars, stockVars
    <2>2. CASE q # o
      BY <1>7, <2>2 DEF Rows, Row, Closed, TypeOK, orderVars, stockVars
    <2> QED
      BY <2>1, <2>2
  <1>8. ASSUME NEW o \in Orders, BeginCancel(o) \/ BeginClose(o)
        PROVE  Row(q)'
    BY <1>7, <1>8 DEF BeginCancel, BeginClose, canApplyProviderTerminalStatus, ProviderMutable
  <1>9. ASSUME NEW o \in Orders, markPaymentManualHandling(o)
        PROVE  Row(q)'
    <2>1. /\ blind'[o] <=> blind[o] \/ ~canApplyProviderTerminalStatus(o)
          /\ q # o => (blind'[q] <=> blind[q])
      BY <1>9, FlagUpdate DEF markPaymentManualHandling, TypeOK, canApplyProviderTerminalStatus
    <2>2. UNCHANGED <<paymentUrl, stockVars, command, trade, unsure>>
      BY <1>9 DEF markPaymentManualHandling
    <2>3. CASE q # o
      BY <1>9, <2>1, <2>2, <2>3, RowFrame DEF markPaymentManualHandling, TypeOK, stockVars
    <2>4. CASE q = o
      BY <1>9, <2>1, <2>2, <2>4 DEF Rows, Row, Closed, TypeOK, markPaymentManualHandling, stockVars,
         canApplyProviderTerminalStatus, ProviderMutable
    <2> QED
      BY <2>3, <2>4
  <1>10. ASSUME NEW o \in Orders, dispatchPendingCommands(o)
         PROVE  Row(q)'
    BY <1>10 DEF Rows, Row, Closed, TypeOK, dispatchPendingCommands, orderVars, stockVars
  <1>11. ASSUME NEW t \in tasks, Apply(t)
         PROVE  Row(q)'
    <2> DEFINE o == t.order
    <2>0. /\ o \in Orders /\ paymentStatus[o] # "none"
          /\ t.saw = "succeeded" => trade[o] \in Captured
          /\ t.saw \in {"failed", "canceled"} => trade[o] \in Dead
          /\ UNCHANGED <<paymentUrl, trade>>
      BY <1>11 DEF TypeOK, Tasks, Evidence, Apply
    <2>1. t.op \in {"scheduled", "onRead", "manual", "expire"} => t.saw \in Answers
      BY DEF TypeOK, Tasks
    <2>2. CASE ApplyExpireLocal(t)
      <3>1. CASE UNCHANGED <<paymentStatus, orderVars, stockVars, command, blind, unsure>>
        BY <2>0, <3>1, RowFrame DEF orderVars, stockVars
      <3>2. CASE /\ paymentStatus' = [paymentStatus EXCEPT ![o] = "expired"]
                 /\ SetOrder(o, "payment_expired", "payment_expired", "canceled")
                 /\ canApplyProviderTerminalStatus(o)
                 /\ releaseActiveReservationsForOrder(o)
                 /\ unsure' = [unsure EXCEPT ![o] = @ \/ t.saw = "missing"]
                 /\ UNCHANGED <<command, blind>>
        <4>1. /\ unsure'[o] <=> unsure[o] \/ t.saw = "missing"
              /\ q # o => (unsure'[q] <=> unsure[q])
          <5>1. \E b \in BOOLEAN : /\ b <=> t.saw = "missing"
                                   /\ unsure' = [unsure EXCEPT ![o] = unsure[o] \/ b]
            BY <3>2
          <5> QED
            BY <2>0, <5>1, FlagUpdate DEF TypeOK
        <4>2. CASE q # o
          BY <2>0, <3>2, <4>1, <4>2, RowFrame DEF TypeOK, releaseActiveReservationsForOrder, stockVars
        <4>3. CASE q = o
          <5>1. t.saw \in {"failed", "canceled", "missing"}
            BY <2>2 DEF ApplyExpireLocal, TypeOK, Tasks
          <5> QED
            BY <2>0, <3>2, <4>1, <4>3, <5>1 DEF Rows, Row, Closed, TypeOK, stockVars,
               releaseActiveReservationsForOrder, canApplyProviderTerminalStatus, ProviderMutable
        <4> QED
          BY <4>2, <4>3
      <3> QED
        BY <2>2, <3>1, <3>2 DEF ApplyExpireLocal
    <2>3. CASE ApplyScheduled(t)
      <3>1. CASE t.saw = "pending"
        BY <2>0, <2>3, <3>1 DEF ApplyScheduled, Rows, Row, Closed, orderVars, stockVars
      <3>2. CASE t.saw # "pending"
        BY <2>0, <2>1, <2>3, <3>2, TransitionRow DEF ApplyScheduled, Answers
      <3> QED
        BY <3>1, <3>2
    <2>4. CASE ApplyExpirePaid(t)
      BY <2>0, <2>4, TransitionRow DEF ApplyExpirePaid
    <2>5. CASE ApplyOnRead(t)
      <3>1. CASE t.saw = "pending"
        BY <2>0, <2>5, <3>1 DEF ApplyOnRead, Rows, Row, Closed, TypeOK, orderVars, stockVars
      <3>2. CASE t.saw # "pending"
        BY <2>0, <2>1, <2>5, <3>2, TransitionRow DEF ApplyOnRead, Answers
      <3> QED
        BY <3>1, <3>2
    <2>6. CASE ApplyManual(t)
      <3>1. CASE t.saw \in Facts
        BY <2>0, <2>6, <3>1, TransitionRow DEF ApplyManual, Facts
      <3>2. CASE t.saw \notin Facts
        <4>1. t.saw \in {"pending", "canceled"}
          BY <2>1, <2>6, <3>2 DEF ApplyManual, Answers, Facts
        <4>2. /\ paymentStatus' = [paymentStatus EXCEPT ![o] = t.saw]
              /\ blind' = [blind EXCEPT ![o] =
                              @ \/ ~canApplyProviderTerminalStatus(o) \/ t.saw = "canceled"]
              /\ UNCHANGED <<orderVars, stockVars, command, unsure>>
          BY <2>6, <3>2 DEF ApplyManual
        <4>3. /\ blind'[o] <=> blind[o] \/ ~canApplyProviderTerminalStatus(o) \/ t.saw = "canceled"
              /\ q # o => (blind'[q] <=> blind[q])
          <5>1. \E b \in BOOLEAN : /\ b <=> ~canApplyProviderTerminalStatus(o) \/ t.saw = "canceled"
                                   /\ blind' = [blind EXCEPT ![o] = blind[o] \/ b]
            BY <4>2 DEF canApplyProviderTerminalStatus
          <5> QED
            BY <2>0, <5>1, FlagUpdate DEF TypeOK
        <4>4. CASE q # o
          BY <2>0, <4>2, <4>3, <4>4, RowFrame DEF TypeOK, orderVars, stockVars
        <4>5. CASE q = o
          BY <2>0, <4>1, <4>2, <4>3, <4>5 DEF Rows, Row, Closed, TypeOK, orderVars, stockVars,
               canApplyProviderTerminalStatus, ProviderMutable
        <4> QED
          BY <4>4, <4>5
      <3> QED
        BY <3>1, <3>2
    <2>7. CASE ApplyCancel(t)
      <3>1. CASE UNCHANGED <<paymentStatus, orderVars, stockVars, command, blind, unsure>>
        BY <2>0, <3>1, RowFrame DEF orderVars, stockVars
      <3>2. CASE /\ paymentStatus' = [paymentStatus EXCEPT ![o] = "canceled"]
                 /\ SetOrder(o, "canceled", "canceled", "canceled")
                 /\ paymentStatus[o] \in {"created", "pending", "processing"}
                 /\ releaseActiveReservationsForOrder(o)
                 /\ unsure' = [unsure EXCEPT ![o] = @ \/ t.saw # "canceled"]
                 /\ UNCHANGED <<command, blind>>
        <4>1. /\ unsure'[o] <=> unsure[o] \/ t.saw # "canceled"
              /\ q # o => (unsure'[q] <=> unsure[q])
          <5>1. \E b \in BOOLEAN : /\ b <=> t.saw # "canceled"
                                   /\ unsure' = [unsure EXCEPT ![o] = unsure[o] \/ b]
            BY <3>2
          <5> QED
            BY <2>0, <5>1, FlagUpdate DEF TypeOK
        <4>2. CASE q # o
          BY <2>0, <3>2, <4>1, <4>2, RowFrame DEF TypeOK, releaseActiveReservationsForOrder, stockVars
        <4>3. CASE q = o
          BY <2>0, <3>2, <4>1, <4>3 DEF Rows, Row, Closed, TypeOK, stockVars,
             releaseActiveReservationsForOrder
        <4> QED
          BY <4>2, <4>3
      <3> QED
        BY <2>7, <3>1, <3>2 DEF ApplyCancel
    <2>8. CASE ApplyClose(t)
      <3>1. /\ blind'[o] <=> blind[o] \/ ~canApplyProviderTerminalStatus(o)
            /\ q # o => (blind'[q] <=> blind[q])
        <4>1. \E b \in BOOLEAN : /\ b <=> ~canApplyProviderTerminalStatus(o)
                                 /\ blind' = [blind EXCEPT ![o] = blind[o] \/ b]
          BY <2>8 DEF ApplyClose, canApplyProviderTerminalStatus
        <4> QED
          BY <2>0, <4>1, FlagUpdate DEF TypeOK
      <3>2. UNCHANGED <<command, unsure>>
        BY <2>8 DEF ApplyClose
      <3>3. CASE markPaymentClosedAfterProviderAction(o) /\ t.saw = "canceled"
        <4>1. CASE q # o
          BY <2>0, <3>1, <3>2, <3>3, <4>1, RowFrame DEF markPaymentClosedAfterProviderAction,
             releaseActiveReservationsForOrder, TypeOK, stockVars
        <4>2. CASE q = o
          BY <2>0, <3>1, <3>2, <3>3, <4>2 DEF markPaymentClosedAfterProviderAction,
             releaseActiveReservationsForOrder, Rows, Row, Closed, TypeOK, stockVars,
             canApplyProviderTerminalStatus, ProviderMutable
        <4> QED
          BY <4>1, <4>2
      <3>4. CASE markPaymentUnknownAfterProviderAction(o)
        <4>1. CASE q # o
          BY <2>0, <3>1, <3>2, <3>4, <4>1, RowFrame DEF markPaymentUnknownAfterProviderAction,
             TypeOK, stockVars
        <4>2. CASE q = o
          BY <2>0, <3>1, <3>2, <3>4, <4>2 DEF markPaymentUnknownAfterProviderAction,
             Rows, Row, Closed, TypeOK, stockVars, canApplyProviderTerminalStatus, ProviderMutable
        <4> QED
          BY <4>1, <4>2
      <3> QED
        BY <2>8, <3>3, <3>4 DEF ApplyClose
    <2> QED
      BY <1>11, <2>2, <2>3, <2>4, <2>5, <2>6, <2>7, <2>8 DEF Apply
  <1>12. ASSUME NEW t \in tasks, Crash(t)
         PROVE  Row(q)'
    BY <1>12 DEF Rows, Row, Closed, Crash, orderVars, stockVars
  <1>13. ASSUME NEW t \in tasks, ExpireAtProvider(t)
         PROVE  Row(q)'
    <2>1. t.order \in Orders /\ paymentStatus[t.order] # "none"
      BY DEF TypeOK, Tasks, Evidence
    <2> QED
      BY <1>7, <1>13, <2>1 DEF ExpireAtProvider
  <1>14. CASE releaseExpiredInventoryReservations
    BY <1>14 DEF Rows, Row, Closed, TypeOK, releaseExpiredInventoryReservations, orderVars
  <1>15. CASE UNCHANGED vars
    BY <1>15 DEF Rows, Row, Closed, vars, orderVars, stockVars
  <1> QED
    BY <1>1, <1>2, <1>3, <1>4, <1>5, <1>6, <1>8, <1>9, <1>10, <1>11, <1>12, <1>13, <1>14, <1>15
    DEF Next, OrderStep

-----------------------------------------------------------------------------
(* The inductive invariant: the types, the stock's accounting, the evidence *)
(* handlers hold and what the rows explain.  The accounting is what keeps   *)
(* reserved_qty a natural number when stock is released; the evidence is    *)
(* what lets a handler write what it learned before others moved the row.   *)
IndInv == TypeOK /\ StockAccounting /\ Evidence /\ Rows

(* It holds of an empty database.                                           *)
LEMMA InitInv == Init => IndInv
  <1> SUFFICES ASSUME Init PROVE IndInv
    OBVIOUS
  <1>1. TypeOK
    BY DEF Init, TypeOK, Trades
  <1>2. StockAccounting
    <2>1. Active = {}
      BY DEF Init, Active
    <2> QED
      BY <2>1, FS_EmptySet, SettlementAssumption DEF Init, StockAccounting
  <1>3. Evidence /\ Rows
    BY DEF Init, Evidence, Rows, Row, Closed, Captured
  <1> QED
    BY <1>1, <1>2, <1>3 DEF IndInv

(* Every step of every handler preserves it.                                *)
LEMMA InvStep == IndInv /\ [Next]_vars => IndInv'
  BY RowsAre, TypeStep, EvidenceStep, RowStep DEF IndInv

(* It therefore holds in every reachable state.                             *)
THEOREM IndInvHolds == Spec => []IndInv
  BY InitInv, InvStep, PTL DEF Spec

(* Whatever handlers run, in whatever order, however many orders there are: *)
(* every row keeps its type.                                                *)
THEOREM TypeCorrect == Spec => []TypeOK
  <1>1. IndInv => TypeOK
    BY DEF IndInv
  <1> QED
    BY <1>1, IndInvHolds, PTL

(* The slot is never oversold and reserved_qty is never wrong, for every    *)
(* stock and every number of competing orders.                              *)
THEOREM StockIsAccounted == Spec => []StockAccounting
  <1>1. IndInv => StockAccounting
    BY DEF IndInv
  <1> QED
    BY <1>1, IndInvHolds, PTL

(* The invariant that makes the handlers' late writes safe.                 *)
THEOREM LateWritesAreBacked == Spec => []SettlementInv
  <1>1. IndInv => SettlementInv
    BY RowsAre DEF IndInv, SettlementInv
  <1> QED
    BY <1>1, IndInvHolds, PTL

(* No machine is told to dispense an order whose trade was not captured.    *)
THEOREM DispenseNeedsPayment == Spec => []CommandNeedsCapture
  <1>1. IndInv => CommandNeedsCapture
    BY RowsAre DEF IndInv
  <1> QED
    BY <1>1, IndInvHolds, PTL

(* A paid order always has its dispatch command.                            *)
THEOREM PaymentIsCommanded == Spec => []PaidHasCommand
  <1>1. IndInv => PaidHasCommand
    BY RowsAre DEF IndInv
  <1> QED
    BY <1>1, IndInvHolds, PTL

(* A closed order was not dispatched and holds no stock.                    *)
THEOREM CloseExcludesDispatch == Spec => []ClosedIsNotDispatched
  <1>1. IndInv => ClosedIsNotDispatched
    BY DEF IndInv, TypeOK, Rows, Row, ClosedIsNotDispatched, Closed
  <1> QED
    BY <1>1, IndInvHolds, PTL

(* No money stays captured on an order closed with definite answers.        *)
THEOREM MoneyIsNotStranded == Spec => []NoStrandedMoney
  <1>1. IndInv => NoStrandedMoney
    BY DEF IndInv, TypeOK, Rows, Row, NoStrandedMoney, Dead
  <1> QED
    BY <1>1, IndInvHolds, PTL

-----------------------------------------------------------------------------
(* The projections of the pairs of states that handlers write.              *)
LEMMA ProjectionValues ==
    /\ projectOrderStatus("awaiting_payment", "awaiting_fulfillment") = "pending_payment"
    /\ projectOrderStatus("payment_failed", "canceled") = "canceled"
    /\ projectOrderStatus("canceled", "canceled") = "canceled"
    /\ projectOrderStatus("payment_expired", "canceled") = "payment_expired"
    /\ projectOrderStatus("payment_unknown", "manual_handling") = "manual_handling"
    /\ projectOrderStatus("manual_handling", "manual_handling") = "manual_handling"
  BY DEF projectOrderStatus

(* An order's status after a write that leaves it alone or projects it.     *)
LEMMA ProjectionFrame ==
    ASSUME TypeOK, StatusIsProjection, NEW o \in Orders,
           \A q \in Orders : paymentStatus'[q] # "none" => paymentStatus[q] # "none" \/ q = o,
           \/ UNCHANGED orderVars /\ paymentStatus[o] # "none"
           \/ \E s, p, f : SetOrder(o, s, p, f) /\ s = projectOrderStatus(p, f)
    PROVE  StatusIsProjection'
  <1> SUFFICES ASSUME NEW q \in Orders, paymentStatus'[q] # "none"
               PROVE  orderStatus'[q] = projectOrderStatus(paymentState'[q], fulfillmentState'[q])
    BY DEF StatusIsProjection
  <1>1. CASE UNCHANGED orderVars /\ paymentStatus[o] # "none"
    BY <1>1 DEF StatusIsProjection, orderVars
  <1>2. CASE \E s, p, f : SetOrder(o, s, p, f) /\ s = projectOrderStatus(p, f)
    <2>1. PICK s, p, f : SetOrder(o, s, p, f) /\ s = projectOrderStatus(p, f)
      BY <1>2
    <2>2. CASE q = o
      BY <2>1, <2>2 DEF SetOrder, TypeOK
    <2>3. CASE q # o
      <3>1. /\ orderStatus'[q] = orderStatus[q] /\ paymentState'[q] = paymentState[q]
            /\ fulfillmentState'[q] = fulfillmentState[q] /\ paymentStatus[q] # "none"
        BY <2>1, <2>3 DEF SetOrder, TypeOK
      <3> QED
        BY <3>1 DEF StatusIsProjection
    <2> QED
      BY <2>2, <2>3
  <1> QED
    BY <1>1, <1>2

(* Every step of every handler leaves orders.status a projection.           *)
LEMMA ProjectionStep ==
    ASSUME TypeOK, Evidence, Rows, StatusIsProjection, [Next]_vars
    PROVE  StatusIsProjection'
  <1> USE DEF dbVars, SetPayment
  <1>0. ASSUME UNCHANGED <<paymentStatus, orderVars>>
        PROVE  StatusIsProjection'
    BY <1>0 DEF StatusIsProjection, orderVars
  <1>1. ASSUME NEW o \in Orders, NEW v, paymentStatus' = [paymentStatus EXCEPT ![o] = v],
               \/ UNCHANGED orderVars /\ paymentStatus[o] # "none"
               \/ \E s, p, f : SetOrder(o, s, p, f) /\ s = projectOrderStatus(p, f)
        PROVE  StatusIsProjection'
    <2>1. \A q \in Orders : paymentStatus'[q] # "none" => paymentStatus[q] # "none" \/ q = o
      BY <1>1 DEF TypeOK
    <2> QED
      BY <1>1, <2>1, ProjectionFrame
  <1>2. ASSUME NEW o \in Orders, NEW s, NEW b, transitionProviderPaymentTerminal(o, s, b),
               paymentStatus[o] # "none"
        PROVE  StatusIsProjection'
    BY <1>0, <1>1, <1>2, ProjectionValues DEF transitionProviderPaymentTerminal
  <1>3. ASSUME NEW o \in Orders, OrderStep(o)
        PROVE  StatusIsProjection'
    <2>1. CASE createLocalMachineOrderDraft(o)
      BY <1>1, <2>1, ProjectionValues DEF createLocalMachineOrderDraft
    <2>2. CASE PersistIntent(o) \/ markPaymentCreationUncertain(o)
      BY <1>1, <2>2 DEF PersistIntent, markPaymentCreationUncertain
    <2>3. CASE cancelLocalCreatedPayment(o)
      BY <1>1, <2>3, ProjectionValues DEF cancelLocalCreatedPayment
    <2>4. ASSUME NEW fact \in Facts, handlePaymentWebhook(o, fact)
          PROVE  StatusIsProjection'
      <3>1. paymentStatus[o] # "none"
        BY <2>4 DEF handlePaymentWebhook, Notified, Rows, Row
      <3> QED
        BY <1>0, <1>2, <2>4, <3>1 DEF handlePaymentWebhook
    <2>5. CASE markPaymentManualHandling(o)
      BY <1>1, <2>5, ProjectionValues DEF markPaymentManualHandling
    <2>6. CASE UNCHANGED <<paymentStatus, orderVars>>
      BY <1>0, <2>6
    <2> QED
      BY <1>3, <2>1, <2>2, <2>3, <2>4, <2>5, <2>6
      DEF OrderStep, TradeOpens, TradeSettles, Tick, BeginQuery, BeginExpire, BeginCancel,
          BeginClose, dispatchPendingCommands
  <1>4. ASSUME NEW t \in tasks, Apply(t)
        PROVE  StatusIsProjection'
    <2>0. t.order \in Orders /\ paymentStatus[t.order] # "none"
      BY DEF TypeOK, Tasks, Evidence
    <2>1. CASE ApplyExpireLocal(t)
      BY <1>0, <1>1, <2>0, <2>1, ProjectionValues DEF ApplyExpireLocal
    <2>2. CASE ApplyScheduled(t) \/ ApplyExpirePaid(t)
      BY <1>0, <1>2, <2>0, <2>2 DEF ApplyScheduled, ApplyExpirePaid
    <2>3. CASE ApplyOnRead(t)
      BY <1>0, <1>1, <1>2, <2>0, <2>3 DEF ApplyOnRead
    <2>4. CASE ApplyManual(t)
      BY <1>1, <1>2, <2>0, <2>4 DEF ApplyManual
    <2>5. CASE ApplyCancel(t)
      BY <1>0, <1>1, <2>0, <2>5, ProjectionValues DEF ApplyCancel
    <2>6. CASE ApplyClose(t)
      BY <1>1, <2>0, <2>6, ProjectionValues DEF ApplyClose,
           markPaymentClosedAfterProviderAction, markPaymentUnknownAfterProviderAction
    <2> QED
      BY <1>4, <2>1, <2>2, <2>3, <2>4, <2>5, <2>6 DEF Apply
  <1>5. ASSUME NEW t \in tasks, Crash(t) \/ ExpireAtProvider(t)
        PROVE  StatusIsProjection'
    BY <1>0, <1>5 DEF Crash, ExpireAtProvider
  <1>6. CASE releaseExpiredInventoryReservations \/ UNCHANGED vars
    BY <1>0, <1>6 DEF releaseExpiredInventoryReservations, vars
  <1> QED
    BY <1>3, <1>4, <1>5, <1>6 DEF Next

(* orders.status always is the projection of the order's two state axes,    *)
(* although every handler writes the three columns on its own.              *)
THEOREM StatusAlwaysProjected == Spec => []StatusIsProjection
  <1>1. Init => StatusIsProjection
    BY DEF Init, StatusIsProjection
  <1>2. IndInv /\ StatusIsProjection /\ [Next]_vars => StatusIsProjection'
    BY ProjectionStep DEF IndInv
  <1> QED
    BY <1>1, <1>2, IndInvHolds, PTL DEF Spec

-----------------------------------------------------------------------------
(* A step that moves a settled payment is one of the operator's unguarded   *)
(* writes, and leaves the order's blind flag behind.                        *)
LEMMA SettledStep ==
    ASSUME TypeOK, Rows, [Next]_vars, NEW q \in Orders,
           paymentStatus[q] \in Settled, ~blind'[q]
    PROVE  paymentStatus'[q] = paymentStatus[q]
  <1> DEFINE Kept == paymentStatus'[q] = paymentStatus[q]
  <1> USE DEF dbVars, SetPayment, Settled
  <1>1. ASSUME NEW o \in Orders, NEW s, NEW b, transitionProviderPaymentTerminal(o, s, b)
        PROVE  Kept
    BY <1>1 DEF transitionProviderPaymentTerminal, CanTransition, canApplyProviderTerminalStatus,
         ProviderMutable, TypeOK
  <1>2. ASSUME NEW o \in Orders, OrderStep(o)
        PROVE  Kept
    <2>1. CASE createLocalMachineOrderDraft(o) \/ PersistIntent(o)
                 \/ markPaymentCreationUncertain(o) \/ cancelLocalCreatedPayment(o)
      BY <2>1 DEF createLocalMachineOrderDraft, PersistIntent, markPaymentCreationUncertain,
           cancelLocalCreatedPayment, TypeOK
    <2>2. ASSUME NEW fact \in Facts, handlePaymentWebhook(o, fact)
          PROVE  Kept
      BY <1>1, <2>2 DEF handlePaymentWebhook
    <2>3. CASE markPaymentManualHandling(o)
      <3>1. blind'[o] <=> blind[o] \/ ~canApplyProviderTerminalStatus(o)
        BY <2>3, FlagUpdate DEF markPaymentManualHandling, TypeOK, canApplyProviderTerminalStatus
      <3> QED
        BY <2>3, <3>1 DEF markPaymentManualHandling, canApplyProviderTerminalStatus,
             ProviderMutable, TypeOK
    <2>4. CASE UNCHANGED paymentStatus
      BY <2>4
    <2> QED
      BY <1>2, <2>1, <2>2, <2>3, <2>4
      DEF OrderStep, TradeOpens, TradeSettles, Tick, BeginQuery, BeginExpire, BeginCancel,
          BeginClose, dispatchPendingCommands
  <1>3. ASSUME NEW t \in tasks, Apply(t)
        PROVE  Kept
    <2>0. t.order \in Orders
      BY DEF TypeOK, Tasks
    <2>1. CASE ApplyExpireLocal(t)
      <3>1. \/ paymentStatus' = paymentStatus
            \/ /\ paymentStatus' = [paymentStatus EXCEPT ![t.order] = "expired"]
               /\ canApplyProviderTerminalStatus(t.order)
        BY <2>1 DEF ApplyExpireLocal
      <3> QED
        BY <2>0, <3>1 DEF canApplyProviderTerminalStatus, ProviderMutable, TypeOK
    <2>2. CASE ApplyScheduled(t) \/ ApplyExpirePaid(t)
      BY <1>1, <2>0, <2>2 DEF ApplyScheduled, ApplyExpirePaid
    <2>3. CASE ApplyOnRead(t)
      <3>1. CASE \E v : transitionProviderPaymentTerminal(t.order, v, FALSE)
        BY <1>1, <2>0, <2>3, <3>1 DEF ApplyOnRead
      <3>2. CASE \/ paymentStatus' = paymentStatus
                 \/ /\ paymentStatus[t.order] \in {"pending", "processing", "unknown"}
                    /\ paymentStatus' = [paymentStatus EXCEPT ![t.order] = "pending"]
        BY <2>0, <2>3, <3>2 DEF ApplyOnRead, TypeOK
      <3> QED
        BY <2>3, <3>1, <3>2 DEF ApplyOnRead
    <2>4. CASE ApplyManual(t)
      <3>1. CASE t.saw \in Facts
        BY <1>1, <2>0, <2>4, <3>1 DEF ApplyManual
      <3>2. CASE t.saw \notin Facts
        <4>1. \E b \in BOOLEAN :
                /\ b <=> ~canApplyProviderTerminalStatus(t.order) \/ t.saw = "canceled"
                /\ blind' = [blind EXCEPT ![t.order] = blind[t.order] \/ b]
          BY <2>4, <3>2 DEF ApplyManual, canApplyProviderTerminalStatus
        <4>2. ~canApplyProviderTerminalStatus(t.order) => blind'[t.order]
          BY <2>0, <4>1, FlagUpdate DEF TypeOK
        <4> QED
          BY <2>0, <2>4, <3>2, <4>2 DEF ApplyManual, TypeOK, canApplyProviderTerminalStatus,
               ProviderMutable
      <3> QED
        BY <3>1, <3>2
    <2>5. CASE ApplyCancel(t)
      BY <2>0, <2>5 DEF ApplyCancel, TypeOK
    <2>6. CASE ApplyClose(t)
      <3>1. blind'[t.order] <=> blind[t.order] \/ ~canApplyProviderTerminalStatus(t.order)
        <4>1. \E b \in BOOLEAN :
                /\ b <=> ~canApplyProviderTerminalStatus(t.order)
                /\ blind' = [blind EXCEPT ![t.order] = blind[t.order] \/ b]
          BY <2>6 DEF ApplyClose, canApplyProviderTerminalStatus
        <4> QED
          BY <2>0, <4>1, FlagUpdate DEF TypeOK
      <3> QED
        <4>1. CASE q = t.order
          BY <3>1, <4>1 DEF canApplyProviderTerminalStatus, ProviderMutable
        <4>2. CASE q # t.order
          BY <2>0, <2>6, <4>2 DEF ApplyClose, TypeOK, markPaymentClosedAfterProviderAction,
               markPaymentUnknownAfterProviderAction
        <4> QED
          BY <4>1, <4>2
    <2> QED
      BY <1>3, <2>1, <2>2, <2>3, <2>4, <2>5, <2>6 DEF Apply
  <1>4. ASSUME NEW t \in tasks, Crash(t) \/ ExpireAtProvider(t)
        PROVE  Kept
    BY <1>4 DEF Crash, ExpireAtProvider
  <1>5. CASE releaseExpiredInventoryReservations \/ UNCHANGED vars
    BY <1>5 DEF releaseExpiredInventoryReservations, vars
  <1> QED
    BY <1>2, <1>3, <1>4, <1>5 DEF Next

(* A settled payment is settled for good: late, duplicate and contradicting *)
(* provider answers are stale, for every number of handlers in flight.      *)
THEOREM PaymentSettlesOnce == Spec => SettledOnce
  <1>1. IndInv /\ [Next]_vars =>
          [\A o \in Orders : paymentStatus[o] \in Settled /\ ~blind'[o]
                => paymentStatus'[o] = paymentStatus[o]]_vars
    BY SettledStep DEF IndInv
  <1> QED
    BY <1>1, IndInvHolds, PTL DEF Spec, SettledOnce


-----------------------------------------------------------------------------
(* What the payment contract sees of an order, and which of its moves it    *)
(* allows.                                                                  *)
Still(o) ==
    /\ PaymentStage(o)' = PaymentStage(o)
    /\ PaymentMoney(o)' = PaymentMoney(o)
    /\ InDoubt(o)' <=> InDoubt(o)

MoneyMoves(o) ==
    LET stage == PaymentStage(o)
        old   == PaymentMoney(o)
        new   == PaymentMoney(o)'
        may   == stage = "open" \/ (stage = "closed" /\ InDoubt(o))
    IN  /\ PaymentStage(o)' = stage
        /\ InDoubt(o)' <=> InDoubt(o)
        /\ \/ may /\ old \in {"none", "returned"} /\ new = "offered"
           \/ may /\ old = "offered" /\ new = "taken"
           \/ old = "offered" /\ new = "none"
           \/ new = "returned"

StageMoves(o) ==
    LET old   == PaymentStage(o)
        new   == PaymentStage(o)'
        money == PaymentMoney(o)
    IN  /\ PaymentMoney(o)' = money
        /\ \/ /\ InDoubt(o)' <=> InDoubt(o)
              /\ old = "open"
              /\ \/ new = "paid" /\ money \in {"taken", "returned"}
                 \/ new = "closed" /\ money \in {"none", "returned"}
           \/ InDoubt(o)' /\ (new = "paid" <=> old = "paid")

Moves(o) == Still(o) \/ MoneyMoves(o) \/ StageMoves(o)

(* A function of the orders in which one order's value changed.             *)
LEMMA OneChanged ==
    ASSUME NEW f, NEW g, f = [q \in Orders |-> f[q]], g = [q \in Orders |-> g[q]],
           NEW o \in Orders, NEW v, g[o] = v, \A q \in Orders : q # o => g[q] = f[q]
    PROVE  g = [f EXCEPT ![o] = v]
  <1> DEFINE e == [f EXCEPT ![o] = v]
  <1>1. e = [q \in Orders |-> e[q]] /\ \A q \in Orders : e[q] = g[q]
    OBVIOUS
  <1> HIDE DEF e
  <1>2. g = e
    BY <1>1
  <1> QED
    BY <1>2 DEF e

(* A step that the contract does not see.                                   *)
LEMMA ContractStutter ==
    ASSUME \A q \in Orders : Still(q)
    PROVE  UNCHANGED Contract!vars
  <1>1. \A q \in Orders : /\ PaymentStage(q)' = PaymentStage(q)
                          /\ PaymentMoney(q)' = PaymentMoney(q)
                          /\ InDoubt(q)' = InDoubt(q)
    BY DEF Still, InDoubt
  <1> QED
    BY <1>1 DEF Contract!vars

(* A step of one order is a step of the contract, or none.                  *)
LEMMA ContractLift ==
    ASSUME NEW o \in Orders, Moves(o), \A q \in Orders : q # o => Still(q)
    PROVE  Contract!Next \/ UNCHANGED Contract!vars
  <1> DEFINE stage == [q \in Orders |-> PaymentStage(q)]
             money == [q \in Orders |-> PaymentMoney(q)]
             doubt == [q \in Orders |-> InDoubt(q)]
  <1>1. CASE Still(o)
    BY <1>1, ContractStutter
  <1>2. CASE MoneyMoves(o)
    <2>1. stage' = stage
      <3>1. \A q \in Orders : PaymentStage(q)' = PaymentStage(q)
        BY <1>2 DEF Still, MoneyMoves
      <3> QED
        BY <3>1
    <2>2. doubt' = doubt
      <3>1. \A q \in Orders : InDoubt(q)' = InDoubt(q)
        BY <1>2 DEF Still, MoneyMoves, InDoubt
      <3> QED
        BY <3>1
    <2>3. money' = [money EXCEPT ![o] = PaymentMoney(o)']
      <3>1. money'[o] = PaymentMoney(o)' /\ \A q \in Orders : q # o => money'[q] = money[q]
        BY DEF Still
      <3> HIDE DEF stage, doubt
      <3> QED
        BY <3>1, OneChanged
    <2>4. /\ stage[o] = PaymentStage(o) /\ money[o] = PaymentMoney(o)
          /\ doubt[o] <=> InDoubt(o)
      OBVIOUS
    <2>5. Contract!MoneyGoes(o, PaymentMoney(o)')
      BY <2>1, <2>2, <2>3 DEF Contract!MoneyGoes
    <2>6. \/ Contract!Offer(o) \/ Contract!Take(o)
          \/ Contract!Withdraw(o) \/ Contract!Return(o)
      BY <1>2, <2>4, <2>5 DEF MoneyMoves, Contract!Offer, Contract!Take, Contract!Withdraw,
         Contract!Return, Contract!MayTake
    <2> QED
      BY <2>6 DEF Contract!Next
  <1>3. CASE StageMoves(o)
    <2>1. money' = money
      <3>1. \A q \in Orders : PaymentMoney(q)' = PaymentMoney(q)
        BY <1>3 DEF Still, StageMoves
      <3> QED
        BY <3>1
    <2>2. stage' = [stage EXCEPT ![o] = PaymentStage(o)']
      <3>1. stage'[o] = PaymentStage(o)' /\ \A q \in Orders : q # o => stage'[q] = stage[q]
        BY DEF Still
      <3> HIDE DEF money, doubt
      <3> QED
        BY <3>1, OneChanged
    <2>3. /\ stage[o] = PaymentStage(o) /\ money[o] = PaymentMoney(o)
          /\ doubt[o] <=> InDoubt(o)
      OBVIOUS
    <2>4. CASE /\ InDoubt(o)' <=> InDoubt(o)
               /\ PaymentStage(o) = "open"
               /\ \/ PaymentStage(o)' = "paid" /\ PaymentMoney(o) \in {"taken", "returned"}
                  \/ PaymentStage(o)' = "closed" /\ PaymentMoney(o) \in {"none", "returned"}
      <3>1. doubt' = doubt
        <4>1. \A q \in Orders : InDoubt(q)' = InDoubt(q)
          BY <2>4 DEF Still, InDoubt
        <4> QED
          BY <4>1
      <3>2. Contract!StageGoes(o, PaymentStage(o)')
        BY <2>1, <2>2, <3>1 DEF Contract!StageGoes
      <3>3. Contract!Pay(o) \/ Contract!Close(o)
        BY <2>3, <2>4, <3>2 DEF Contract!Pay, Contract!Close
      <3> QED
        BY <3>3 DEF Contract!Next
    <2>5. CASE InDoubt(o)' /\ (PaymentStage(o)' = "paid" <=> PaymentStage(o) = "paid")
      <3>1. doubt' = [doubt EXCEPT ![o] = TRUE]
        <4>1. doubt'[o] = TRUE /\ \A q \in Orders : q # o => doubt'[q] = doubt[q]
          BY <2>5 DEF Still, InDoubt
        <4> HIDE DEF stage, money
        <4> QED
          BY <4>1, OneChanged
      <3>2. PaymentStage(o)' \in {"open", "paid", "closed"}
        BY DEF PaymentStage
      <3>3. Contract!Overrule(o, PaymentStage(o)')
        BY <2>1, <2>2, <2>3, <2>5, <3>1 DEF Contract!Overrule
      <3> QED
        BY <3>2, <3>3 DEF Contract!Next
    <2> QED
      BY <1>3, <2>4, <2>5 DEF StageMoves
  <1> QED
    BY <1>1, <1>2, <1>3 DEF Moves

(* The refinement starts where the contract does.                           *)
LEMMA ContractInit == Init => Contract!Init
  <1> SUFFICES ASSUME Init PROVE Contract!Init
    OBVIOUS
  <1>1. \A o \in Orders : /\ PaymentStage(o) = "open" /\ PaymentMoney(o) = "none"
                          /\ InDoubt(o) = FALSE
    BY DEF Init, PaymentStage, PaymentMoney, InDoubt
  <1> QED
    BY <1>1 DEF Contract!Init

(* What the contract does not see of an order.                              *)
LEMMA StillFrame ==
    ASSUME NEW q \in Orders,
           paymentStatus'[q] = paymentStatus[q], trade'[q] = trade[q],
           command'[q] = "none" <=> command[q] = "none",
           paymentUrl'[q] <=> paymentUrl[q], blind'[q] <=> blind[q], unsure'[q] <=> unsure[q]
    PROVE  Still(q)
  BY DEF Still, PaymentStage, PaymentMoney, InDoubt

(* Nothing is left to pay on a dead trade.                                  *)
LEMMA DeadMoney ==
    \A o \in Orders : trade[o] \in Dead => PaymentMoney(o) \in {"none", "returned"}
  BY DEF PaymentMoney, Dead

(* A write of the payment's status is a move of the contract: it leaves     *)
(* doubt behind, or it closes an open payment that holds no money.          *)
LEMMA StatusMoves ==
    ASSUME NEW o \in Orders, command'[o] = command[o], trade'[o] = trade[o],
           paymentUrl'[o] <=> paymentUrl[o], InDoubt(o) => InDoubt(o)',
           \/ InDoubt(o)'
           \/ /\ paymentStatus[o] \notin {"failed", "canceled", "expired"}
              /\ paymentStatus'[o] \in {"failed", "canceled", "expired"} =>
                    PaymentMoney(o) \in {"none", "returned"}
    PROVE  Moves(o)
  <1>1. PaymentMoney(o)' = PaymentMoney(o)
    BY DEF PaymentMoney
  <1>2. PaymentStage(o)' = "paid" <=> PaymentStage(o) = "paid"
    BY DEF PaymentStage
  <1>3. CASE InDoubt(o)'
    BY <1>1, <1>2, <1>3 DEF Moves, StageMoves
  <1>4. CASE ~InDoubt(o)'
    BY <1>1, <1>2, <1>4 DEF Moves, StageMoves, Still, PaymentStage
  <1> QED
    BY <1>3, <1>4

(* What the rows say of an order whose payment can still be offered: it is  *)
(* not paid, and it was not closed, or was in doubt.                        *)
LEMMA OpenMayTake ==
    ASSUME Rows, NEW o \in Orders,
           \/ trade[o] = "waiting" /\ paymentUrl[o]
           \/ paymentStatus[o] \in {"created", "processing"} /\ trade[o] \notin Captured
    PROVE  PaymentStage(o) = "open" \/ (PaymentStage(o) = "closed" /\ InDoubt(o))
  BY DEF Rows, Row, PaymentStage, InDoubt, Dead, Captured

(* The shared terminal transaction.                                         *)
LEMMA TransitionMoves ==
    ASSUME TypeOK, Rows, NEW o \in Orders, NEW s, NEW b,
           transitionProviderPaymentTerminal(o, s, b),
           s = "succeeded" => trade[o] \in Captured,
           s = "failed" => trade[o] \in Dead,
           UNCHANGED <<paymentUrl, trade, blind, unsure>>
    PROVE  Contract!Next \/ UNCHANGED Contract!vars
  <1>1. CASE UNCHANGED <<paymentStatus, command>>
    <2>1. \A q \in Orders : Still(q)
      BY <1>1, StillFrame
    <2> QED
      BY <2>1, ContractStutter
  <1>2. CASE /\ CanTransition(o, b) /\ s = "succeeded"
             /\ SetPayment(o, "succeeded")
             /\ createPendingDispatchCommands(o)
    <2>1. \A q \in Orders : q # o => Still(q)
      BY <1>2, StillFrame DEF TypeOK, SetPayment, createPendingDispatchCommands
    <2>2. PaymentStage(o)' = "paid" /\ PaymentStage(o) \in {"open", "paid"}
      BY <1>2 DEF TypeOK, PaymentStage, CanTransition, canApplyProviderTerminalStatus,
         ProviderMutable, createPendingDispatchCommands
    <2>3. /\ PaymentMoney(o) \in {"taken", "returned"}
          /\ PaymentMoney(o)' = PaymentMoney(o) /\ (InDoubt(o)' <=> InDoubt(o))
      BY <1>2 DEF PaymentMoney, InDoubt, Captured
    <2>4. Moves(o)
      BY <2>2, <2>3 DEF Moves, StageMoves, Still
    <2> QED
      BY <2>1, <2>4, ContractLift
  <1>3. CASE /\ CanTransition(o, b) /\ s = "failed"
             /\ SetPayment(o, "failed") /\ UNCHANGED command
    <2>1. \A q \in Orders : q # o => Still(q)
      BY <1>3, StillFrame DEF TypeOK, SetPayment
    <2>2. Moves(o)
      <3>1. InDoubt(o) => InDoubt(o)'
        BY DEF InDoubt
      <3>2. paymentStatus[o] \notin {"failed", "canceled", "expired"}
        BY <1>3 DEF CanTransition, canApplyProviderTerminalStatus, ProviderMutable
      <3>3. /\ PaymentMoney(o) \in {"none", "returned"}
            /\ command'[o] = command[o] /\ trade'[o] = trade[o]
            /\ paymentUrl'[o] <=> paymentUrl[o]
        BY <1>3, DeadMoney
      <3> QED
        BY <3>1, <3>2, <3>3, StatusMoves
    <2> QED
      BY <2>1, <2>2, ContractLift
  <1> QED
    BY <1>1, <1>2, <1>3 DEF transitionProviderPaymentTerminal

(* Every step of every handler is a step of the contract, or none.          *)
LEMMA ContractStep ==
    ASSUME TypeOK, Evidence, Rows, [Next]_vars
    PROVE  Contract!Next \/ UNCHANGED Contract!vars
  <1> DEFINE Keeps == Contract!Next \/ UNCHANGED Contract!vars
  <1> USE DEF dbVars, ghostVars, SetPayment
  <1>1. ASSUME UNCHANGED <<paymentStatus, trade, paymentUrl, blind, unsure>>,
               \A q \in Orders : command'[q] = "none" <=> command[q] = "none"
        PROVE  Keeps
    <2>1. \A q \in Orders : Still(q)
      BY <1>1, StillFrame
    <2> QED
      BY <2>1, ContractStutter
  <1>2. ASSUME NEW o \in Orders, TradeOpens(o)
        PROVE  Keeps
    <2>1. \A q \in Orders : Still(q)
      BY <1>2 DEF TradeOpens, TypeOK, Still, PaymentStage, PaymentMoney, InDoubt
    <2> QED
      BY <2>1, ContractStutter
  <1>3. ASSUME NEW o \in Orders, NEW t \in {"paid", "failed", "closed"}, TradeSettles(o, t)
        PROVE  Keeps
    <2>1. \A q \in Orders : q # o => Still(q)
      BY <1>3, StillFrame DEF TradeSettles, TypeOK
    <2>2. /\ PaymentStage(o)' = PaymentStage(o) /\ (InDoubt(o)' <=> InDoubt(o))
          /\ paymentUrl[o] => PaymentStage(o) = "open" \/ (PaymentStage(o) = "closed" /\ InDoubt(o))
      BY <1>3, OpenMayTake DEF TradeSettles, PaymentStage, InDoubt
    <2>3. /\ PaymentMoney(o) = IF paymentUrl[o] THEN "offered" ELSE "none"
          /\ PaymentMoney(o)' = IF t = "paid" THEN "taken" ELSE "none"
          /\ t \in {"paid", "failed"} => paymentUrl[o]
      BY <1>3 DEF TradeSettles, TypeOK, PaymentMoney
    <2>4. Moves(o)
      BY <2>2, <2>3 DEF Moves, MoneyMoves, Still
    <2> QED
      BY <2>1, <2>4, ContractLift
  <1>4. ASSUME NEW o \in Orders, createLocalMachineOrderDraft(o)
        PROVE  Keeps
    <2>1. \A q \in Orders : Still(q)
      BY <1>4 DEF createLocalMachineOrderDraft, TypeOK, Still, PaymentStage, PaymentMoney, InDoubt
    <2> QED
      BY <2>1, ContractStutter
  <1>5. ASSUME NEW o \in Orders, PersistIntent(o)
        PROVE  Keeps
    <2>1. \A q \in Orders : q # o => Still(q)
      BY <1>5, StillFrame DEF PersistIntent, TypeOK
    <2>2. /\ PaymentStage(o)' = PaymentStage(o) /\ (InDoubt(o)' <=> InDoubt(o))
          /\ PaymentStage(o) = "open" \/ (PaymentStage(o) = "closed" /\ InDoubt(o))
      <3>1. trade[o] \notin Captured
        BY <1>5 DEF PersistIntent, Rows, Row, Captured
      <3> QED
        BY <1>5, <3>1, OpenMayTake DEF PersistIntent, TypeOK, PaymentStage, InDoubt
    <2>3. PaymentMoney(o) = "none" /\ PaymentMoney(o)' \in {"none", "offered"}
      BY <1>5 DEF PersistIntent, TypeOK, Trades, PaymentMoney, Rows, Row
    <2>4. Moves(o)
      BY <2>2, <2>3 DEF Moves, MoneyMoves, Still
    <2> QED
      BY <2>1, <2>4, ContractLift
  <1>6. ASSUME NEW o \in Orders, markPaymentCreationUncertain(o) \/ cancelLocalCreatedPayment(o)
        PROVE  Keeps
    <2>1. \A q \in Orders : q # o => Still(q)
      BY <1>6, StillFrame DEF markPaymentCreationUncertain, cancelLocalCreatedPayment, TypeOK
    <2>2. /\ UNCHANGED <<command, trade, paymentUrl, blind, unsure>>
          /\ paymentStatus[o] \notin {"failed", "canceled", "expired"}
          /\ PaymentMoney(o) \in {"none", "returned"}
      BY <1>6 DEF markPaymentCreationUncertain, cancelLocalCreatedPayment, Rows, Row, PaymentMoney
    <2>3. InDoubt(o) => InDoubt(o)'
      BY <2>2 DEF InDoubt
    <2>4. Moves(o)
      BY <2>2, <2>3, StatusMoves
    <2> QED
      BY <2>1, <2>4, ContractLift
  <1>7. ASSUME NEW o \in Orders, NEW fact \in Facts, handlePaymentWebhook(o, fact)
        PROVE  Keeps
    <2>1. CASE UNCHANGED dbVars
      BY <1>1, <1>7, <2>1 DEF handlePaymentWebhook
    <2>2. CASE transitionProviderPaymentTerminal(o, fact, FALSE) /\ UNCHANGED paymentUrl
      <3>1. /\ fact = "succeeded" => trade[o] \in Captured
            /\ fact = "failed" => trade[o] \in Dead
            /\ UNCHANGED <<trade, blind, unsure>>
        BY <1>7 DEF handlePaymentWebhook, Notified, Captured, Dead
      <3> QED
        BY <2>2, <3>1, TransitionMoves
    <2> QED
      BY <1>7, <2>1, <2>2 DEF handlePaymentWebhook
  <1>8. ASSUME NEW o \in Orders, NEW r \in cancelPayment(provider[o], trade[o]),
               trade' = [trade EXCEPT ![o] = r[2]], UNCHANGED <<dbVars, ghostVars>>
        PROVE  Keeps
    <2>1. \A q \in Orders : q # o => Still(q)
      BY <1>8, StillFrame DEF TypeOK
    <2>2. r[2] = trade[o] \/ <<trade[o], r[2]>> \in {<<"waiting", "closed">>, <<"paid", "reversed">>}
      BY DEF TypeOK, Trades, cancelPayment
    <2>3. /\ PaymentStage(o)' = PaymentStage(o) /\ (InDoubt(o)' <=> InDoubt(o))
          /\ trade'[o] = r[2] /\ (paymentUrl'[o] <=> paymentUrl[o])
      BY <1>8 DEF TypeOK, PaymentStage, InDoubt
    <2>4. \/ PaymentMoney(o)' = PaymentMoney(o)
          \/ PaymentMoney(o) = "offered" /\ PaymentMoney(o)' = "none"
          \/ PaymentMoney(o)' = "returned"
      BY <2>2, <2>3 DEF PaymentMoney
    <2>5. Moves(o)
      BY <2>3, <2>4 DEF Moves, MoneyMoves, Still
    <2> QED
      BY <2>1, <2>5, ContractLift
  <1>9. ASSUME NEW o \in Orders, BeginCancel(o) \/ BeginClose(o)
        PROVE  Keeps
    BY <1>8, <1>9 DEF BeginCancel, BeginClose
  <1>10. ASSUME NEW t \in tasks, ExpireAtProvider(t)
         PROVE  Keeps
    <2>1. t.order \in Orders
      BY DEF TypeOK, Tasks
    <2> QED
      BY <1>8, <1>10, <2>1 DEF ExpireAtProvider
  <1>11. ASSUME NEW o \in Orders, markPaymentManualHandling(o)
         PROVE  Keeps
    <2>1. /\ blind'[o] <=> blind[o] \/ ~canApplyProviderTerminalStatus(o)
          /\ \A q \in Orders : q # o => (blind'[q] <=> blind[q])
      BY <1>11, FlagUpdate DEF markPaymentManualHandling, TypeOK, canApplyProviderTerminalStatus
    <2>2. UNCHANGED <<paymentUrl, command, trade, unsure>>
      BY <1>11 DEF markPaymentManualHandling
    <2>3. \A q \in Orders : q # o => Still(q)
      BY <1>11, <2>1, <2>2, StillFrame DEF markPaymentManualHandling, TypeOK
    <2>4. /\ InDoubt(o) => InDoubt(o)'
          /\ ~InDoubt(o)' => paymentStatus[o] \notin {"failed", "canceled", "expired"}
      BY <2>1, <2>2 DEF InDoubt, canApplyProviderTerminalStatus, ProviderMutable
    <2>5. paymentStatus'[o] = "manual_handling"
      BY <1>11 DEF markPaymentManualHandling, TypeOK
    <2>6. Moves(o)
      BY <2>2, <2>4, <2>5, StatusMoves
    <2> QED
      BY <2>3, <2>6, ContractLift
  <1>12. ASSUME NEW t \in tasks, Apply(t)
         PROVE  Keeps
    <2> DEFINE o == t.order
    <2>0. /\ o \in Orders /\ paymentStatus[o] # "none"
          /\ t.saw = "succeeded" => trade[o] \in Captured
          /\ t.saw \in {"failed", "canceled"} => trade[o] \in Dead
          /\ UNCHANGED <<paymentUrl, trade>>
      BY <1>12 DEF TypeOK, Tasks, Evidence, Apply
    <2>1. t.op \in {"scheduled", "onRead", "manual", "expire"} => t.saw \in Answers
      BY DEF TypeOK, Tasks
    <2>2. ASSUME NEW v, paymentStatus' = [paymentStatus EXCEPT ![o] = v], UNCHANGED command,
                 \A q \in Orders : q # o => (blind'[q] <=> blind[q]) /\ (unsure'[q] <=> unsure[q]),
                 InDoubt(o) => InDoubt(o)',
                 \/ InDoubt(o)'
                 \/ /\ paymentStatus[o] \notin {"failed", "canceled", "expired"}
                    /\ v \in {"failed", "canceled", "expired"} => PaymentMoney(o) \in {"none", "returned"}
          PROVE  Keeps
      <3>1. \A q \in Orders : q # o => Still(q)
        BY <2>0, <2>2, StillFrame DEF TypeOK
      <3>2. paymentStatus'[o] = v
        BY <2>0, <2>2 DEF TypeOK
      <3>3. Moves(o)
        <4>1. /\ command'[o] = command[o] /\ trade'[o] = trade[o]
              /\ paymentUrl'[o] <=> paymentUrl[o]
          BY <2>0, <2>2
        <4> QED
          BY <2>0, <2>2, <3>2, <4>1, StatusMoves
      <3> HIDE DEF o
      <3> QED
        BY <2>0, <3>1, <3>3, ContractLift
    <2>3. CASE UNCHANGED <<paymentStatus, command, blind, unsure>>
      BY <1>1, <2>0, <2>3
    <2>4. CASE ApplyExpireLocal(t)
      <3>1. CASE UNCHANGED <<paymentStatus, unsure>>
        BY <2>3, <2>4, <3>1 DEF ApplyExpireLocal
      <3>2. CASE /\ paymentStatus' = [paymentStatus EXCEPT ![o] = "expired"]
                 /\ canApplyProviderTerminalStatus(o)
                 /\ unsure' = [unsure EXCEPT ![o] = @ \/ t.saw = "missing"]
        <4>1. /\ unsure'[o] <=> unsure[o] \/ t.saw = "missing"
              /\ \A q \in Orders : q # o => (unsure'[q] <=> unsure[q])
          <5>1. \E b \in BOOLEAN : /\ b <=> t.saw = "missing"
                                   /\ unsure' = [unsure EXCEPT ![o] = unsure[o] \/ b]
            BY <3>2
          <5> QED
            BY <2>0, <5>1, FlagUpdate DEF TypeOK
        <4>2. t.saw \in {"failed", "canceled", "missing"}
          BY <2>4 DEF ApplyExpireLocal, TypeOK, Tasks
        <4>3. UNCHANGED <<command, blind>>
          BY <2>4 DEF ApplyExpireLocal
        <4>4. /\ InDoubt(o) => InDoubt(o)'
              /\ t.saw = "missing" => InDoubt(o)'
          BY <4>1, <4>3 DEF InDoubt
        <4>5. paymentStatus[o] \notin {"failed", "canceled", "expired"}
          BY <3>2 DEF canApplyProviderTerminalStatus, ProviderMutable
        <4>6. t.saw # "missing" => PaymentMoney(o) \in {"none", "returned"}
          BY <2>0, <4>2, DeadMoney
        <4> QED
          BY <2>2, <3>2, <4>1, <4>3, <4>4, <4>5, <4>6
      <3> QED
        BY <2>4, <3>1, <3>2 DEF ApplyExpireLocal
    <2>5. CASE ApplyScheduled(t)
      <3>1. CASE t.saw = "pending"
        BY <2>3, <2>5, <3>1 DEF ApplyScheduled
      <3>2. CASE t.saw # "pending"
        BY <2>0, <2>1, <2>5, <3>2, TransitionMoves DEF ApplyScheduled, Answers
      <3> QED
        BY <3>1, <3>2
    <2>6. CASE ApplyExpirePaid(t)
      BY <2>0, <2>6, TransitionMoves DEF ApplyExpirePaid
    <2>7. CASE ApplyOnRead(t)
      <3>1. CASE t.saw = "pending"
        <4>1. UNCHANGED <<command, blind, unsure>>
          BY <2>7, <3>1 DEF ApplyOnRead
        <4>2. CASE UNCHANGED paymentStatus
          BY <2>3, <4>1, <4>2
        <4>3. CASE /\ paymentStatus[o] \in {"pending", "processing", "unknown"}
                   /\ paymentStatus' = [paymentStatus EXCEPT ![o] = "pending"]
          <5>1. InDoubt(o) => InDoubt(o)'
            BY <4>1 DEF InDoubt
          <5> QED
            BY <2>2, <4>1, <4>3, <5>1
        <4> QED
          BY <2>7, <3>1, <4>2, <4>3 DEF ApplyOnRead
      <3>2. CASE t.saw # "pending"
        BY <2>0, <2>1, <2>7, <3>2, TransitionMoves DEF ApplyOnRead, Answers
      <3> QED
        BY <3>1, <3>2
    <2>8. CASE ApplyManual(t)
      <3>1. CASE t.saw \in Facts
        BY <2>0, <2>8, <3>1, TransitionMoves DEF ApplyManual, Facts
      <3>2. CASE t.saw \notin Facts
        <4>1. t.saw \in {"pending", "canceled"}
          BY <2>1, <2>8, <3>2 DEF ApplyManual, Answers, Facts
        <4>2. /\ paymentStatus' = [paymentStatus EXCEPT ![o] = t.saw]
              /\ blind' = [blind EXCEPT ![o] =
                              @ \/ ~canApplyProviderTerminalStatus(o) \/ t.saw = "canceled"]
              /\ UNCHANGED <<command, unsure>>
          BY <2>8, <3>2 DEF ApplyManual
        <4>3. /\ blind'[o] <=> blind[o] \/ ~canApplyProviderTerminalStatus(o) \/ t.saw = "canceled"
              /\ \A q \in Orders : q # o => (blind'[q] <=> blind[q])
          <5>1. \E b \in BOOLEAN : /\ b <=> ~canApplyProviderTerminalStatus(o) \/ t.saw = "canceled"
                                   /\ blind' = [blind EXCEPT ![o] = blind[o] \/ b]
            BY <4>2 DEF canApplyProviderTerminalStatus
          <5> QED
            BY <2>0, <5>1, FlagUpdate DEF TypeOK
        <4>4. /\ InDoubt(o) => InDoubt(o)'
              /\ t.saw = "canceled" => InDoubt(o)'
              /\ ~InDoubt(o)' => paymentStatus[o] \notin {"failed", "canceled", "expired"}
          BY <4>2, <4>3 DEF InDoubt, canApplyProviderTerminalStatus, ProviderMutable
        <4> QED
          BY <2>2, <4>1, <4>2, <4>3, <4>4
      <3> QED
        BY <3>1, <3>2
    <2>9. CASE ApplyCancel(t)
      <3>1. CASE UNCHANGED <<paymentStatus, unsure>>
        BY <2>3, <2>9, <3>1 DEF ApplyCancel
      <3>2. CASE /\ paymentStatus' = [paymentStatus EXCEPT ![o] = "canceled"]
                 /\ paymentStatus[o] \in {"created", "pending", "processing"}
                 /\ unsure' = [unsure EXCEPT ![o] = @ \/ t.saw # "canceled"]
        <4>1. /\ unsure'[o] <=> unsure[o] \/ t.saw # "canceled"
              /\ \A q \in Orders : q # o => (unsure'[q] <=> unsure[q])
          <5>1. \E b \in BOOLEAN : /\ b <=> t.saw # "canceled"
                                   /\ unsure' = [unsure EXCEPT ![o] = unsure[o] \/ b]
            BY <3>2
          <5> QED
            BY <2>0, <5>1, FlagUpdate DEF TypeOK
        <4>2. UNCHANGED <<command, blind>>
          BY <2>9 DEF ApplyCancel
        <4>3. /\ InDoubt(o) => InDoubt(o)'
              /\ t.saw # "canceled" => InDoubt(o)'
          BY <4>1, <4>2 DEF InDoubt
        <4>4. t.saw = "canceled" => PaymentMoney(o) \in {"none", "returned"}
          BY <2>0, DeadMoney
        <4> QED
          BY <2>2, <3>2, <4>1, <4>2, <4>3, <4>4
      <3> QED
        BY <2>9, <3>1, <3>2 DEF ApplyCancel
    <2>10. CASE ApplyClose(t)
      <3>1. /\ blind'[o] <=> blind[o] \/ ~canApplyProviderTerminalStatus(o)
            /\ \A q \in Orders : q # o => (blind'[q] <=> blind[q])
        <4>1. \E b \in BOOLEAN : /\ b <=> ~canApplyProviderTerminalStatus(o)
                                 /\ blind' = [blind EXCEPT ![o] = blind[o] \/ b]
          BY <2>10 DEF ApplyClose, canApplyProviderTerminalStatus
        <4> QED
          BY <2>0, <4>1, FlagUpdate DEF TypeOK
      <3>2. UNCHANGED <<command, unsure>>
        BY <2>10 DEF ApplyClose
      <3>3. /\ InDoubt(o) => InDoubt(o)'
            /\ ~InDoubt(o)' => paymentStatus[o] \notin {"failed", "canceled", "expired"}
        BY <3>1, <3>2 DEF InDoubt, canApplyProviderTerminalStatus, ProviderMutable
      <3>4. PICK v \in {"canceled", "unknown"} :
              /\ paymentStatus' = [paymentStatus EXCEPT ![o] = v]
              /\ v = "canceled" => t.saw = "canceled"
        BY <2>10 DEF ApplyClose, markPaymentClosedAfterProviderAction,
           markPaymentUnknownAfterProviderAction
      <3>5. v = "canceled" => PaymentMoney(o) \in {"none", "returned"}
        BY <2>0, <3>4, DeadMoney
      <3> QED
        BY <2>2, <3>1, <3>2, <3>3, <3>4, <3>5
    <2> QED
      BY <1>12, <2>4, <2>5, <2>6, <2>7, <2>8, <2>9, <2>10 DEF Apply
  <1>13. ASSUME NEW o \in Orders, NEW op \in {"scheduled", "onRead", "manual"},
                BeginQuery(op, o) \/ BeginExpire(o) \/ Tick(o) \/ dispatchPendingCommands(o)
         PROVE  Keeps
    <2>1. /\ UNCHANGED <<paymentStatus, trade, paymentUrl, blind, unsure>>
          /\ \A q \in Orders : command'[q] = "none" <=> command[q] = "none"
      BY <1>13 DEF BeginQuery, BeginExpire, Tick, dispatchPendingCommands, TypeOK
    <2> QED
      BY <1>1, <2>1
  <1>14. CASE \/ \E t \in tasks : Crash(t)
              \/ releaseExpiredInventoryReservations \/ UNCHANGED vars
    BY <1>1, <1>14 DEF Crash, releaseExpiredInventoryReservations, vars
  <1> QED
    BY <1>2, <1>3, <1>4, <1>5, <1>6, <1>7, <1>9, <1>10, <1>11, <1>12, <1>13, <1>14
    DEF Next, OrderStep

(* However many handlers are in flight, a payment with a QR code keeps the  *)
(* contract that the orders and the machine rely on.                        *)
THEOREM SettlementKeepsContract == Spec => KeepsPaymentContract
  <1>1. Init /\ [][Next]_vars /\ []IndInv => Contract!Init /\ [][Contract!Next]_(Contract!vars)
    <2>1. IndInv /\ [Next]_vars => [Contract!Next]_(Contract!vars)
      BY ContractStep DEF IndInv
    <2> QED
      BY <2>1, ContractInit, PTL
  <1> QED
    BY <1>1, IndInvHolds, PTL DEF Spec, KeepsPaymentContract, Contract!Spec
=============================================================================
