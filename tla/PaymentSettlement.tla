-------------------------- MODULE PaymentSettlement --------------------------
(***************************************************************************)
(* How a QR-code order of the service API is paid for or closed.            *)
(*                                                                          *)
(* One payment row, one order row and one stock reservation per order are   *)
(* written by handlers that run concurrently: the provider's webhooks, the  *)
(* scheduled, on-read and manual reconciliations, the expiry scan, the      *)
(* machine's cancel request and the operator's incident actions.  A handler *)
(* that talks to the provider reads the row, calls the provider and writes  *)
(* in a later transaction; between the two it is a record in "tasks", and   *)
(* any other handler, or a crash, may come in between.                      *)
(***************************************************************************)
EXTENDS OrderProjection, Naturals, FiniteSets

CONSTANTS
    Orders,      \* orders that machines may place, all for the same slot
    Stock,       \* on-hand quantity of that slot; every order takes one
    MaxTasks     \* bound: provider calls in flight at the same time

ASSUME SettlementAssumption ==
    /\ IsFiniteSet(Orders)
    /\ Stock \in Nat
    /\ MaxTasks \in Nat

VARIABLES
    paymentStatus,     \* payments.status, "none" before the order exists
    paymentUrl,        \* payments.paymentUrl is set: the machine shows the QR
    orderStatus,       \* orders.status
    paymentState,      \* orders.paymentState
    fulfillmentState,  \* orders.fulfillmentState
    reservation,       \* status of the order's inventory reservation
    reservedQty,       \* inventories.reserved_qty of the slot
    command,           \* the order's dispatch command: none, pending or sent
    handled,           \* unique events already in payment_events
    provider,          \* payments.providerId: who the payment is with
    clock,             \* payments.expiresAt: ahead, overdue, or compensated
    trade,             \* the provider's trade (external)
    tasks,             \* handlers between their provider call and their write
    blind,             \* history: an unguarded operator write hit this order
    unsure             \* history: closed without a definite provider answer

orderVars == <<orderStatus, paymentState, fulfillmentState>>
stockVars == <<reservation, reservedQty>>
dbVars    == <<paymentStatus, paymentUrl, orderVars, stockVars, command, handled>>
ghostVars == <<blind, unsure>>
vars      == <<dbVars, provider, clock, trade, tasks, ghostVars>>

Providers == {"alipay", "wechat_pay"}
Facts == {"succeeded", "failed"}
Events == Facts \union {"expired"}
Trades == {"absent", "waiting", "paid", "closed", "failed", "reversed"}
Answers == {"pending", "succeeded", "failed", "canceled"}
CancelResults == {"canceled", "missing", "unknown", "refused"}
Tasks ==
    [op : {"scheduled", "onRead", "manual", "expire"}, order : Orders, saw : Answers]
    \union
    [op : {"expireLocal"}, order : Orders, saw : {"canceled", "missing"}]
    \union
    [op : {"cancel", "close"}, order : Orders, saw : CancelResults]

TypeOK ==
    /\ paymentStatus \in [Orders -> PaymentStatuses \union {"none"}]
    /\ paymentUrl \in [Orders -> BOOLEAN]
    /\ orderStatus \in [Orders -> OrderStatuses \union {"none"}]
    /\ paymentState \in [Orders -> OrderPaymentStates \union {"none"}]
    /\ fulfillmentState \in [Orders -> OrderFulfillmentStates \union {"none"}]
    /\ reservation \in [Orders -> {"none", "active", "released"}]
    /\ reservedQty \in Nat
    /\ command \in [Orders -> {"none", "pending", "sent"}]
    /\ handled \subseteq (Orders \X Events)
    /\ provider \in [Orders -> Providers]
    /\ clock \in [Orders -> {"ahead", "overdue", "compensated"}]
    /\ trade \in [Orders -> Trades]
    /\ tasks \subseteq Tasks
    /\ blind \in [Orders -> BOOLEAN]
    /\ unsure \in [Orders -> BOOLEAN]

Init ==
    /\ paymentStatus = [o \in Orders |-> "none"]
    /\ paymentUrl = [o \in Orders |-> FALSE]
    /\ orderStatus = [o \in Orders |-> "none"]
    /\ paymentState = [o \in Orders |-> "none"]
    /\ fulfillmentState = [o \in Orders |-> "none"]
    /\ reservation = [o \in Orders |-> "none"]
    /\ reservedQty = 0
    /\ command = [o \in Orders |-> "none"]
    /\ handled = {}
    /\ provider \in [Orders -> Providers]
    /\ clock = [o \in Orders |-> "ahead"]
    /\ trade = [o \in Orders |-> "absent"]
    /\ tasks = {}
    /\ blind = [o \in Orders |-> FALSE]
    /\ unsure = [o \in Orders |-> FALSE]

-----------------------------------------------------------------------------
(* Writes that several handlers share.                                      *)

SetPayment(o, status) ==
    paymentStatus' = [paymentStatus EXCEPT ![o] = status]

SetOrder(o, status, pay, ful) ==
    /\ orderStatus' = [orderStatus EXCEPT ![o] = status]
    /\ paymentState' = [paymentState EXCEPT ![o] = pay]
    /\ fulfillmentState' = [fulfillmentState EXCEPT ![o] = ful]

(* Give an order's stock back; a reservation already released stays so.     *)
releaseActiveReservationsForOrder(o) ==
    IF reservation[o] = "active"
    THEN /\ reservation' = [reservation EXCEPT ![o] = "released"]
         /\ reservedQty' = reservedQty - 1
    ELSE UNCHANGED stockVars

(* Mutation: no command for an order an operator is looking at.             *)
CommandUnlessManual(o) ==
    command' = IF command[o] = "none" /\ fulfillmentState[o] # "manual_handling"
               THEN [command EXCEPT ![o] = "pending"] ELSE command

(* The durable dispatch command, inserted once per order.                   *)
createPendingDispatchCommands(o) ==
    command' = IF command[o] = "none" THEN [command EXCEPT ![o] = "pending"] ELSE command

IncidentLocked(o) ==
    isPaymentIncidentLocked(orderStatus[o], paymentState[o], fulfillmentState[o],
                            paymentStatus[o])

(* Mutation: a late answer may still move a canceled payment.               *)
MayMoveCanceled(o) == paymentStatus[o] \in ProviderMutable \union {"canceled"}

canApplyProviderTerminalStatus(o) == paymentStatus[o] \in ProviderMutable

(* The transaction that every terminal provider answer goes through, with   *)
(* the payment and order rows locked: a settled or incident-locked payment  *)
(* makes it a stale no-op, otherwise payment, order, reservation and        *)
(* command change together.                                                 *)
CanTransition(o, allowIncidentLocked) ==
    /\ canApplyProviderTerminalStatus(o)
    /\ IncidentLocked(o) => allowIncidentLocked

(* Mutation: the paid order's status is set without projecting it.          *)
PaidWithoutProjection(o, newStatus, allowIncidentLocked) ==
    /\ CanTransition(o, allowIncidentLocked)
    /\ IF newStatus = "succeeded"
       THEN /\ SetPayment(o, "succeeded")
            /\ SetOrder(o, "paid", "paid", fulfillmentState[o])
            /\ createPendingDispatchCommands(o)
            /\ UNCHANGED stockVars
       ELSE /\ SetPayment(o, "failed")
            /\ SetOrder(o, "canceled", "payment_failed", "canceled")
            /\ releaseActiveReservationsForOrder(o)
            /\ UNCHANGED command

transitionProviderPaymentTerminal(o, newStatus, allowIncidentLocked) ==
    \/ /\ ~CanTransition(o, allowIncidentLocked)
       /\ UNCHANGED <<paymentStatus, orderVars, stockVars, command>>
    \/ /\ CanTransition(o, allowIncidentLocked)
       /\ newStatus = "succeeded"
       /\ SetPayment(o, "succeeded")
       /\ SetOrder(o, projectOrderStatus("paid", fulfillmentState[o]), "paid",
                   fulfillmentState[o])
       /\ createPendingDispatchCommands(o)
       /\ UNCHANGED stockVars
    \/ /\ CanTransition(o, allowIncidentLocked)
       /\ newStatus = "failed"
       /\ SetPayment(o, "failed")
       /\ IF orderStatus[o] # "canceled"
          THEN SetOrder(o, "canceled", "payment_failed", "canceled")
          ELSE UNCHANGED orderVars
       /\ releaseActiveReservationsForOrder(o)
       /\ UNCHANGED command

-----------------------------------------------------------------------------
(* The provider, as the handlers see it (external).                         *)

(* What a query of the trade returns.  A missing trade is still pending for  *)
(* Alipay; WeChat answers 404 and the query throws, which every handler      *)
(* takes for a network error.  A closed or reversed trade is canceled.       *)
queryPayment(p, t) ==
    CASE t = "absent" -> IF p = "alipay" THEN "pending" ELSE "error"
      [] t = "waiting" -> "pending"
      [] t = "paid" -> "succeeded"
      [] t = "failed" -> "failed"
      [] t \in {"closed", "reversed"} -> "canceled"

(* Every way a cancel call can end, as <<result, trade afterwards>>.  The   *)
(* call may time out, or be answered with an error, before or after it took *)
(* effect; the error text decides whether the handlers read that as         *)
(* "unknown" or as a refusal.  Alipay does not know a QR code nobody        *)
(* scanned yet ("missing") and reverses a trade that was paid, the money    *)
(* returned; WeChat refuses both.                                           *)
Unclear == {"unknown", "refused"}

cancelPayment(p, t) ==
    CASE t = "absent"  -> {<<"unknown", t>>, <<IF p = "alipay" THEN "missing" ELSE "refused", t>>}
      [] t = "waiting" -> {<<"canceled", "closed">>} \union (Unclear \X {"closed", t})
                          \union (IF p = "alipay" THEN {<<"missing", t>>} ELSE {})
      [] t = "paid"    -> (Unclear \X {t}) \union
                          (IF p = "alipay" THEN ({"canceled"} \union Unclear) \X {"reversed"} ELSE {})
      [] OTHER         -> ({"canceled"} \union Unclear) \X {t}

(* A request that is still under way opens the trade.                       *)
TradeOpens(o) ==
    /\ paymentStatus[o] # "none" /\ trade[o] = "absent"
    /\ trade' = [trade EXCEPT ![o] = "waiting"]
    /\ UNCHANGED <<dbVars, provider, clock, tasks, ghostVars>>

(* The customer pays, fails to pay, or lets the shown QR code lapse.        *)
TradeSettles(o, t) ==
    /\ trade[o] = "waiting"
    /\ t \in {"paid", "failed"} => paymentUrl[o]
    /\ trade' = [trade EXCEPT ![o] = t]
    /\ UNCHANGED <<dbVars, provider, clock, tasks, ghostVars>>

(* Time passes: expiresAt, then the compensation window after it.           *)
Tick(o) ==
    /\ paymentStatus[o] # "none" /\ clock[o] # "compensated"
    /\ clock' = [clock EXCEPT ![o] = IF @ = "ahead" THEN "overdue" ELSE "compensated"]
    /\ UNCHANGED <<dbVars, provider, trade, tasks, ghostVars>>

-----------------------------------------------------------------------------
(* Creation of the order and of its payment intent.                         *)

(* Mutation: the availability check is off by one.                          *)
DraftOversells(o) ==
    /\ paymentStatus[o] = "none"
    /\ reservedQty <= Stock
    /\ SetPayment(o, "created")
    /\ SetOrder(o, "pending_payment", "awaiting_payment", "awaiting_fulfillment")
    /\ reservation' = [reservation EXCEPT ![o] = "active"]
    /\ reservedQty' = reservedQty + 1
    /\ UNCHANGED <<paymentUrl, command, handled, provider, clock, trade, tasks, ghostVars>>

(* The local draft: order, line, reservation and payment in one transaction.*)
createLocalMachineOrderDraft(o) ==
    /\ paymentStatus[o] = "none"
    /\ reservedQty < Stock
    /\ SetPayment(o, "created")
    /\ SetOrder(o, "pending_payment", "awaiting_payment", "awaiting_fulfillment")
    /\ reservation' = [reservation EXCEPT ![o] = "active"]
    /\ reservedQty' = reservedQty + 1
    /\ UNCHANGED <<paymentUrl, command, handled, provider, clock, trade, tasks, ghostVars>>

(* The provider answered with a QR code and its persistence won.  Who may   *)
(* persist is the subject of PaymentIntent; here it may happen whenever the *)
(* compare-and-set of the payment row allows it.                            *)
PersistIntent(o) ==
    /\ paymentStatus[o] \in {"created", "processing"} /\ ~paymentUrl[o]
    /\ trade[o] # "absent"
    /\ SetPayment(o, "pending")
    /\ paymentUrl' = [paymentUrl EXCEPT ![o] = TRUE]
    /\ UNCHANGED <<orderVars, stockVars, command, handled, provider, clock, trade, tasks, ghostVars>>

(* The creation call ended without a definite answer.                       *)
markPaymentCreationUncertain(o) ==
    /\ paymentStatus[o] \in {"created", "processing"} /\ ~paymentUrl[o]
    /\ SetPayment(o, "processing")
    /\ UNCHANGED <<paymentUrl, orderVars, stockVars, command, handled, provider, clock, trade,
                   tasks, ghostVars>>

(* The provider refused to create the trade: the order is given up.         *)
cancelLocalCreatedPayment(o) ==
    /\ paymentStatus[o] \in {"created", "processing"} /\ ~paymentUrl[o]
    /\ SetPayment(o, "failed")
    /\ SetOrder(o, "canceled", "payment_failed", "canceled")
    /\ releaseActiveReservationsForOrder(o)
    /\ UNCHANGED <<paymentUrl, command, handled, provider, clock, trade, tasks, ghostVars>>

-----------------------------------------------------------------------------
(* Provider answers.                                                        *)

(* The provider notifies a settled trade, any number of times and as late   *)
(* as it likes; a reversed trade was paid before.                           *)
Notified(o, fact) ==
    \/ fact = "succeeded" /\ trade[o] \in {"paid", "reversed"}
    \/ fact = "failed" /\ trade[o] = "failed"

handlePaymentWebhook(o, fact) ==
    /\ Notified(o, fact)
    /\ IF <<o, fact>> \in handled
       THEN UNCHANGED dbVars
       ELSE /\ transitionProviderPaymentTerminal(o, fact, FALSE)
            /\ handled' = IF CanTransition(o, FALSE) THEN handled \union {<<o, fact>>} ELSE handled
            /\ UNCHANGED paymentUrl
    /\ UNCHANGED <<provider, clock, trade, tasks, ghostVars>>

(* A handler reads the payment, asks the provider, and has yet to write.    *)
Begin(op, o, saw) ==
    /\ Cardinality(tasks) < MaxTasks
    /\ tasks' = tasks \union {[op |-> op, order |-> o, saw |-> saw]}

(* Scheduled: before expiry only.  On a machine's status poll and by an     *)
(* operator's query: also for an unknown payment.  A query that throws only *)
(* leaves an attempt row behind.                                            *)
QueryGuard(op, o) ==
    CASE op = "scheduled" -> paymentStatus[o] \in {"pending", "processing"} /\ clock[o] = "ahead"
      [] op \in {"onRead", "manual"} -> paymentStatus[o] \in {"pending", "processing", "unknown"}

BeginQuery(op, o) ==
    /\ QueryGuard(op, o)
    /\ queryPayment(provider[o], trade[o]) # "error"
    /\ Begin(op, o, queryPayment(provider[o], trade[o]))
    /\ UNCHANGED <<dbVars, provider, clock, trade, ghostVars>>

(* reconcilePendingPayments: any answer but pending is terminal.            *)
ApplyScheduled(t) ==
    /\ t.op = "scheduled"
    /\ IF t.saw = "pending"
       THEN UNCHANGED <<paymentStatus, orderVars, stockVars, command>>
       ELSE transitionProviderPaymentTerminal(t.order,
                IF t.saw = "succeeded" THEN "succeeded" ELSE "failed", FALSE)
    /\ UNCHANGED ghostVars

(* reconcilePendingPaymentOnRead: pending is written back, guarded by the   *)
(* statuses the query may settle; the rest is terminal.  Both writes also   *)
(* need the lease the poll holds (PaymentIntent): a lost lease writes       *)
(* nothing, as if the handler had crashed.                                  *)
ApplyOnRead(t) ==
    /\ t.op = "onRead"
    /\ IF t.saw = "pending"
       THEN /\ IF paymentStatus[t.order] \in {"pending", "processing", "unknown"}
               THEN SetPayment(t.order, "pending")
               ELSE UNCHANGED paymentStatus
            /\ UNCHANGED <<orderVars, stockVars, command>>
       ELSE transitionProviderPaymentTerminal(t.order,
                IF t.saw = "succeeded" THEN "succeeded" ELSE "failed", FALSE)
    /\ UNCHANGED ghostVars

(* manualReconcile: succeeded and failed are terminal and may resolve an    *)
(* incident; every other answer is written with no condition on the row.    *)
ApplyManual(t) ==
    /\ t.op = "manual"
    /\ IF t.saw \in Facts
       THEN /\ transitionProviderPaymentTerminal(t.order, t.saw, TRUE)
            /\ UNCHANGED blind
       ELSE /\ SetPayment(t.order, t.saw)
            /\ blind' = [blind EXCEPT ![t.order] =
                            @ \/ ~canApplyProviderTerminalStatus(t.order) \/ t.saw = "canceled"]
            /\ UNCHANGED <<orderVars, stockVars, command>>
    /\ UNCHANGED unsure

-----------------------------------------------------------------------------
(* The expiry scan.                                                         *)

(* Mutation: the scan overlooks payments whose intent was never created.    *)
ExpireSkipsCreated(o) ==
    /\ paymentStatus[o] \in {"pending", "processing"}
    /\ clock[o] # "ahead"
    /\ queryPayment(provider[o], trade[o]) # "error"
    /\ queryPayment(provider[o], trade[o]) = "pending" => clock[o] = "compensated"
    /\ Begin("expire", o, queryPayment(provider[o], trade[o]))
    /\ UNCHANGED <<dbVars, provider, clock, trade, ghostVars>>

(* Query before close; a trade still pending is left alone until the        *)
(* compensation window has passed too, and a query that throws ends the     *)
(* turn: only Alipay's words for a missing trade would let it go on, and    *)
(* its adapter does not throw them.                                         *)
BeginExpire(o) ==
    /\ paymentStatus[o] \in {"created", "pending", "processing"}
    /\ clock[o] # "ahead"
    /\ queryPayment(provider[o], trade[o]) # "error"
    /\ queryPayment(provider[o], trade[o]) = "pending" => clock[o] = "compensated"
    /\ Begin("expire", o, queryPayment(provider[o], trade[o]))
    /\ UNCHANGED <<dbVars, provider, clock, trade, ghostVars>>

(* The trade was paid after all.                                            *)
ApplyExpirePaid(t) ==
    /\ t.op = "expire" /\ t.saw = "succeeded"
    /\ transitionProviderPaymentTerminal(t.order, "succeeded", FALSE)
    /\ UNCHANGED ghostVars

(* Mutation: a cancel call that timed out is taken for a canceled trade.    *)
TimeoutMeansCanceled(t) ==
    /\ t \in tasks /\ t.op = "expire" /\ t.saw = "pending"
    /\ \E r \in cancelPayment(provider[t.order], trade[t.order]) :
        /\ trade' = [trade EXCEPT ![t.order] = r[2]]
        /\ tasks' = (tasks \ {t}) \union
              {[op |-> "expireLocal", order |-> t.order, saw |-> "canceled"]}
    /\ UNCHANGED <<dbVars, provider, clock, ghostVars>>

(* Still unpaid after the compensation window: close it at the provider.    *)
(* Only a definite answer, or a trade the provider does not know, lets the  *)
(* local close go on; otherwise the scan gives up until its next turn.      *)
ExpireAtProvider(t) ==
    /\ t \in tasks /\ t.op = "expire" /\ t.saw = "pending"
    /\ \E r \in cancelPayment(provider[t.order], trade[t.order]) :
        /\ trade' = [trade EXCEPT ![t.order] = r[2]]
        /\ tasks' = (tasks \ {t}) \union
              {[op |-> "expireLocal", order |-> t.order, saw |-> a] :
                  a \in {r[1]} \intersect {"canceled", "missing"}}
    /\ UNCHANGED <<dbVars, provider, clock, ghostVars>>

(* Expire locally and release the stock, unless the row moved meanwhile.    *)
ApplyExpireLocal(t) ==
    /\ \/ t.op = "expireLocal"
       \/ t.op = "expire" /\ t.saw \in {"failed", "canceled"}
    /\ IF /\ canApplyProviderTerminalStatus(t.order) /\ ~IncidentLocked(t.order)
          /\ <<t.order, "expired">> \notin handled
       THEN /\ SetPayment(t.order, "expired")
            /\ handled' = handled \union {<<t.order, "expired">>}
            /\ SetOrder(t.order, "payment_expired", "payment_expired", "canceled")
            /\ releaseActiveReservationsForOrder(t.order)
            /\ unsure' = [unsure EXCEPT ![t.order] = @ \/ t.saw = "missing"]
       ELSE UNCHANGED <<paymentStatus, handled, orderVars, stockVars, unsure>>
    /\ UNCHANGED <<command, blind>>

-----------------------------------------------------------------------------
(* The machine cancels the order.                                           *)

AlreadyClosed(o) ==
    \/ orderStatus[o] \in {"canceled", "payment_expired"}
    \/ paymentStatus[o] \in {"canceled", "expired"}

(* Paid or dispensing orders cannot be canceled.                            *)
assertMachineOrderCanStillBeCanceled(o) ==
    /\ ~AlreadyClosed(o)
    /\ paymentState[o] # "paid"
    /\ paymentStatus[o] # "succeeded"
    /\ fulfillmentState[o] = "awaiting_fulfillment"

(* First at the provider; a refusal ends the request.                       *)
BeginCancel(o) ==
    /\ paymentStatus[o] # "none"
    /\ assertMachineOrderCanStillBeCanceled(o)
    /\ paymentStatus[o] \in {"created", "pending", "processing"}
    /\ \E r \in cancelPayment(provider[o], trade[o]) :
        /\ trade' = [trade EXCEPT ![o] = r[2]]
        /\ IF r[1] = "refused" THEN UNCHANGED tasks ELSE Begin("cancel", o, r[1])
    /\ UNCHANGED <<dbVars, provider, clock, ghostVars>>

(* Then locally, if the locked rows still allow it; a timed-out or missing  *)
(* provider answer closes the order all the same.                           *)
ApplyCancel(t) ==
    /\ t.op = "cancel"
    /\ LET o == t.order IN
       IF /\ assertMachineOrderCanStillBeCanceled(o)
          /\ paymentStatus[o] \in {"created", "pending", "processing"}
          /\ paymentState[o] \in {"awaiting_payment", "payment_failed"}
       THEN /\ SetPayment(o, "canceled")
            /\ SetOrder(o, "canceled", "canceled", "canceled")
            /\ releaseActiveReservationsForOrder(o)
            /\ unsure' = [unsure EXCEPT ![o] = @ \/ t.saw # "canceled"]
       ELSE UNCHANGED <<paymentStatus, orderVars, stockVars, unsure>>
    /\ UNCHANGED <<command, blind>>

-----------------------------------------------------------------------------
(* Operator incident actions: their writes carry no condition on the row.   *)

BeginClose(o) ==
    /\ canApplyProviderTerminalStatus(o)
    /\ \E r \in cancelPayment(provider[o], trade[o]) :
        /\ trade' = [trade EXCEPT ![o] = r[2]]
        /\ Begin("close", o, r[1])
    /\ UNCHANGED <<dbVars, provider, clock, ghostVars>>

markPaymentClosedAfterProviderAction(o) ==
    /\ SetPayment(o, "canceled")
    /\ SetOrder(o, "canceled", "canceled", "canceled")
    /\ releaseActiveReservationsForOrder(o)

markPaymentUnknownAfterProviderAction(o) ==
    /\ SetPayment(o, "unknown")
    /\ SetOrder(o, "manual_handling", "payment_unknown", "manual_handling")
    /\ UNCHANGED stockVars

ApplyClose(t) ==
    /\ t.op = "close"
    /\ IF t.saw = "canceled"
       THEN markPaymentClosedAfterProviderAction(t.order)
       ELSE markPaymentUnknownAfterProviderAction(t.order)
    /\ blind' = [blind EXCEPT ![t.order] = @ \/ ~canApplyProviderTerminalStatus(t.order)]
    /\ UNCHANGED <<command, unsure>>

markPaymentManualHandling(o) ==
    /\ paymentStatus[o] # "none"
    /\ SetPayment(o, "manual_handling")
    /\ SetOrder(o, "manual_handling", "manual_handling", "manual_handling")
    /\ blind' = [blind EXCEPT ![o] = @ \/ ~canApplyProviderTerminalStatus(o)]
    /\ UNCHANGED <<paymentUrl, stockVars, command, handled, provider, clock, trade, tasks, unsure>>

-----------------------------------------------------------------------------
(* A handler's writing transaction, and a handler lost to a crash.          *)
Apply(t) ==
    /\ t \in tasks
    /\ \/ ApplyExpireLocal(t)
       \/ /\ \/ ApplyScheduled(t) \/ ApplyOnRead(t) \/ ApplyManual(t)
             \/ ApplyExpirePaid(t) \/ ApplyCancel(t) \/ ApplyClose(t)
          /\ UNCHANGED handled
    /\ tasks' = tasks \ {t}
    /\ UNCHANGED <<paymentUrl, provider, clock, trade>>

Crash(t) ==
    /\ t \in tasks
    /\ tasks' = tasks \ {t}
    /\ UNCHANGED <<dbVars, provider, clock, trade, ghostVars>>

(* Pending commands are published, periodically and whatever the order's    *)
(* state; only the command's own status is compared.                        *)
dispatchPendingCommands(o) ==
    /\ command[o] = "pending"
    /\ command' = [command EXCEPT ![o] = "sent"]
    /\ UNCHANGED <<paymentStatus, paymentUrl, orderVars, stockVars, handled, provider, clock,
                   trade, tasks, ghostVars>>

(* Mutation: the sweep releases the reservations, not the quantity.         *)
SweepForgetsQuantity ==
    LET expired == {o \in Orders : reservation[o] = "active" /\ clock[o] # "ahead"} IN
    /\ expired # {}
    /\ reservation' = [o \in Orders |-> IF o \in expired THEN "released" ELSE reservation[o]]
    /\ UNCHANGED <<paymentStatus, paymentUrl, orderVars, reservedQty, command, handled, provider, clock,
                   trade, tasks, ghostVars>>

(* Listing the stock first releases every reservation past its expiry,      *)
(* which is the payment's expiry, whatever became of the order.             *)
releaseExpiredInventoryReservations ==
    LET expired == {o \in Orders : reservation[o] = "active" /\ clock[o] # "ahead"} IN
    /\ expired # {}
    /\ reservation' = [o \in Orders |-> IF o \in expired THEN "released" ELSE reservation[o]]
    /\ reservedQty' = IF Cardinality(expired) > reservedQty THEN 0
                      ELSE reservedQty - Cardinality(expired)
    /\ UNCHANGED <<paymentStatus, paymentUrl, orderVars, command, handled, provider, clock,
                   trade, tasks, ghostVars>>

OrderStep(o) ==
    \/ TradeOpens(o) \/ (\E t \in {"paid", "failed", "closed"} : TradeSettles(o, t)) \/ Tick(o)
    \/ createLocalMachineOrderDraft(o)
    \/ PersistIntent(o) \/ markPaymentCreationUncertain(o) \/ cancelLocalCreatedPayment(o)
    \/ \E fact \in Facts : handlePaymentWebhook(o, fact)
    \/ \E op \in {"scheduled", "onRead", "manual"} : BeginQuery(op, o)
    \/ BeginExpire(o) \/ BeginCancel(o) \/ BeginClose(o)
    \/ markPaymentManualHandling(o)
    \/ dispatchPendingCommands(o)

Next ==
    \/ \E o \in Orders : OrderStep(o)
    \/ \E t \in tasks : Apply(t) \/ Crash(t) \/ ExpireAtProvider(t)
    \/ releaseExpiredInventoryReservations

Spec == Init /\ [][Next]_vars

(* What the expiry scan's timer, the database and the provider owe: time    *)
(* passes, handlers that began finish, the scan comes round again and again *)
(* and neither a crash nor a provider timeout hits every one of its turns.  *)
ExpireStep(o) == \E t \in tasks : t.order = o /\ t.op \in {"expire", "expireLocal"} /\ Apply(t)
ExpireAnswered(o) == \E t \in tasks : t.order = o /\ ExpireAtProvider(t) /\ tasks' # tasks \ {t}

Fairness ==
    /\ WF_vars(\E t \in tasks : Apply(t))
    /\ \A o \in Orders :
        /\ WF_vars(Tick(o))
        /\ SF_vars(BeginExpire(o))
        /\ SF_vars(ExpireStep(o))
        /\ SF_vars(ExpireAnswered(o))

FairSpec == Spec /\ Fairness

-----------------------------------------------------------------------------
(* Properties.                                                              *)

Active == {o \in Orders : reservation[o] = "active"}
Closed(o) == orderStatus[o] \in {"canceled", "payment_expired"}
Settled == {"succeeded", "failed", "canceled", "expired"}

(* What a trade can no longer change about itself.                          *)
Captured == {"paid", "reversed"}
Dead == {"closed", "failed", "reversed"}

(* A handler between its provider call and its write holds evidence that    *)
(* time does not refute: a trade seen paid was captured, one seen failed or *)
(* canceled can no longer be paid.  That is why its late write is safe.     *)
Evidence ==
    \A t \in tasks :
        /\ paymentStatus[t.order] # "none"
        /\ t.saw = "succeeded" => trade[t.order] \in Captured
        /\ t.saw \in {"failed", "canceled"} => trade[t.order] \in Dead

(* An order nobody placed has left no trace.                                *)
Untouched ==
    \A o \in Orders : paymentStatus[o] = "none" =>
        /\ reservation[o] = "none" /\ command[o] = "none"
        /\ orderStatus[o] = "none" /\ trade[o] = "absent" /\ ~paymentUrl[o]

(* How the payment row accounts for the rest, as long as no unguarded write *)
(* hit it: a commanded order is the one whose payment succeeded, a closed   *)
(* order's payment ended unpaid and its stock is free, and an unpaid end    *)
(* with definite provider answers leaves nothing the customer could pay.    *)
PaymentExplains ==
    \A o \in Orders :
        /\ trade[o] \in {"paid", "failed", "reversed"} => paymentUrl[o]
        /\ ~blind[o] =>
            /\ command[o] # "none" => paymentStatus[o] = "succeeded"
            /\ Closed(o) => /\ paymentStatus[o] \in {"failed", "canceled", "expired"}
                            /\ reservation[o] # "active"
            /\ paymentStatus[o] \in {"failed", "canceled", "expired"} /\ ~unsure[o]
                  => trade[o] \in Dead \/ ~paymentUrl[o]

(* What makes late writes safe, in one piece: the evidence handlers hold    *)
(* and what the payment row explains are preserved by every step of every   *)
(* handler, and the order-level guarantees below follow from them.          *)
SettlementInv == Untouched /\ Evidence /\ PaymentExplains

(* The reserved quantity of the slot is the number of its active            *)
(* reservations and never exceeds the stock, however draft creation, the    *)
(* five releasing handlers and the expiry sweep of reservations interleave. *)
StockAccounting ==
    /\ reservedQty = Cardinality(Active)
    /\ reservedQty <= Stock

(* orders.status is written by every handler on its own, yet always agrees  *)
(* with the projection of the two state axes.                               *)
StatusIsProjection ==
    \A o \in Orders : paymentStatus[o] # "none" =>
        orderStatus[o] = projectOrderStatus(paymentState[o], fulfillmentState[o])

(* The machine is only ever told to dispense an order whose trade was paid  *)
(* at the provider, whichever of the five success paths applied the answer. *)
CommandNeedsCapture ==
    \A o \in Orders : command[o] # "none" => trade[o] \in Captured

(* A paid order has its durable dispatch command: payment, order and        *)
(* command commit together.                                                 *)
PaidHasCommand ==
    \A o \in Orders : paymentState[o] = "paid" => command[o] # "none"

(* An order closed by a failed payment, by expiry or by the machine was not *)
(* handed to the machine and keeps no stock, unless an unguarded operator   *)
(* write came in between.                                                   *)
ClosedIsNotDispatched ==
    \A o \in Orders : Closed(o) /\ ~blind[o] =>
        command[o] = "none" /\ reservation[o] # "active"

(* Money is not captured on an order that was closed: the closing handlers  *)
(* close the trade first and re-check under the lock.  The exceptions are   *)
(* the closes that went ahead without a definite provider answer, and       *)
(* unguarded operator writes.                                               *)
NoStrandedMoney ==
    \A o \in Orders :
        /\ trade[o] = "paid"
        /\ paymentStatus[o] \in {"failed", "canceled", "expired"}
        => unsure[o] \/ blind[o]

(* A settled payment is never settled again: late, duplicate and            *)
(* contradicting answers are stale.  Only an unguarded operator write       *)
(* (which blind records) changes it.                                        *)
SettledOnce ==
    [][\A o \in Orders : paymentStatus[o] \in Settled /\ ~blind'[o]
            => paymentStatus'[o] = paymentStatus[o]]_vars

(* Payments with a QR code keep the contract: an order is dispensed only    *)
(* for captured money and its command is never taken back; money is neither *)
(* offered nor taken once the payment was closed, unless the close went     *)
(* ahead without a definite answer, or an unguarded operator write hit it.  *)
PaymentStage(o) ==
    IF command[o] # "none" THEN "paid"
    ELSE IF paymentStatus[o] \in {"failed", "canceled", "expired"} THEN "closed"
    ELSE "open"

PaymentMoney(o) ==
    CASE trade[o] = "paid" -> "taken"
      [] trade[o] = "reversed" -> "returned"
      [] trade[o] \in {"absent", "waiting"} /\ paymentUrl[o] -> "offered"
      [] OTHER -> "none"

InDoubt(o) == blind[o] \/ unsure[o]

Contract == INSTANCE PaymentContract WITH
    Payments <- Orders,
    stage <- [o \in Orders |-> PaymentStage(o)],
    money <- [o \in Orders |-> PaymentMoney(o)],
    doubt <- [o \in Orders |-> InDoubt(o)]

KeepsPaymentContract == Contract!Spec

(* No order waits for its payment for ever: once the compensation window is *)
(* over the expiry scan settles it, whatever cancels, polls, crashes and    *)
(* provider timeouts do meanwhile.  Two exceptions: an operator's manual    *)
(* query of a closed trade (blind) closes the payment, not the order, and   *)
(* WeChat's answer for a trade that never opened stops every turn of the    *)
(* scan; should the trade open after all, the order settles.                *)
QueryThrows(o) == queryPayment(provider[o], trade[o]) = "error"

OverdueSettles ==
    \A o \in Orders : clock[o] = "compensated" ~>
        orderStatus[o] # "pending_payment" \/ blind[o] \/ QueryThrows(o)

(* Said of the code, and not so: a payment whose trade the provider reports *)
(* missing expires after the compensation window.                           *)
MissingTradeExpires ==
    \A o \in Orders : clock[o] = "compensated" /\ trade[o] = "absent" ~>
        orderStatus[o] # "pending_payment" \/ blind[o] \/ trade[o] # "absent"

(* Said of the code, and not so: an operator's close finds a payment that   *)
(* is already stable and leaves it alone.                                   *)
StablePaymentIsNotClosed ==
    [][\A o \in Orders : paymentStatus[o] = "succeeded" =>
            paymentStatus'[o] \notin {"canceled", "unknown"}]_vars

(* Said of the code, and not so: a successful payment keeps the order's     *)
(* reservation active for the machine to confirm.                           *)
PaidKeepsReservation ==
    \A o \in Orders : paymentState[o] = "paid" => reservation[o] = "active"

(* Said of the code, and not so: an order that was paid cannot be canceled, *)
(* so its trade is not reversed by the machine's cancel request.            *)
PaidTradeIsNotReversed ==
    \A o \in Orders : command[o] = "sent" => trade[o] # "reversed"

==============================================================================
