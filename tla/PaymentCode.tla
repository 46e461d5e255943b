----------------------------- MODULE PaymentCode -----------------------------
(***************************************************************************)
(* Paying with a scanned payment code.                                      *)
(*                                                                          *)
(* Every scan of an order is an attempt: a row with its own trade number at *)
(* the provider, a recovery lease and a count of the claims on it.  The     *)
(* scan's own request charges the code under the lease; when its answer is  *)
(* lost, workers claim the attempt, query the provider, reverse what is     *)
(* still open after the order expired, or leave it to an operator, who may  *)
(* send it back.  Requests outlive the worker that sent them.               *)
(*                                                                          *)
(* A claim is named by its worker: owner tokens are fresh UUIDs, so that a  *)
(* row carries the token of a worker's current claim or of nobody that is   *)
(* left; the fence, which only repeats that, is left out, and so are the    *)
(* provider events, unique per attempt and ending.  is_active is written    *)
(* with the status and is TRUE exactly for InPlay.  The reservation and the *)
(* dispense commands follow the payment as in PaymentSettlement.            *)
(***************************************************************************)
EXTENDS Naturals, FiniteSets

CONSTANTS
    MaxScans,     \* bound: scans of the order
    Claimants,    \* requests and recovery rounds under way
    Nobody, Gone, \* holder of a lease: none or run out; a worker that ended
    MaxAttempts,  \* claims before an attempt is left to an operator (8)
    NotFound,     \* what the adapter makes of a number the provider lacks
    MaxUpsets     \* bound: crashes, stalls and operators' requests

ASSUME CodeAssumption ==
    /\ Nobody \notin Claimants /\ Gone \notin Claimants /\ Nobody # Gone
    /\ MaxScans \in Nat
    /\ MaxAttempts \in Nat \ {0, 1}
    /\ NotFound \in {"unknown", "failed"}
    /\ MaxUpsets \in Nat

(* Attempts by attempt_no, the count of the rows before plus one.           *)
Attempts == 1 .. MaxScans

VARIABLES
    payment,   \* payments.status; "pending" for created, pending, processing
    order,     \* orders.status
    expired,   \* payments.expires_at has passed
    attempt,   \* payment_code_attempts.status, "none" before the row exists
    holder,    \* recovery_lease_owner_token, of an unexpired lease
    count,     \* recovery_attempt_count, up to MaxAttempts
    due,       \* recovery_next_at: null, in the future or past
    worker,    \* what each worker is doing
    wire,      \* requests on their way to the provider
    codeTrade, \* the provider's trade of an attempt (external)
    upsets     \* bound: crashes, stalls and operators' requests so far

parentVars  == <<payment, order, expired>>
attemptVars == <<attempt, holder, count, due>>
rowVars == <<parentVars, attemptVars>>
pcVars == <<rowVars, worker, wire, codeTrade, upsets>>

Ended == {"succeeded", "failed", "reversed", "canceled"}
Submitted == {"submitting", "user_confirming", "querying", "reversing"}
InPlay == Submitted \union {"created", "manual_handling"}
Closed == {"failed", "canceled", "expired"}

Calls == {"charge", "query", "reverse"}
Answers == {"succeeded", "failed", "reversed", "user_confirming", "unknown", "error"}

Unoccupied == [step |-> "idle"]
Claims ==
    [step : {"admit", "claimed", "renew", "wait", "apply"}, on : Attempts,
     call : Calls, seen : InPlay, count : 0 .. MaxAttempts, late : BOOLEAN,
     answer : Answers]
Requests == [on : Attempts, call : Calls, from : Claimants \union {Gone}]

PCTypeOK ==
    /\ payment \in {"pending", "unknown", "succeeded"} \union Closed
    /\ order \in {"pending_payment", "paid", "canceled", "payment_expired",
                  "manual_handling"}
    /\ expired \in BOOLEAN
    /\ attempt \in [Attempts -> InPlay \union Ended \union {"none"}]
    /\ holder \in [Attempts -> Claimants \union {Nobody, Gone}]
    /\ count \in [Attempts -> 0 .. MaxAttempts]
    /\ due \in [Attempts -> {"null", "later", "now"}]
    /\ worker \in [Claimants -> {Unoccupied} \union Claims]
    /\ wire \subseteq Requests
    /\ codeTrade \in [Attempts -> {"absent", "paying", "captured", "refused", "reversed"}]
    /\ upsets \in 0 .. MaxUpsets

(* The order has been created, to be paid with a code.                      *)
PCInit ==
    /\ payment = "pending"
    /\ order = "pending_payment"
    /\ expired = FALSE
    /\ attempt = [a \in Attempts |-> "none"]
    /\ holder = [a \in Attempts |-> Nobody]
    /\ count = [a \in Attempts |-> 0]
    /\ due = [a \in Attempts |-> "null"]
    /\ worker = [w \in Claimants |-> Unoccupied]
    /\ wire = {}
    /\ codeTrade = [a \in Attempts |-> "absent"]
    /\ upsets = 0

Active(a) == attempt[a] \in InPlay
Payable == payment = "pending" /\ order = "pending_payment" /\ ~expired
IncidentLocked == order = "manual_handling" \/ payment = "unknown"

-----------------------------------------------------------------------------
(* Workers.                                                                 *)

Doing(w, step) == worker[w].step = step

(* Mutation: the lease is not checked when a result is written.             *)
HoldsAnyway(w) == TRUE

(* The row carries this claim's token and the lease has not run out.        *)
recoveryLeaseConditions(w) == holder[worker[w].on] = w

(* A request nobody waits for still does what it asks for; a query asks for *)
(* nothing else than its answer.                                            *)
Abandoned(w) ==
    {r \in wire : r.from # w} \union
    {[r EXCEPT !.from = Gone] : r \in {q \in wire : q.from = w /\ q.call # "query"}}

(* A worker is done.  A lease it did not give back stays behind.            *)
Finish(w) ==
    /\ worker' = [worker EXCEPT ![w] = Unoccupied]
    /\ wire' = Abandoned(w)

HolderLeft(w) == [a \in Attempts |-> IF holder[a] = w THEN Gone ELSE holder[a]]

(* A result that is stale: nothing is written.                              *)
Discard(w) ==
    /\ holder' = HolderLeft(w)
    /\ UNCHANGED <<parentVars, attempt, count, due>>

SetAttempt(a, newStatus, newDue) ==
    /\ attempt' = [attempt EXCEPT ![a] = newStatus]
    /\ holder' = [holder EXCEPT ![a] = Nobody]
    /\ due' = [due EXCEPT ![a] = newDue]
    /\ UNCHANGED count

releaseRecoveryClaim(w, newStatus, nextAt) ==
    IF recoveryLeaseConditions(w)
    THEN /\ SetAttempt(worker[w].on, newStatus, IF newStatus \in Ended THEN "null" ELSE nextAt)
         /\ UNCHANGED parentVars
    ELSE Discard(w)

(* Payment, order and attempt go to an operator together.                   *)
markManualHandling(w) ==
    IF recoveryLeaseConditions(w) /\ payment \in {"pending", "unknown"}
    THEN /\ payment' = "unknown"
         /\ order' = "manual_handling"
         /\ SetAttempt(worker[w].on, "manual_handling", "null")
         /\ UNCHANGED expired
    ELSE Discard(w)

deferRecovery(w, newStatus) ==
    IF worker[w].count >= MaxAttempts - 1
    THEN markManualHandling(w)
    ELSE releaseRecoveryClaim(w, newStatus, "later")

(* A terminal fact of the provider, settled with the attempt in one         *)
(* transaction.  A paid order that was manual stays so.                     *)
transitionProviderPaymentTerminal(w, newStatus, attemptStatus, allowLocked) ==
    LET a == worker[w].on IN
    IF /\ Active(a)
       /\ recoveryLeaseConditions(w)
       /\ payment \in {"pending", "unknown"}
       /\ IncidentLocked => allowLocked
    THEN /\ payment' = newStatus
         /\ order' = IF newStatus = "failed" THEN "canceled"
                     ELSE IF order = "manual_handling" THEN order ELSE "paid"
         /\ SetAttempt(a, attemptStatus, "null")
         /\ UNCHANGED expired
    ELSE Discard(w)

-----------------------------------------------------------------------------
(* A code is scanned.                                                       *)

(* A new scan, or one whose request came before.                            *)
createOrReplay(w, a) ==
    /\ Doing(w, "idle")
    /\ \/ /\ attempt[a] = "none" /\ \A b \in 1 .. a - 1 : attempt[b] # "none"
          /\ Payable
          /\ \A b \in Attempts : ~Active(b)
          /\ attempt' = [attempt EXCEPT ![a] = "created"]
          /\ due' = [due EXCEPT ![a] = "later"]
       \/ /\ attempt[a] = "created"
          /\ UNCHANGED <<attempt, due>>
    /\ worker' = [worker EXCEPT ![w] =
           [step |-> "admit", on |-> a, call |-> "charge", seen |-> "created",
            count |-> 0, late |-> FALSE, answer |-> "error"]]
    /\ UNCHANGED <<parentVars, holder, count, wire, codeTrade, upsets>>

(* The payment channel is not available: nothing reached the provider.      *)
AdmissionFails(w) ==
    /\ Doing(w, "admit")
    /\ LET a == worker[w].on IN
       IF attempt[a] = "created" THEN SetAttempt(a, "failed", "null")
       ELSE UNCHANGED attemptVars
    /\ Finish(w)
    /\ UNCHANGED <<parentVars, codeTrade, upsets>>

(* Mutation: only the scan's own claim is counted.                          *)
CountsSubmission(a) == 1

Counted(a) == IF count[a] < MaxAttempts THEN count[a] + 1 ELSE count[a]

(* Mutation: the attempt is submitted whatever became of it.                *)
SubmitAgain(w) ==
    LET a == worker[w].on IN
    /\ Doing(w, "admit") /\ Payable
    /\ attempt' = [attempt EXCEPT ![a] = "submitting"]
    /\ holder' = [holder EXCEPT ![a] = w]
    /\ count' = [count EXCEPT ![a] = Counted(a)]
    /\ due' = [due EXCEPT ![a] = "now"]
    /\ worker' = [worker EXCEPT ![w].step = "renew", ![w].count = Counted(a)]
    /\ UNCHANGED <<parentVars, wire, codeTrade, upsets>>

(* Committed before the provider can see the code.                          *)
claimSubmission(w) ==
    LET a == worker[w].on IN
    /\ Doing(w, "admit")
    /\ IF attempt[a] = "created" /\ Payable
       THEN /\ attempt' = [attempt EXCEPT ![a] = "submitting"]
            /\ holder' = [holder EXCEPT ![a] = w]
            /\ count' = [count EXCEPT ![a] = Counted(a)]
            /\ due' = [due EXCEPT ![a] = "now"]
            /\ worker' = [worker EXCEPT ![w].step = "renew", ![w].count = Counted(a)]
            /\ UNCHANGED wire
       ELSE Finish(w) /\ UNCHANGED attemptVars
    /\ UNCHANGED <<parentVars, codeTrade, upsets>>

-----------------------------------------------------------------------------
(* Recovery.                                                                *)

Claimable(a) ==
    /\ Active(a)
    /\ attempt[a] = "manual_handling" => due[a] # "null"
    /\ due[a] # "later"
    /\ holder[a] = Nobody

(* The timer's worker and an operator's request claim alike.                *)
claimRecoveryAttempt(w, a) ==
    /\ Doing(w, "idle")
    /\ Claimable(a)
    /\ holder' = [holder EXCEPT ![a] = w]
    /\ count' = [count EXCEPT ![a] = Counted(a)]
    /\ worker' = [worker EXCEPT ![w] =
           [step |-> "claimed", on |-> a, call |-> "query", seen |-> attempt[a],
            count |-> Counted(a), late |-> FALSE, answer |-> "error"]]
    /\ UNCHANGED <<parentVars, attempt, due, wire, codeTrade, upsets>>

(* Nothing to ask the provider: the scan was never submitted, or an         *)
(* operator wants the attempt, or it has been claimed too often.            *)
recoverWithoutQuery(w) ==
    /\ \/ worker[w].seen = "created" /\ releaseRecoveryClaim(w, "failed", "null")
       \/ /\ worker[w].seen # "created"
          /\ worker[w].seen = "manual_handling" \/ worker[w].count >= MaxAttempts
          /\ markManualHandling(w)
    /\ Finish(w)

(* The payment is read: it may be settled; its provider configuration may   *)
(* be missing.                                                              *)
recoverInContext(w) ==
    /\ worker[w].seen \in Submitted /\ worker[w].count < MaxAttempts
    /\ \/ deferRecovery(w, "querying") /\ Finish(w)
       \/ payment = "succeeded" /\ releaseRecoveryClaim(w, "succeeded", "null") /\ Finish(w)
       \/ payment \in Closed /\ releaseRecoveryClaim(w, "failed", "null") /\ Finish(w)
       \/ /\ payment \in {"pending", "unknown"}
          /\ worker' = [worker EXCEPT ![w].step = "renew", ![w].late = expired]
          /\ UNCHANGED <<rowVars, wire>>

recoverClaim(w) ==
    /\ Doing(w, "claimed")
    /\ recoverWithoutQuery(w) \/ recoverInContext(w)
    /\ UNCHANGED <<codeTrade, upsets>>

-----------------------------------------------------------------------------
(* A call to the provider, with the lease renewed before and during it.  A  *)
(* worker that stalls before its request leaves is a request on the wire.   *)

callWithRenewedLease(w) ==
    /\ Doing(w, "renew")
    /\ \/ /\ recoveryLeaseConditions(w)
          /\ wire' = wire \union {[on |-> worker[w].on, call |-> worker[w].call, from |-> w]}
          /\ worker' = [worker EXCEPT ![w].step = "wait"]
       \/ /\ worker' = [worker EXCEPT ![w].step = "apply", ![w].answer = "error"]
          /\ UNCHANGED wire
    /\ UNCHANGED <<rowVars, codeTrade, upsets>>

(* The call timed out, threw, or the lease was lost; it is still out there. *)
CallFails(w) ==
    /\ Doing(w, "wait")
    /\ wire' = Abandoned(w)
    /\ worker' = [worker EXCEPT ![w].step = "apply", ![w].answer = "error"]
    /\ UNCHANGED <<rowVars, codeTrade, upsets>>

(* The provider: one trade per number, charged and reversed at most once.   *)
AnswerOf(t) ==
    CASE t = "absent"   -> NotFound
      [] t = "paying"   -> "user_confirming"
      [] t = "captured" -> "succeeded"
      [] t = "refused"  -> "failed"
      [] t = "reversed" -> "reversed"

After(call, t) ==
    IF call = "charge" /\ t = "absent" THEN {"paying", "captured", "refused"}
    ELSE IF call = "reverse" /\ t # "absent" THEN {t, "reversed"}
    ELSE {t}

(* A reversal that is not confirmed tells nothing.                          *)
Told(call, t) ==
    IF call = "reverse" /\ t # "reversed" THEN {"unknown"} ELSE {AnswerOf(t), "unknown"}

ProviderHandles(r, t, answer) ==
    /\ r \in wire
    /\ t \in After(r.call, codeTrade[r.on])
    /\ answer \in Told(r.call, t)
    /\ codeTrade' = [codeTrade EXCEPT ![r.on] = t]
    /\ wire' = wire \ {r}
    /\ worker' = IF r.from = Gone THEN worker
                 ELSE [worker EXCEPT ![r.from].step = "apply", ![r.from].answer = answer]
    /\ UNCHANGED <<rowVars, upsets>>

(* The customer confirms or refuses on the phone.                           *)
CustomerDecides(a, t) ==
    /\ codeTrade[a] = "paying"
    /\ codeTrade' = [codeTrade EXCEPT ![a] = t]
    /\ UNCHANGED <<rowVars, worker, wire, upsets>>

-----------------------------------------------------------------------------
(* Answers are applied.                                                     *)

(* Mutation: an error of the charge is taken for a refusal.                 *)
ErrorIsRefusal(w) ==
    LET got == worker[w].answer IN
    /\ worker[w].call = "charge"
    /\ IF got = "succeeded" THEN transitionProviderPaymentTerminal(w, got, got, FALSE)
       ELSE releaseRecoveryClaim(w, "failed", "null")
    /\ Finish(w)

(* A refused code ends the attempt only: the customer may scan again.       *)
applyChargeResult(w) ==
    LET got == worker[w].answer IN
    /\ worker[w].call = "charge"
    /\ \/ got = "succeeded" /\ transitionProviderPaymentTerminal(w, got, got, FALSE)
       \/ got = "reversed" /\ transitionProviderPaymentTerminal(w, "failed", got, FALSE)
       \/ got = "failed" /\ releaseRecoveryClaim(w, got, "null")
       \/ got = "user_confirming" /\ deferRecovery(w, got)
       \/ got \in {"unknown", "error"} /\ deferRecovery(w, "querying")
    /\ Finish(w)

(* A reversal begins only after a query, and not of a persisted success.    *)
beginReversal(w) ==
    LET a == worker[w].on IN
    IF /\ Active(a)
       /\ payment # "succeeded" /\ order # "paid"
       /\ recoveryLeaseConditions(w)
    THEN /\ attempt' = [attempt EXCEPT ![a] = "reversing"]
         /\ due' = [due EXCEPT ![a] = "now"]
         /\ worker' = [worker EXCEPT ![w].step = "renew", ![w].call = "reverse"]
         /\ UNCHANGED <<parentVars, holder, count, wire>>
    ELSE Discard(w) /\ Finish(w)

(* The expiry time is the one read with the payment, a cancel may have      *)
(* moved it since; the clock is read now.                                   *)
queryAndResolve(w) ==
    LET got == worker[w].answer IN
    /\ worker[w].call = "query"
    /\ \/ /\ got = "succeeded"
          /\ transitionProviderPaymentTerminal(w, got, got, TRUE)
          /\ Finish(w)
       \/ /\ got \in {"failed", "reversed"}
          /\ transitionProviderPaymentTerminal(w, "failed", got, TRUE)
          /\ Finish(w)
       \/ got = "error" /\ deferRecovery(w, "querying") /\ Finish(w)
       \/ /\ got \in {"user_confirming", "unknown"}
          /\ \E late \in {worker[w].late, expired} :
                IF worker[w].seen = "reversing" \/ late
                THEN beginReversal(w)
                ELSE /\ deferRecovery(w, IF got = "unknown" THEN "querying" ELSE got)
                     /\ Finish(w)

reverseAfterQuery(w) ==
    LET got == worker[w].answer IN
    /\ worker[w].call = "reverse"
    /\ IF got = "reversed"
       THEN transitionProviderPaymentTerminal(w, "failed", got, TRUE)
       ELSE deferRecovery(w, "querying")
    /\ Finish(w)

Apply(w) ==
    /\ Doing(w, "apply")
    /\ applyChargeResult(w) \/ queryAndResolve(w) \/ reverseAfterQuery(w)
    /\ UNCHANGED <<codeTrade, upsets>>

-----------------------------------------------------------------------------
(* Everybody else.                                                          *)

(* An operator sends the attempt to the workers and takes the lease away.   *)
requestRecoveryAction(a, newStatus) ==
    /\ upsets < MaxUpsets /\ upsets' = upsets + 1
    /\ Active(a)
    /\ payment \in {"pending", "unknown"}
    /\ order \notin {"paid", "canceled", "payment_expired"}
    /\ SetAttempt(a, newStatus, "now")
    /\ UNCHANGED <<parentVars, worker, wire, codeTrade>>

(* A webhook, or the expiry scan when it finds a submitted attempt, only    *)
(* wakes the workers.                                                       *)
Wake(a) == due' = [due EXCEPT ![a] = "now"] /\ UNCHANGED <<attempt, holder, count>>

handlePaymentWebhook(a) ==
    /\ Active(a) /\ codeTrade[a] \in {"captured", "refused", "reversed"}
    /\ Wake(a)
    /\ UNCHANGED <<parentVars, worker, wire, codeTrade, upsets>>

(* Mutation: an attempt counts as submitted only once it was answered.      *)
CloseWhileSubmitting(paymentStatus, orderStatus) ==
    /\ \A a \in Attempts :
          attempt[a] \notin {"user_confirming", "querying", "reversing", "manual_handling"}
    /\ attempt' = [a \in Attempts |-> IF Active(a) THEN "canceled" ELSE attempt[a]]
    /\ payment' = paymentStatus
    /\ order' = orderStatus
    /\ UNCHANGED <<expired, holder, count, due>>

(* An order without a submitted attempt is closed, and an attempt that has  *)
(* not been submitted with it.                                              *)
CloseOrder(paymentStatus, orderStatus) ==
    /\ \A a \in Attempts : attempt[a] \notin Submitted \union {"manual_handling"}
    /\ attempt' = [a \in Attempts |-> IF Active(a) THEN "canceled" ELSE attempt[a]]
    /\ payment' = paymentStatus
    /\ order' = orderStatus
    /\ UNCHANGED <<expired, holder, count, due>>

expireOverduePayments ==
    /\ payment = "pending" /\ expired
    /\ \/ \E a \in Attempts :
             attempt[a] \in Submitted \union {"manual_handling"} /\ Wake(a) /\ UNCHANGED parentVars
       \/ ~IncidentLocked /\ CloseOrder("expired", "payment_expired")
    /\ UNCHANGED <<worker, wire, codeTrade, upsets>>

(* The machine's cancel of an order with a submitted attempt lets it expire *)
(* at once.                                                                 *)
cancelMachineOrder ==
    /\ payment = "pending" /\ order = "pending_payment"
    /\ \/ \E a \in Attempts :
             /\ attempt[a] \in Submitted \union {"manual_handling"}
             /\ Wake(a)
             /\ expired' = TRUE
             /\ UNCHANGED <<payment, order>>
       \/ CloseOrder("canceled", "canceled")
    /\ UNCHANGED <<worker, wire, codeTrade, upsets>>

Expire ==
    /\ ~expired /\ expired' = TRUE
    /\ UNCHANGED <<payment, order, attemptVars, worker, wire, codeTrade, upsets>>

BecomesDue(a) ==
    /\ due[a] = "later" /\ due' = [due EXCEPT ![a] = "now"]
    /\ UNCHANGED <<parentVars, attempt, holder, count, worker, wire, codeTrade, upsets>>

(* The lease of a worker that is gone runs out; that of one that stalls     *)
(* may.                                                                     *)
LeaseExpires(a) ==
    /\ holder[a] # Nobody
    /\ upsets' = IF holder[a] = Gone THEN upsets ELSE upsets + 1
    /\ upsets' <= MaxUpsets
    /\ holder' = [holder EXCEPT ![a] = Nobody]
    /\ UNCHANGED <<parentVars, attempt, count, due, worker, wire, codeTrade>>

WorkerDies(w) ==
    /\ ~Doing(w, "idle")
    /\ upsets < MaxUpsets /\ upsets' = upsets + 1
    /\ holder' = HolderLeft(w)
    /\ Finish(w)
    /\ UNCHANGED <<parentVars, attempt, count, due, codeTrade>>

-----------------------------------------------------------------------------
ClaimantStep(w) ==
    \/ AdmissionFails(w) \/ claimSubmission(w) \/ recoverClaim(w)
    \/ callWithRenewedLease(w) \/ CallFails(w) \/ Apply(w)

PCNext ==
    \/ \E w \in Claimants, a \in Attempts : createOrReplay(w, a) \/ claimRecoveryAttempt(w, a)
    \/ \E w \in Claimants : ClaimantStep(w) \/ WorkerDies(w)
    \/ \E r \in wire, t \in {"absent", "paying", "captured", "refused", "reversed"},
          answer \in Answers : ProviderHandles(r, t, answer)
    \/ \E a \in Attempts :
          \/ \E t \in {"captured", "refused"} : CustomerDecides(a, t)
          \/ \E s \in {"querying", "reversing", "manual_handling"} : requestRecoveryAction(a, s)
          \/ handlePaymentWebhook(a) \/ BecomesDue(a) \/ LeaseExpires(a)
    \/ expireOverduePayments \/ cancelMachineOrder \/ Expire

PCSpec == PCInit /\ [][PCNext]_pcVars

(* Calls end or time out, the recovery timer claims what is due, leases run *)
(* out and time passes.                                                     *)
PCFairSpec ==
    /\ PCSpec
    /\ \A w \in Claimants : WF_pcVars(ClaimantStep(w))
    /\ \A a \in Attempts :
        /\ WF_pcVars(\E w \in Claimants : claimRecoveryAttempt(w, a))
        /\ WF_pcVars(BecomesDue(a))
        /\ WF_pcVars(holder[a] = Gone /\ LeaseExpires(a))

-----------------------------------------------------------------------------
(* Properties.                                                              *)

(* A customer who scans again is never charged for two codes: while one     *)
(* charge is open at the provider, or may still reach it, no other attempt  *)
(* is charged (createOrReplay, applyChargeResult).                          *)
MayCapture(a) ==
    \/ codeTrade[a] \in {"paying", "captured"}
    \/ codeTrade[a] = "absent" /\ \E r \in wire : r.on = a /\ r.call = "charge"

ChargedOnce == \A a, b \in Attempts : MayCapture(a) /\ MayCapture(b) => a = b

(* Money that the provider holds is booked as paid, or its attempt is still *)
(* in the hands of the workers or of an operator, whatever was lost         *)
(* (deferRecovery, markPaymentCodeAttemptManualHandling).                   *)
CapturedIsKept ==
    \A a \in Attempts : codeTrade[a] = "captured" =>
        Active(a) \/ (attempt[a] = "succeeded" /\ payment = "succeeded")

(* An order closed for non-payment is not charged afterwards: "a            *)
(* cancellation that raced an attempt can never close the order and let     *)
(* that attempt reach a provider afterwards" (cancelMachineOrder), and      *)
(* neither can the expiry scan nor a query.                                 *)
ClosedIsNotCharged == payment \in Closed => \A a \in Attempts : ~MayCapture(a)

(* Payments with a scanned code keep the contract, where an unknown number  *)
(* is not taken for a failed payment, and without a doubt: a payment is     *)
(* booked only for captured money, and is closed only when no charge can    *)
(* take any (transitionProviderPaymentTerminal, expireOverduePayments,      *)
(* cancelMachineOrder).                                                     *)
PaymentStage ==
    IF payment = "succeeded" THEN "paid"
    ELSE IF payment \in Closed THEN "closed"
    ELSE "open"

PaymentMoney ==
    CASE \E a \in Attempts : codeTrade[a] = "captured" -> "taken"
      [] \A a \in Attempts : ~MayCapture(a) ->
             IF \E a \in Attempts : codeTrade[a] = "reversed" THEN "returned" ELSE "none"
      [] OTHER -> "offered"

Contract == INSTANCE PaymentContract WITH
    Payments <- {"payment"},
    stage <- [p \in {"payment"} |-> PaymentStage],
    money <- [p \in {"payment"} |-> PaymentMoney],
    doubt <- [p \in {"payment"} |-> FALSE]

KeepsPaymentContract == Contract!Spec

(* A worker whose lease was taken away or ran out writes nothing, however   *)
(* late its answer (recoveryLeaseConditions).                               *)
StaleWritesNothing ==
    [][\A w \in Claimants :
          (/\ worker[w].step \in {"claimed", "apply"}
           /\ ~(holder[worker[w].on] = w)
           /\ worker'[w] # worker[w])
          => UNCHANGED rowVars]_pcVars

(* A submitted attempt ends or is left to an operator, whatever is lost:    *)
(* the count of its claims makes sure of it (recoverClaim).                 *)
SubmittedEnds ==
    \A a \in Attempts :
        (attempt[a] \in Submitted) ~> (attempt[a] \in Ended \union {"manual_handling"})

(* Said of the code, and not so: an operator's query or reversal is "queued *)
(* for the payment code's query and reversal" (reversePaymentCodeIncident). *)
(* Only an operator makes an attempt of an incident one to be queried or    *)
(* reversed again; the worker that claims it must have a query left.        *)
RequestIsCarriedOut ==
    \A w \in Claimants :
        (Doing(w, "claimed") /\ payment = "unknown" /\ worker[w].seen \in {"querying", "reversing"})
            => worker[w].count < MaxAttempts

(* Said of the code, and not so: a persisted success is not reversed        *)
(* (beginReversal).  The lease is checked, and then the request is sent.    *)
SucceededIsNotReversed ==
    payment = "succeeded" =>
        \E a \in Attempts : attempt[a] = "succeeded" /\ codeTrade[a] = "captured"
=============================================================================
