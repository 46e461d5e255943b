---------------------------- MODULE RefundDispatch ----------------------------
(***************************************************************************)
(* How refunds reach the payment provider and how its answers come back.    *)
(*                                                                          *)
(* A refund row waits for the dispatcher, or is sent by the operator's own  *)
(* request.  The provider's answer arrives synchronously, by the scheduled  *)
(* reconciliation, by an operator's query or by a webhook: five kinds of    *)
(* job that overlap, each reading the row, talking to the provider and      *)
(* writing its answer in a later transaction, with crashes in between.      *)
(*                                                                          *)
(* The provider is external: idempotent per refund number, it decides once, *)
(* and never pays back more than was paid.  A call that throws may or may   *)
(* not have reached it.  Fulfilment is represented by what it does to the   *)
(* shared rows.  Times (lease, back-off) are steps that may come any time.  *)
(***************************************************************************)
EXTENDS RefundLedger

CONSTANTS
    HookKinds,       \* refund statuses the provider sends webhooks for
    MaxAttempts,     \* reconciliation attempts before giving up (12)
    MaxJobs,         \* bound: jobs under way at the same time
    Operators        \* bound: do operators request and query refunds?

ASSUME DispatchAssumption ==
    /\ HookKinds \subseteq {"processing", "succeeded", "failed"}
    /\ MaxAttempts \in Nat \ {0}
    /\ MaxJobs \in Nat \ {0}
    /\ Operators \in BOOLEAN

VARIABLES
    order,      \* the rows of RefundLedger
    leased,     \* refunds.updated_at is younger than the dispatch lease
    events,     \* refund_events whose type the schedulers look for
    hooks,      \* refund_events that webhooks have stored
    attempts,   \* refund_reconciliation_attempts
    gaveUp,     \* the attempt max_attempts_exceeded exists
    jobs,       \* calls under way
    provider    \* the provider's view of a refund number (external)

rowVars == <<leased, events, hooks, attempts, gaveUp>>
vars == <<order, rowVars, jobs, provider>>

EventTypes == {"processing", "uncertain", "succeeded", "failed"}
Answers == {"processing", "succeeded", "failed", "error"}
Senders == {"dispatch", "request"}           \* they call refundPayment
Askers == {"reconcile", "query"}             \* they call queryRefund
Kinds == Senders \union Askers \union {"webhook"}

Jobs == [refund : Refunds, kind : Kinds, step : {"send", "wait", "apply"},
         answer : Answers \union {"none"},
         seen : OrderFulfillmentStates \union {"none"}]

TypeOK ==
    /\ order \in Books
    /\ leased \in [Refunds -> BOOLEAN]
    /\ events \in [Refunds -> SUBSET EventTypes]
    /\ hooks \in [Refunds -> SUBSET HookKinds]
    /\ attempts \in [Refunds -> 0 .. MaxAttempts]
    /\ gaveUp \in [Refunds -> BOOLEAN]
    /\ jobs \subseteq Jobs
    /\ provider \in [Refunds -> {"absent", "processing", "succeeded", "failed"}]

Init ==
    /\ order = PaidOrder
    /\ leased = [r \in Refunds |-> FALSE]
    /\ events = [r \in Refunds |-> {}]
    /\ hooks = [r \in Refunds |-> {}]
    /\ attempts = [r \in Refunds |-> 0]
    /\ gaveUp = [r \in Refunds |-> FALSE]
    /\ jobs = {}
    /\ provider = [r \in Refunds |-> "absent"]

(* The row is read, with the fulfilment state a partial refund will write.  *)
Job(r, kind, step, answer) ==
    [refund |-> r, kind |-> kind, step |-> step, answer |-> answer,
     seen |-> IF order.reason[r] = PartialReason THEN order.fulfillmentState ELSE "none"]

Begin(job) ==
    /\ Cardinality(jobs) < MaxJobs
    /\ jobs' = jobs \union {job}

Fresh == {r \in Refunds : order.refund[r] = "none"}

-----------------------------------------------------------------------------
(* Fulfilment's side: a line fails, with or without a refund to be staged,  *)
(* or is dispensed; a command's result is unknown.                          *)

FailLine(l, stageRefund) ==
    /\ order.line[l] = "pending"
    /\ \E r \in Fresh :
        LET marked == markOrderLineFailed(order, l)
        IN order' = IF stageRefund THEN stageFailedLineRefund(marked, r) ELSE marked
    /\ UNCHANGED <<rowVars, jobs, provider>>

DispenseLine(l) ==
    /\ order.line[l] = "pending"
    /\ \E r \in Fresh : order' = markOrderLineDispensed(order, l, r)
    /\ UNCHANGED <<rowVars, jobs, provider>>

-----------------------------------------------------------------------------
(* Jobs begin.                                                              *)

(* Mutation: a claimed row is never claimed again.                          *)
ClaimOnce(r) == order.refund[r] = "created"

(* A row nobody has sent, or one whose sender vanished without a trace.     *)
Dispatchable(r) ==
    \/ order.refund[r] = "created"
    \/ order.refund[r] = "processing" /\ ~leased[r] /\ events[r] = {}

dispatchPendingRefunds(r) ==
    /\ Dispatchable(r)
    /\ order' = [order EXCEPT !.refund[r] = "processing"]
    /\ leased' = [leased EXCEPT ![r] = TRUE]
    /\ Begin(Job(r, "dispatch", "send", "none"))
    /\ UNCHANGED <<events, hooks, attempts, gaveUp, provider>>

RequestFullRefund(r) ==
    /\ Operators
    /\ r \in Fresh
    /\ CanRequestFullRefund(order, "admin_refund")
    /\ order' = requestFullRefund(order, r, "admin_refund")
    /\ leased' = [leased EXCEPT ![r] = TRUE]
    /\ Begin([refund |-> r, kind |-> "request", step |-> "send", answer |-> "none",
              seen |-> "none"])
    /\ UNCHANGED <<events, hooks, attempts, gaveUp, provider>>

(* Only a refund known to have been sent is asked for.                      *)
reconcileProcessingRefunds(r) ==
    /\ order.refund[r] = "processing"
    /\ events[r] \intersect {"processing", "uncertain"} # {}
    /\ ~gaveUp[r]
    /\ IF attempts[r] < MaxAttempts
       THEN /\ attempts' = [attempts EXCEPT ![r] = @ + 1]
            /\ Begin(Job(r, "reconcile", "wait", "none"))
            /\ UNCHANGED gaveUp
       ELSE gaveUp' = [gaveUp EXCEPT ![r] = TRUE] /\ UNCHANGED <<attempts, jobs>>
    /\ UNCHANGED <<order, leased, events, hooks, provider>>

(* The query counts as an attempt.  The code does not limit it: that there  *)
(* are at most MaxAttempts is a bound of the model.                         *)
queryRefund(r) ==
    /\ Operators
    /\ order.refund[r] \in OpenRefundStatuses
    /\ attempts[r] < MaxAttempts
    /\ attempts' = [attempts EXCEPT ![r] = @ + 1]
    /\ Begin(Job(r, "query", "wait", "none"))
    /\ UNCHANGED <<order, leased, events, hooks, gaveUp, provider>>

(* The event is stored first; a webhook received again changes nothing.     *)
applyProviderRefundWebhook(r, status) ==
    /\ status \in HookKinds \ hooks[r]
    /\ provider[r] # "absent" /\ (status = "processing" \/ provider[r] = status)
    /\ hooks' = [hooks EXCEPT ![r] = @ \union {status}]
    /\ Begin(Job(r, "webhook", "apply", status))
    /\ UNCHANGED <<order, leased, events, attempts, gaveUp, provider>>

-----------------------------------------------------------------------------
(* The provider.                                                            *)

Advance(job, step, answer) ==
    jobs' = (jobs \ {job}) \union {[job EXCEPT !.step = step, !.answer = answer]}

(* The request arrives, or is lost on the way.                              *)
refundPayment(job) ==
    /\ job \in jobs /\ job.step = "send"
    /\ \/ /\ provider' = IF provider[job.refund] = "absent"
                         THEN [provider EXCEPT ![job.refund] = "processing"] ELSE provider
          /\ Advance(job, "wait", "none")
       \/ Advance(job, "apply", "error") /\ UNCHANGED provider
    /\ UNCHANGED <<order, rowVars>>

ProviderAnswers(job) ==
    /\ job \in jobs /\ job.step = "wait"
    /\ \/ Advance(job, "apply", "error")
       \/ /\ provider[job.refund] # "absent"
          /\ Advance(job, "apply", provider[job.refund])
    /\ UNCHANGED <<order, rowVars, provider>>

(* Money paid back once is not paid back again.                             *)
Affordable(r) ==
    \A q \in Refunds \ {r} : provider[q] # "succeeded"

ProviderDecides(r, status) ==
    /\ provider[r] = "processing"
    /\ status = "succeeded" => Affordable(r)
    /\ provider' = [provider EXCEPT ![r] = status]
    /\ UNCHANGED <<order, rowVars, jobs>>

-----------------------------------------------------------------------------
(* Answers are written.                                                     *)

(* Back to processing, without a look at the status; the unique index on    *)
(* active refunds makes the transaction fail next to a newer refund.        *)
CanReopen(r) ==
    \/ order.refund[r] \in ACTIVE_REFUND_STATUSES
    \/ ~Active(order, order.reason[r])

Reopen(r) ==
    /\ CanReopen(r)
    /\ order' = [order EXCEPT !.refund[r] = "processing"]
    /\ leased' = [leased EXCEPT ![r] = TRUE]

AddEvent(r, type) == events' = [events EXCEPT ![r] = @ \union {type}]

(* The operator's own request ends its refund whatever became of it; the    *)
(* others only an open one.                                                 *)
ApplyTerminal(job) ==
    LET r == job.refund IN
    /\ job.answer \in {"succeeded", "failed"}
    /\ IF job.kind = "request" \/ order.refund[r] \in OpenRefundStatuses
       THEN /\ order' = applyRefundTerminalState(order, r, job.answer, job.seen)
            /\ IF job.kind = "webhook" THEN UNCHANGED events ELSE AddEvent(r, job.answer)
       ELSE UNCHANGED <<order, events>>
    /\ UNCHANGED leased

ApplyProcessing(job) ==
    LET r == job.refund IN
    /\ job.answer = "processing"
    /\ \/ job.kind \in Senders /\ Reopen(r) /\ AddEvent(r, "processing")
       \/ job.kind \in {"query", "webhook"} /\ Reopen(r) /\ UNCHANGED events
       \/ /\ job.kind = "reconcile" \/ ~CanReopen(r)
          /\ UNCHANGED <<order, leased, events>>

(* Mutation: a call that threw is taken for a refused refund.               *)
ErrorIsFailure(job) ==
    /\ job.answer = "error"
    /\ order' = IF order.refund[job.refund] \in OpenRefundStatuses
                THEN applyRefundTerminalState(order, job.refund, "failed", job.seen)
                ELSE order
    /\ UNCHANGED <<leased, events>>

recordRefundRequestUncertain(job) ==
    LET r == job.refund IN
    /\ job.answer = "error"
    /\ \/ job.kind \in Senders /\ Reopen(r) /\ AddEvent(r, "uncertain")
       \/ /\ job.kind \notin Senders \/ ~CanReopen(r)
          /\ UNCHANGED <<order, leased, events>>

Apply(job) ==
    /\ job \in jobs /\ job.step = "apply"
    /\ jobs' = jobs \ {job}
    /\ ApplyTerminal(job) \/ ApplyProcessing(job) \/ recordRefundRequestUncertain(job)
    /\ UNCHANGED <<hooks, attempts, gaveUp, provider>>

LeaseExpires(r) ==
    /\ leased[r]
    /\ leased' = [leased EXCEPT ![r] = FALSE]
    /\ UNCHANGED <<order, events, hooks, attempts, gaveUp, jobs, provider>>

Crash ==
    /\ jobs' = {}
    /\ UNCHANGED <<order, rowVars, provider>>

RefundStep(r) ==
    \/ dispatchPendingRefunds(r) \/ RequestFullRefund(r)
    \/ reconcileProcessingRefunds(r) \/ queryRefund(r)
    \/ \E status \in HookKinds : applyProviderRefundWebhook(r, status)
    \/ \E status \in {"succeeded", "failed"} : ProviderDecides(r, status)
    \/ LeaseExpires(r)

Next ==
    \/ \E l \in Lines : DispenseLine(l) \/ \E staged \in BOOLEAN : FailLine(l, staged)
    \/ \E r \in Refunds : RefundStep(r)
    \/ \E job \in jobs : refundPayment(job) \/ ProviderAnswers(job) \/ Apply(job)
    \/ Crash

Spec == Init /\ [][Next]_vars

(* Timers run the dispatcher and the reconciliation; leases expire; a       *)
(* service that crashes again and again does not always die at one point.   *)
FairSpec ==
    /\ Spec
    /\ \A r \in Refunds :
        /\ SF_vars(dispatchPendingRefunds(r))
        /\ SF_vars(reconcileProcessingRefunds(r))
        /\ WF_vars(LeaseExpires(r))
        /\ SF_vars(\E job \in jobs : job.refund = r /\ refundPayment(job))
        /\ SF_vars(\E job \in jobs : job.refund = r /\ ProviderAnswers(job))
        /\ SF_vars(\E job \in jobs : job.refund = r /\ Apply(job))

-----------------------------------------------------------------------------
(* Properties.                                                              *)

(* A refund is closed only as the provider has decided it: a call that      *)
(* threw, a lost request or a late answer never ends one                    *)
(* (recordRefundRequestUncertain, applyRefundTerminalState).                *)
RowIsBacked ==
    \A r \in Refunds :
        order.refund[r] \in {"succeeded", "failed"} => provider[r] = order.refund[r]

(* Where the books say that money went back, a refund brought it: the       *)
(* line's own, one of the failed lines, or one of the whole payment.        *)
MoneyIsBacked ==
    LET Paid(r) == r \in Refunds /\ provider[r] = "succeeded" IN
    /\ \A l \in Lines : order.lineRefund[l] = "refunded" => Paid(order.lineRefundId[l])
    /\ order.paymentState = "refunded" =>
         \E r \in Refunds : Paid(r) /\ order.reason[r] # PartialReason
    /\ order.paymentState = "partial_refunded" =>
         \E r \in Refunds : Paid(r) /\ order.reason[r] = PartialReason

(* Nobody sends a second refund for a reason while the provider may still   *)
(* carry out the first, or has: requests are repeated under one number, and *)
(* a new number needs the failure of the old one.                           *)
OneRefundPerReason ==
    \A r, q \in Refunds :
        /\ order.reason[r] = order.reason[q]
        /\ {provider[r], provider[q]} \subseteq {"processing", "succeeded"}
        => r = q

(* An open refund ends, or is given up after the attempts allowed, whatever *)
(* is lost and whenever the service dies: also between a webhook's event    *)
(* and its transaction, and between a claim and the call.                   *)
OpenSettles ==
    \A r \in Refunds :
        (order.refund[r] \in OpenRefundStatuses) ~>
            \/ order.refund[r] \in {"succeeded", "failed"}
            \/ events[r] \intersect {"succeeded", "failed"} # {}
            \/ gaveUp[r]

(* Said of the code, and not so: a refund that is processing "will be       *)
(* reconciled later" (requestFullRefund).  A late answer "processing" to a  *)
(* query or in a webhook reopens an ended refund that no timer looks for.   *)
ProcessingIsReconciled ==
    \A r \in Refunds :
        (order.refund[r] = "processing") ~>
            (order.refund[r] \in {"succeeded", "failed"} \/ gaveUp[r])

(* Said of the code, and not so: "succeeded refund: updates                 *)
(* refund.status=succeeded, payment.status=refunded, order.status=refunded" *)
(* (applyRefundTerminalState).                                              *)
RefundedStaysRefunded ==
    \A r \in Refunds :
        (order.refund[r] = "succeeded" /\ order.reason[r] # PartialReason) =>
            order.payment = "refunded"
=============================================================================
