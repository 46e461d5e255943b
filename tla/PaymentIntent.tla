---------------------------- MODULE PaymentIntent ----------------------------
(***************************************************************************)
(* Who creates a payment's QR code.                                         *)
(*                                                                          *)
(* A machine's create-order request, and every retry of it, may reach any   *)
(* process of the service API.  A request claims the payment's lease in the *)
(* database, asks the provider for a trade under the payment's number, and  *)
(* writes the QR code back.  Requests crash, stall past their lease and are *)
(* overtaken by successors; the lease's fence tells them apart.  The status *)
(* poll of a machine takes the same lease for its provider query.           *)
(***************************************************************************)
EXTENDS Naturals

CONSTANTS
    Workers,      \* requests that may run at the same time
    LeaseTicks,   \* lifetime of a lease, in ticks of the clock
    MaxFence      \* bound: leases ever taken

ASSUME IntentAssumption ==
    /\ LeaseTicks \in Nat \ {0}
    /\ MaxFence \in Nat
    /\ "none" \notin Workers

VARIABLES
    status,       \* payments.status; "settled" stands for every end state but failed
    url,          \* payments.paymentUrl is set
    reason,       \* payments.failedReason, as far as the code reads it
    owner,        \* payments.intentCreationLeaseOwnerToken, "none" when cleared
    fence,        \* payments.intentCreationLeaseFence
    lease,        \* ticks until intentCreationLeaseExpiresAt
    trade,        \* the provider's trade under this payment number (external)
    requested,    \* a request that may still open the trade was sent (external)
    work,         \* where each request is, the fence it claimed, what it learned
    shown         \* some machine was answered with a QR code

row  == <<status, url, reason, owner, fence, lease>>
vars == <<row, trade, requested, work, shown>>

Steps == {"idle", "claiming", "calling", "created", "uncertain", "refused", "dbError",
          "canceling", "querying", "answered"}
Idle == [pc |-> "idle", fence |-> 0, saw |-> "none"]

TypeOK ==
    /\ status \in {"created", "pending", "processing", "unknown", "failed", "settled"}
    /\ url \in BOOLEAN
    /\ reason \in {"none", "not_exist", "retry_claimed", "uncertain", "gave_up"}
    /\ owner \in Workers \union {"none"}
    /\ fence \in 0..MaxFence
    /\ lease \in 0..LeaseTicks
    /\ trade \in {"absent", "waiting", "closed"}
    /\ requested \in BOOLEAN
    /\ work \in [Workers -> [pc : Steps, fence : 0..MaxFence,
                             saw : {"none", "absent", "waiting", "closed", "unsure", "error"}]]
    /\ shown \in BOOLEAN

Init ==
    /\ status = "created" /\ url = FALSE /\ reason = "none"
    /\ owner = "none" /\ fence = 0 /\ lease = 0
    /\ trade = "absent" /\ requested = FALSE
    /\ work = [w \in Workers |-> Idle]
    /\ shown = FALSE

At(w, pc) == work[w].pc = pc
Goto(w, pc) == work' = [work EXCEPT ![w].pc = pc]
Leave(w) == work' = [work EXCEPT ![w] = Idle]

-----------------------------------------------------------------------------
(* The lease.                                                               *)

Free == owner = "none" \/ lease = 0

(* Mutation: only a lease that was given back can be taken.                 *)
TakeReleasedOnly(w, pc) ==
    /\ owner = "none" /\ fence < MaxFence
    /\ owner' = w /\ fence' = fence + 1 /\ lease' = LeaseTicks
    /\ work' = [work EXCEPT ![w] = [pc |-> pc, fence |-> fence + 1, saw |-> "none"]]

Take(w, pc) ==
    /\ Free /\ fence < MaxFence
    /\ owner' = w /\ fence' = fence + 1 /\ lease' = LeaseTicks
    /\ work' = [work EXCEPT ![w] = [pc |-> pc, fence |-> fence + 1, saw |-> "none"]]

Owns(w) == owner = w /\ work[w].fence = fence
Release == owner' = "none" /\ lease' = 0 /\ UNCHANGED fence

(* The condition of every write a request makes: its lease, its fence, not  *)
(* expired.                                                                 *)
hasCurrentPaymentIntentLease(w) == Owns(w) /\ lease > 0

MayWrite(w) == hasCurrentPaymentIntentLease(w) /\ status \in {"created", "processing"}

(* The heartbeat while the provider is being called; an expired lease is    *)
(* not revived.                                                             *)
renewPaymentIntentLease(w) ==
    /\ At(w, "calling") /\ MayWrite(w)
    /\ lease' = LeaseTicks
    /\ UNCHANGED <<status, url, reason, owner, fence, trade, requested, work, shown>>

(* Time passes.                                                             *)
Tick ==
    /\ lease > 0
    /\ lease' = lease - 1
    /\ UNCHANGED <<status, url, reason, owner, fence, trade, requested, work, shown>>

-----------------------------------------------------------------------------
(* The request.                                                             *)

(* A repeated request answers with the QR code that is there already.       *)
AnswerExisting(w) ==
    /\ At(w, "idle") /\ url /\ status = "pending"
    /\ shown' = TRUE
    /\ UNCHANGED <<row, trade, requested, work>>

(* A payment whose trade the provider says does not exist goes back to      *)
(* creation, by compare-and-set; the request then claims the lease.         *)
claimReconciledPaymentForIntentCreation(w) ==
    /\ At(w, "idle")
    /\ status = "pending" /\ ~url /\ reason = "not_exist" /\ Free
    /\ status' = "processing" /\ reason' = "retry_claimed"
    /\ Release
    /\ Goto(w, "claiming")
    /\ UNCHANGED <<url, trade, requested, shown>>

(* A request that finds no QR code goes on to claim the payment, unless an  *)
(* uncertain creation has to be reconciled first.                           *)
restorePaymentCreation(w) ==
    /\ At(w, "idle") /\ ~url
    /\ status = "created" \/ (status = "pending" /\ reason # "not_exist")
    /\ Goto(w, "claiming")
    /\ UNCHANGED <<row, trade, requested, shown>>

(* The claim, by compare-and-set on the row as it is now.                   *)
ClaimIntent(w) ==
    /\ At(w, "claiming")
    /\ status \in {"created", "processing"} /\ ~url
    /\ Take(w, "calling")
    /\ UNCHANGED <<status, url, reason, trade, requested, shown>>

(* Someone else holds the payment: the machine is told to wait.             *)
ClaimLost(w) ==
    /\ At(w, "claiming")
    /\ url \/ status \notin {"created", "processing"} \/ ~Free
    /\ Leave(w)
    /\ UNCHANGED <<row, trade, requested, shown>>

(* The provider opens the trade and answers with its QR code, refuses it,   *)
(* or the call ends without a definite answer (external).  The same number  *)
(* always names the same trade; a closed one cannot be opened again.        *)
createPaymentIntent(w) ==
    /\ At(w, "calling")
    /\ requested' = TRUE
    /\ \/ trade # "closed" /\ trade' = "waiting" /\ Goto(w, "created")
       \/ UNCHANGED trade /\ Goto(w, "uncertain")
       \/ trade # "waiting" /\ UNCHANGED trade /\ Goto(w, "refused")
    /\ UNCHANGED <<row, shown>>

(* A request whose caller gave up opens the trade after all (external).     *)
TradeOpens ==
    /\ requested /\ trade = "absent"
    /\ trade' = "waiting"
    /\ UNCHANGED <<row, requested, work, shown>>

(* Mutation: a superseded request clears the lease and overwrites.          *)
UncertainUnfenced(w) ==
    /\ At(w, "uncertain")
    /\ IF status \in {"created", "processing"}
       THEN status' = "processing" /\ reason' = "uncertain" /\ Release
       ELSE UNCHANGED <<status, reason, owner, fence, lease>>
    /\ Leave(w)
    /\ UNCHANGED <<url, trade, requested, shown>>

markPaymentCreationUncertain(w) ==
    /\ At(w, "uncertain")
    /\ IF MayWrite(w)
       THEN status' = "processing" /\ reason' = "uncertain" /\ Release
       ELSE UNCHANGED <<status, reason, owner, fence, lease>>
    /\ Leave(w)
    /\ UNCHANGED <<url, trade, requested, shown>>

(* Mutation: giving up is not conditional on the lease and the status.      *)
CancelUnguarded(w) ==
    /\ At(w, "refused")
    /\ status' = "failed" /\ reason' = "gave_up" /\ Release
    /\ Leave(w)
    /\ UNCHANGED <<url, trade, requested, shown>>

(* The payment fails, and with it the order and its reservation.            *)
cancelLocalCreatedPayment(w) ==
    /\ At(w, "refused")
    /\ IF MayWrite(w)
       THEN status' = "failed" /\ reason' = "gave_up" /\ Release
       ELSE UNCHANGED <<status, reason, owner, fence, lease>>
    /\ Leave(w)
    /\ UNCHANGED <<url, trade, requested, shown>>

Persisted == status' = "pending" /\ url' = TRUE /\ reason' = "none" /\ Release

(* Mutation: a request that lost its lease shows the QR code it obtained.   *)
ShowUnpersisted(w) ==
    /\ At(w, "created")
    /\ IF MayWrite(w) THEN Persisted ELSE UNCHANGED row
    /\ shown' = TRUE
    /\ Leave(w)
    /\ UNCHANGED <<trade, requested>>

(* The QR code is written back and shown, or the lease was lost and the     *)
(* machine gets what a successor persisted, if anything.                    *)
PersistIntent(w) ==
    /\ At(w, "created")
    /\ \/ MayWrite(w) /\ Persisted /\ shown' = TRUE
       \/ ~MayWrite(w) /\ shown' = (shown \/ (status = "pending" /\ url)) /\ UNCHANGED row
    /\ Leave(w)
    /\ UNCHANGED <<trade, requested>>

(* The write reports an error, whether or not it was committed.             *)
PersistFails(w) ==
    /\ At(w, "created")
    /\ (MayWrite(w) /\ Persisted) \/ UNCHANGED row
    /\ Goto(w, "dbError")
    /\ UNCHANGED <<trade, requested, shown>>

(* Only the holder of the lease goes on to take the trade back.             *)
CheckLease(w) ==
    /\ At(w, "dbError")
    /\ IF hasCurrentPaymentIntentLease(w) THEN Goto(w, "canceling") ELSE Leave(w)
    /\ UNCHANGED <<row, trade, requested, shown>>

(* First at the provider, whatever comes of it, then locally.               *)
cancelProviderIntentAfterDbFailure(w) ==
    /\ At(w, "canceling")
    /\ trade' \in IF trade = "waiting" THEN {"waiting", "closed"} ELSE {trade}
    /\ Goto(w, "refused")
    /\ UNCHANGED <<row, requested, shown>>

-----------------------------------------------------------------------------
(* The status poll.                                                         *)

BeginPoll(w) ==
    /\ At(w, "idle")
    /\ status \in {"pending", "processing", "unknown"}
    /\ Take(w, "querying")
    /\ UNCHANGED <<status, url, reason, trade, requested, shown>>

(* The provider tells the state of the trade, or that it cannot tell, or    *)
(* the call fails (external).                                               *)
QueryProvider(w) ==
    /\ At(w, "querying")
    /\ \E saw \in {trade, "unsure", "error"} : work' = [work EXCEPT ![w].pc = "answered", ![w].saw = saw]
    /\ UNCHANGED <<row, trade, requested, shown>>

(* Whether the answer still counts: a failed query only gives the lease     *)
(* back, every other answer needs it, unexpired, and a payment not settled; *)
(* a closed trade fails the payment in the terminal transaction, which also *)
(* leaves an incident alone.                                                *)
PollCounts(w) ==
    /\ Owns(w)
    /\ work[w].saw # "error" => lease > 0
    /\ work[w].saw \in {"absent", "waiting", "unsure"} => status \in {"pending", "processing", "unknown"}
    /\ work[w].saw = "closed" => status \in {"created", "pending", "processing"}

ApplyPoll(w) ==
    /\ At(w, "answered") /\ PollCounts(w)
    /\ \/ work[w].saw = "error" /\ UNCHANGED <<status, reason>>
       \/ work[w].saw = "absent" /\ status' = "pending" /\ reason' = "not_exist"
       \/ work[w].saw = "waiting" /\ status' = "pending" /\ reason' = "none"
       \/ work[w].saw = "unsure" /\ status' = "processing" /\ reason' = "none"
       \/ work[w].saw = "closed" /\ status' = "failed" /\ reason' = "gave_up"
    /\ Release
    /\ Leave(w)
    /\ UNCHANGED <<url, trade, requested, shown>>

(* The lease, or the payment, went to someone else meanwhile.               *)
PollLost(w) ==
    /\ At(w, "answered") /\ ~PollCounts(w)
    /\ Leave(w)
    /\ UNCHANGED <<row, trade, requested, shown>>

-----------------------------------------------------------------------------
(* A webhook, the expiry scan, the machine's cancel or an operator settles  *)
(* the payment, or marks it unknown, whoever holds the lease; an operator's *)
(* close also clears the lease.                                             *)
OthersSettle ==
    /\ status \in {"created", "pending", "processing", "unknown"}
    /\ \/ status' = "settled" /\ (Release \/ UNCHANGED <<owner, fence, lease>>)
       \/ status' = "unknown" /\ UNCHANGED <<owner, fence, lease>>
    /\ UNCHANGED <<url, reason, trade, requested, work, shown>>

(* The process dies; its lease stays until it expires.                      *)
Crash(w) ==
    /\ ~At(w, "idle")
    /\ Leave(w)
    /\ UNCHANGED <<row, trade, requested, shown>>

Work(w) ==
    \/ ClaimLost(w) \/ createPaymentIntent(w)
    \/ markPaymentCreationUncertain(w) \/ cancelLocalCreatedPayment(w)
    \/ PersistIntent(w) \/ PersistFails(w) \/ CheckLease(w)
    \/ cancelProviderIntentAfterDbFailure(w)
    \/ QueryProvider(w) \/ ApplyPoll(w) \/ PollLost(w)

WorkerStep(w) ==
    \/ AnswerExisting(w) \/ restorePaymentCreation(w) \/ claimReconciledPaymentForIntentCreation(w)
    \/ ClaimIntent(w)
    \/ BeginPoll(w) \/ renewPaymentIntentLease(w) \/ Work(w) \/ Crash(w)

Next ==
    \/ \E w \in Workers : WorkerStep(w)
    \/ Tick \/ TradeOpens \/ OthersSettle

Spec == Init /\ [][Next]_vars

(* Time passes, provider calls have deadlines, and the machine repeats its  *)
(* request under the same idempotency key until it gets an answer.          *)
Fairness ==
    /\ WF_vars(Tick)
    /\ \A w \in Workers : WF_vars(Work(w))
    /\ SF_vars(\E w \in Workers : restorePaymentCreation(w))
    /\ SF_vars(\E w \in Workers : ClaimIntent(w))

FairSpec == Spec /\ Fairness

-----------------------------------------------------------------------------
(* Properties.                                                              *)

(* A request that was overtaken writes nothing: its late answer, its error  *)
(* handling and its cleanup leave the payment to the successor.             *)
SupersededWritesNothing ==
    [][\A w \in Workers :
          /\ work'[w] # work[w] /\ ~At(w, "idle") /\ ~At(w, "claiming")
          /\ work[w].fence # fence
          => UNCHANGED row]_vars

(* A request on its way to a QR code.                                       *)
Creating(w) == work[w].pc \in {"calling", "created", "uncertain", "refused", "dbError", "canceling"}

(* The fence at work: while a request creates the QR code and its lease was *)
(* not taken over, no other request has persisted one, and a poll that saw  *)
(* the trade closed is not refuted by a later creation.                     *)
FenceGuards ==
    \A w \in Workers :
        /\ Creating(w) /\ Owns(w) => ~url
        /\ work[w].saw = "closed" => trade = "closed"

(* A machine is only ever shown a QR code that is in the database: a        *)
(* request whose write lost shows its successor's code or none.             *)
ShownIsDurable == shown => url

(* A payment that was given up, its stock released, is not one a customer   *)
(* can still pay: no QR code was persisted, or its trade is closed.         *)
GivenUpIsNotPayable == status = "failed" /\ url => trade = "closed"

(* A payment does not stay newly created because the request that claimed   *)
(* it died: the lease runs out and a retry takes over (within the leases    *)
(* the model allows).                                                       *)
CreatedMovesOn == status = "created" ~> status # "created" \/ fence = MaxFence

(* Said of the code, and not so: an overtaken request never cancels its     *)
(* successor's trade, least of all one whose QR code is being shown.  The   *)
(* lease is checked before the provider is called, and not held over it.    *)
SupersededCancelsNothing ==
    [][\A w \in Workers :
          /\ work'[w] # work[w] /\ ~At(w, "idle")
          /\ work[w].fence # fence
          /\ trade = "waiting" /\ url
          => trade' = trade]_vars

==============================================================================
