------------------------- MODULE PaymentStartProofs -------------------------
(***************************************************************************)
(* Proofs about the two ways in which a payment is started: the QR code     *)
(* that is shown (PaymentIntent), for every set of requests, every lifetime *)
(* of a lease and every number of leases, and the payment code that is      *)
(* scanned (PaymentCode), for any number of scans, any set of workers and   *)
(* any limit on the claims of an attempt.                                   *)
(***************************************************************************)
EXTENDS PaymentIntent, PaymentCode, TLAPS

USE IntentAssumption, CodeAssumption

-----------------------------------------------------------------------------
(* The QR code.                                                             *)

WorkRecord == [pc : Steps, fence : 0..MaxFence,
               saw : {"none", "absent", "waiting", "closed", "unsure", "error"}]

(* What moving on, leaving and taking the lease do to the requests.         *)
LEMMA WorkMoves ==
    ASSUME TypeOK, NEW w \in Workers
    PROVE  /\ \A pc \in Steps : Goto(w, pc) =>
                 /\ work' \in [Workers -> WorkRecord]
                 /\ \A v \in Workers : v # w => work'[v] = work[v]
                 /\ work'[w].pc = pc /\ work'[w].fence = work[w].fence
                 /\ work'[w].saw = work[w].saw
           /\ Leave(w) =>
                 /\ work' \in [Workers -> WorkRecord]
                 /\ \A v \in Workers : v # w => work'[v] = work[v]
                 /\ work'[w] = Idle
  <1>1. work \in [Workers -> WorkRecord]
    BY DEF TypeOK, WorkRecord
  <1>2. Idle \in WorkRecord
    BY DEF Idle, WorkRecord, Steps
  <1>3. ASSUME NEW pc \in Steps, Goto(w, pc)
        PROVE  /\ work' \in [Workers -> WorkRecord]
               /\ \A v \in Workers : v # w => work'[v] = work[v]
               /\ work'[w].pc = pc /\ work'[w].fence = work[w].fence
               /\ work'[w].saw = work[w].saw
    BY <1>1, <1>3 DEF Goto, WorkRecord
  <1>4. ASSUME Leave(w)
        PROVE  /\ work' \in [Workers -> WorkRecord]
               /\ \A v \in Workers : v # w => work'[v] = work[v]
               /\ work'[w] = Idle
    BY <1>1, <1>2, <1>4 DEF Leave
  <1> QED
    BY <1>3, <1>4

(* Taking the lease.                                                        *)
LEMMA TakeMoves ==
    ASSUME TypeOK, NEW w \in Workers, NEW pc \in Steps, Take(w, pc)
    PROVE  /\ work' \in [Workers -> WorkRecord]
           /\ \A v \in Workers : v # w => work'[v] = work[v]
           /\ work'[w] = [pc |-> pc, fence |-> fence + 1, saw |-> "none"]
           /\ owner' = w /\ fence' \in 0..MaxFence /\ lease' \in 0..LeaseTicks
  BY DEF TypeOK, Take, WorkRecord

(* Hearing from the provider.                                               *)
LEMMA Answered ==
    ASSUME work \in [Workers -> WorkRecord], NEW w \in Workers,
           NEW saw \in {"absent", "waiting", "closed", "unsure", "error"},
           work' = [work EXCEPT ![w].pc = "answered", ![w].saw = saw]
    PROVE  /\ work' \in [Workers -> WorkRecord]
           /\ \A v \in Workers : v # w => work'[v] = work[v]
           /\ work'[w].pc = "answered" /\ work'[w].saw = saw
           /\ work'[w].fence = work[w].fence
  <1>1. [work[w] EXCEPT !.pc = "answered", !.saw = saw] \in WorkRecord
    BY DEF WorkRecord, Steps
  <1>2. work' = [work EXCEPT ![w] = [work[w] EXCEPT !.pc = "answered", !.saw = saw]]
    OBVIOUS
  <1> QED
    BY <1>1, <1>2 DEF WorkRecord

(* The types of everything but the requests and the answer shown.           *)
RowType ==
    /\ status \in {"created", "pending", "processing", "unknown", "failed", "settled"}
    /\ url \in BOOLEAN
    /\ reason \in {"none", "not_exist", "retry_claimed", "uncertain", "gave_up"}
    /\ owner \in Workers \union {"none"}
    /\ fence \in 0..MaxFence
    /\ lease \in 0..LeaseTicks

(* TypeOK in the parts that one action touches together, now and after a   *)
(* step.                                                                    *)
LEMMA TypeParts ==
    TypeOK <=> /\ RowType
               /\ trade \in {"absent", "waiting", "closed"} /\ requested \in BOOLEAN
               /\ work \in [Workers -> WorkRecord] /\ shown \in BOOLEAN
  BY DEF TypeOK, RowType, WorkRecord

LEMMA TypeNext ==
    ASSUME RowType', trade' \in {"absent", "waiting", "closed"}, requested' \in BOOLEAN,
           work' \in [Workers -> WorkRecord], shown' \in BOOLEAN
    PROVE  TypeOK'
  BY DEF TypeOK, RowType, WorkRecord

(* Giving the lease back.                                                   *)
LEMMA ReleaseType ==
    ASSUME RowType, Release
    PROVE  owner' = "none" /\ fence' \in 0..MaxFence /\ lease' \in 0..LeaseTicks
  BY DEF RowType, Release

(* Every step of every request keeps the types.                             *)
LEMMA TypeStep == TypeOK /\ [Next]_vars => TypeOK'
  <1> SUFFICES ASSUME TypeOK, [Next]_vars PROVE TypeOK'
    OBVIOUS
  <1>0. /\ RowType
        /\ trade \in {"absent", "waiting", "closed"} /\ requested \in BOOLEAN
        /\ work \in [Workers -> WorkRecord] /\ shown \in BOOLEAN
    BY TypeParts
  <1>a. UNCHANGED row => RowType'
    BY <1>0 DEF row, RowType
  <1>b. ASSUME NEW w \in Workers, Leave(w) \/ \E pc \in Steps : Goto(w, pc)
        PROVE  work' \in [Workers -> WorkRecord]
    BY <1>b, WorkMoves
  <1>1. ASSUME NEW w \in Workers, AnswerExisting(w) PROVE TypeOK'
    BY <1>0, <1>a, <1>1, TypeNext DEF AnswerExisting
  <1>2. ASSUME NEW w \in Workers, restorePaymentCreation(w) PROVE TypeOK'
    BY <1>0, <1>a, <1>b, <1>2, TypeNext DEF restorePaymentCreation, Steps
  <1>3. ASSUME NEW w \in Workers, claimReconciledPaymentForIntentCreation(w) PROVE TypeOK'
    <2>1. RowType'
      BY <1>0, <1>3, ReleaseType DEF claimReconciledPaymentForIntentCreation, RowType
    <2> QED
      BY <1>0, <1>b, <1>3, <2>1, TypeNext DEF claimReconciledPaymentForIntentCreation, Steps
  <1>4. ASSUME NEW w \in Workers, ClaimIntent(w) PROVE TypeOK'
    <2>1. Take(w, "calling") /\ "calling" \in Steps
      BY <1>4 DEF ClaimIntent, Steps
    <2>2. RowType'
      BY <1>0, <1>4, <2>1, TakeMoves DEF ClaimIntent, RowType
    <2> QED
      BY <1>0, <1>4, <2>1, <2>2, TakeMoves, TypeNext DEF ClaimIntent
  <1>5. ASSUME NEW w \in Workers, BeginPoll(w) PROVE TypeOK'
    <2>1. Take(w, "querying") /\ "querying" \in Steps
      BY <1>5 DEF BeginPoll, Steps
    <2>2. RowType'
      BY <1>0, <1>5, <2>1, TakeMoves DEF BeginPoll, RowType
    <2> QED
      BY <1>0, <1>5, <2>1, <2>2, TakeMoves, TypeNext DEF BeginPoll
  <1>6. ASSUME NEW w \in Workers, renewPaymentIntentLease(w) PROVE TypeOK'
    <2>1. RowType'
      BY <1>0, <1>6 DEF renewPaymentIntentLease, RowType
    <2> QED
      BY <1>0, <1>6, <2>1, TypeNext DEF renewPaymentIntentLease
  <1>7. ASSUME NEW w \in Workers, ClaimLost(w) PROVE TypeOK'
    BY <1>0, <1>a, <1>b, <1>7, TypeNext DEF ClaimLost, Steps
  <1>8. ASSUME NEW w \in Workers, CheckLease(w) PROVE TypeOK'
    BY <1>0, <1>a, <1>b, <1>8, TypeNext DEF CheckLease, Steps
  <1>9. ASSUME NEW w \in Workers, PollLost(w) PROVE TypeOK'
    BY <1>0, <1>a, <1>b, <1>9, TypeNext DEF PollLost, Steps
  <1>10. ASSUME NEW w \in Workers, Crash(w) PROVE TypeOK'
    BY <1>0, <1>a, <1>b, <1>10, TypeNext DEF Crash, Steps
  <1>11. ASSUME NEW w \in Workers, createPaymentIntent(w) PROVE TypeOK'
    <2>1. RowType' /\ work' \in [Workers -> WorkRecord]
      BY <1>a, <1>b, <1>11 DEF createPaymentIntent, Steps
    <2> QED
      BY <1>0, <1>11, <2>1, TypeNext DEF createPaymentIntent
  <1>12. ASSUME NEW w \in Workers, cancelProviderIntentAfterDbFailure(w) PROVE TypeOK'
    <2>1. RowType' /\ work' \in [Workers -> WorkRecord]
      BY <1>a, <1>b, <1>12 DEF cancelProviderIntentAfterDbFailure, Steps
    <2> QED
      BY <1>0, <1>12, <2>1, TypeNext DEF cancelProviderIntentAfterDbFailure
  <1>13. ASSUME NEW w \in Workers, markPaymentCreationUncertain(w) PROVE TypeOK'
    <2>1. RowType'
      BY <1>0, <1>13, ReleaseType DEF markPaymentCreationUncertain, RowType
    <2> QED
      BY <1>0, <1>b, <1>13, <2>1, TypeNext DEF markPaymentCreationUncertain
  <1>14. ASSUME NEW w \in Workers, cancelLocalCreatedPayment(w) PROVE TypeOK'
    <2>1. RowType'
      BY <1>0, <1>14, ReleaseType DEF cancelLocalCreatedPayment, RowType
    <2> QED
      BY <1>0, <1>b, <1>14, <2>1, TypeNext DEF cancelLocalCreatedPayment
  <1>15. ASSUME NEW w \in Workers, PersistIntent(w) PROVE TypeOK'
    <2>1. RowType'
      BY <1>0, <1>a, <1>15, ReleaseType DEF PersistIntent, Persisted, RowType
    <2>2. shown' \in BOOLEAN
      BY <1>0, <1>15 DEF PersistIntent
    <2> QED
      BY <1>0, <1>b, <1>15, <2>1, <2>2, TypeNext DEF PersistIntent
  <1>16. ASSUME NEW w \in Workers, PersistFails(w) PROVE TypeOK'
    <2>1. RowType'
      BY <1>0, <1>a, <1>16, ReleaseType DEF PersistFails, Persisted, RowType
    <2> QED
      BY <1>0, <1>b, <1>16, <2>1, TypeNext DEF PersistFails, Steps
  <1>17. ASSUME NEW w \in Workers, QueryProvider(w) PROVE TypeOK'
    <2>1. PICK saw \in {trade, "unsure", "error"} :
               work' = [work EXCEPT ![w].pc = "answered", ![w].saw = saw]
      BY <1>17 DEF QueryProvider
    <2>2. work' \in [Workers -> WorkRecord]
      BY <1>0, <2>1, Answered
    <2> QED
      BY <1>0, <1>a, <1>17, <2>2, TypeNext DEF QueryProvider
  <1>18. ASSUME NEW w \in Workers, ApplyPoll(w) PROVE TypeOK'
    <2>1. RowType'
      BY <1>0, <1>18, ReleaseType DEF ApplyPoll, RowType
    <2> QED
      BY <1>0, <1>b, <1>18, <2>1, TypeNext DEF ApplyPoll
  <1>19. CASE Tick
    <2>1. RowType'
      BY <1>0, <1>19 DEF Tick, RowType
    <2> QED
      BY <1>0, <1>19, <2>1, TypeNext DEF Tick
  <1>20. CASE TradeOpens
    BY <1>0, <1>a, <1>20, TypeNext DEF TradeOpens
  <1>21. CASE OthersSettle
    <2>1. RowType'
      BY <1>0, <1>21, ReleaseType DEF OthersSettle, RowType
    <2> QED
      BY <1>0, <1>21, <2>1, TypeNext DEF OthersSettle
  <1>22. CASE UNCHANGED vars
    BY <1>0, <1>a, <1>22, TypeNext DEF vars
  <1> QED
    BY <1>1, <1>2, <1>3, <1>4, <1>5, <1>6, <1>7, <1>8, <1>9, <1>10, <1>11, <1>12, <1>13, <1>14, <1>15, <1>16, <1>17, <1>18, <1>19, <1>20, <1>21, <1>22
    DEF Next, WorkerStep, Work

(* The first state is well typed.                                           *)
LEMMA TypeInit == Init => TypeOK
  <1> SUFFICES ASSUME Init PROVE TypeOK
    OBVIOUS
  <1>1. Idle \in WorkRecord
    BY DEF Idle, WorkRecord, Steps
  <1>2. work \in [Workers -> WorkRecord]
    <2>1. work = [w \in Workers |-> Idle]
      BY DEF Init
    <2> QED
      BY <1>1, <2>1
  <1>3. RowType
    <2>1. fence \in 0..MaxFence /\ lease \in 0..LeaseTicks
      BY DEF Init
    <2>2. /\ status \in {"created", "pending", "processing", "unknown", "failed", "settled"}
          /\ reason \in {"none", "not_exist", "retry_claimed", "uncertain", "gave_up"}
          /\ owner \in Workers \union {"none"}
      BY DEF Init
    <2>3. url \in BOOLEAN
      BY DEF Init
    <2> QED
      BY <2>1, <2>2, <2>3 DEF RowType
  <1>4. /\ trade \in {"absent", "waiting", "closed"}
        /\ requested \in BOOLEAN /\ shown \in BOOLEAN
    BY DEF Init
  <1> QED
    BY <1>2, <1>3, <1>4, TypeParts

(* Every row, every request keeps its type.                                 *)
THEOREM IntentTypeCorrect == Spec => []TypeOK
  BY TypeInit, TypeStep, PTL DEF Spec

-----------------------------------------------------------------------------
(* A lease in nobody's hands is in no request's.                            *)
LEMMA ReleasedIsNobodys ==
    ASSUME NEW w \in Workers, owner' = "none"
    PROVE  ~Owns(w)'
  BY DEF Owns

(* A step of request w that does not touch the lease or the QR code, and    *)
(* does not bring w to creating, keeps the fence's guarantee.               *)
LEMMA GuardFrame ==
    ASSUME FenceGuards, NEW w \in Workers,
           \A v \in Workers : v # w => work'[v] = work[v],
           trade = "closed" => trade' = "closed",
           UNCHANGED <<url, owner, fence>>,
           Creating(w)' => Creating(w) /\ work'[w].fence = work[w].fence,
           work'[w].saw = "closed" => work[w].saw = "closed" \/ trade = "closed"
    PROVE  FenceGuards'
  BY DEF FenceGuards, Creating, Owns

(* A step of request w that gives the lease back.                           *)
LEMMA GuardRelease ==
    ASSUME FenceGuards, NEW w \in Workers,
           \A v \in Workers : v # w => work'[v] = work[v],
           UNCHANGED trade, owner' = "none",
           work'[w].saw = "closed" => work[w].saw = "closed"
    PROVE  FenceGuards'
  BY ReleasedIsNobodys DEF FenceGuards

(* A step of request w that takes the lease, to create only when there is   *)
(* no QR code.                                                              *)
LEMMA GuardTake ==
    ASSUME TypeOK, FenceGuards, NEW w \in Workers, NEW pc \in Steps, Take(w, pc),
           UNCHANGED <<trade, url>>, pc = "calling" => ~url,
           pc \in {"calling", "querying"}
    PROVE  FenceGuards'
  <1>1. /\ \A v \in Workers : v # w => work'[v] = work[v]
        /\ work'[w] = [pc |-> pc, fence |-> fence + 1, saw |-> "none"] /\ owner' = w
    BY TakeMoves
  <1>2. ASSUME NEW v \in Workers PROVE Creating(v)' /\ Owns(v)' => ~url'
    <2>1. CASE v = w
      <3>1. work'[w].pc = pc
        BY <1>1
      <3> QED
        BY <2>1, <3>1 DEF Creating
    <2>2. CASE v # w
      BY <1>1, <2>2 DEF Owns
    <2> QED
      BY <2>1, <2>2
  <1>3. ASSUME NEW v \in Workers PROVE work'[v].saw = "closed" => trade' = "closed"
    <2>1. work'[w].saw = "none"
      BY <1>1
    <2> QED
      BY <1>1, <2>1 DEF FenceGuards
  <1> QED
    BY <1>2, <1>3 DEF FenceGuards

(* Steps of the environment.                                                *)
LEMMA GuardIdle ==
    ASSUME FenceGuards, UNCHANGED <<work, url>>, trade = "closed" => trade' = "closed",
           UNCHANGED <<owner, fence>> \/ owner' = "none"
    PROVE  FenceGuards'
  <1>1. CASE UNCHANGED <<owner, fence>>
    BY <1>1 DEF FenceGuards, Creating, Owns
  <1>2. CASE owner' = "none"
    BY <1>2, ReleasedIsNobodys DEF FenceGuards
  <1> QED
    BY <1>1, <1>2

(* The fence's guarantee, step by step.                                     *)
LEMMA GuardStep == TypeOK /\ FenceGuards /\ [Next]_vars => FenceGuards'
  <1> SUFFICES ASSUME TypeOK, FenceGuards, [Next]_vars PROVE FenceGuards'
    OBVIOUS
  <1>s. \A pc \in {"claiming", "created", "uncertain", "refused", "dbError", "canceling"} : pc \in Steps
    BY DEF Steps
  <1>i. Idle.pc = "idle" /\ Idle.saw = "none"
    BY DEF Idle
  <1>1. ASSUME NEW w \in Workers, AnswerExisting(w) PROVE FenceGuards'
    BY <1>1, GuardIdle DEF AnswerExisting, row
  <1>2. ASSUME NEW w \in Workers, restorePaymentCreation(w) PROVE FenceGuards'
    <2>1. UNCHANGED <<url, owner, fence, trade>>
      BY <1>2 DEF restorePaymentCreation, row
    <2> QED
      BY <1>2, <1>s, <1>i, <2>1, WorkMoves, GuardFrame DEF restorePaymentCreation, Creating, At
  <1>3. ASSUME NEW w \in Workers, ClaimLost(w) PROVE FenceGuards'
    <2>1. UNCHANGED <<url, owner, fence, trade>>
      BY <1>3 DEF ClaimLost, row
    <2> QED
      BY <1>3, <1>s, <1>i, <2>1, WorkMoves, GuardFrame DEF ClaimLost, Creating, At
  <1>4. ASSUME NEW w \in Workers, PollLost(w) PROVE FenceGuards'
    <2>1. UNCHANGED <<url, owner, fence, trade>>
      BY <1>4 DEF PollLost, row
    <2> QED
      BY <1>4, <1>s, <1>i, <2>1, WorkMoves, GuardFrame DEF PollLost, Creating, At
  <1>5. ASSUME NEW w \in Workers, Crash(w) PROVE FenceGuards'
    <2>1. UNCHANGED <<url, owner, fence, trade>>
      BY <1>5 DEF Crash, row
    <2> QED
      BY <1>5, <1>s, <1>i, <2>1, WorkMoves, GuardFrame DEF Crash, Creating, At
  <1>6. ASSUME NEW w \in Workers, CheckLease(w) PROVE FenceGuards'
    <2>1. UNCHANGED <<url, owner, fence, trade>>
      BY <1>6 DEF CheckLease, row
    <2> QED
      BY <1>6, <1>s, <1>i, <2>1, WorkMoves, GuardFrame DEF CheckLease, Creating, At
  <1>7. ASSUME NEW w \in Workers, claimReconciledPaymentForIntentCreation(w) PROVE FenceGuards'
    BY <1>7, <1>s, WorkMoves, GuardRelease DEF claimReconciledPaymentForIntentCreation, Release
  <1>8. ASSUME NEW w \in Workers, ClaimIntent(w) PROVE FenceGuards'
    BY <1>8, GuardTake DEF ClaimIntent, Steps
  <1>9. ASSUME NEW w \in Workers, BeginPoll(w) PROVE FenceGuards'
    BY <1>9, GuardTake DEF BeginPoll, Steps
  <1>10. ASSUME NEW w \in Workers, renewPaymentIntentLease(w) PROVE FenceGuards'
    BY <1>10, GuardIdle DEF renewPaymentIntentLease
  <1>11. ASSUME NEW w \in Workers, createPaymentIntent(w) PROVE FenceGuards'
    <2>1. UNCHANGED <<url, owner, fence>> /\ (trade = "closed" => trade' = "closed")
      BY <1>11 DEF createPaymentIntent, row
    <2> QED
      BY <1>11, <1>s, <2>1, WorkMoves, GuardFrame DEF createPaymentIntent, Creating, At
  <1>12. ASSUME NEW w \in Workers, cancelProviderIntentAfterDbFailure(w) PROVE FenceGuards'
    <2>1. UNCHANGED <<url, owner, fence>> /\ (trade = "closed" => trade' = "closed")
      BY <1>12 DEF cancelProviderIntentAfterDbFailure, row
    <2> QED
      BY <1>12, <1>s, <2>1, WorkMoves, GuardFrame DEF cancelProviderIntentAfterDbFailure, Creating, At
  <1>13. ASSUME NEW w \in Workers, markPaymentCreationUncertain(w) PROVE FenceGuards'
    <2>1. UNCHANGED <<trade, url, owner, fence>> \/ (UNCHANGED trade /\ owner' = "none")
      BY <1>13 DEF markPaymentCreationUncertain, Release, Persisted, row
    <2>2. Leave(w)
      BY <1>13 DEF markPaymentCreationUncertain
    <2> QED
      BY <1>i, <2>1, <2>2, WorkMoves, GuardFrame, GuardRelease DEF Creating
  <1>14. ASSUME NEW w \in Workers, cancelLocalCreatedPayment(w) PROVE FenceGuards'
    <2>1. UNCHANGED <<trade, url, owner, fence>> \/ (UNCHANGED trade /\ owner' = "none")
      BY <1>14 DEF cancelLocalCreatedPayment, Release, Persisted, row
    <2>2. Leave(w)
      BY <1>14 DEF cancelLocalCreatedPayment
    <2> QED
      BY <1>i, <2>1, <2>2, WorkMoves, GuardFrame, GuardRelease DEF Creating
  <1>15. ASSUME NEW w \in Workers, PersistIntent(w) PROVE FenceGuards'
    <2>1. UNCHANGED <<trade, url, owner, fence>> \/ (UNCHANGED trade /\ owner' = "none")
      BY <1>15 DEF PersistIntent, Release, Persisted, row
    <2>2. Leave(w)
      BY <1>15 DEF PersistIntent
    <2> QED
      BY <1>i, <2>1, <2>2, WorkMoves, GuardFrame, GuardRelease DEF Creating
  <1>16. ASSUME NEW w \in Workers, ApplyPoll(w) PROVE FenceGuards'
    <2>1. UNCHANGED <<trade, url, owner, fence>> \/ (UNCHANGED trade /\ owner' = "none")
      BY <1>16 DEF ApplyPoll, Release, Persisted, row
    <2>2. Leave(w)
      BY <1>16 DEF ApplyPoll
    <2> QED
      BY <1>i, <2>1, <2>2, WorkMoves, GuardFrame, GuardRelease DEF Creating
  <1>17. ASSUME NEW w \in Workers, PersistFails(w) PROVE FenceGuards'
    <2>1. UNCHANGED <<trade, url, owner, fence>> \/ (UNCHANGED trade /\ owner' = "none")
      BY <1>17 DEF PersistFails, Release, Persisted, row
    <2>2. Goto(w, "dbError") /\ Creating(w)
      BY <1>17 DEF PersistFails, At, Creating
    <2> QED
      BY <1>s, <2>1, <2>2, WorkMoves, GuardFrame, GuardRelease DEF Creating
  <1>18. ASSUME NEW w \in Workers, QueryProvider(w) PROVE FenceGuards'
    <2>1. PICK saw \in {trade, "unsure", "error"} :
               work' = [work EXCEPT ![w].pc = "answered", ![w].saw = saw]
      BY <1>18 DEF QueryProvider
    <2>2. UNCHANGED <<url, owner, fence, trade>>
      BY <1>18 DEF QueryProvider, row
    <2>3. saw \in {"absent", "waiting", "closed", "unsure", "error"} /\ work \in [Workers -> WorkRecord]
      BY TypeParts
    <2>4. /\ \A v \in Workers : v # w => work'[v] = work[v]
          /\ work'[w].pc = "answered" /\ work'[w].saw = saw
      BY <2>1, <2>3, Answered
    <2>5. ~Creating(w)'
      BY <2>4 DEF Creating
    <2> QED
      BY <2>1, <2>2, <2>4, <2>5, GuardFrame
  <1>19. CASE Tick
    BY <1>19, GuardIdle DEF Tick, row, Release
  <1>20. CASE TradeOpens
    BY <1>20, GuardIdle DEF TradeOpens, row, Release
  <1>21. CASE OthersSettle
    BY <1>21, GuardIdle DEF OthersSettle, row, Release
  <1>22. CASE UNCHANGED vars
    BY <1>22, GuardIdle DEF vars, row
  <1> QED
    BY <1>1, <1>2, <1>3, <1>4, <1>5, <1>6, <1>7, <1>8, <1>9, <1>10, <1>11, <1>12, <1>13, <1>14, <1>15, <1>16, <1>17, <1>18, <1>19, <1>20, <1>21, <1>22
    DEF Next, WorkerStep, Work

-----------------------------------------------------------------------------
(* The QR code is never withdrawn from the row, and shown only from there.  *)
LEMMA ShownStep == TypeOK /\ ShownIsDurable /\ [Next]_vars => ShownIsDurable'
  <1> SUFFICES ASSUME TypeOK, ShownIsDurable, [Next]_vars PROVE ShownIsDurable'
    OBVIOUS
  <1> USE DEF ShownIsDurable
  <1>1. ASSUME NEW w \in Workers, AnswerExisting(w) PROVE ShownIsDurable'
    BY <1>1 DEF AnswerExisting, row
  <1>2. ASSUME NEW w \in Workers, PersistIntent(w) PROVE ShownIsDurable'
    <2>1. CASE MayWrite(w)
      BY <1>2, <2>1 DEF PersistIntent, Persisted
    <2>2. CASE ~MayWrite(w)
      <3>1. (shown' = (shown \/ (status = "pending" /\ url))) /\ url' = url
        BY <1>2, <2>2 DEF PersistIntent, row
      <3> QED
        BY <3>1
    <2> QED
      BY <2>1, <2>2
  <1>3. ASSUME NEW w \in Workers, PersistFails(w) PROVE ShownIsDurable'
    <2>1. (url' = TRUE \/ url' = url) /\ shown' = shown
      BY <1>3 DEF PersistFails, Persisted, row
    <2> QED
      BY <2>1
  <1>4. ASSUME NEW w \in Workers,
               \/ restorePaymentCreation(w) \/ claimReconciledPaymentForIntentCreation(w) \/ ClaimIntent(w)
               \/ BeginPoll(w) \/ renewPaymentIntentLease(w) \/ Crash(w)
               \/ ClaimLost(w) \/ createPaymentIntent(w) \/ markPaymentCreationUncertain(w)
               \/ cancelLocalCreatedPayment(w) \/ CheckLease(w)
               \/ cancelProviderIntentAfterDbFailure(w)
               \/ QueryProvider(w) \/ ApplyPoll(w) \/ PollLost(w)
        PROVE  ShownIsDurable'
    <2>1. UNCHANGED <<url, shown>>
      BY <1>4 DEF restorePaymentCreation, claimReconciledPaymentForIntentCreation, ClaimIntent, BeginPoll,
         renewPaymentIntentLease, Crash, ClaimLost, createPaymentIntent,
         markPaymentCreationUncertain, cancelLocalCreatedPayment, CheckLease,
         cancelProviderIntentAfterDbFailure, QueryProvider, ApplyPoll, PollLost, row
    <2> QED
      BY <2>1
  <1>5. CASE Tick \/ TradeOpens \/ OthersSettle \/ UNCHANGED vars
    BY <1>5 DEF Tick, TradeOpens, OthersSettle, vars, row
  <1> QED
    BY <1>1, <1>2, <1>3, <1>4, <1>5 DEF Next, WorkerStep, Work

(* A payment is given up only by a request that still holds the lease, so   *)
(* before any QR code, or by a poll that saw its trade closed.              *)
LEMMA GivenUpStep ==
    TypeOK /\ FenceGuards /\ GivenUpIsNotPayable /\ [Next]_vars => GivenUpIsNotPayable'
  <1> SUFFICES ASSUME TypeOK, FenceGuards, GivenUpIsNotPayable, [Next]_vars
               PROVE  GivenUpIsNotPayable'
    OBVIOUS
  <1> USE DEF GivenUpIsNotPayable
  <1>1. ASSUME NEW w \in Workers, cancelLocalCreatedPayment(w) PROVE GivenUpIsNotPayable'
    <2>1. CASE MayWrite(w)
      <3>1. ~url
        BY <1>1, <2>1 DEF FenceGuards, MayWrite, hasCurrentPaymentIntentLease, Creating,
           cancelLocalCreatedPayment, At
      <3> QED
        BY <1>1, <3>1 DEF cancelLocalCreatedPayment
    <2>2. CASE ~MayWrite(w)
      BY <1>1, <2>2 DEF cancelLocalCreatedPayment
    <2> QED
      BY <2>1, <2>2
  <1>2. ASSUME NEW w \in Workers, ApplyPoll(w) PROVE GivenUpIsNotPayable'
    <2>1. status' = "failed" => status = "failed" \/ work[w].saw = "closed"
      BY <1>2 DEF ApplyPoll
    <2> QED
      BY <1>2, <2>1 DEF ApplyPoll, FenceGuards
  <1>3. ASSUME NEW w \in Workers,
               \/ PersistIntent(w) \/ PersistFails(w) \/ markPaymentCreationUncertain(w)
               \/ claimReconciledPaymentForIntentCreation(w)
        PROVE  GivenUpIsNotPayable'
    BY <1>3 DEF PersistIntent, PersistFails, Persisted, markPaymentCreationUncertain,
       claimReconciledPaymentForIntentCreation, row
  <1>4. ASSUME NEW w \in Workers,
               \/ AnswerExisting(w) \/ restorePaymentCreation(w) \/ ClaimIntent(w) \/ BeginPoll(w)
               \/ renewPaymentIntentLease(w) \/ Crash(w) \/ ClaimLost(w)
               \/ createPaymentIntent(w) \/ CheckLease(w)
               \/ cancelProviderIntentAfterDbFailure(w) \/ QueryProvider(w) \/ PollLost(w)
        PROVE  GivenUpIsNotPayable'
    <2>1. UNCHANGED <<status, url>> /\ (trade = "closed" => trade' = "closed")
      BY <1>4 DEF AnswerExisting, restorePaymentCreation, ClaimIntent, BeginPoll, renewPaymentIntentLease,
         Crash, ClaimLost, createPaymentIntent, CheckLease,
         cancelProviderIntentAfterDbFailure, QueryProvider, PollLost, row
    <2> QED
      BY <2>1
  <1>5. CASE Tick \/ TradeOpens \/ OthersSettle \/ UNCHANGED vars
    BY <1>5 DEF Tick, TradeOpens, OthersSettle, vars, row
  <1> QED
    BY <1>1, <1>2, <1>3, <1>4, <1>5 DEF Next, WorkerStep, Work

(* The inductive invariant.                                                 *)
IntentInv == TypeOK /\ FenceGuards /\ ShownIsDurable /\ GivenUpIsNotPayable

(* The lease's fence works: a request that still owns the lease has not     *)
(* been overtaken by a persisted QR code (claimAndPersistPaymentIntent).    *)
THEOREM IntentInvHolds == Spec => []IntentInv
  <1>1. Init => IntentInv
    <2>1. ASSUME Init, NEW w \in Workers
          PROVE  work[w].pc = "idle" /\ work[w].saw = "none"
      BY <2>1 DEF Init, Idle
    <2>2. Init => FenceGuards
      BY <2>1 DEF FenceGuards, Creating
    <2>3. Init => ShownIsDurable /\ GivenUpIsNotPayable
      BY DEF Init, ShownIsDurable, GivenUpIsNotPayable
    <2> QED
      BY <2>2, <2>3, TypeInit DEF IntentInv
  <1>2. IntentInv /\ [Next]_vars => IntentInv'
    BY TypeStep, GuardStep, ShownStep, GivenUpStep DEF IntentInv
  <1> QED
    BY <1>1, <1>2, PTL DEF Spec

(* A request that owns the lease while it creates has seen no QR code being *)
(* persisted, and what a poll saw closed stays closed.                      *)
THEOREM FenceAlwaysGuards == Spec => []FenceGuards
  BY IntentInvHolds, PTL DEF IntentInv

(* A machine is only ever shown a QR code that is in the database.          *)
THEOREM ShownCodesAreDurable == Spec => []ShownIsDurable
  BY IntentInvHolds, PTL DEF IntentInv

(* A payment given up with its stock released cannot be paid any more.      *)
THEOREM GivenUpCannotBePaid == Spec => []GivenUpIsNotPayable
  BY IntentInvHolds, PTL DEF IntentInv

-----------------------------------------------------------------------------
(* A step of request v leaves the other requests where they are.            *)
LEMMA OneWorkerMoves ==
    ASSUME TypeOK, NEW v \in Workers, WorkerStep(v), NEW w \in Workers, w # v
    PROVE  work'[w] = work[w]
  <1>1. ASSUME Leave(v) \/ \E pc \in Steps : Goto(v, pc) PROVE work'[w] = work[w]
    BY <1>1, WorkMoves
  <1>2. CASE \/ restorePaymentCreation(v) \/ claimReconciledPaymentForIntentCreation(v) \/ ClaimLost(v)
             \/ createPaymentIntent(v) \/ markPaymentCreationUncertain(v)
             \/ cancelLocalCreatedPayment(v) \/ PersistIntent(v) \/ PersistFails(v)
             \/ CheckLease(v) \/ cancelProviderIntentAfterDbFailure(v)
             \/ ApplyPoll(v) \/ PollLost(v) \/ Crash(v)
    <2>1. Leave(v) \/ \E pc \in Steps : Goto(v, pc)
      BY <1>2 DEF restorePaymentCreation, claimReconciledPaymentForIntentCreation, ClaimLost,
         createPaymentIntent, markPaymentCreationUncertain, cancelLocalCreatedPayment,
         PersistIntent, PersistFails, CheckLease, cancelProviderIntentAfterDbFailure,
         ApplyPoll, PollLost, Crash, Steps
    <2> QED
      BY <1>1, <2>1
  <1>3. CASE ClaimIntent(v) \/ BeginPoll(v)
    <2>1. \E pc \in Steps : Take(v, pc)
      BY <1>3 DEF ClaimIntent, BeginPoll, Steps
    <2> QED
      BY <2>1, TakeMoves
  <1>4. CASE QueryProvider(v)
    <2>1. PICK saw \in {trade, "unsure", "error"} :
               work' = [work EXCEPT ![v].pc = "answered", ![v].saw = saw]
      BY <1>4 DEF QueryProvider
    <2>2. saw \in {"absent", "waiting", "closed", "unsure", "error"} /\ work \in [Workers -> WorkRecord]
      BY TypeParts
    <2> QED
      BY <2>1, <2>2, Answered
  <1>5. CASE AnswerExisting(v) \/ renewPaymentIntentLease(v)
    BY <1>5 DEF AnswerExisting, renewPaymentIntentLease
  <1> QED
    BY <1>2, <1>3, <1>4, <1>5 DEF WorkerStep, Work

(* A request past its claim whose fence is no longer the row's: no step of  *)
(* it writes the row.                                                       *)
LEMMA SupersededStep ==
    ASSUME NEW w \in Workers, WorkerStep(w), work'[w] # work[w],
           ~At(w, "idle"), ~At(w, "claiming"), work[w].fence # fence
    PROVE  UNCHANGED row
  <1>1. ~Owns(w) /\ ~MayWrite(w)
    BY DEF Owns, MayWrite, hasCurrentPaymentIntentLease
  <1>2. CASE markPaymentCreationUncertain(w) \/ cancelLocalCreatedPayment(w)
    BY <1>1, <1>2 DEF markPaymentCreationUncertain, cancelLocalCreatedPayment, row
  <1>3. CASE PersistIntent(w) \/ PersistFails(w)
    BY <1>1, <1>3 DEF PersistIntent, PersistFails
  <1>4. ~ApplyPoll(w)
    BY <1>1 DEF ApplyPoll, PollCounts
  <1>5. CASE \/ ClaimLost(w) \/ createPaymentIntent(w) \/ CheckLease(w) \/ PollLost(w)
             \/ cancelProviderIntentAfterDbFailure(w) \/ QueryProvider(w) \/ Crash(w)
    BY <1>5 DEF ClaimLost, createPaymentIntent, CheckLease, PollLost,
       cancelProviderIntentAfterDbFailure, QueryProvider, Crash
  <1>6. ~renewPaymentIntentLease(w)
    BY <1>1 DEF renewPaymentIntentLease
  <1>7. /\ ~AnswerExisting(w) /\ ~restorePaymentCreation(w) /\ ~ClaimIntent(w) /\ ~BeginPoll(w)
        /\ ~claimReconciledPaymentForIntentCreation(w)
    BY DEF AnswerExisting, restorePaymentCreation, ClaimIntent, BeginPoll,
       claimReconciledPaymentForIntentCreation
  <1> QED
    BY <1>2, <1>3, <1>4, <1>5, <1>6, <1>7 DEF WorkerStep, Work

(* A request that was overtaken writes nothing: the compare-and-set of      *)
(* every late write names its token and its fence.                          *)
THEOREM OvertakenWritesNothing == Spec => SupersededWritesNothing
  <1> DEFINE Overtaken == \A w \in Workers :
                 /\ work'[w] # work[w] /\ ~At(w, "idle") /\ ~At(w, "claiming")
                 /\ work[w].fence # fence
                 => UNCHANGED row
  <1>1. TypeOK /\ [Next]_vars => [Overtaken]_vars
    <2> SUFFICES ASSUME TypeOK, Next,
                        NEW w \in Workers, work'[w] # work[w],
                        ~At(w, "idle"), ~At(w, "claiming"), work[w].fence # fence
                 PROVE  UNCHANGED row
      OBVIOUS
    <2>1. CASE \E v \in Workers : WorkerStep(v)
      BY <2>1, OneWorkerMoves, SupersededStep
    <2>2. CASE Tick \/ TradeOpens \/ OthersSettle
      BY <2>2 DEF Tick, TradeOpens, OthersSettle
    <2> QED
      BY <2>1, <2>2 DEF Next
  <1> QED
    BY <1>1, IntentTypeCorrect, PTL DEF Spec, SupersededWritesNothing

-----------------------------------------------------------------------------
(* The payment code.                                                        *)

Trades == {"absent", "paying", "captured", "refused", "reversed"}
PaymentStates == {"pending", "unknown", "succeeded"} \union Closed
OrderStates == {"pending_payment", "paid", "canceled", "payment_expired", "manual_handling"}
AttemptStates == InPlay \union Ended \union {"none"}
Dues == {"null", "later", "now"}

Charging(a) == \E r \in wire : r.on = a /\ r.call = "charge"

(* The provider knows the number of an attempt, or will.                    *)
Reached(a) == codeTrade[a] # "absent" \/ Charging(a)

Open == {"pending", "unknown"}
Engaged(w) == worker[w].step \in {"claimed", "renew", "wait", "apply"}
Holds(w) == Engaged(w) /\ holder[worker[w].on] = w

(* Only a worker at work holds a lease, and one only.                       *)
HolderInv ==
    \A w \in Claimants, a \in Attempts :
        holder[a] = w => Engaged(w) /\ worker[w].on = a

(* A request that somebody waits for is that worker's.                      *)
WireInv ==
    \A r \in wire : r.from # Gone =>
        /\ worker[r.from].step = "wait"
        /\ worker[r.from].on = r.on /\ worker[r.from].call = r.call

(* What the holder of a lease knows of its attempt.                         *)
ClaimInv ==
    \A w \in Claimants : Holds(w) =>
        attempt[worker[w].on] \in
            IF worker[w].step = "claimed" /\ worker[w].seen = "created"
            THEN {"created", "canceled"} ELSE Submitted \union {"manual_handling"}

(* A worker that was told that the money will not come was told the truth.  *)
AnswerInv ==
    \A w \in Claimants : worker[w].step = "apply" =>
        /\ worker[w].answer = "reversed" => codeTrade[worker[w].on] = "reversed"
        /\ worker[w].answer = "failed" =>
              /\ worker[w].call # "reverse"
              /\ worker[w].call = "charge" \/ NotFound = "unknown" =>
                    codeTrade[worker[w].on] \in {"refused", "reversed"}

(* One attempt is in play, as long as the payment is open.                  *)
PlayInv ==
    /\ \A a, b \in Attempts : Active(a) /\ Active(b) => a = b
    /\ payment \notin Open => \A a \in Attempts : ~Active(a)
    /\ \A a \in Attempts : attempt[a] = "succeeded" => payment = "succeeded"

(* An attempt whose charge may take the money has been submitted and, while *)
(* the payment is open, is in play.                                         *)
ChargeInv ==
    \A a \in Attempts :
        /\ Reached(a) => attempt[a] \notin {"none", "created", "canceled"}
        /\ MayCapture(a) /\ payment \in Open => Active(a)

(* Money that may be taken is never out of sight, where "not found" is no   *)
(* refusal.                                                                 *)
KeptInv ==
    NotFound = "unknown" =>
        \A a \in Attempts : MayCapture(a) =>
            Active(a) \/ (attempt[a] = "succeeded" /\ payment = "succeeded")

-----------------------------------------------------------------------------
(* Types.                                                                   *)

(* The types of the rows of payment and order, and of the attempts.         *)
ParentType == payment \in PaymentStates /\ order \in OrderStates /\ expired \in BOOLEAN
AttemptType ==
    /\ attempt \in [Attempts -> AttemptStates]
    /\ holder \in [Attempts -> Claimants \union {Nobody, Gone}]
    /\ count \in [Attempts -> 0 .. MaxAttempts]
    /\ due \in [Attempts -> Dues]
RowsType == ParentType /\ AttemptType
WorkerType == worker \in [Claimants -> {Unoccupied} \union Claims]
WireType == wire \subseteq Requests
TradeType == codeTrade \in [Attempts -> Trades]
UpsetType == upsets \in 0 .. MaxUpsets

LEMMA PCTypeParts ==
    PCTypeOK <=> RowsType /\ WorkerType /\ WireType /\ TradeType /\ UpsetType
  BY DEF PCTypeOK, RowsType, ParentType, AttemptType, WorkerType, WireType, TradeType,
         UpsetType, PaymentStates, OrderStates, AttemptStates, Dues, Trades

LEMMA PCTypeNext ==
    ASSUME RowsType', WorkerType', WireType', TradeType', UpsetType'
    PROVE  PCTypeOK'
  BY DEF PCTypeOK, RowsType, ParentType, AttemptType, WorkerType, WireType, TradeType,
         UpsetType, PaymentStates, OrderStates, AttemptStates, Dues, Trades

(* A worker that is not at rest is on an attempt.                           *)
LEMMA AtWork ==
    ASSUME WorkerType, NEW w \in Claimants, worker[w].step # "idle"
    PROVE  worker[w] \in Claims
  BY DEF WorkerType, Unoccupied

LEMMA ClaimParts ==
    ASSUME NEW c \in Claims
    PROVE  /\ c.step \in {"admit", "claimed", "renew", "wait", "apply"} /\ c.on \in Attempts
           /\ c.call \in Calls /\ c.seen \in InPlay /\ c.count \in 0 .. MaxAttempts
           /\ c.late \in BOOLEAN /\ c.answer \in Answers
  BY DEF Claims

(* The ways in which a worker's record changes.                             *)
LEMMA WorkerSet ==
    ASSUME WorkerType, NEW w \in Claimants, NEW c \in {Unoccupied} \union Claims,
           worker' = [worker EXCEPT ![w] = c]
    PROVE  /\ WorkerType' /\ worker'[w] = c
           /\ \A v \in Claimants : v # w => worker'[v] = worker[v]
  BY DEF WorkerType

LEMMA FinishMoves ==
    ASSUME WorkerType, WireType, NEW w \in Claimants, Finish(w)
    PROVE  /\ WorkerType' /\ WireType' /\ worker'[w] = Unoccupied /\ wire' = Abandoned(w)
           /\ \A v \in Claimants : v # w => worker'[v] = worker[v]
  <1>1. Abandoned(w) \subseteq Requests
    BY DEF Abandoned, WireType, Requests, Calls
  <1>2. worker' = [worker EXCEPT ![w] = Unoccupied] /\ wire' = Abandoned(w)
    BY DEF Finish
  <1>3. WireType'
    BY <1>1, <1>2 DEF WireType, Requests
  <1> QED
    BY <1>2, <1>3, WorkerSet

LEMMA HolderLeftType ==
    ASSUME AttemptType, NEW w \in Claimants
    PROVE  HolderLeft(w) \in [Attempts -> Claimants \union {Nobody, Gone}]
  BY DEF HolderLeft, AttemptType

(* What is written keeps the types of the rows.                             *)
LEMMA SetAttemptType ==
    ASSUME AttemptType, NEW a \in Attempts, NEW s \in AttemptStates, NEW d \in Dues,
           SetAttempt(a, s, d)
    PROVE  AttemptType'
  BY DEF AttemptType, SetAttempt

LEMMA DiscardType ==
    ASSUME RowsType, NEW w \in Claimants, Discard(w)
    PROVE  RowsType'
  BY HolderLeftType DEF Discard, RowsType, ParentType, AttemptType, parentVars

LEMMA ReleaseTypes ==
    ASSUME RowsType, NEW w \in Claimants, worker[w].on \in Attempts,
           NEW s \in AttemptStates, NEW d \in Dues, releaseRecoveryClaim(w, s, d)
    PROVE  RowsType'
  <1>1. CASE recoveryLeaseConditions(w)
    <2> DEFINE d1 == IF s \in Ended THEN "null" ELSE d
    <2>1. SetAttempt(worker[w].on, s, d1) /\ UNCHANGED parentVars
      BY <1>1 DEF releaseRecoveryClaim
    <2>2. d1 \in Dues
      BY DEF Dues
    <2> HIDE DEF d1
    <2>3. AttemptType'
      BY <2>1, <2>2, SetAttemptType DEF RowsType
    <2> QED
      BY <2>1, <2>3 DEF RowsType, ParentType, parentVars
  <1>2. CASE ~recoveryLeaseConditions(w)
    BY <1>2, DiscardType DEF releaseRecoveryClaim
  <1> QED
    BY <1>1, <1>2

LEMMA ManualTypes ==
    ASSUME RowsType, NEW w \in Claimants, worker[w].on \in Attempts, markManualHandling(w)
    PROVE  RowsType'
  <1>1. CASE recoveryLeaseConditions(w) /\ payment \in {"pending", "unknown"}
    <2>1. "manual_handling" \in AttemptStates /\ "null" \in Dues
      BY DEF AttemptStates, InPlay, Dues
    <2>2. SetAttempt(worker[w].on, "manual_handling", "null")
      BY <1>1 DEF markManualHandling
    <2>3. AttemptType'
      BY <2>1, <2>2, SetAttemptType DEF RowsType
    <2> QED
      BY <1>1, <2>3 DEF markManualHandling, RowsType, ParentType, PaymentStates, OrderStates
  <1>2. CASE ~(recoveryLeaseConditions(w) /\ payment \in {"pending", "unknown"})
    <2>1. Discard(w)
      BY <1>2 DEF markManualHandling
    <2> QED
      BY <2>1, DiscardType
  <1> QED
    BY <1>1, <1>2

LEMMA DeferTypes ==
    ASSUME RowsType, NEW w \in Claimants, worker[w].on \in Attempts,
           NEW s \in AttemptStates, deferRecovery(w, s)
    PROVE  RowsType'
  <1>1. "later" \in Dues
    BY DEF Dues
  <1> QED
    BY <1>1, ManualTypes, ReleaseTypes DEF deferRecovery

LEMMA TransitionTypes ==
    ASSUME RowsType, NEW w \in Claimants, worker[w].on \in Attempts,
           NEW new \in {"succeeded", "failed"}, NEW s \in AttemptStates, NEW b \in BOOLEAN,
           transitionProviderPaymentTerminal(w, new, s, b)
    PROVE  RowsType'
  <1> DEFINE settles == /\ Active(worker[w].on) /\ recoveryLeaseConditions(w)
                        /\ payment \in {"pending", "unknown"} /\ (IncidentLocked => b)
  <1>1. CASE settles
    <2>1. "null" \in Dues
      BY DEF Dues
    <2>2. SetAttempt(worker[w].on, s, "null")
      BY <1>1 DEF transitionProviderPaymentTerminal
    <2>3. AttemptType'
      BY <2>1, <2>2, SetAttemptType DEF RowsType
    <2>4. payment' = new /\ expired' = expired
      BY <1>1 DEF transitionProviderPaymentTerminal
    <2>5. order' \in {"canceled", order, "paid"}
      BY <1>1 DEF transitionProviderPaymentTerminal
    <2>6. ParentType'
      BY <2>4, <2>5 DEF RowsType, ParentType, PaymentStates, OrderStates, Closed
    <2> QED
      BY <2>3, <2>6 DEF RowsType
  <1>2. CASE ~settles
    <2>1. Discard(w)
      BY <1>2 DEF transitionProviderPaymentTerminal
    <2> QED
      BY <2>1, DiscardType
  <1> QED
    BY <1>1, <1>2

LEMMA PCTypeInit == PCInit => PCTypeOK
  <1> SUFFICES ASSUME PCInit PROVE PCTypeOK
    OBVIOUS
  <1>1. ParentType
    BY DEF PCInit, ParentType, PaymentStates, OrderStates
  <1>2. AttemptType
    BY DEF PCInit, AttemptType, AttemptStates, Dues
  <1>3. WorkerType /\ WireType
    BY DEF PCInit, WorkerType, WireType
  <1>4. TradeType /\ UpsetType
    BY DEF PCInit, TradeType, Trades, UpsetType
  <1> QED
    BY <1>1, <1>2, <1>3, <1>4, PCTypeParts DEF RowsType

LEMMA CountedType ==
    ASSUME AttemptType, NEW a \in Attempts
    PROVE  Counted(a) \in 0 .. MaxAttempts
  BY DEF AttemptType, Counted

(* A worker's step that ends its work and writes nothing but rows.          *)
LEMMA FinishType ==
    ASSUME PCTypeOK, NEW w \in Claimants, Finish(w), RowsType', TradeType', UpsetType'
    PROVE  PCTypeOK'
  BY PCTypeParts, PCTypeNext, FinishMoves

(* A worker's step that goes on and leaves wire, trades and bound.          *)
LEMMA GoOnType ==
    ASSUME PCTypeOK, NEW w \in Claimants, NEW c \in Claims,
           worker' = [worker EXCEPT ![w] = c], RowsType', WireType', UNCHANGED <<codeTrade, upsets>>
    PROVE  PCTypeOK'
  <1>1. WorkerType'
    BY PCTypeParts, WorkerSet
  <1>2. TradeType' /\ UpsetType'
    BY PCTypeParts DEF TradeType, UpsetType
  <1> QED
    BY <1>1, <1>2, PCTypeNext

LEMMA RowsStay ==
    ASSUME RowsType, UNCHANGED rowVars
    PROVE  RowsType'
  BY DEF RowsType, ParentType, AttemptType, rowVars, parentVars, attemptVars

LEMMA OthersStay ==
    ASSUME PCTypeOK
    PROVE  /\ UNCHANGED parentVars => ParentType'
           /\ UNCHANGED attemptVars => AttemptType'
           /\ UNCHANGED codeTrade => TradeType'
           /\ UNCHANGED upsets => UpsetType'
           /\ UNCHANGED worker => WorkerType'
           /\ UNCHANGED wire => WireType'
  BY PCTypeParts DEF RowsType, ParentType, AttemptType, parentVars, attemptVars, TradeType,
         UpsetType, WorkerType, WireType

(* Fields of a claim that change.                                           *)
LEMMA ClaimSet ==
    ASSUME NEW c \in Claims
    PROVE  /\ \A s \in {"admit", "claimed", "renew", "wait", "apply"} : [c EXCEPT !.step = s] \in Claims
           /\ \A n \in 0 .. MaxAttempts : [c EXCEPT !.step = "renew", !.count = n] \in Claims
           /\ \A b \in BOOLEAN : [c EXCEPT !.step = "renew", !.late = b] \in Claims
           /\ \A r \in Calls : [c EXCEPT !.step = "renew", !.call = r] \in Claims
           /\ \A x \in Answers : [c EXCEPT !.step = "apply", !.answer = x] \in Claims
  BY DEF Claims

LEMMA AdmitTypes ==
    ASSUME PCTypeOK, NEW w \in Claimants, NEW a \in Attempts, createOrReplay(w, a)
    PROVE  PCTypeOK'
  <1> DEFINE c == [step |-> "admit", on |-> a, call |-> "charge", seen |-> "created",
                   count |-> 0, late |-> FALSE, answer |-> "error"]
  <1>1. c \in Claims
    BY DEF Claims, Calls, InPlay, Answers
  <1>2. /\ worker' = [worker EXCEPT ![w] = c]
        /\ UNCHANGED <<parentVars, holder, count, wire, codeTrade, upsets>>
    BY DEF createOrReplay
  <1>3. AttemptType'
    <2>1. AttemptType
      BY PCTypeParts DEF RowsType
    <2>2. CASE UNCHANGED <<attempt, due>>
      BY <1>2, <2>1, <2>2 DEF AttemptType
    <2>3. CASE /\ attempt' = [attempt EXCEPT ![a] = "created"]
               /\ due' = [due EXCEPT ![a] = "later"]
      BY <1>2, <2>1, <2>3 DEF AttemptType, AttemptStates, InPlay, Dues
    <2> QED
      BY <2>2, <2>3 DEF createOrReplay
  <1>4. ParentType' /\ WireType'
    BY <1>2, OthersStay
  <1> HIDE DEF c
  <1> QED
    BY <1>1, <1>2, <1>3, <1>4, GoOnType DEF RowsType

LEMMA SubmitTypes ==
    ASSUME PCTypeOK, NEW w \in Claimants, claimSubmission(w)
    PROVE  PCTypeOK'
  <1> DEFINE a == worker[w].on
  <1>1. worker[w] \in Claims /\ a \in Attempts
    BY PCTypeParts, AtWork, ClaimParts DEF claimSubmission, Doing
  <1>2. UNCHANGED <<parentVars, codeTrade, upsets>>
    BY DEF claimSubmission
  <1>3. CASE attempt[a] = "created" /\ Payable
    <2>1. /\ attempt' = [attempt EXCEPT ![a] = "submitting"]
          /\ holder' = [holder EXCEPT ![a] = w]
          /\ count' = [count EXCEPT ![a] = Counted(a)]
          /\ due' = [due EXCEPT ![a] = "now"]
          /\ worker' = [worker EXCEPT ![w].step = "renew", ![w].count = Counted(a)]
          /\ UNCHANGED wire
      BY <1>3 DEF claimSubmission
    <2>2. Counted(a) \in 0 .. MaxAttempts
      BY <1>1, PCTypeParts, CountedType DEF RowsType
    <2>3. [worker[w] EXCEPT !.step = "renew", !.count = Counted(a)] \in Claims
      BY <1>1, <2>2, ClaimSet
    <2>4. worker' = [worker EXCEPT ![w] = [worker[w] EXCEPT !.step = "renew", !.count = Counted(a)]]
      BY <2>1
    <2>5. AttemptType'
      BY <1>1, <2>1, <2>2, PCTypeParts DEF RowsType, AttemptType, AttemptStates, InPlay, Submitted, Dues
    <2>6. ParentType' /\ WireType'
      BY <1>2, <2>1, OthersStay
    <2> QED
      BY <1>2, <2>3, <2>4, <2>5, <2>6, GoOnType DEF RowsType
  <1>4. CASE ~(attempt[a] = "created" /\ Payable)
    BY <1>2, <1>4, OthersStay, FinishType DEF claimSubmission, RowsType
  <1> QED
    BY <1>3, <1>4

LEMMA AdmissionFailsTypes ==
    ASSUME PCTypeOK, NEW w \in Claimants, AdmissionFails(w)
    PROVE  PCTypeOK'
  <1>1. worker[w].on \in Attempts
    BY PCTypeParts, AtWork, ClaimParts DEF AdmissionFails, Doing
  <1>2. Finish(w) /\ UNCHANGED <<parentVars, codeTrade, upsets>>
    BY DEF AdmissionFails
  <1>3. SetAttempt(worker[w].on, "failed", "null") \/ UNCHANGED attemptVars
    BY DEF AdmissionFails
  <1>4. "failed" \in AttemptStates /\ "null" \in Dues
    BY DEF AttemptStates, Ended, Dues
  <1>5. AttemptType'
    BY <1>1, <1>3, <1>4, PCTypeParts, SetAttemptType, OthersStay DEF RowsType
  <1> QED
    BY <1>2, <1>5, OthersStay, FinishType DEF RowsType

LEMMA ClaimTypes ==
    ASSUME PCTypeOK, NEW w \in Claimants, NEW a \in Attempts, claimRecoveryAttempt(w, a)
    PROVE  PCTypeOK'
  <1> DEFINE c == [step |-> "claimed", on |-> a, call |-> "query", seen |-> attempt[a],
                   count |-> Counted(a), late |-> FALSE, answer |-> "error"]
  <1>1. Counted(a) \in 0 .. MaxAttempts
    BY PCTypeParts, CountedType DEF RowsType
  <1>2. attempt[a] \in InPlay
    BY DEF claimRecoveryAttempt, Claimable, Active
  <1>3. c \in Claims
    BY <1>1, <1>2 DEF Claims, Calls, Answers
  <1>4. /\ worker' = [worker EXCEPT ![w] = c]
        /\ holder' = [holder EXCEPT ![a] = w]
        /\ count' = [count EXCEPT ![a] = Counted(a)]
        /\ UNCHANGED <<parentVars, attempt, due, wire, codeTrade, upsets>>
    BY DEF claimRecoveryAttempt
  <1>5. AttemptType'
    BY <1>1, <1>4, PCTypeParts DEF RowsType, AttemptType
  <1>6. ParentType' /\ WireType'
    BY <1>4, OthersStay
  <1> HIDE DEF c
  <1> QED
    BY <1>3, <1>4, <1>5, <1>6, GoOnType DEF RowsType

LEMMA RecoverTypes ==
    ASSUME PCTypeOK, NEW w \in Claimants, recoverClaim(w)
    PROVE  PCTypeOK'
  <1>0. worker[w] \in Claims /\ worker[w].on \in Attempts
    BY PCTypeParts, AtWork, ClaimParts DEF recoverClaim, Doing
  <1>1. UNCHANGED <<codeTrade, upsets>> /\ (recoverWithoutQuery(w) \/ recoverInContext(w))
    BY DEF recoverClaim
  <1>2. /\ "failed" \in AttemptStates /\ "succeeded" \in AttemptStates
        /\ "querying" \in AttemptStates /\ "null" \in Dues
    BY DEF AttemptStates, Ended, InPlay, Submitted, Dues
  <1>3. RowsType
    BY PCTypeParts
  <1>4. CASE recoverWithoutQuery(w)
    <2>1. RowsType' /\ Finish(w)
      BY <1>0, <1>2, <1>3, <1>4, ReleaseTypes, ManualTypes DEF recoverWithoutQuery
    <2> QED
      BY <1>1, <2>1, OthersStay, FinishType
  <1>5. CASE recoverInContext(w)
    <2>1. CASE Finish(w) /\ \/ deferRecovery(w, "querying")
                            \/ releaseRecoveryClaim(w, "succeeded", "null")
                            \/ releaseRecoveryClaim(w, "failed", "null")
      <3>1. RowsType'
        BY <1>0, <1>2, <1>3, <2>1, DeferTypes, ReleaseTypes
      <3> QED
        BY <1>1, <2>1, <3>1, OthersStay, FinishType
    <2>2. CASE /\ worker' = [worker EXCEPT ![w].step = "renew", ![w].late = expired]
               /\ UNCHANGED <<rowVars, wire>>
      <3>1. [worker[w] EXCEPT !.step = "renew", !.late = expired] \in Claims
        BY <1>0, <1>3, ClaimSet DEF RowsType, ParentType
      <3>2. worker' = [worker EXCEPT ![w] = [worker[w] EXCEPT !.step = "renew", !.late = expired]]
        BY <2>2
      <3>3. RowsType' /\ WireType'
        BY <1>3, <2>2, RowsStay, OthersStay
      <3> QED
        BY <1>1, <3>1, <3>2, <3>3, GoOnType
    <2> QED
      BY <1>5, <2>1, <2>2 DEF recoverInContext
  <1> QED
    BY <1>1, <1>4, <1>5

LEMMA CallTypes ==
    ASSUME PCTypeOK, NEW w \in Claimants, callWithRenewedLease(w) \/ CallFails(w)
    PROVE  PCTypeOK'
  <1>0. worker[w] \in Claims /\ worker[w].on \in Attempts /\ worker[w].call \in Calls
    BY PCTypeParts, AtWork, ClaimParts DEF callWithRenewedLease, CallFails, Doing
  <1>1. UNCHANGED <<rowVars, codeTrade, upsets>> /\ RowsType'
    BY PCTypeParts, RowsStay DEF callWithRenewedLease, CallFails
  <1> DEFINE failed == [worker[w] EXCEPT !.step = "apply", !.answer = "error"]
             waits == [worker[w] EXCEPT !.step = "wait"]
  <1>2. failed \in Claims /\ waits \in Claims
    BY <1>0, ClaimSet DEF Answers
  <1>3. CASE callWithRenewedLease(w)
    <2>1. CASE /\ wire' = wire \union {[on |-> worker[w].on, call |-> worker[w].call, from |-> w]}
               /\ worker' = [worker EXCEPT ![w].step = "wait"]
      <3>1. WireType'
        BY <1>0, <2>1, PCTypeParts DEF WireType, Requests
      <3>2. worker' = [worker EXCEPT ![w] = waits]
        BY <2>1
      <3> HIDE DEF waits
      <3> QED
        BY <1>1, <1>2, <3>1, <3>2, GoOnType
    <2>2. CASE UNCHANGED wire /\ worker' = [worker EXCEPT ![w].step = "apply", ![w].answer = "error"]
      <3>1. worker' = [worker EXCEPT ![w] = failed] /\ WireType'
        BY <2>2, OthersStay
      <3> HIDE DEF failed
      <3> QED
        BY <1>1, <1>2, <3>1, GoOnType
    <2> QED
      BY <1>3, <2>1, <2>2 DEF callWithRenewedLease
  <1>4. CASE CallFails(w)
    <2>1. worker' = [worker EXCEPT ![w] = failed] /\ wire' = Abandoned(w)
      BY <1>4 DEF CallFails
    <2>2. Abandoned(w) \subseteq Requests
      BY PCTypeParts DEF Abandoned, WireType, Requests, Calls
    <2>3. WireType'
      BY <2>1, <2>2 DEF WireType, Requests
    <2> HIDE DEF failed
    <2> QED
      BY <1>1, <1>2, <2>1, <2>3, GoOnType
  <1> QED
    BY <1>3, <1>4

LEMMA TradeSet ==
    ASSUME TradeType, NEW a \in Attempts, NEW t \in Trades, codeTrade' = [codeTrade EXCEPT ![a] = t]
    PROVE  TradeType' /\ codeTrade'[a] = t /\ \A b \in Attempts : b # a => codeTrade'[b] = codeTrade[b]
  BY DEF TradeType

LEMMA ProviderTypes ==
    ASSUME PCTypeOK, WireInv, NEW r \in wire, NEW t \in Trades, NEW answer \in Answers,
           ProviderHandles(r, t, answer)
    PROVE  PCTypeOK'
  <1>1. r.on \in Attempts /\ r.from \in Claimants \union {Gone}
    BY PCTypeParts DEF WireType, Requests
  <1>2. /\ codeTrade' = [codeTrade EXCEPT ![r.on] = t] /\ wire' = wire \ {r}
        /\ UNCHANGED rowVars /\ UNCHANGED upsets
    BY DEF ProviderHandles
  <1>3. TradeType' /\ RowsType' /\ UpsetType' /\ WireType'
    BY <1>1, <1>2, PCTypeParts, TradeSet, RowsStay, OthersStay DEF WireType, Requests
  <1>4. CASE r.from = Gone
    BY <1>3, <1>4, PCTypeNext, OthersStay DEF ProviderHandles
  <1>5. CASE r.from # Gone
    <2> DEFINE w == r.from
               c == [worker[w] EXCEPT !.step = "apply", !.answer = answer]
    <2>1. w \in Claimants
      BY <1>1, <1>5
    <2>2. worker[w] \in Claims
      BY <1>5, <2>1, PCTypeParts, AtWork DEF WireInv
    <2>3. c \in Claims
      BY <2>2, ClaimSet
    <2>4. worker' = [worker EXCEPT ![w] = c]
      BY <1>5 DEF ProviderHandles
    <2> HIDE DEF c
    <2>5. WorkerType'
      BY <2>1, <2>3, <2>4, PCTypeParts, WorkerSet
    <2> QED
      BY <1>3, <2>5, PCTypeNext
  <1> QED
    BY <1>4, <1>5

LEMMA ApplyTypes ==
    ASSUME PCTypeOK, NEW w \in Claimants, Apply(w)
    PROVE  PCTypeOK'
  <1>0. /\ worker[w] \in Claims /\ worker[w].on \in Attempts /\ RowsType
    BY PCTypeParts, AtWork, ClaimParts DEF Apply, Doing
  <1>1. UNCHANGED <<codeTrade, upsets>>
    BY DEF Apply
  <1>2. /\ {"failed", "succeeded", "reversed", "querying", "user_confirming"} \subseteq AttemptStates
        /\ "null" \in Dues
    BY DEF AttemptStates, Ended, InPlay, Submitted, Dues
  <1>3. CASE applyChargeResult(w)
    <2>1. Finish(w)
      BY <1>3 DEF applyChargeResult
    <2>2. RowsType'
      BY <1>0, <1>2, <1>3, TransitionTypes, ReleaseTypes, DeferTypes DEF applyChargeResult
    <2> QED
      BY <1>1, <2>1, <2>2, OthersStay, FinishType
  <1>4. CASE reverseAfterQuery(w)
    <2>1. Finish(w)
      BY <1>4 DEF reverseAfterQuery
    <2>2. RowsType'
      BY <1>0, <1>2, <1>4, TransitionTypes, DeferTypes DEF reverseAfterQuery
    <2> QED
      BY <1>1, <2>1, <2>2, OthersStay, FinishType
  <1>5. CASE beginReversal(w)
    <2>1. CASE Discard(w) /\ Finish(w)
      BY <1>0, <1>1, <2>1, DiscardType, OthersStay, FinishType
    <2>2. CASE /\ attempt' = [attempt EXCEPT ![worker[w].on] = "reversing"]
               /\ due' = [due EXCEPT ![worker[w].on] = "now"]
               /\ worker' = [worker EXCEPT ![w].step = "renew", ![w].call = "reverse"]
               /\ UNCHANGED <<parentVars, holder, count, wire>>
      <3> DEFINE c == [worker[w] EXCEPT !.step = "renew", !.call = "reverse"]
      <3>1. worker' = [worker EXCEPT ![w] = c]
        BY <2>2
      <3>2. c \in Claims
        BY <1>0, ClaimSet DEF Calls
      <3> HIDE DEF c
      <3>3. AttemptType'
        BY <1>0, <2>2 DEF RowsType, AttemptType, AttemptStates, InPlay, Submitted, Dues
      <3>4. ParentType' /\ WireType'
        BY <2>2, OthersStay
      <3> QED
        BY <1>1, <3>1, <3>2, <3>3, <3>4, GoOnType DEF RowsType
    <2> QED
      BY <1>5, <2>1, <2>2 DEF beginReversal
  <1>6. CASE queryAndResolve(w) /\ ~beginReversal(w)
    <2>1. Finish(w)
      BY <1>6 DEF queryAndResolve
    <2>2. \/ \E s \in {"succeeded", "failed"}, x \in {"succeeded", "failed", "reversed"} :
                transitionProviderPaymentTerminal(w, s, x, TRUE)
          \/ deferRecovery(w, "querying") \/ deferRecovery(w, "user_confirming")
      BY <1>6 DEF queryAndResolve
    <2>3. RowsType'
      BY <1>0, <1>2, <2>2, TransitionTypes, DeferTypes
    <2> QED
      BY <1>1, <2>1, <2>3, OthersStay, FinishType
  <1> QED
    BY <1>3, <1>4, <1>5, <1>6 DEF Apply

LEMMA WakeType ==
    ASSUME AttemptType, NEW a \in Attempts, Wake(a)
    PROVE  AttemptType'
  BY DEF AttemptType, Wake, Dues

LEMMA CloseTypes ==
    ASSUME RowsType, NEW p \in Closed, NEW o \in {"canceled", "payment_expired"}, CloseOrder(p, o)
    PROVE  RowsType'
  <1>1. /\ attempt' = [a \in Attempts |-> IF Active(a) THEN "canceled" ELSE attempt[a]]
        /\ payment' = p /\ order' = o /\ UNCHANGED <<expired, holder, count, due>>
    BY DEF CloseOrder
  <1>2. AttemptType'
    BY <1>1 DEF RowsType, AttemptType, AttemptStates, Ended
  <1>3. ParentType'
    BY <1>1 DEF RowsType, ParentType, PaymentStates, OrderStates
  <1> QED
    BY <1>2, <1>3 DEF RowsType

(* Everybody else.                                                          *)
LEMMA OthersTypes ==
    ASSUME PCTypeOK,
           \/ \E a \in Attempts :
                 \/ \E t \in {"captured", "refused"} : CustomerDecides(a, t)
                 \/ \E s \in {"querying", "reversing", "manual_handling"} : requestRecoveryAction(a, s)
                 \/ handlePaymentWebhook(a) \/ BecomesDue(a) \/ LeaseExpires(a)
           \/ expireOverduePayments \/ cancelMachineOrder \/ Expire
    PROVE  PCTypeOK'
  <1>0. RowsType /\ ParentType /\ AttemptType /\ TradeType /\ UpsetType
    BY PCTypeParts DEF RowsType
  <1>1. ASSUME NEW a \in Attempts, NEW t \in {"captured", "refused"}, CustomerDecides(a, t)
        PROVE  PCTypeOK'
    <2>1. TradeType'
      BY <1>0, <1>1, TradeSet DEF CustomerDecides, Trades
    <2>2. RowsType'
      BY <1>0, <1>1, RowsStay DEF CustomerDecides
    <2> QED
      BY <1>1, <2>1, <2>2, OthersStay, PCTypeNext DEF CustomerDecides
  <1>2. ASSUME NEW a \in Attempts, NEW s \in {"querying", "reversing", "manual_handling"},
               requestRecoveryAction(a, s)
        PROVE  PCTypeOK'
    <2>1. s \in AttemptStates /\ "now" \in Dues
      BY DEF AttemptStates, InPlay, Submitted, Dues
    <2>2. AttemptType'
      BY <1>0, <1>2, <2>1, SetAttemptType DEF requestRecoveryAction
    <2>3. UpsetType'
      BY <1>0, <1>2 DEF requestRecoveryAction, UpsetType
    <2> QED
      BY <1>2, <2>2, <2>3, OthersStay, PCTypeNext DEF requestRecoveryAction, RowsType
  <1>3. ASSUME NEW a \in Attempts, handlePaymentWebhook(a) PROVE PCTypeOK'
    BY <1>0, <1>3, WakeType, OthersStay, PCTypeNext DEF handlePaymentWebhook, RowsType
  <1>4. ASSUME NEW a \in Attempts, BecomesDue(a) PROVE PCTypeOK'
    <2>1. AttemptType'
      BY <1>0, <1>4 DEF BecomesDue, AttemptType, Dues
    <2> QED
      BY <1>4, <2>1, OthersStay, PCTypeNext DEF BecomesDue, RowsType
  <1>5. ASSUME NEW a \in Attempts, LeaseExpires(a) PROVE PCTypeOK'
    <2>1. AttemptType'
      BY <1>0, <1>5 DEF LeaseExpires, AttemptType
    <2>2. UpsetType'
      BY <1>0, <1>5 DEF LeaseExpires, UpsetType
    <2> QED
      BY <1>5, <2>1, <2>2, OthersStay, PCTypeNext DEF LeaseExpires, RowsType
  <1>6. CASE expireOverduePayments
    <2>1. CASE \E a \in Attempts : Wake(a) /\ UNCHANGED parentVars
      BY <1>0, <1>6, <2>1, WakeType, OthersStay, PCTypeNext DEF expireOverduePayments, RowsType
    <2>2. CASE CloseOrder("expired", "payment_expired")
      BY <1>0, <1>6, <2>2, CloseTypes, OthersStay, PCTypeNext DEF expireOverduePayments, Closed
    <2> QED
      BY <1>6, <2>1, <2>2 DEF expireOverduePayments
  <1>7. CASE cancelMachineOrder
    <2>1. CASE \E a \in Attempts : Wake(a) /\ expired' = TRUE /\ UNCHANGED <<payment, order>>
      <3>1. ParentType'
        BY <1>0, <2>1 DEF ParentType
      <3> QED
        BY <1>0, <1>7, <2>1, <3>1, WakeType, OthersStay, PCTypeNext DEF cancelMachineOrder, RowsType
    <2>2. CASE CloseOrder("canceled", "canceled")
      BY <1>0, <1>7, <2>2, CloseTypes, OthersStay, PCTypeNext DEF cancelMachineOrder, Closed
    <2> QED
      BY <1>7, <2>1, <2>2 DEF cancelMachineOrder
  <1>8. CASE Expire
    <2>1. ParentType'
      BY <1>0, <1>8 DEF ParentType, Expire
    <2> QED
      BY <1>0, <1>8, <2>1, OthersStay, PCTypeNext DEF Expire, RowsType
  <1> QED
    BY <1>1, <1>2, <1>3, <1>4, <1>5, <1>6, <1>7, <1>8

LEMMA DiesTypes ==
    ASSUME PCTypeOK, NEW w \in Claimants, WorkerDies(w)
    PROVE  PCTypeOK'
  <1>1. AttemptType'
    BY PCTypeParts, HolderLeftType DEF WorkerDies, RowsType, AttemptType
  <1>2. UpsetType'
    BY PCTypeParts DEF WorkerDies, UpsetType
  <1> QED
    BY <1>1, <1>2, FinishType, OthersStay DEF WorkerDies, RowsType

LEMMA PCTypeStep == PCTypeOK /\ WireInv /\ [PCNext]_pcVars => PCTypeOK'
  <1> SUFFICES ASSUME PCTypeOK, WireInv, [PCNext]_pcVars PROVE PCTypeOK'
    OBVIOUS
  <1>1. ASSUME NEW w \in Claimants, ClaimantStep(w) PROVE PCTypeOK'
    BY <1>1, AdmissionFailsTypes, SubmitTypes, RecoverTypes, CallTypes, ApplyTypes DEF ClaimantStep
  <1>2. ASSUME NEW r \in wire, NEW t \in Trades, NEW answer \in Answers, ProviderHandles(r, t, answer)
        PROVE  PCTypeOK'
    BY <1>2, ProviderTypes
  <1>3. CASE UNCHANGED pcVars
    BY <1>3, PCTypeParts, RowsStay, OthersStay, PCTypeNext DEF pcVars
  <1> QED
    BY <1>1, <1>2, <1>3, AdmitTypes, ClaimTypes, OthersTypes, DiesTypes DEF PCNext, Trades

-----------------------------------------------------------------------------
(* Rows and trades.                                                         *)

RowInv == PlayInv /\ ChargeInv /\ KeptInv /\ ChargedOnce

(* No charge is sent, and none takes money it could not take before.        *)
Quiet ==
    \A a \in Attempts : (MayCapture(a)' => MayCapture(a)) /\ (Reached(a)' => Reached(a))

LEMMA QuietWire ==
    ASSUME UNCHANGED codeTrade,
           \A a \in Attempts : Charging(a)' => Charging(a)
    PROVE  Quiet
  BY DEF Quiet, MayCapture, Reached, Charging

LEMMA QuietAbandoned ==
    ASSUME NEW w, wire' = Abandoned(w), UNCHANGED codeTrade, WireType
    PROVE  Quiet
  <1>1. ASSUME NEW a \in Attempts, NEW r \in wire', r.on = a, r.call = "charge"
        PROVE  Charging(a)
    <2>1. CASE r \in wire
      BY <1>1, <2>1 DEF Charging
    <2>2. CASE r \notin wire
      <3>1. PICK q \in wire : r = [q EXCEPT !.from = Gone]
        BY <2>2 DEF Abandoned
      <3>2. q.on = a /\ q.call = "charge"
        BY <1>1, <3>1 DEF WireType, Requests
      <3> QED
        BY <3>2 DEF Charging
    <2> QED
      BY <2>1, <2>2
  <1>2. \A a \in Attempts : Charging(a)' => Charging(a)
    BY <1>1 DEF Charging
  <1> QED
    BY <1>2, QuietWire

LEMMA QuietStill ==
    ASSUME UNCHANGED <<wire, codeTrade>>
    PROVE  Quiet
  BY QuietWire DEF Charging

LEMMA RowsQuiet ==
    ASSUME RowInv, Quiet, UNCHANGED <<attempt, payment>>
    PROVE  RowInv'
  <1>1. PlayInv'
    BY DEF RowInv, PlayInv, Active
  <1>2. ChargeInv' /\ KeptInv'
    BY DEF RowInv, ChargeInv, KeptInv, Quiet, Active
  <1>3. ChargedOnce'
    BY DEF RowInv, ChargedOnce, Quiet
  <1> QED
    BY <1>1, <1>2, <1>3 DEF RowInv

(* The attempt in play moves on, and the payment stays open.                *)
LEMMA RowsKeep ==
    ASSUME RowInv, Quiet, attempt \in [Attempts -> AttemptStates],
           NEW a \in Attempts, Active(a), NEW s \in InPlay \ {"created"},
           attempt' = [attempt EXCEPT ![a] = s], payment \in Open, payment' \in Open
    PROVE  RowInv'
  <1>1. Active(a)' /\ \A b \in Attempts : b # a => attempt'[b] = attempt[b]
    BY DEF Active
  <1>2. \A b \in Attempts : Active(b)' <=> Active(b)
    BY <1>1 DEF Active
  <1>3. PlayInv'
    BY <1>1, <1>2 DEF RowInv, PlayInv, Active, InPlay, Submitted, Open
  <1>4. ChargeInv'
    BY <1>1, <1>2 DEF RowInv, ChargeInv, Quiet, Active, InPlay, Submitted
  <1>5. KeptInv'
    BY <1>1, <1>2 DEF RowInv, PlayInv, KeptInv, Quiet, Open
  <1>6. ChargedOnce'
    BY DEF RowInv, ChargedOnce, Quiet
  <1> QED
    BY <1>3, <1>4, <1>5, <1>6 DEF RowInv

(* An attempt that takes no money ends, and the customer may scan again.    *)
LEMMA RowsEnd ==
    ASSUME RowInv, Quiet, attempt \in [Attempts -> AttemptStates],
           NEW a \in Attempts, ~MayCapture(a), NEW s \in {"failed", "reversed"},
           attempt' = [attempt EXCEPT ![a] = s], UNCHANGED payment
    PROVE  RowInv'
  <1>1. attempt'[a] = s /\ \A b \in Attempts : b # a => attempt'[b] = attempt[b]
    OBVIOUS
  <1>2. ~Active(a)' /\ ~MayCapture(a)'
    BY <1>1 DEF Active, Quiet, InPlay, Submitted, Ended
  <1>3. PlayInv'
    BY <1>1, <1>2 DEF RowInv, PlayInv, Active
  <1>4. ChargeInv'
    BY <1>1, <1>2 DEF RowInv, ChargeInv, Quiet, Active, Ended
  <1>5. KeptInv'
    BY <1>1, <1>2 DEF RowInv, KeptInv, Quiet, Active
  <1>6. ChargedOnce'
    BY DEF RowInv, ChargedOnce, Quiet
  <1> QED
    BY <1>3, <1>4, <1>5, <1>6 DEF RowInv

(* The payment settles with the attempt in play.                            *)
LEMMA RowsSettle ==
    ASSUME RowInv, Quiet, attempt \in [Attempts -> AttemptStates],
           NEW a \in Attempts, Active(a), NEW s \in Ended \ {"canceled"}, payment \in Open, payment' \notin Open,
           attempt' = [attempt EXCEPT ![a] = s],
           s = "succeeded" <=> payment' = "succeeded",
           NotFound = "unknown" /\ s # "succeeded" => ~MayCapture(a)
    PROVE  RowInv'
  <1>1. attempt'[a] = s /\ \A b \in Attempts : b # a => attempt'[b] = attempt[b]
    OBVIOUS
  <1>2. \A b \in Attempts : ~Active(b)'
    BY <1>1 DEF Active, InPlay, Submitted, Ended, RowInv, PlayInv
  <1>3. PlayInv'
    BY <1>1, <1>2 DEF RowInv, PlayInv, Open
  <1>4. ChargeInv'
    BY <1>1, <1>2 DEF RowInv, ChargeInv, Quiet, Ended
  <1>5. KeptInv'
    BY <1>1, <1>2 DEF RowInv, PlayInv, KeptInv, Quiet, Open
  <1>6. ChargedOnce'
    BY DEF RowInv, ChargedOnce, Quiet
  <1> QED
    BY <1>3, <1>4, <1>5, <1>6 DEF RowInv

(* A new scan.                                                              *)
LEMMA RowsCreate ==
    ASSUME RowInv, Quiet, attempt \in [Attempts -> AttemptStates],
           NEW a \in Attempts, attempt[a] = "none", \A b \in Attempts : ~Active(b),
           payment = "pending", attempt' = [attempt EXCEPT ![a] = "created"], UNCHANGED payment
    PROVE  RowInv'
  <1>1. attempt'[a] = "created" /\ \A b \in Attempts : b # a => attempt'[b] = attempt[b]
    OBVIOUS
  <1>2. Active(a)' /\ \A b \in Attempts : b # a => ~Active(b)'
    BY <1>1 DEF Active, InPlay
  <1>3. ~Reached(a) /\ ~MayCapture(a)
    BY DEF RowInv, ChargeInv, Active, MayCapture, Reached, Charging
  <1>4. PlayInv'
    BY <1>1, <1>2 DEF RowInv, PlayInv, Open
  <1>5. ChargeInv'
    BY <1>1, <1>2, <1>3 DEF RowInv, ChargeInv, Quiet, Open
  <1>6. KeptInv'
    BY <1>1, <1>2, <1>3 DEF RowInv, KeptInv, Quiet
  <1>7. ChargedOnce'
    BY DEF RowInv, ChargedOnce, Quiet
  <1> QED
    BY <1>4, <1>5, <1>6, <1>7 DEF RowInv

(* The order is closed with the attempt that was not submitted.             *)
LEMMA RowsClose ==
    ASSUME RowInv, Quiet, attempt \in [Attempts -> AttemptStates], payment = "pending",
           NEW p \in Closed, NEW o, CloseOrder(p, o)
    PROVE  RowInv'
  <1>1. payment' = p /\ p \notin Open /\ p # "succeeded"
    BY DEF CloseOrder, Closed, Open
  <1>2. \A a \in Attempts : Active(a) => attempt[a] = "created"
    BY DEF CloseOrder, Active, InPlay
  <1>3. \A a \in Attempts :
           /\ Active(a) => attempt'[a] = "canceled"
           /\ ~Active(a) => attempt'[a] = attempt[a]
    BY DEF CloseOrder
  <1>4. \A a \in Attempts : ~Active(a)'
    BY <1>3 DEF Active, InPlay, Submitted
  <1>5. \A a \in Attempts : Active(a) => ~MayCapture(a)
    BY <1>2 DEF RowInv, ChargeInv, MayCapture, Reached, Charging
  <1>6. \A a \in Attempts : ~MayCapture(a)
    BY <1>5 DEF RowInv, ChargeInv, Open
  <1>7. PlayInv'
    BY <1>3, <1>4 DEF RowInv, PlayInv
  <1>8. ChargeInv' /\ KeptInv'
    BY <1>1, <1>2, <1>3, <1>6 DEF RowInv, ChargeInv, KeptInv, Quiet, Active
  <1>9. ChargedOnce'
    BY <1>6 DEF Quiet, ChargedOnce
  <1> QED
    BY <1>7, <1>8, <1>9 DEF RowInv

-----------------------------------------------------------------------------
(* What a worker writes.                                                    *)

(* A worker that holds its attempt gives it a status and the lease back.    *)
Writes(w, s) ==
    /\ holder[worker[w].on] = w
    /\ attempt' = [attempt EXCEPT ![worker[w].on] = s]
    /\ holder' = [holder EXCEPT ![worker[w].on] = Nobody]

LEMMA ReleaseDoes ==
    ASSUME NEW w, NEW s, NEW d, releaseRecoveryClaim(w, s, d)
    PROVE  (Writes(w, s) /\ UNCHANGED payment) \/ Discard(w)
  <1>1. CASE recoveryLeaseConditions(w)
    <2> DEFINE e == IF s \in Ended THEN "null" ELSE d
    <2>1. SetAttempt(worker[w].on, s, e) /\ UNCHANGED parentVars
      BY <1>1 DEF releaseRecoveryClaim
    <2> HIDE DEF e
    <2> QED
      BY <1>1, <2>1 DEF SetAttempt, parentVars, Writes, recoveryLeaseConditions
  <1>2. CASE ~recoveryLeaseConditions(w)
    BY <1>2 DEF releaseRecoveryClaim
  <1> QED
    BY <1>1, <1>2

LEMMA ManualDoes ==
    ASSUME NEW w, markManualHandling(w)
    PROVE  (Writes(w, "manual_handling") /\ payment \in Open /\ payment' \in Open) \/ Discard(w)
  BY DEF markManualHandling, SetAttempt, Writes, recoveryLeaseConditions, Open

LEMMA DeferDoes ==
    ASSUME NEW w, NEW s, deferRecovery(w, s)
    PROVE  \/ Writes(w, "manual_handling") /\ payment \in Open /\ payment' \in Open
           \/ Writes(w, s) /\ UNCHANGED payment
           \/ Discard(w)
  BY ReleaseDoes, ManualDoes DEF deferRecovery

LEMMA TransitionDoes ==
    ASSUME NEW w, NEW new, NEW s, NEW b \in BOOLEAN,
           transitionProviderPaymentTerminal(w, new, s, b)
    PROVE  \/ Writes(w, s) /\ Active(worker[w].on) /\ payment \in Open /\ payment' = new
           \/ Discard(w)
  <1> DEFINE settles == /\ Active(worker[w].on) /\ recoveryLeaseConditions(w)
                        /\ payment \in {"pending", "unknown"} /\ (IncidentLocked => b)
  <1>1. CASE settles
    <2>1. SetAttempt(worker[w].on, s, "null") /\ payment' = new
      BY <1>1 DEF transitionProviderPaymentTerminal
    <2> QED
      BY <1>1, <2>1 DEF SetAttempt, Writes, recoveryLeaseConditions, Open
  <1>2. CASE ~settles
    BY <1>2 DEF transitionProviderPaymentTerminal
  <1> QED
    BY <1>1, <1>2

-----------------------------------------------------------------------------
(* Claims.                                                                  *)

ClaimsInv == HolderInv /\ WireInv /\ ClaimInv /\ AnswerInv

CodeInv == PCTypeOK /\ ClaimsInv /\ RowInv

(* The claims of one worker.                                                *)
OneClaim(w) ==
    /\ \A a \in Attempts : holder[a] = w => Engaged(w) /\ worker[w].on = a
    /\ \A r \in wire : r.from = w =>
          worker[w].step = "wait" /\ worker[w].on = r.on /\ worker[w].call = r.call
    /\ Holds(w) => attempt[worker[w].on] \in
            IF worker[w].step = "claimed" /\ worker[w].seen = "created"
            THEN {"created", "canceled"} ELSE Submitted \union {"manual_handling"}
    /\ worker[w].step = "apply" =>
        /\ worker[w].answer = "reversed" => codeTrade[worker[w].on] = "reversed"
        /\ worker[w].answer = "failed" =>
              /\ worker[w].call # "reverse"
              /\ worker[w].call = "charge" \/ NotFound = "unknown" =>
                    codeTrade[worker[w].on] \in {"refused", "reversed"}

LEMMA ClaimsOneByOne == ClaimsInv => \A w \in Claimants : OneClaim(w)
  BY DEF ClaimsInv, HolderInv, WireInv, ClaimInv, AnswerInv, OneClaim

LEMMA ClaimsNext ==
    ASSUME WireType', \A w \in Claimants : OneClaim(w)'
    PROVE  ClaimsInv'
  <1>1. HolderInv'
    BY DEF HolderInv, OneClaim
  <1>2. WireInv'
    BY DEF WireInv, OneClaim, WireType, Requests
  <1>3. ClaimInv'
    BY DEF ClaimInv, OneClaim
  <1>4. AnswerInv'
    BY DEF AnswerInv, OneClaim
  <1> QED
    BY <1>1, <1>2, <1>3, <1>4 DEF ClaimsInv

(* What other steps may do to a worker: its lease may be taken and its      *)
(* attempt canceled before it is submitted, its request may be answered by  *)
(* itself only, and a trade that is refused or reversed stays so.           *)
LeavesAlone(w) ==
    /\ worker'[w] = worker[w]
    /\ \A a \in Attempts : holder'[a] = w =>
          /\ holder[a] = w
          /\ attempt'[a] = attempt[a] \/ (attempt[a] = "created" /\ attempt'[a] = "canceled")
    /\ \A r \in wire' : r.from = w => r \in wire
    /\ \A a \in Attempts :
          /\ codeTrade[a] = "reversed" => codeTrade'[a] = "reversed"
          /\ codeTrade[a] = "refused" => codeTrade'[a] \in {"refused", "reversed"}

LEMMA ClaimLeftAlone ==
    ASSUME WorkerType, NEW w \in Claimants, OneClaim(w), LeavesAlone(w)
    PROVE  OneClaim(w)'
  <1>1. worker'[w] = worker[w]
    BY DEF LeavesAlone
  <1>2. Engaged(w)' <=> Engaged(w)
    BY <1>1 DEF Engaged
  <1>3. Engaged(w) \/ worker[w].step = "apply" => worker[w].on \in Attempts
    BY AtWork, ClaimParts DEF Engaged
  <1>4. \A a \in Attempts : holder'[a] = w => Engaged(w)' /\ worker'[w].on = a
    BY <1>1, <1>2 DEF OneClaim, LeavesAlone
  <1>5. \A r \in wire' : r.from = w =>
          worker'[w].step = "wait" /\ worker'[w].on = r.on /\ worker'[w].call = r.call
    BY <1>1 DEF OneClaim, LeavesAlone
  <1>6. ASSUME Holds(w)' PROVE attempt'[worker'[w].on] \in
            IF worker'[w].step = "claimed" /\ worker'[w].seen = "created"
            THEN {"created", "canceled"} ELSE Submitted \union {"manual_handling"}
    <2>1. Holds(w)
      BY <1>1, <1>2, <1>3, <1>6 DEF Holds, LeavesAlone
    <2>2. \/ attempt'[worker[w].on] = attempt[worker[w].on]
          \/ attempt[worker[w].on] = "created" /\ attempt'[worker[w].on] = "canceled"
      BY <1>1, <1>2, <1>3, <1>6 DEF Holds, LeavesAlone
    <2> QED
      BY <1>1, <2>1, <2>2 DEF OneClaim, Submitted
  <1>7. worker'[w].step = "apply" =>
        /\ worker'[w].answer = "reversed" => codeTrade'[worker'[w].on] = "reversed"
        /\ worker'[w].answer = "failed" =>
              /\ worker'[w].call # "reverse"
              /\ worker'[w].call = "charge" \/ NotFound = "unknown" =>
                    codeTrade'[worker'[w].on] \in {"refused", "reversed"}
    BY <1>1, <1>3 DEF OneClaim, LeavesAlone
  <1> QED
    BY <1>4, <1>5, <1>6, <1>7 DEF OneClaim

(* Nobody waits for a request that was abandoned.                           *)
LEMMA AbandonedAreNobodys ==
    ASSUME WireType, NEW w \in Claimants, wire' = Abandoned(w)
    PROVE  \A r \in wire' : r.from # w /\ (r.from # Gone => r \in wire)
  <1> TAKE r \in wire'
  <1>1. CASE r \in wire /\ r.from # w
    BY <1>1
  <1>2. CASE \E q \in wire : r = [q EXCEPT !.from = Gone]
    BY <1>2 DEF WireType, Requests
  <1> QED
    BY <1>1, <1>2 DEF Abandoned

(* A worker ends its work: it holds nothing and takes nothing from others.  *)
LEMMA FinishClaims ==
    ASSUME PCTypeOK, ClaimsInv, NEW w \in Claimants, Finish(w), UNCHANGED codeTrade,
           \A a \in Attempts : holder'[a] # w,
           \A v \in Claimants, a \in Attempts :
              v # w /\ holder'[a] = v => holder[a] = v /\ attempt'[a] = attempt[a]
    PROVE  ClaimsInv'
  <1>1. /\ worker'[w] = Unoccupied /\ wire' = Abandoned(w) /\ WireType' /\ WorkerType /\ WireType
        /\ \A v \in Claimants : v # w => worker'[v] = worker[v]
    BY PCTypeParts, FinishMoves
  <1>2. \A v \in Claimants : OneClaim(v)
    BY <1>1, ClaimsOneByOne
  <1>3. \A r \in wire' : r.from # w /\ (r.from # Gone => r \in wire)
    BY <1>1, AbandonedAreNobodys
  <1>4. OneClaim(w)'
    BY <1>1, <1>3 DEF OneClaim, Holds, Engaged, Unoccupied
  <1>5. ASSUME NEW v \in Claimants, v # w PROVE OneClaim(v)'
    <2>1. LeavesAlone(v)
      BY <1>1, <1>3, <1>5 DEF LeavesAlone
    <2> QED
      BY <1>1, <1>2, <2>1, ClaimLeftAlone
  <1> QED
    BY <1>1, <1>4, <1>5, ClaimsNext

LEMMA WrittenClaims ==
    ASSUME PCTypeOK, ClaimsInv, NEW w \in Claimants, worker[w].on \in Attempts,
           Finish(w), UNCHANGED codeTrade, (\E s : Writes(w, s)) \/ Discard(w)
    PROVE  ClaimsInv'
  <1>1. AttemptType
    BY PCTypeParts DEF RowsType
  <1>2. CASE Discard(w)
    <2>1. \A a \in Attempts : holder'[a] = (IF holder[a] = w THEN Gone ELSE holder[a])
      BY <1>2 DEF Discard, HolderLeft
    <2>2. attempt' = attempt
      BY <1>2 DEF Discard
    <2> QED
      BY <2>1, <2>2, FinishClaims
  <1>3. CASE \E s : Writes(w, s)
    <2>1. PICK s : Writes(w, s)
      BY <1>3
    <2>2. /\ holder'[worker[w].on] = Nobody
          /\ \A a \in Attempts : a # worker[w].on =>
                holder'[a] = holder[a] /\ attempt'[a] = attempt[a]
      BY <1>1, <2>1 DEF AttemptType, Writes
    <2>3. \A a \in Attempts : holder[a] = w => worker[w].on = a
      BY DEF ClaimsInv, HolderInv
    <2>4. \A a \in Attempts : holder'[a] # w
      BY <2>2, <2>3
    <2>5. \A v \in Claimants, a \in Attempts :
              v # w /\ holder'[a] = v => holder[a] = v /\ attempt'[a] = attempt[a]
      BY <2>2
    <2> QED
      BY <2>4, <2>5, FinishClaims
  <1> QED
    BY <1>2, <1>3

(* What is written keeps the rows right.                                    *)
LEMMA DiscardRows ==
    ASSUME RowInv, Quiet, NEW w, Discard(w)
    PROVE  RowInv'
  BY RowsQuiet DEF Discard, parentVars

LEMMA HeldIsActive ==
    ASSUME CodeInv, NEW w \in Claimants, Holds(w),
           ~(worker[w].step = "claimed" /\ worker[w].seen = "created")
    PROVE  /\ Active(worker[w].on) /\ payment \in Open
           /\ attempt[worker[w].on] \in Submitted \union {"manual_handling"}
  <1>1. worker[w].on \in Attempts
    BY PCTypeParts, AtWork, ClaimParts DEF CodeInv, Holds, Engaged
  <1>2. attempt[worker[w].on] \in Submitted \union {"manual_handling"}
    BY DEF CodeInv, ClaimsInv, ClaimInv
  <1>3. Active(worker[w].on)
    BY <1>2 DEF Active, InPlay
  <1> QED
    BY <1>1, <1>2, <1>3 DEF CodeInv, RowInv, PlayInv

LEMMA DeferRows ==
    ASSUME CodeInv, Quiet, NEW w \in Claimants, Engaged(w),
           ~(worker[w].step = "claimed" /\ worker[w].seen = "created"),
           NEW s \in Submitted, deferRecovery(w, s)
    PROVE  RowInv' /\ ((\E x : Writes(w, x)) \/ Discard(w))
  <1>1. worker[w].on \in Attempts /\ attempt \in [Attempts -> AttemptStates]
    BY PCTypeParts, AtWork, ClaimParts DEF CodeInv, RowsType, AttemptType, Engaged
  <1>2. RowInv
    BY DEF CodeInv
  <1>3. ASSUME NEW x \in {"manual_handling", s}, Writes(w, x),
               UNCHANGED payment \/ (payment \in Open /\ payment' \in Open)
        PROVE  RowInv'
    <2>1. Active(worker[w].on) /\ payment \in Open
      BY <1>3, HeldIsActive DEF Writes, Holds
    <2>2. x \in InPlay \ {"created"} /\ payment' \in Open
      BY <1>3, <2>1 DEF InPlay, Submitted
    <2> QED
      BY <1>1, <1>2, <1>3, <2>1, <2>2, RowsKeep DEF Writes
  <1>4. \/ Writes(w, "manual_handling") /\ payment \in Open /\ payment' \in Open
        \/ Writes(w, s) /\ UNCHANGED payment
        \/ Discard(w)
    BY DeferDoes
  <1> QED
    BY <1>2, <1>3, <1>4, DiscardRows

LEMMA ManualRows ==
    ASSUME CodeInv, Quiet, NEW w \in Claimants, Engaged(w),
           ~(worker[w].step = "claimed" /\ worker[w].seen = "created"), markManualHandling(w)
    PROVE  RowInv' /\ ((\E x : Writes(w, x)) \/ Discard(w))
  <1>1. worker[w].on \in Attempts /\ attempt \in [Attempts -> AttemptStates]
    BY PCTypeParts, AtWork, ClaimParts DEF CodeInv, RowsType, AttemptType, Engaged
  <1>2. RowInv
    BY DEF CodeInv
  <1>3. CASE Discard(w)
    BY <1>2, <1>3, DiscardRows
  <1>4. CASE Writes(w, "manual_handling") /\ payment \in Open /\ payment' \in Open
    <2>1. Active(worker[w].on)
      BY <1>4, HeldIsActive DEF Writes, Holds
    <2>2. "manual_handling" \in InPlay \ {"created"}
      BY DEF InPlay
    <2> QED
      BY <1>1, <1>2, <1>4, <2>1, <2>2, RowsKeep DEF Writes
  <1> QED
    BY <1>3, <1>4, ManualDoes

(* The provider's word settles payment and attempt: the money will not come *)
(* when it says so, where "not found" is no refusal.                        *)
LEMMA TransitionRows ==
    ASSUME CodeInv, Quiet, NEW w \in Claimants, worker[w].on \in Attempts,
           NEW new \in {"succeeded", "failed"}, NEW s \in Ended \ {"canceled"}, NEW b \in BOOLEAN,
           s = "succeeded" <=> new = "succeeded",
           NotFound = "unknown" /\ s # "succeeded" => ~MayCapture(worker[w].on),
           transitionProviderPaymentTerminal(w, new, s, b)
    PROVE  RowInv' /\ ((\E x : Writes(w, x)) \/ Discard(w))
  <1>1. attempt \in [Attempts -> AttemptStates] /\ RowInv
    BY PCTypeParts DEF CodeInv, RowsType, AttemptType
  <1>2. CASE Discard(w)
    BY <1>1, <1>2, DiscardRows
  <1>3. CASE Writes(w, s) /\ Active(worker[w].on) /\ payment \in Open /\ payment' = new
    <2>1. payment' \notin Open
      BY <1>3 DEF Open
    <2> QED
      BY <1>1, <1>3, <2>1, RowsSettle DEF Writes
  <1> QED
    BY <1>2, <1>3, TransitionDoes

-----------------------------------------------------------------------------
(* Every step keeps the invariant.                                          *)

(* A worker goes on: its own claim is right, and the others are left alone. *)
LEMMA GoOnClaims ==
    ASSUME PCTypeOK, PCTypeOK', ClaimsInv, NEW w \in Claimants, OneClaim(w)',
           \A v \in Claimants : v # w => LeavesAlone(v)
    PROVE  ClaimsInv'
  <1>1. WorkerType /\ \A v \in Claimants : OneClaim(v)
    BY PCTypeParts, ClaimsOneByOne
  <1>2. \A v \in Claimants : v # w => OneClaim(v)'
    BY <1>1, ClaimLeftAlone
  <1>3. WireType'
    BY DEF PCTypeOK, WireType
  <1> QED
    BY <1>2, <1>3, ClaimsNext

LEMMA AdmitStep ==
    ASSUME CodeInv, PCTypeOK', NEW w \in Claimants, NEW a \in Attempts, createOrReplay(w, a)
    PROVE  ClaimsInv' /\ RowInv'
  <1>1. /\ worker[w].step = "idle" /\ UNCHANGED <<payment, holder, wire, codeTrade>>
        /\ worker \in [Claimants -> {Unoccupied} \union Claims]
        /\ attempt \in [Attempts -> AttemptStates]
    BY PCTypeParts DEF createOrReplay, Doing, CodeInv, WorkerType, RowsType, AttemptType, parentVars
  <1>2. worker'[w].step = "admit" /\ \A v \in Claimants : v # w => worker'[v] = worker[v]
    BY <1>1 DEF createOrReplay
  <1>3. \/ attempt[a] = "none" /\ attempt' = [attempt EXCEPT ![a] = "created"]
        \/ UNCHANGED attempt
    BY DEF createOrReplay
  <1>4. \A v \in Claimants : OneClaim(v)
    BY ClaimsOneByOne DEF CodeInv
  <1>5. OneClaim(w)'
    BY <1>1, <1>2, <1>4 DEF OneClaim, Engaged, Holds
  <1>6. ASSUME NEW v \in Claimants, v # w PROVE LeavesAlone(v)
    <2>1. \A b \in Attempts : holder[b] = v => attempt[b] # "none"
      BY <1>4 DEF OneClaim, Holds, Submitted
    <2>2. \A b \in Attempts : attempt'[b] = attempt[b] \/ (b = a /\ attempt[a] = "none")
      BY <1>1, <1>3
    <2> QED
      BY <1>1, <1>2, <1>6, <2>1, <2>2 DEF LeavesAlone
  <1>7. Quiet
    BY <1>1, QuietStill
  <1>8. RowInv'
    <2>1. CASE UNCHANGED attempt
      BY <1>1, <1>7, <2>1, RowsQuiet DEF CodeInv
    <2>2. CASE ~UNCHANGED attempt
      <3>1. /\ attempt[a] = "none" /\ attempt' = [attempt EXCEPT ![a] = "created"]
            /\ payment = "pending" /\ \A b \in Attempts : ~Active(b)
        BY <2>2 DEF createOrReplay, Payable
      <3> QED
        BY <1>1, <1>7, <3>1, RowsCreate DEF CodeInv
    <2> QED
      BY <2>1, <2>2
  <1> QED
    BY <1>5, <1>6, <1>8, GoOnClaims DEF CodeInv

LEMMA AdmissionFailsStep ==
    ASSUME CodeInv, NEW w \in Claimants, AdmissionFails(w)
    PROVE  ClaimsInv' /\ RowInv'
  <1> DEFINE a == worker[w].on
  <1>1. /\ worker[w].step = "admit" /\ a \in Attempts /\ WireType
        /\ attempt \in [Attempts -> AttemptStates]
        /\ holder \in [Attempts -> Claimants \union {Nobody, Gone}]
    BY PCTypeParts, AtWork, ClaimParts DEF AdmissionFails, Doing, CodeInv, RowsType, AttemptType
  <1>2. Finish(w) /\ UNCHANGED codeTrade /\ UNCHANGED payment
    BY DEF AdmissionFails, parentVars
  <1>3. Quiet
    BY <1>1, <1>2, QuietAbandoned DEF Finish
  <1>4. \A b \in Attempts : holder[b] # w
    BY <1>1 DEF CodeInv, ClaimsInv, HolderInv, Engaged
  <1>5. CASE attempt[a] = "created"
    <2>1. /\ attempt' = [attempt EXCEPT ![a] = "failed"]
          /\ holder' = [holder EXCEPT ![a] = Nobody]
      BY <1>5 DEF AdmissionFails, SetAttempt
    <2>2. ~MayCapture(a)
      BY <1>1, <1>5 DEF CodeInv, RowInv, ChargeInv, MayCapture, Reached, Charging
    <2>3. RowInv'
      BY <1>1, <1>2, <1>3, <2>1, <2>2, RowsEnd DEF CodeInv, Ended
    <2>4. \A b \in Attempts : holder'[b] # w
      BY <1>1, <1>4, <2>1
    <2>5. \A v \in Claimants, b \in Attempts :
              v # w /\ holder'[b] = v => holder[b] = v /\ attempt'[b] = attempt[b]
      BY <1>1, <2>1
    <2> QED
      BY <1>2, <2>3, <2>4, <2>5, FinishClaims DEF CodeInv
  <1>6. CASE attempt[a] # "created"
    <2>1. UNCHANGED <<attempt, holder>>
      BY <1>6 DEF AdmissionFails, attemptVars
    <2>2. RowInv'
      BY <1>2, <1>3, <2>1, RowsQuiet DEF CodeInv
    <2> QED
      BY <1>2, <1>4, <2>1, <2>2, FinishClaims DEF CodeInv
  <1> QED
    BY <1>5, <1>6

LEMMA SubmitStep ==
    ASSUME CodeInv, PCTypeOK', NEW w \in Claimants, claimSubmission(w)
    PROVE  ClaimsInv' /\ RowInv'
  <1> DEFINE a == worker[w].on
  <1>1. /\ worker[w].step = "admit" /\ a \in Attempts /\ WireType
        /\ attempt \in [Attempts -> AttemptStates]
        /\ holder \in [Attempts -> Claimants \union {Nobody, Gone}]
        /\ worker \in [Claimants -> {Unoccupied} \union Claims] /\ worker[w] \in Claims
    BY PCTypeParts, AtWork, ClaimParts
       DEF claimSubmission, Doing, CodeInv, RowsType, AttemptType, WorkerType
  <1>2. UNCHANGED codeTrade /\ UNCHANGED payment
    BY DEF claimSubmission, parentVars
  <1>3. \A b \in Attempts : holder[b] # w
    BY <1>1 DEF CodeInv, ClaimsInv, HolderInv, Engaged
  <1>4. CASE attempt[a] = "created" /\ Payable
    <2>1. /\ attempt' = [attempt EXCEPT ![a] = "submitting"]
          /\ holder' = [holder EXCEPT ![a] = w] /\ UNCHANGED wire
          /\ worker' = [worker EXCEPT ![w].step = "renew", ![w].count = Counted(a)]
      BY <1>4 DEF claimSubmission
    <2>2. /\ worker'[w].step = "renew" /\ worker'[w].on = a
          /\ \A v \in Claimants : v # w => worker'[v] = worker[v]
      BY <1>1, <2>1 DEF Claims
    <2>3. Quiet
      BY <1>2, <2>1, QuietStill
    <2>4. Active(a) /\ payment = "pending"
      BY <1>4 DEF Active, InPlay, Payable
    <2>5. RowInv'
      BY <1>1, <1>2, <2>1, <2>3, <2>4, RowsKeep DEF CodeInv, InPlay, Submitted, Open
    <2>6. attempt'[a] = "submitting" /\ \A b \in Attempts : holder'[b] = w => b = a
      BY <1>1, <1>3, <2>1
    <2>7. \A r \in wire : r.from # w
      BY <1>1 DEF CodeInv, ClaimsInv, WireInv
    <2>8. OneClaim(w)'
      BY <2>1, <2>2, <2>6, <2>7 DEF OneClaim, Engaged, Holds, Submitted
    <2>9. ASSUME NEW v \in Claimants, v # w PROVE LeavesAlone(v)
      <3>1. \A b \in Attempts : holder'[b] = v => holder[b] = v /\ attempt'[b] = attempt[b]
        BY <1>1, <2>1, <2>9
      <3> QED
        BY <1>2, <2>1, <2>2, <2>9, <3>1 DEF LeavesAlone
    <2> QED
      BY <2>5, <2>8, <2>9, GoOnClaims DEF CodeInv
  <1>5. CASE ~(attempt[a] = "created" /\ Payable)
    <2>1. Finish(w) /\ UNCHANGED <<attempt, holder>>
      BY <1>5 DEF claimSubmission, attemptVars
    <2>2. Quiet
      BY <1>1, <1>2, <2>1, QuietAbandoned DEF Finish
    <2>3. RowInv'
      BY <1>2, <2>1, <2>2, RowsQuiet DEF CodeInv
    <2> QED
      BY <1>2, <1>3, <2>1, <2>3, FinishClaims DEF CodeInv
  <1> QED
    BY <1>4, <1>5

LEMMA ClaimStep ==
    ASSUME CodeInv, PCTypeOK', NEW w \in Claimants, NEW a \in Attempts, claimRecoveryAttempt(w, a)
    PROVE  ClaimsInv' /\ RowInv'
  <1>1. /\ worker[w].step = "idle"
        /\ holder \in [Attempts -> Claimants \union {Nobody, Gone}]
        /\ worker \in [Claimants -> {Unoccupied} \union Claims]
    BY PCTypeParts DEF claimRecoveryAttempt, Doing, CodeInv, RowsType, AttemptType, WorkerType
  <1>2. /\ UNCHANGED <<payment, attempt, wire, codeTrade>>
        /\ holder[a] = Nobody /\ holder' = [holder EXCEPT ![a] = w] /\ attempt[a] \in InPlay
    BY DEF claimRecoveryAttempt, parentVars, Claimable, Active
  <1>3. /\ worker'[w].step = "claimed" /\ worker'[w].on = a /\ worker'[w].seen = attempt[a]
        /\ \A v \in Claimants : v # w => worker'[v] = worker[v]
    BY <1>1 DEF claimRecoveryAttempt
  <1>4. RowInv'
    BY <1>2, QuietStill, RowsQuiet DEF CodeInv
  <1>5. \A b \in Attempts : holder'[b] = w => b = a
    BY <1>1, <1>2 DEF CodeInv, ClaimsInv, HolderInv, Engaged
  <1>6. \A r \in wire : r.from # w
    BY <1>1 DEF CodeInv, ClaimsInv, WireInv
  <1>7. OneClaim(w)'
    BY <1>2, <1>3, <1>5, <1>6 DEF OneClaim, Engaged, Holds, InPlay
  <1>8. ASSUME NEW v \in Claimants, v # w PROVE LeavesAlone(v)
    <2>1. \A b \in Attempts : holder'[b] = v => holder[b] = v
      BY <1>1, <1>2, <1>8
    <2> QED
      BY <1>2, <1>3, <1>8, <2>1 DEF LeavesAlone
  <1> QED
    BY <1>4, <1>7, <1>8, GoOnClaims DEF CodeInv

(* A result is written, or discarded, and the worker is done.               *)
LEMMA ResultStep ==
    ASSUME CodeInv, NEW w \in Claimants, worker[w].on \in Attempts, Finish(w), UNCHANGED codeTrade,
           Quiet => RowInv' /\ ((\E s : Writes(w, s)) \/ Discard(w))
    PROVE  ClaimsInv' /\ RowInv'
  <1>1. Quiet
    BY PCTypeParts, QuietAbandoned DEF CodeInv, Finish
  <1> QED
    BY <1>1, WrittenClaims DEF CodeInv

(* A lease that is given back with a status for an attempt that takes no    *)
(* money.                                                                   *)
LEMMA ReleaseRows ==
    ASSUME CodeInv, Quiet, NEW w \in Claimants, worker[w].on \in Attempts,
           NEW s \in {"failed", "reversed"}, NEW d, releaseRecoveryClaim(w, s, d),
           holder[worker[w].on] = w => ~MayCapture(worker[w].on)
    PROVE  RowInv' /\ ((\E x : Writes(w, x)) \/ Discard(w))
  <1>1. attempt \in [Attempts -> AttemptStates] /\ RowInv
    BY PCTypeParts DEF CodeInv, RowsType, AttemptType
  <1>2. CASE Discard(w)
    BY <1>1, <1>2, DiscardRows
  <1>3. CASE Writes(w, s) /\ UNCHANGED payment
    BY <1>1, <1>3, RowsEnd DEF Writes
  <1> QED
    BY <1>2, <1>3, ReleaseDoes

LEMMA RecoverStep ==
    ASSUME CodeInv, PCTypeOK', NEW w \in Claimants, recoverClaim(w)
    PROVE  ClaimsInv' /\ RowInv'
  <1> DEFINE a == worker[w].on
  <1>1. /\ worker[w].step = "claimed" /\ Engaged(w) /\ a \in Attempts /\ worker[w] \in Claims
        /\ UNCHANGED codeTrade
        /\ worker \in [Claimants -> {Unoccupied} \union Claims]
    BY PCTypeParts, AtWork, ClaimParts DEF recoverClaim, Doing, CodeInv, Engaged, WorkerType
  <1>2. ASSUME Finish(w), Quiet => RowInv' /\ ((\E x : Writes(w, x)) \/ Discard(w))
        PROVE  ClaimsInv' /\ RowInv'
    BY <1>1, <1>2, ResultStep
  <1>3. CASE worker[w].seen = "created" /\ releaseRecoveryClaim(w, "failed", "null") /\ Finish(w)
    <2>1. holder[a] = w => attempt[a] \in {"created", "canceled"}
      BY <1>1, <1>3 DEF CodeInv, ClaimsInv, ClaimInv, Holds
    <2>2. holder[a] = w => ~MayCapture(a)
      BY <1>1, <2>1 DEF CodeInv, RowInv, ChargeInv, MayCapture, Reached, Charging
    <2> QED
      BY <1>1, <1>2, <1>3, <2>2, ReleaseRows
  <1>4. CASE worker[w].seen # "created" /\ markManualHandling(w) /\ Finish(w)
    BY <1>1, <1>2, <1>4, ManualRows
  <1>5. CASE recoverInContext(w)
    <2>1. worker[w].seen # "created"
      BY <1>5 DEF recoverInContext, Submitted
    <2>2. holder[a] = w => payment \in Open
      BY <1>1, <2>1, HeldIsActive DEF Holds
    <2>3. CASE deferRecovery(w, "querying") /\ Finish(w)
      BY <1>1, <1>2, <2>1, <2>3, DeferRows DEF Submitted
    <2>4. CASE /\ payment \notin Open /\ Finish(w)
               /\ \E s \in {"succeeded", "failed"} : releaseRecoveryClaim(w, s, "null")
      <3>1. Discard(w)
        BY <2>2, <2>4, ReleaseDoes DEF Writes
      <3> QED
        BY <1>2, <2>4, <3>1, DiscardRows DEF CodeInv
    <2>5. CASE /\ worker' = [worker EXCEPT ![w].step = "renew", ![w].late = expired]
               /\ UNCHANGED <<rowVars, wire>>
      <3>1. UNCHANGED <<payment, attempt, holder, wire>>
        BY <2>5 DEF rowVars, parentVars, attemptVars
      <3>2. /\ worker'[w].step = "renew" /\ worker'[w].on = a
            /\ \A v \in Claimants : v # w => worker'[v] = worker[v]
        BY <1>1, <2>5 DEF Claims
      <3>3. RowInv'
        BY <1>1, <3>1, QuietStill, RowsQuiet DEF CodeInv
      <3>4. OneClaim(w)
        BY ClaimsOneByOne DEF CodeInv
      <3>5. OneClaim(w)'
        BY <1>1, <2>1, <3>1, <3>2, <3>4 DEF OneClaim, Engaged, Holds
      <3>6. \A v \in Claimants : v # w => LeavesAlone(v)
        BY <1>1, <3>1, <3>2 DEF LeavesAlone
      <3> QED
        BY <3>3, <3>5, <3>6, GoOnClaims DEF CodeInv
    <2> QED
      BY <1>5, <2>3, <2>4, <2>5 DEF recoverInContext, Open, Closed
  <1> QED
    BY <1>3, <1>4, <1>5 DEF recoverClaim, recoverWithoutQuery

LEMMA CallStep ==
    ASSUME CodeInv, PCTypeOK', NEW w \in Claimants, callWithRenewedLease(w)
    PROVE  ClaimsInv' /\ RowInv'
  <1> DEFINE a == worker[w].on
             sent == [on |-> a, call |-> worker[w].call, from |-> w]
  <1>1. /\ worker[w].step = "renew" /\ Engaged(w) /\ a \in Attempts /\ worker[w] \in Claims
        /\ UNCHANGED <<payment, attempt, holder, codeTrade>>
        /\ worker \in [Claimants -> {Unoccupied} \union Claims]
    BY PCTypeParts, AtWork, ClaimParts
       DEF callWithRenewedLease, Doing, CodeInv, Engaged, WorkerType, rowVars, parentVars, attemptVars
  <1>2. OneClaim(w) /\ \A r \in wire : r.from # w
    BY <1>1, ClaimsOneByOne DEF CodeInv, OneClaim
  <1>3. CASE /\ holder[a] = w /\ wire' = wire \union {sent}
             /\ worker' = [worker EXCEPT ![w].step = "wait"]
    <2>1. /\ worker'[w].step = "wait" /\ worker'[w].on = a /\ worker'[w].call = worker[w].call
          /\ \A v \in Claimants : v # w => worker'[v] = worker[v]
      BY <1>1, <1>3 DEF Claims
    <2>2. OneClaim(w)'
      BY <1>1, <1>2, <1>3, <2>1 DEF OneClaim, Engaged, Holds
    <2>3. \A v \in Claimants : v # w => LeavesAlone(v)
      BY <1>1, <1>3, <2>1 DEF LeavesAlone
    <2>4. ClaimsInv'
      BY <2>2, <2>3, GoOnClaims DEF CodeInv
    <2>5. /\ Active(a) /\ payment \in Open
          /\ attempt[a] \in Submitted \union {"manual_handling"}
      BY <1>1, <1>3, HeldIsActive DEF Holds
    <2>6. \A b \in Attempts : Active(b)' <=> Active(b)
      BY <1>1 DEF Active
    <2>7. \A b \in Attempts : b # a => (Charging(b)' => Charging(b))
      BY <1>3 DEF Charging
    <2>8. \A b \in Attempts : b # a => (MayCapture(b)' => MayCapture(b)) /\ (Reached(b)' => Reached(b))
      BY <1>1, <2>7 DEF MayCapture, Reached, Charging
    <2>9. \A b \in Attempts : b # a => ~MayCapture(b)
      BY <1>1, <2>5 DEF CodeInv, RowInv, PlayInv, ChargeInv
    <2>10. PlayInv'
      BY <1>1, <2>6 DEF CodeInv, RowInv, PlayInv
    <2>11. ChargeInv'
      BY <1>1, <2>5, <2>6, <2>8, <2>9 DEF CodeInv, RowInv, ChargeInv, Submitted
    <2>12. KeptInv'
      BY <2>5, <2>6, <2>8, <2>9 DEF KeptInv
    <2>13. ChargedOnce'
      BY <2>8, <2>9 DEF ChargedOnce
    <2> QED
      BY <2>4, <2>10, <2>11, <2>12, <2>13 DEF RowInv
  <1>4. CASE UNCHANGED wire /\ worker' = [worker EXCEPT ![w].step = "apply", ![w].answer = "error"]
    <2>1. /\ worker'[w].step = "apply" /\ worker'[w].on = a /\ worker'[w].answer = "error"
          /\ \A v \in Claimants : v # w => worker'[v] = worker[v]
      BY <1>1, <1>4 DEF Claims
    <2>2. OneClaim(w)'
      BY <1>1, <1>2, <1>4, <2>1 DEF OneClaim, Engaged, Holds
    <2>3. \A v \in Claimants : v # w => LeavesAlone(v)
      BY <1>1, <1>4, <2>1 DEF LeavesAlone
    <2>4. RowInv'
      BY <1>1, <1>4, QuietStill, RowsQuiet DEF CodeInv
    <2> QED
      BY <2>2, <2>3, <2>4, GoOnClaims DEF CodeInv
  <1> QED
    BY <1>3, <1>4 DEF callWithRenewedLease, recoveryLeaseConditions

LEMMA CallFailsStep ==
    ASSUME CodeInv, PCTypeOK', NEW w \in Claimants, CallFails(w)
    PROVE  ClaimsInv' /\ RowInv'
  <1>1. /\ worker[w].step = "wait" /\ Engaged(w) /\ worker[w] \in Claims /\ WireType
        /\ UNCHANGED <<payment, attempt, holder, codeTrade>>
        /\ worker \in [Claimants -> {Unoccupied} \union Claims]
        /\ wire' = Abandoned(w)
        /\ worker' = [worker EXCEPT ![w].step = "apply", ![w].answer = "error"]
    BY PCTypeParts, AtWork
       DEF CallFails, Doing, CodeInv, Engaged, WorkerType, rowVars, parentVars, attemptVars
  <1>2. /\ worker'[w].step = "apply" /\ worker'[w].on = worker[w].on /\ worker'[w].answer = "error"
        /\ \A v \in Claimants : v # w => worker'[v] = worker[v]
    BY <1>1 DEF Claims
  <1>3. \A r \in wire' : r.from # w /\ (r.from # Gone => r \in wire)
    BY <1>1, AbandonedAreNobodys
  <1>4. OneClaim(w)
    BY ClaimsOneByOne DEF CodeInv
  <1>5. OneClaim(w)'
    BY <1>1, <1>2, <1>3, <1>4 DEF OneClaim, Engaged, Holds
  <1>6. \A v \in Claimants : v # w => LeavesAlone(v)
    BY <1>1, <1>2, <1>3 DEF LeavesAlone
  <1>7. RowInv'
    BY <1>1, QuietAbandoned, RowsQuiet DEF CodeInv
  <1> QED
    BY <1>5, <1>6, <1>7, GoOnClaims DEF CodeInv

(* What the provider says of a trade, and what a call makes of it.          *)
LEMMA ProviderSays ==
    ASSUME NEW call \in Calls, NEW t \in Trades, NEW u \in After(call, t), NEW answer \in Told(call, u)
    PROVE  /\ u = t \/ (call = "charge" /\ t = "absent" /\ u \in {"paying", "captured", "refused"})
                    \/ (call = "reverse" /\ t # "absent" /\ u = "reversed")
           /\ answer = "reversed" => u = "reversed"
           /\ answer = "failed" =>
                 /\ call # "reverse"
                 /\ call = "charge" \/ NotFound = "unknown" => u \in {"refused", "reversed"}
  <1>1. \/ u = t \/ (call = "charge" /\ t = "absent" /\ u \in {"paying", "captured", "refused"})
        \/ (call = "reverse" /\ t # "absent" /\ u = "reversed")
    BY DEF After
  <1>2. u \in Trades /\ (call = "charge" => u # "absent")
    BY <1>1 DEF Trades, After
  <1>3. /\ u = "absent" => AnswerOf(u) = NotFound
        /\ u = "paying" => AnswerOf(u) = "user_confirming"
        /\ u = "captured" => AnswerOf(u) = "succeeded"
        /\ u = "refused" => AnswerOf(u) = "failed"
        /\ u = "reversed" => AnswerOf(u) = "reversed"
    BY DEF AnswerOf
  <1>4. /\ answer = "unknown" \/ answer = AnswerOf(u)
        /\ call = "reverse" /\ u # "reversed" => answer = "unknown"
    BY DEF Told
  <1>5. answer = "reversed" => u = "reversed"
    BY <1>2, <1>3, <1>4 DEF Trades
  <1>6. answer = "failed" =>
           /\ call # "reverse"
           /\ call = "charge" \/ NotFound = "unknown" => u \in {"refused", "reversed"}
    BY <1>2, <1>3, <1>4 DEF Trades
  <1> QED
    BY <1>1, <1>5, <1>6

LEMMA ProviderStep ==
    ASSUME CodeInv, PCTypeOK', NEW r \in wire, NEW t \in Trades, NEW answer \in Answers,
           ProviderHandles(r, t, answer)
    PROVE  ClaimsInv' /\ RowInv'
  <1>1. /\ r.on \in Attempts /\ r.call \in Calls /\ r.from \in Claimants \union {Gone}
        /\ codeTrade \in [Attempts -> Trades] /\ wire \subseteq Requests /\ WireType
        /\ worker \in [Claimants -> {Unoccupied} \union Claims]
    BY PCTypeParts DEF CodeInv, WireType, TradeType, WorkerType, Requests
  <1>2. /\ UNCHANGED <<payment, attempt, holder>> /\ wire' = wire \ {r}
        /\ codeTrade' = [codeTrade EXCEPT ![r.on] = t]
        /\ t \in After(r.call, codeTrade[r.on]) /\ answer \in Told(r.call, t)
    BY DEF ProviderHandles, rowVars, parentVars, attemptVars
  <1>3. codeTrade'[r.on] = t /\ \A b \in Attempts : b # r.on => codeTrade'[b] = codeTrade[b]
    BY <1>1, <1>2
  <1>4. /\ \/ t = codeTrade[r.on]
           \/ r.call = "charge" /\ codeTrade[r.on] = "absent" /\ t \in {"paying", "captured", "refused"}
           \/ r.call = "reverse" /\ codeTrade[r.on] # "absent" /\ t = "reversed"
        /\ answer = "reversed" => t = "reversed"
        /\ answer = "failed" =>
              /\ r.call # "reverse"
              /\ r.call = "charge" \/ NotFound = "unknown" => t \in {"refused", "reversed"}
    BY <1>1, <1>2, ProviderSays
  <1>5. \A b \in Attempts : Charging(b)' => Charging(b)
    BY <1>2 DEF Charging
  <1>6. r.call = "charge" => Charging(r.on)
    BY DEF Charging
  <1>7. Quiet
    <2> SUFFICES ASSUME NEW b \in Attempts
                 PROVE  (MayCapture(b)' => MayCapture(b)) /\ (Reached(b)' => Reached(b))
      BY DEF Quiet
    <2>1. MayCapture(b) <=> \/ codeTrade[b] \in {"paying", "captured"}
                            \/ codeTrade[b] = "absent" /\ Charging(b)
      BY DEF MayCapture, Charging
    <2>2. MayCapture(b)' <=> \/ codeTrade'[b] \in {"paying", "captured"}
                             \/ codeTrade'[b] = "absent" /\ Charging(b)'
      BY DEF MayCapture, Charging
    <2>3. Reached(b)' => Reached(b)
      BY <1>3, <1>4, <1>5, <1>6 DEF Reached
    <2> QED
      BY <1>3, <1>4, <1>5, <1>6, <2>1, <2>2, <2>3
  <1>8. RowInv'
    BY <1>2, <1>7, RowsQuiet DEF CodeInv
  <1>9. \A b \in Attempts :
          /\ codeTrade[b] = "reversed" => codeTrade'[b] = "reversed"
          /\ codeTrade[b] = "refused" => codeTrade'[b] \in {"refused", "reversed"}
    BY <1>3, <1>4
  <1>10. ASSUME NEW v \in Claimants, v # r.from PROVE OneClaim(v)'
    <2>1. worker'[v] = worker[v]
      BY <1>1, <1>10 DEF ProviderHandles
    <2>2. LeavesAlone(v)
      BY <1>2, <1>9, <2>1 DEF LeavesAlone
    <2> QED
      BY <1>1, <2>2, ClaimLeftAlone, ClaimsOneByOne DEF CodeInv, WorkerType
  <1>11. ASSUME r.from \in Claimants PROVE OneClaim(r.from)'
    <2> DEFINE w == r.from
    <2>1. /\ OneClaim(w) /\ worker[w].step = "wait"
          /\ worker[w].on = r.on /\ worker[w].call = r.call
      BY <1>11, ClaimsOneByOne DEF CodeInv, OneClaim
    <2>2. worker[w] \in Claims
      BY <1>11, <2>1, PCTypeParts, AtWork DEF CodeInv
    <2>3. worker' = [worker EXCEPT ![w].step = "apply", ![w].answer = answer]
      BY <1>11 DEF ProviderHandles
    <2>4. /\ worker'[w].step = "apply" /\ worker'[w].on = r.on /\ worker'[w].call = r.call
          /\ worker'[w].answer = answer
      BY <1>1, <1>11, <2>1, <2>2, <2>3 DEF Claims
    <2>5. \A q \in wire : q.from = w => q = r
      BY <1>1, <2>1 DEF OneClaim, Requests
    <2>6. \A q \in wire' : q.from # w
      BY <1>2, <2>5
    <2>7. \A a \in Attempts : holder'[a] = w => Engaged(w)' /\ worker'[w].on = a
      BY <1>2, <2>1, <2>4 DEF OneClaim, Engaged
    <2>8. Holds(w)' => attempt'[r.on] \in Submitted \union {"manual_handling"}
      BY <1>2, <2>1, <2>4 DEF OneClaim, Holds, Engaged
    <2> QED
      BY <1>3, <1>4, <2>4, <2>6, <2>7, <2>8 DEF OneClaim
  <1>12. ClaimsInv'
    <2>1. \A v \in Claimants : OneClaim(v)'
      BY <1>10, <1>11
    <2>2. WireType'
      BY DEF PCTypeOK, WireType
    <2> QED
      BY <2>1, <2>2, ClaimsNext
  <1> QED
    BY <1>8, <1>12

LEMMA ApplyStep ==
    ASSUME CodeInv, PCTypeOK', NEW w \in Claimants, Apply(w)
    PROVE  ClaimsInv' /\ RowInv'
  <1> DEFINE a == worker[w].on
             got == worker[w].answer
  <1>1. /\ worker[w].step = "apply" /\ Engaged(w) /\ a \in Attempts /\ worker[w] \in Claims
        /\ UNCHANGED codeTrade
        /\ worker \in [Claimants -> {Unoccupied} \union Claims]
        /\ attempt \in [Attempts -> AttemptStates]
    BY PCTypeParts, AtWork, ClaimParts
       DEF Apply, Doing, CodeInv, Engaged, WorkerType, RowsType, AttemptType
  <1>2. /\ got = "reversed" => ~MayCapture(a)
        /\ got = "failed" /\ (worker[w].call = "charge" \/ NotFound = "unknown") => ~MayCapture(a)
    BY <1>1 DEF CodeInv, ClaimsInv, AnswerInv, MayCapture
  <1>3. ASSUME Finish(w), Quiet => RowInv' /\ ((\E x : Writes(w, x)) \/ Discard(w))
        PROVE  ClaimsInv' /\ RowInv'
    BY <1>1, <1>3, ResultStep
  <1>4. ASSUME Finish(w), NEW s \in Submitted, deferRecovery(w, s) PROVE ClaimsInv' /\ RowInv'
    BY <1>1, <1>3, <1>4, DeferRows
  <1>5. ASSUME Finish(w), NEW b \in BOOLEAN,
               transitionProviderPaymentTerminal(w, "succeeded", "succeeded", b)
        PROVE  ClaimsInv' /\ RowInv'
    <2>1. "succeeded" \in Ended \ {"canceled"}
      BY DEF Ended
    <2> QED
      BY <1>1, <1>3, <1>5, <2>1, TransitionRows
  <1>6. ASSUME Finish(w), NEW b \in BOOLEAN, NEW s \in {"failed", "reversed"},
               NotFound = "unknown" => ~MayCapture(a),
               transitionProviderPaymentTerminal(w, "failed", s, b)
        PROVE  ClaimsInv' /\ RowInv'
    <2>1. s \in Ended \ {"canceled"} /\ s # "succeeded"
      BY DEF Ended
    <2> QED
      BY <1>1, <1>3, <1>6, <2>1, TransitionRows
  <1>7. "querying" \in Submitted /\ "user_confirming" \in Submitted
    BY DEF Submitted
  <1>8. CASE applyChargeResult(w)
    <2>1. Finish(w) /\ worker[w].call = "charge"
      BY <1>8 DEF applyChargeResult
    <2>2. CASE got = "succeeded" /\ transitionProviderPaymentTerminal(w, got, got, FALSE)
      BY <1>5, <2>1, <2>2
    <2>3. CASE got = "reversed" /\ transitionProviderPaymentTerminal(w, "failed", got, FALSE)
      BY <1>2, <1>6, <2>1, <2>3
    <2>4. CASE got = "failed" /\ releaseRecoveryClaim(w, got, "null")
      BY <1>1, <1>2, <1>3, <2>1, <2>4, ReleaseRows
    <2>5. CASE \E s \in {"querying", "user_confirming"} : deferRecovery(w, s)
      BY <1>4, <1>7, <2>1, <2>5
    <2> QED
      BY <1>8, <2>2, <2>3, <2>4, <2>5 DEF applyChargeResult
  <1>9. CASE reverseAfterQuery(w)
    <2>1. CASE got = "reversed" /\ transitionProviderPaymentTerminal(w, "failed", got, TRUE)
      BY <1>2, <1>6, <1>9, <2>1 DEF reverseAfterQuery
    <2>2. CASE deferRecovery(w, "querying")
      BY <1>4, <1>7, <1>9, <2>2 DEF reverseAfterQuery
    <2> QED
      BY <1>9, <2>1, <2>2 DEF reverseAfterQuery
  <1>10. CASE beginReversal(w)
    <2>1. CASE Discard(w) /\ Finish(w)
      BY <1>3, <2>1, DiscardRows DEF CodeInv
    <2>2. CASE /\ Active(a) /\ recoveryLeaseConditions(w)
               /\ attempt' = [attempt EXCEPT ![a] = "reversing"]
               /\ worker' = [worker EXCEPT ![w].step = "renew", ![w].call = "reverse"]
               /\ UNCHANGED <<parentVars, holder, count, wire>>
      <3>1. /\ worker'[w].step = "renew" /\ worker'[w].on = a
            /\ \A v \in Claimants : v # w => worker'[v] = worker[v]
        BY <1>1, <2>2 DEF Claims
      <3>2. UNCHANGED <<payment, holder, wire>> /\ holder[a] = w
        BY <2>2 DEF parentVars, recoveryLeaseConditions
      <3>3. attempt'[a] = "reversing" /\ \A b \in Attempts : b # a => attempt'[b] = attempt[b]
        BY <1>1, <2>2
      <3>4. OneClaim(w)
        BY ClaimsOneByOne DEF CodeInv
      <3>5. OneClaim(w)'
        BY <1>1, <3>1, <3>2, <3>3, <3>4 DEF OneClaim, Engaged, Holds, Submitted
      <3>6. \A v \in Claimants : v # w => LeavesAlone(v)
        BY <1>1, <3>1, <3>2, <3>3 DEF LeavesAlone
      <3>7. payment \in Open
        BY <1>1, <3>2, HeldIsActive DEF Holds
      <3>8. Quiet
        BY <1>1, <3>2, QuietStill
      <3>9. RowInv'
        BY <1>1, <2>2, <3>2, <3>7, <3>8, RowsKeep DEF CodeInv, InPlay, Submitted
      <3> QED
        BY <3>5, <3>6, <3>9, GoOnClaims DEF CodeInv
    <2> QED
      BY <1>10, <2>1, <2>2 DEF beginReversal
  <1>11. CASE queryAndResolve(w) /\ ~beginReversal(w)
    <2>1. Finish(w)
      BY <1>11 DEF queryAndResolve
    <2>2. CASE got = "succeeded" /\ transitionProviderPaymentTerminal(w, got, got, TRUE)
      BY <1>5, <2>1, <2>2
    <2>3. CASE got \in {"failed", "reversed"} /\ transitionProviderPaymentTerminal(w, "failed", got, TRUE)
      BY <1>2, <1>6, <2>1, <2>3
    <2>4. CASE \E s \in {"querying", "user_confirming"} : deferRecovery(w, s)
      BY <1>4, <1>7, <2>1, <2>4
    <2> QED
      BY <1>11, <2>2, <2>3, <2>4 DEF queryAndResolve
  <1> QED
    BY <1>8, <1>9, <1>10, <1>11 DEF Apply

LEMMA DiesStep ==
    ASSUME CodeInv, NEW w \in Claimants, WorkerDies(w)
    PROVE  ClaimsInv' /\ RowInv'
  <1>1. /\ Finish(w) /\ UNCHANGED <<payment, attempt, codeTrade>> /\ holder' = HolderLeft(w)
        /\ WireType
    BY PCTypeParts DEF WorkerDies, parentVars, CodeInv
  <1>2. \A a \in Attempts : holder'[a] = (IF holder[a] = w THEN Gone ELSE holder[a])
    BY <1>1 DEF HolderLeft
  <1>3. ClaimsInv'
    BY <1>1, <1>2, FinishClaims DEF CodeInv
  <1>4. RowInv'
    BY <1>1, QuietAbandoned, RowsQuiet DEF CodeInv, Finish
  <1> QED
    BY <1>3, <1>4

(* Everybody else leaves the workers alone.                                 *)
LEMMA OutsideClaims ==
    ASSUME CodeInv, PCTypeOK', UNCHANGED <<worker, wire>>,
           \A a \in Attempts :
              /\ holder'[a] # holder[a] => holder'[a] = Nobody
              /\ \/ attempt'[a] = attempt[a] \/ holder'[a] = Nobody
                 \/ attempt[a] = "created" /\ attempt'[a] = "canceled"
              /\ codeTrade[a] \in {"refused", "reversed"} => codeTrade'[a] = codeTrade[a]
    PROVE  ClaimsInv'
  <1>1. WorkerType /\ \A v \in Claimants : OneClaim(v)
    BY PCTypeParts, ClaimsOneByOne DEF CodeInv
  <1>2. \A v \in Claimants : LeavesAlone(v)
    BY DEF LeavesAlone
  <1>3. \A v \in Claimants : OneClaim(v)'
    BY <1>1, <1>2, ClaimLeftAlone
  <1>4. WireType'
    BY DEF PCTypeOK, WireType
  <1> QED
    BY <1>3, <1>4, ClaimsNext

LEMMA WakeStep ==
    ASSUME CodeInv, PCTypeOK', UNCHANGED <<worker, wire, codeTrade, attempt, holder, payment>>
    PROVE  ClaimsInv' /\ RowInv'
  BY OutsideClaims, QuietStill, RowsQuiet DEF CodeInv

LEMMA CloseStep ==
    ASSUME CodeInv, PCTypeOK', UNCHANGED <<worker, wire, codeTrade>>, payment = "pending",
           NEW p \in Closed, NEW o, CloseOrder(p, o)
    PROVE  ClaimsInv' /\ RowInv'
  <1>1. attempt \in [Attempts -> AttemptStates]
    BY PCTypeParts DEF CodeInv, RowsType, AttemptType
  <1>2. \A a \in Attempts :
          attempt'[a] = attempt[a] \/ (attempt[a] = "created" /\ attempt'[a] = "canceled")
    BY DEF CloseOrder, Active, InPlay
  <1>3. ClaimsInv'
    BY <1>2, OutsideClaims DEF CloseOrder
  <1> QED
    BY <1>1, <1>3, QuietStill, RowsClose DEF CodeInv

LEMMA OthersStep ==
    ASSUME CodeInv, PCTypeOK',
           \/ \E a \in Attempts :
                 \/ \E t \in {"captured", "refused"} : CustomerDecides(a, t)
                 \/ \E s \in {"querying", "reversing", "manual_handling"} : requestRecoveryAction(a, s)
                 \/ handlePaymentWebhook(a) \/ BecomesDue(a) \/ LeaseExpires(a)
           \/ expireOverduePayments \/ cancelMachineOrder \/ Expire
    PROVE  ClaimsInv' /\ RowInv'
  <1>0. /\ attempt \in [Attempts -> AttemptStates] /\ codeTrade \in [Attempts -> Trades]
        /\ holder \in [Attempts -> Claimants \union {Nobody, Gone}]
    BY PCTypeParts DEF CodeInv, RowsType, AttemptType, TradeType
  <1>1. ASSUME NEW a \in Attempts, NEW t \in {"captured", "refused"}, CustomerDecides(a, t)
        PROVE  ClaimsInv' /\ RowInv'
    <2>1. /\ UNCHANGED <<worker, wire, attempt, holder, payment>> /\ codeTrade[a] = "paying"
          /\ codeTrade' = [codeTrade EXCEPT ![a] = t]
      BY <1>1 DEF CustomerDecides, rowVars, parentVars, attemptVars
    <2>2. codeTrade'[a] = t /\ \A b \in Attempts : b # a => codeTrade'[b] = codeTrade[b]
      BY <1>0, <2>1
    <2>3. ClaimsInv'
      BY <2>1, <2>2, OutsideClaims
    <2>4. \A b \in Attempts : Charging(b)' => Charging(b)
      BY <2>1 DEF Charging
    <2>5. \A b \in Attempts : MayCapture(b)' => MayCapture(b)
      BY <2>1, <2>2 DEF MayCapture
    <2>6. Quiet
      BY <2>1, <2>2, <2>4, <2>5 DEF Quiet, Reached
    <2> QED
      BY <2>1, <2>3, <2>6, RowsQuiet DEF CodeInv
  <1>2. ASSUME NEW a \in Attempts, NEW s \in {"querying", "reversing", "manual_handling"},
               requestRecoveryAction(a, s)
        PROVE  ClaimsInv' /\ RowInv'
    <2>1. /\ UNCHANGED <<worker, wire, codeTrade, payment>> /\ Active(a) /\ payment \in Open
          /\ attempt' = [attempt EXCEPT ![a] = s] /\ holder' = [holder EXCEPT ![a] = Nobody]
      BY <1>2 DEF requestRecoveryAction, SetAttempt, parentVars, Open
    <2>2. ClaimsInv'
      BY <1>0, <2>1, OutsideClaims
    <2>3. s \in InPlay \ {"created"}
      BY DEF InPlay, Submitted
    <2> QED
      BY <1>0, <2>1, <2>2, <2>3, QuietStill, RowsKeep DEF CodeInv
  <1>3. ASSUME NEW a \in Attempts, handlePaymentWebhook(a) \/ BecomesDue(a)
        PROVE  ClaimsInv' /\ RowInv'
    BY <1>3, WakeStep DEF handlePaymentWebhook, Wake, BecomesDue, parentVars
  <1>4. ASSUME NEW a \in Attempts, LeaseExpires(a) PROVE ClaimsInv' /\ RowInv'
    <2>1. /\ UNCHANGED <<worker, wire, codeTrade, attempt, payment>>
          /\ holder' = [holder EXCEPT ![a] = Nobody]
      BY <1>4 DEF LeaseExpires, parentVars
    <2> QED
      BY <1>0, <2>1, OutsideClaims, QuietStill, RowsQuiet DEF CodeInv
  <1>5. CASE expireOverduePayments
    <2>1. UNCHANGED <<worker, wire, codeTrade>> /\ payment = "pending"
      BY <1>5 DEF expireOverduePayments
    <2>2. CASE \E a \in Attempts : Wake(a) /\ UNCHANGED parentVars
      BY <2>1, <2>2, WakeStep DEF Wake, parentVars
    <2>3. CASE CloseOrder("expired", "payment_expired")
      BY <2>1, <2>3, CloseStep DEF Closed
    <2> QED
      BY <1>5, <2>2, <2>3 DEF expireOverduePayments
  <1>6. CASE cancelMachineOrder
    <2>1. UNCHANGED <<worker, wire, codeTrade>> /\ payment = "pending"
      BY <1>6 DEF cancelMachineOrder
    <2>2. CASE \E a \in Attempts : Wake(a) /\ UNCHANGED payment
      BY <2>1, <2>2, WakeStep DEF Wake
    <2>3. CASE CloseOrder("canceled", "canceled")
      BY <2>1, <2>3, CloseStep DEF Closed
    <2> QED
      BY <1>6, <2>2, <2>3 DEF cancelMachineOrder
  <1>7. CASE Expire
    BY <1>7, WakeStep DEF Expire, attemptVars
  <1> QED
    BY <1>1, <1>2, <1>3, <1>4, <1>5, <1>6, <1>7

LEMMA CodeInvInit == PCInit => CodeInv
  <1> SUFFICES ASSUME PCInit PROVE CodeInv
    OBVIOUS
  <1>1. PCTypeOK
    BY PCTypeInit
  <1>2. ClaimsInv
    <2>1. HolderInv
      BY DEF PCInit, HolderInv
    <2>2. WireInv /\ ClaimInv /\ AnswerInv
      BY DEF PCInit, WireInv, ClaimInv, AnswerInv, Holds, Engaged, Unoccupied
    <2> QED
      BY <2>1, <2>2 DEF ClaimsInv
  <1>3. \A a \in Attempts : ~Active(a) /\ ~MayCapture(a) /\ ~Reached(a)
    BY DEF PCInit, Active, InPlay, Submitted, MayCapture, Reached, Charging
  <1>4. RowInv
    BY <1>3 DEF PCInit, RowInv, PlayInv, ChargeInv, KeptInv, ChargedOnce
  <1> QED
    BY <1>1, <1>2, <1>4 DEF CodeInv

LEMMA CodeInvStep == CodeInv /\ [PCNext]_pcVars => CodeInv'
  <1> SUFFICES ASSUME CodeInv, [PCNext]_pcVars PROVE CodeInv'
    OBVIOUS
  <1>1. PCTypeOK'
    BY PCTypeStep DEF CodeInv, ClaimsInv
  <1>2. ASSUME NEW w \in Claimants, ClaimantStep(w) PROVE ClaimsInv' /\ RowInv'
    BY <1>1, <1>2, AdmissionFailsStep, SubmitStep, RecoverStep, CallStep, CallFailsStep, ApplyStep
       DEF ClaimantStep
  <1>3. ASSUME NEW r \in wire, NEW t \in Trades, NEW answer \in Answers, ProviderHandles(r, t, answer)
        PROVE  ClaimsInv' /\ RowInv'
    BY <1>1, <1>3, ProviderStep
  <1>4. CASE UNCHANGED pcVars
    BY <1>1, <1>4, WakeStep DEF CodeInv, pcVars, rowVars, parentVars, attemptVars
  <1>5. ASSUME NEW w \in Claimants,
               WorkerDies(w) \/ \E a \in Attempts : createOrReplay(w, a) \/ claimRecoveryAttempt(w, a)
        PROVE  ClaimsInv' /\ RowInv'
    BY <1>1, <1>5, AdmitStep, ClaimStep, DiesStep
  <1>6. CASE \/ \E a \in Attempts :
                 \/ \E t \in {"captured", "refused"} : CustomerDecides(a, t)
                 \/ \E s \in {"querying", "reversing", "manual_handling"} : requestRecoveryAction(a, s)
                 \/ handlePaymentWebhook(a) \/ BecomesDue(a) \/ LeaseExpires(a)
             \/ expireOverduePayments \/ cancelMachineOrder \/ Expire
    BY <1>1, <1>6, OthersStep DEF CodeInv
  <1>7. CASE PCNext
    BY <1>1, <1>2, <1>3, <1>5, <1>6, <1>7 DEF CodeInv, PCNext, Trades
  <1> QED
    BY <1>4, <1>7

(* A scanned code, whatever its workers, the provider, the expiry and the   *)
(* operators do, never leaves the inductive invariant.                      *)
THEOREM CodeInvHolds == PCSpec => []CodeInv
  BY CodeInvInit, CodeInvStep, PTL DEF PCSpec

(* Rows, claims, requests and trades keep their types.                      *)
THEOREM CodeTypeCorrect == PCSpec => []PCTypeOK
  <1>1. CodeInv => PCTypeOK
    BY DEF CodeInv
  <1> QED
    BY <1>1, CodeInvHolds, PTL

(* A customer who scans again is never charged for two codes, however late  *)
(* a request arrives and whatever the provider makes of a number it does    *)
(* not know (createOrReplay, applyChargeResult, beginReversal).             *)
THEOREM NeverChargedTwice == PCSpec => []ChargedOnce
  <1>1. CodeInv => ChargedOnce
    BY DEF CodeInv, RowInv
  <1> QED
    BY <1>1, CodeInvHolds, PTL

(* Money the provider holds is booked, or its attempt is still in the hands *)
(* of the workers or of an operator, where the adapter does not take a      *)
(* number the provider lacks for a refusal (queryAndResolve,                *)
(* deferRecovery, markPaymentCodeAttemptManualHandling).                    *)
THEOREM CapturedMoneyIsKept ==
    ASSUME NotFound = "unknown"
    PROVE  PCSpec => []CapturedIsKept
  <1>1. CodeInv => CapturedIsKept
    BY DEF CodeInv, RowInv, KeptInv, CapturedIsKept, MayCapture
  <1> QED
    BY <1>1, CodeInvHolds, PTL

(* An order closed for non-payment is not charged afterwards, under the     *)
(* same condition (cancelMachineOrder, expireOverduePayments).              *)
THEOREM ClosedIsNeverCharged ==
    ASSUME NotFound = "unknown"
    PROVE  PCSpec => []ClosedIsNotCharged
  <1>1. CodeInv => ClosedIsNotCharged
    BY DEF CodeInv, RowInv, PlayInv, KeptInv, ClosedIsNotCharged, Closed, Open
  <1> QED
    BY <1>1, CodeInvHolds, PTL

-----------------------------------------------------------------------------
(* Workers that lost their lease.                                           *)

(* Only a worker itself, or the provider's answer to its own call, moves it.*)
LEMMA OneWorkerOnly ==
    ASSUME NEW w \in Claimants, NEW v \in Claimants, v # w, WorkerType,
           \/ \E a \in Attempts : createOrReplay(v, a) \/ claimRecoveryAttempt(v, a)
           \/ ClaimantStep(v) \/ WorkerDies(v)
    PROVE  worker'[w] = worker[w]
  <1>1. CASE Finish(v)
    BY <1>1 DEF Finish, WorkerType
  <1>2. CASE \E c : worker' = [worker EXCEPT ![v] = c]
    BY <1>2 DEF WorkerType
  <1>3. CASE \E a \in Attempts : createOrReplay(v, a) \/ claimRecoveryAttempt(v, a)
    BY <1>2, <1>3 DEF createOrReplay, claimRecoveryAttempt
  <1>4. CASE AdmissionFails(v) \/ WorkerDies(v)
    BY <1>1, <1>4 DEF AdmissionFails, WorkerDies
  <1>5. CASE claimSubmission(v)
    BY <1>1, <1>5 DEF claimSubmission, WorkerType
  <1>6. CASE recoverClaim(v)
    BY <1>1, <1>6 DEF recoverClaim, recoverWithoutQuery, recoverInContext, WorkerType
  <1>7. CASE callWithRenewedLease(v) \/ CallFails(v)
    BY <1>7 DEF callWithRenewedLease, CallFails, WorkerType
  <1>8. CASE Apply(v)
    <2>1. Finish(v) \/ worker' = [worker EXCEPT ![v].step = "renew", ![v].call = "reverse"]
      BY <1>8 DEF Apply, applyChargeResult, queryAndResolve, reverseAfterQuery, beginReversal
    <2> QED
      BY <1>1, <2>1 DEF WorkerType
  <1> QED
    BY <1>3, <1>4, <1>5, <1>6, <1>7, <1>8 DEF ClaimantStep

(* Without its lease a worker writes nothing.                               *)
LEMMA StaleResult ==
    ASSUME CodeInv, NEW w \in Claimants, worker[w].step \in {"claimed", "apply"},
           ~(holder[worker[w].on] = w), recoverClaim(w) \/ Apply(w) \/ WorkerDies(w)
    PROVE  UNCHANGED rowVars
  <1>1. /\ worker[w].on \in Attempts
        /\ holder \in [Attempts -> Claimants \union {Nobody, Gone}]
    BY PCTypeParts, AtWork, ClaimParts DEF CodeInv, RowsType, AttemptType
  <1>2. \A a \in Attempts : holder[a] # w
    BY <1>1 DEF CodeInv, ClaimsInv, HolderInv
  <1>3. HolderLeft(w) = holder
    BY <1>1, <1>2 DEF HolderLeft
  <1>4. Discard(w) => UNCHANGED rowVars
    BY <1>3 DEF Discard, rowVars, attemptVars
  <1>5. ~recoveryLeaseConditions(w)
    BY DEF recoveryLeaseConditions
  <1>6. /\ \A s, d : releaseRecoveryClaim(w, s, d) => UNCHANGED rowVars
        /\ markManualHandling(w) => UNCHANGED rowVars
    BY <1>4, <1>5 DEF releaseRecoveryClaim, markManualHandling
  <1>7. \A s : deferRecovery(w, s) => UNCHANGED rowVars
    BY <1>6 DEF deferRecovery
  <1>8. \A new, s : \A b \in BOOLEAN :
           transitionProviderPaymentTerminal(w, new, s, b) => UNCHANGED rowVars
    BY <1>4, <1>5 DEF transitionProviderPaymentTerminal
  <1>9. beginReversal(w) => UNCHANGED rowVars
    BY <1>4, <1>5 DEF beginReversal
  <1>10. CASE WorkerDies(w)
    BY <1>3, <1>10 DEF WorkerDies, rowVars, attemptVars
  <1>11. CASE recoverClaim(w)
    BY <1>6, <1>7, <1>11 DEF recoverClaim, recoverWithoutQuery, recoverInContext
  <1>12. CASE Apply(w)
    BY <1>6, <1>7, <1>8, <1>9, <1>12 DEF Apply, applyChargeResult, queryAndResolve, reverseAfterQuery
  <1> QED
    BY <1>10, <1>11, <1>12

(* A worker whose lease was taken away or ran out writes nothing, however   *)
(* late its answer (recoveryLeaseConditions).                               *)
THEOREM StaleWorkersWriteNothing == PCSpec => StaleWritesNothing
  <1> DEFINE Silent == \A w \in Claimants :
          (/\ worker[w].step \in {"claimed", "apply"}
           /\ ~(holder[worker[w].on] = w)
           /\ worker'[w] # worker[w])
          => UNCHANGED rowVars
  <1>1. ASSUME CodeInv, [PCNext]_pcVars PROVE [Silent]_pcVars
    <2> SUFFICES ASSUME PCNext, NEW w \in Claimants, worker[w].step \in {"claimed", "apply"},
                        ~(holder[worker[w].on] = w), worker'[w] # worker[w]
                 PROVE  UNCHANGED rowVars
      BY <1>1
    <2>0. WorkerType
      BY <1>1, PCTypeParts DEF CodeInv
    <2>1. ASSUME NEW r \in wire, NEW t, NEW answer, ProviderHandles(r, t, answer)
          PROVE  UNCHANGED rowVars
      BY <2>1 DEF ProviderHandles
    <2>2. ASSUME NEW v \in Claimants,
                 \/ \E a \in Attempts : createOrReplay(v, a) \/ claimRecoveryAttempt(v, a)
                 \/ ClaimantStep(v) \/ WorkerDies(v)
          PROVE  UNCHANGED rowVars
      <3>1. v = w
        BY <2>0, <2>2, OneWorkerOnly
      <3>2. recoverClaim(w) \/ Apply(w) \/ WorkerDies(w)
        BY <2>2, <3>1 DEF createOrReplay, claimRecoveryAttempt, ClaimantStep, AdmissionFails,
             claimSubmission, callWithRenewedLease, CallFails, Doing
      <3> QED
        BY <1>1, <3>2, StaleResult
    <2>3. UNCHANGED worker \/ (\E r \in wire, t \in Trades, answer \in Answers :
                                  ProviderHandles(r, t, answer))
             \/ \E v \in Claimants :
                   \/ \E a \in Attempts : createOrReplay(v, a) \/ claimRecoveryAttempt(v, a)
                   \/ ClaimantStep(v) \/ WorkerDies(v)
      BY DEF PCNext, Trades, CustomerDecides, requestRecoveryAction, handlePaymentWebhook,
             BecomesDue, LeaseExpires, expireOverduePayments, cancelMachineOrder, Expire
    <2> QED
      BY <2>1, <2>2, <2>3
  <1> QED
    BY <1>1, CodeInvHolds, PTL DEF PCSpec, StaleWritesNothing

-----------------------------------------------------------------------------
(* What a step does to the payment and to the money.                        *)

SameMoney == UNCHANGED codeTrade /\ \A a \in Attempts : Charging(a)' <=> Charging(a)
SameStage == payment' = payment \/ (payment \in Open /\ payment' \in Open)
NoSuccess == \A a \in Attempts : attempt'[a] = "succeeded" => attempt[a] = "succeeded"

(* A step that the contract does not see.                                   *)
Ordinary == SameMoney /\ SameStage /\ NoSuccess

(* A worker that was told of the money books it.                            *)
Books(w) ==
    /\ SameMoney
    /\ worker[w].step = "apply" /\ worker[w].answer = "succeeded"
    /\ Active(worker[w].on)
    /\ payment \in Open /\ payment' = "succeeded"
    /\ attempt' = [attempt EXCEPT ![worker[w].on] = "succeeded"]

(* The payment is closed, and no charge can take money any more.            *)
Closes ==
    /\ SameMoney /\ NoSuccess
    /\ payment \in Open /\ payment' \in Closed
    /\ NotFound = "unknown" => \A a \in Attempts : ~MayCapture(a)

(* A call leaves for the provider.                                          *)
Sends(a) ==
    /\ UNCHANGED <<codeTrade, payment, attempt>>
    /\ payment \in Open
    /\ Charging(a) => Charging(a)'
    /\ \A b \in Attempts : b # a => (Charging(b)' <=> Charging(b))

(* A worker that gives up its call leaves the charge on the wire.           *)
LEMMA AbandonedCharges ==
    ASSUME NEW w, wire' = Abandoned(w), UNCHANGED codeTrade, WireType
    PROVE  SameMoney
  <1>1. ASSUME NEW a \in Attempts, NEW r \in wire', r.on = a, r.call = "charge"
        PROVE  Charging(a)
    <2>1. CASE r \in wire
      BY <1>1, <2>1 DEF Charging
    <2>2. CASE r \notin wire
      <3>1. PICK q \in wire : r = [q EXCEPT !.from = Gone]
        BY <2>2 DEF Abandoned
      <3>2. q.on = a /\ q.call = "charge"
        BY <1>1, <3>1 DEF WireType, Requests
      <3> QED
        BY <3>2 DEF Charging
    <2> QED
      BY <2>1, <2>2
  <1>2. ASSUME NEW a \in Attempts, NEW r \in wire, r.on = a, r.call = "charge"
        PROVE  Charging(a)'
    <2>1. CASE r.from # w
      BY <1>2, <2>1 DEF Charging, Abandoned
    <2>2. CASE r.from = w
      <3> DEFINE q == [r EXCEPT !.from = Gone]
      <3>1. q.on = a /\ q.call = "charge"
        BY <1>2 DEF WireType, Requests
      <3>2. q \in wire'
        BY <1>2, <2>2 DEF Abandoned
      <3> HIDE DEF q
      <3> QED
        BY <3>1, <3>2 DEF Charging
    <2> QED
      BY <2>1, <2>2
  <1> QED
    BY <1>1, <1>2 DEF SameMoney, Charging

(* What a worker that holds its attempt writes, short of settling.          *)
LEMMA WrittenIsOrdinary ==
    ASSUME attempt \in [Attempts -> AttemptStates], NEW w, worker[w].on \in Attempts,
           \/ /\ \E s : s # "succeeded" /\ Writes(w, s)
              /\ SameStage
           \/ Discard(w)
    PROVE  SameStage /\ NoSuccess
  <1>1. CASE Discard(w)
    BY <1>1 DEF Discard, parentVars, SameStage, NoSuccess
  <1>2. ASSUME NEW s, s # "succeeded", Writes(w, s)
        PROVE  NoSuccess
    BY <1>2 DEF Writes, NoSuccess
  <1> QED
    BY <1>1, <1>2

LEMMA DeferIsOrdinary ==
    ASSUME attempt \in [Attempts -> AttemptStates], NEW w, worker[w].on \in Attempts,
           NEW s \in Submitted, deferRecovery(w, s) \/ markManualHandling(w)
    PROVE  SameStage /\ NoSuccess
  <1>1. s # "succeeded"
    BY DEF Submitted
  <1>2. \/ Writes(w, "manual_handling") /\ payment \in Open /\ payment' \in Open
        \/ Writes(w, s) /\ UNCHANGED payment
        \/ Discard(w)
    BY DeferDoes, ManualDoes
  <1> QED
    BY <1>1, <1>2, WrittenIsOrdinary DEF SameStage

LEMMA ReleaseIsOrdinary ==
    ASSUME attempt \in [Attempts -> AttemptStates], NEW w, worker[w].on \in Attempts,
           NEW s, s # "succeeded", NEW d, releaseRecoveryClaim(w, s, d)
    PROVE  SameStage /\ NoSuccess
  BY ReleaseDoes, WrittenIsOrdinary DEF SameStage

(* A worker's own steps.                                                    *)
LEMMA RecoverEffect ==
    ASSUME CodeInv, NEW w \in Claimants, recoverClaim(w)
    PROVE  Ordinary
  <1> DEFINE a == worker[w].on
  <1>1. /\ worker[w].step = "claimed" /\ Engaged(w) /\ a \in Attempts /\ WireType
        /\ UNCHANGED codeTrade /\ attempt \in [Attempts -> AttemptStates]
    BY PCTypeParts, AtWork, ClaimParts DEF recoverClaim, Doing, CodeInv, Engaged, RowsType, AttemptType
  <1>2. Finish(w) => SameMoney
    BY <1>1, AbandonedCharges DEF Finish
  <1>3. CASE recoverWithoutQuery(w)
    <2>1. "querying" \in Submitted
      BY DEF Submitted
    <2> QED
      BY <1>1, <1>2, <1>3, <2>1, DeferIsOrdinary, ReleaseIsOrdinary DEF recoverWithoutQuery, Ordinary
  <1>4. CASE recoverInContext(w)
    <2>1. worker[w].seen # "created"
      BY <1>4 DEF recoverInContext, Submitted
    <2>2. holder[a] = w => payment \in Open
      BY <1>1, <2>1, HeldIsActive DEF Holds
    <2>3. CASE deferRecovery(w, "querying") /\ Finish(w)
      <3>1. "querying" \in Submitted
        BY DEF Submitted
      <3> QED
        BY <1>1, <1>2, <2>3, <3>1, DeferIsOrdinary DEF Ordinary
    <2>4. CASE /\ payment \notin Open /\ Finish(w)
               /\ \E s \in {"succeeded", "failed"} : releaseRecoveryClaim(w, s, "null")
      <3>1. Discard(w)
        BY <2>2, <2>4, ReleaseDoes DEF Writes
      <3> QED
        BY <1>1, <1>2, <2>4, <3>1, WrittenIsOrdinary DEF Ordinary
    <2>5. CASE UNCHANGED <<rowVars, wire>>
      BY <1>1, <2>5 DEF rowVars, parentVars, attemptVars, Ordinary, SameMoney, SameStage, NoSuccess,
         Charging
    <2> QED
      BY <1>4, <2>3, <2>4, <2>5 DEF recoverInContext, Open, Closed
  <1> QED
    BY <1>3, <1>4 DEF recoverClaim

LEMMA ApplyEffect ==
    ASSUME CodeInv, NEW w \in Claimants, Apply(w)
    PROVE  Ordinary \/ Books(w) \/ Closes
  <1> DEFINE a == worker[w].on
             got == worker[w].answer
  <1>1. /\ worker[w].step = "apply" /\ Engaged(w) /\ a \in Attempts /\ WireType
        /\ UNCHANGED codeTrade /\ attempt \in [Attempts -> AttemptStates]
    BY PCTypeParts, AtWork, ClaimParts
       DEF Apply, Doing, CodeInv, Engaged, RowsType, AttemptType
  <1>2. /\ got = "reversed" => ~MayCapture(a)
        /\ got = "failed" /\ NotFound = "unknown" => ~MayCapture(a)
    BY <1>1 DEF CodeInv, ClaimsInv, AnswerInv, MayCapture
  <1>3. Finish(w) => SameMoney
    BY <1>1, AbandonedCharges DEF Finish
  <1>4. ASSUME Finish(w), NEW s \in Submitted, deferRecovery(w, s) PROVE Ordinary
    BY <1>1, <1>3, <1>4, DeferIsOrdinary DEF Ordinary
  <1>5. ASSUME Finish(w), Discard(w) PROVE Ordinary
    BY <1>1, <1>3, <1>5, WrittenIsOrdinary DEF Ordinary
  <1>6. ASSUME Finish(w), got = "succeeded", NEW b \in BOOLEAN,
               transitionProviderPaymentTerminal(w, "succeeded", "succeeded", b)
        PROVE  Ordinary \/ Books(w)
    <2>1. CASE Discard(w)
      BY <1>5, <1>6, <2>1
    <2>2. CASE Writes(w, "succeeded") /\ Active(a) /\ payment \in Open /\ payment' = "succeeded"
      BY <1>1, <1>3, <1>6, <2>2 DEF Books, Writes
    <2> QED
      BY <1>6, <2>1, <2>2, TransitionDoes
  <1>7. ASSUME Finish(w), got \in {"failed", "reversed"}, NEW b \in BOOLEAN,
               transitionProviderPaymentTerminal(w, "failed", got, b)
        PROVE  Ordinary \/ Closes
    <2>1. CASE Discard(w)
      BY <1>5, <1>7, <2>1
    <2>2. CASE Writes(w, got) /\ Active(a) /\ payment \in Open /\ payment' = "failed"
      <3>1. NoSuccess
        BY <1>1, <1>7, <2>2 DEF Writes, NoSuccess
      <3>2. ASSUME NotFound = "unknown", NEW b1 \in Attempts PROVE ~MayCapture(b1)
        <4>1. ~MayCapture(a)
          BY <1>2, <1>7, <3>2
        <4>2. MayCapture(b1) => b1 = a
          BY <1>1, <2>2 DEF CodeInv, RowInv, PlayInv, ChargeInv
        <4> QED
          BY <4>1, <4>2
      <3> QED
        BY <1>3, <1>7, <2>2, <3>1, <3>2 DEF Closes, Closed
    <2> QED
      BY <1>7, <2>1, <2>2, TransitionDoes
  <1>8. "querying" \in Submitted /\ "user_confirming" \in Submitted
    BY DEF Submitted
  <1>9. CASE applyChargeResult(w)
    <2>1. Finish(w)
      BY <1>9 DEF applyChargeResult
    <2>2. CASE got = "succeeded" /\ transitionProviderPaymentTerminal(w, got, got, FALSE)
      BY <1>6, <2>1, <2>2
    <2>3. CASE got = "reversed" /\ transitionProviderPaymentTerminal(w, "failed", got, FALSE)
      BY <1>7, <2>1, <2>3
    <2>4. CASE got = "failed" /\ releaseRecoveryClaim(w, got, "null")
      BY <1>1, <1>3, <2>1, <2>4, ReleaseIsOrdinary DEF Ordinary
    <2>5. CASE \E s \in {"querying", "user_confirming"} : deferRecovery(w, s)
      BY <1>4, <1>8, <2>1, <2>5
    <2> QED
      BY <1>9, <2>2, <2>3, <2>4, <2>5 DEF applyChargeResult
  <1>10. CASE reverseAfterQuery(w)
    <2>1. CASE got = "reversed" /\ transitionProviderPaymentTerminal(w, "failed", got, TRUE)
      BY <1>7, <1>10, <2>1 DEF reverseAfterQuery
    <2>2. CASE deferRecovery(w, "querying")
      BY <1>4, <1>8, <1>10, <2>2 DEF reverseAfterQuery
    <2> QED
      BY <1>10, <2>1, <2>2 DEF reverseAfterQuery
  <1>11. CASE beginReversal(w)
    <2>1. CASE Discard(w) /\ Finish(w)
      BY <1>5, <2>1
    <2>2. CASE attempt' = [attempt EXCEPT ![a] = "reversing"] /\ UNCHANGED <<parentVars, wire>>
      BY <1>1, <2>2 DEF Ordinary, SameMoney, SameStage, NoSuccess, Charging, parentVars
    <2> QED
      BY <1>11, <2>1, <2>2 DEF beginReversal
  <1>12. CASE queryAndResolve(w) /\ ~beginReversal(w)
    <2>1. Finish(w)
      BY <1>12 DEF queryAndResolve
    <2>2. CASE got = "succeeded" /\ transitionProviderPaymentTerminal(w, got, got, TRUE)
      BY <1>6, <2>1, <2>2
    <2>3. CASE got \in {"failed", "reversed"} /\ transitionProviderPaymentTerminal(w, "failed", got, TRUE)
      BY <1>7, <2>1, <2>3
    <2>4. CASE \E s \in {"querying", "user_confirming"} : deferRecovery(w, s)
      BY <1>4, <1>8, <2>1, <2>4
    <2> QED
      BY <1>12, <2>2, <2>3, <2>4 DEF queryAndResolve
  <1> QED
    BY <1>9, <1>10, <1>11, <1>12 DEF Apply

(* The provider handles a call, or the customer decides.                    *)
Handles == \E r \in wire, t \in Trades, answer \in Answers : ProviderHandles(r, t, answer)
Decides == \E a \in Attempts, t \in {"captured", "refused"} : CustomerDecides(a, t)

LEMMA CodeEffects ==
    ASSUME CodeInv, [PCNext]_pcVars
    PROVE  \/ Ordinary \/ Closes \/ Handles \/ Decides
           \/ \E w \in Claimants : Books(w)
           \/ \E a \in Attempts : Sends(a)
  <1> DEFINE Effect == \/ Ordinary \/ Closes \/ Handles \/ Decides
                       \/ \E w \in Claimants : Books(w)
                       \/ \E a \in Attempts : Sends(a)
  <1>0. attempt \in [Attempts -> AttemptStates] /\ WireType
    BY PCTypeParts DEF CodeInv, RowsType, AttemptType
  <1>1. ASSUME UNCHANGED <<wire, codeTrade>>, SameStage, NoSuccess PROVE Ordinary
    BY <1>1 DEF Ordinary, SameMoney, Charging
  <1>2. ASSUME UNCHANGED <<wire, codeTrade, payment, attempt>> PROVE Ordinary
    BY <1>1, <1>2 DEF SameStage, NoSuccess
  <1>3. ASSUME NEW a \in Attempts, NEW s, s # "succeeded", attempt' = [attempt EXCEPT ![a] = s]
        PROVE  NoSuccess
    BY <1>0, <1>3 DEF NoSuccess
  <1>4. ASSUME NEW w \in Claimants, NEW a \in Attempts, createOrReplay(w, a) \/ claimRecoveryAttempt(w, a)
        PROVE  Ordinary
    <2>1. UNCHANGED <<wire, codeTrade, payment>>
      BY <1>4 DEF createOrReplay, claimRecoveryAttempt, parentVars
    <2>2. UNCHANGED attempt \/ attempt' = [attempt EXCEPT ![a] = "created"]
      BY <1>4 DEF createOrReplay, claimRecoveryAttempt
    <2> QED
      BY <1>1, <1>2, <1>3, <2>1, <2>2 DEF SameStage
  <1>5. ASSUME NEW w \in Claimants, AdmissionFails(w) \/ claimSubmission(w)
        PROVE  Ordinary
    <2>1. /\ worker[w].on \in Attempts /\ UNCHANGED <<codeTrade, payment>>
          /\ UNCHANGED wire \/ Finish(w)
      BY <1>5, PCTypeParts, AtWork, ClaimParts
         DEF AdmissionFails, claimSubmission, Doing, CodeInv, parentVars
    <2>2. SameMoney
      BY <1>0, <2>1, AbandonedCharges DEF Finish, SameMoney, Charging
    <2>3. UNCHANGED attempt \/ \E s \in {"failed", "submitting"} :
                                   attempt' = [attempt EXCEPT ![worker[w].on] = s]
      BY <1>5 DEF AdmissionFails, claimSubmission, SetAttempt, attemptVars
    <2>4. NoSuccess
      BY <1>3, <2>1, <2>3 DEF NoSuccess
    <2> QED
      BY <2>1, <2>2, <2>4 DEF Ordinary, SameStage
  <1>6. ASSUME NEW w \in Claimants, CallFails(w) \/ WorkerDies(w)
        PROVE  Ordinary
    <2>1. UNCHANGED <<codeTrade, payment, attempt>> /\ wire' = Abandoned(w)
      BY <1>6 DEF CallFails, WorkerDies, Finish, rowVars, parentVars, attemptVars
    <2> QED
      BY <1>0, <2>1, AbandonedCharges DEF Ordinary, SameStage, NoSuccess
  <1>7. ASSUME NEW w \in Claimants, callWithRenewedLease(w)
        PROVE  Effect
    <2>0. worker[w].step = "renew" /\ Engaged(w) /\ worker[w].on \in Attempts
      BY <1>7, PCTypeParts, AtWork, ClaimParts DEF callWithRenewedLease, Doing, CodeInv, Engaged
    <2>1. UNCHANGED <<payment, attempt, codeTrade>>
      BY <1>7 DEF callWithRenewedLease, rowVars, parentVars, attemptVars
    <2>2. PICK a \in Attempts : a = worker[w].on
      BY <2>0
    <2>3. CASE UNCHANGED wire
      BY <1>2, <2>1, <2>3
    <2>4. CASE /\ holder[a] = w
               /\ \E c : wire' = wire \union {[on |-> a, call |-> c, from |-> w]}
      <3>1. payment \in Open
        BY <2>0, <2>2, <2>4, HeldIsActive DEF Holds
      <3>2. Charging(a) => Charging(a)'
        <4>1. wire \subseteq wire'
          BY <2>4
        <4> QED
          BY <4>1 DEF Charging
      <3>3. \A b \in Attempts : b # a => (Charging(b)' <=> Charging(b))
        BY <2>4 DEF Charging
      <3> QED
        BY <2>1, <3>1, <3>2, <3>3 DEF Sends
    <2> QED
      BY <1>7, <2>2, <2>3, <2>4 DEF callWithRenewedLease, recoveryLeaseConditions
  <1>8. ASSUME NEW a \in Attempts, NEW s \in {"querying", "reversing", "manual_handling"},
               requestRecoveryAction(a, s)
        PROVE  Ordinary
    <2>1. /\ UNCHANGED <<wire, codeTrade, payment>> /\ s # "succeeded"
          /\ attempt' = [attempt EXCEPT ![a] = s]
      BY <1>8 DEF requestRecoveryAction, SetAttempt, parentVars
    <2> QED
      BY <1>1, <1>3, <2>1 DEF SameStage
  <1>9. ASSUME NEW p \in Closed, NEW o, CloseOrder(p, o), payment = "pending",
               UNCHANGED <<wire, codeTrade>>
        PROVE  Closes
    <2>1. \A a \in Attempts : Active(a) => attempt[a] = "created"
      BY <1>9 DEF CloseOrder, Active, InPlay
    <2>2. \A a \in Attempts : ~MayCapture(a)
      BY <1>9, <2>1 DEF CodeInv, RowInv, ChargeInv, MayCapture, Reached, Charging, Open
    <2>3. payment' = p /\ NoSuccess
      BY <1>9 DEF CloseOrder, NoSuccess
    <2> QED
      BY <1>9, <2>2, <2>3 DEF Closes, SameMoney, Charging, Open
  <1>10. ASSUME \/ \E a \in Attempts : handlePaymentWebhook(a) \/ BecomesDue(a) \/ LeaseExpires(a)
                \/ Expire \/ UNCHANGED pcVars
         PROVE  Ordinary
    BY <1>2, <1>10 DEF handlePaymentWebhook, BecomesDue, LeaseExpires, Expire, Wake, pcVars, rowVars,
       parentVars, attemptVars
  <1>11. ASSUME expireOverduePayments \/ cancelMachineOrder
         PROVE  Effect
    <2>1. UNCHANGED <<wire, codeTrade>> /\ payment = "pending"
      BY <1>11 DEF expireOverduePayments, cancelMachineOrder
    <2>2. CASE \E a \in Attempts : Wake(a) /\ UNCHANGED payment
      BY <1>2, <2>1, <2>2 DEF Wake
    <2>3. CASE \E p \in Closed : \E o : CloseOrder(p, o)
      BY <1>9, <2>1, <2>3
    <2> QED
      BY <1>11, <2>2, <2>3 DEF expireOverduePayments, cancelMachineOrder, parentVars, Closed
  <1>12. CASE PCNext
    BY <1>4, <1>5, <1>6, <1>7, <1>8, <1>10, <1>11, <1>12, RecoverEffect, ApplyEffect
    DEF PCNext, ClaimantStep, Handles, Decides, Trades
  <1> QED
    BY <1>10, <1>12

-----------------------------------------------------------------------------
(* Only captured money is booked.                                           *)

(* A worker that was told of the money was told the truth, and an attempt   *)
(* that succeeded has taken it; some of it may have been returned since.    *)
SuccessInv ==
    /\ \A w \in Claimants : worker[w].step = "apply" /\ worker[w].answer = "succeeded" =>
          codeTrade[worker[w].on] \in {"captured", "reversed"}
    /\ \A a \in Attempts : attempt[a] = "succeeded" => codeTrade[a] \in {"captured", "reversed"}

(* Money that was taken stays taken or is returned.                         *)
LEMMA TakenStays ==
    ASSUME CodeInv, [PCNext]_pcVars, NEW a \in Attempts, codeTrade[a] \in {"captured", "reversed"}
    PROVE  codeTrade'[a] \in {"captured", "reversed"}
  <1>0. codeTrade \in [Attempts -> Trades] /\ WireType
    BY PCTypeParts DEF CodeInv, TradeType
  <1>1. CASE UNCHANGED codeTrade
    BY <1>1
  <1>2. CASE Handles
    <2>1. PICK r \in wire, t \in Trades, answer \in Answers : ProviderHandles(r, t, answer)
      BY <1>2 DEF Handles
    <2>2. /\ codeTrade' = [codeTrade EXCEPT ![r.on] = t] /\ r.on \in Attempts
          /\ t \in After(r.call, codeTrade[r.on])
      BY <1>0, <2>1 DEF ProviderHandles, WireType, Requests
    <2>3. CASE a = r.on
      BY <1>0, <2>2, <2>3 DEF After
    <2>4. CASE a # r.on
      BY <1>0, <2>2, <2>4
    <2> QED
      BY <2>3, <2>4
  <1>3. CASE Decides
    BY <1>0, <1>3 DEF Decides, CustomerDecides
  <1> QED
    BY <1>1, <1>2, <1>3, CodeEffects DEF Ordinary, Closes, Books, Sends, SameMoney

(* A worker's own step leaves it with no news of the money.                 *)
LEMMA OwnStep ==
    ASSUME WorkerType, NEW w \in Claimants,
           \/ \E a \in Attempts : createOrReplay(w, a) \/ claimRecoveryAttempt(w, a)
           \/ ClaimantStep(w) \/ WorkerDies(w)
    PROVE  ~(worker'[w].step = "apply" /\ worker'[w].answer = "succeeded")
  <1>1. CASE Finish(w)
    BY <1>1 DEF Finish, WorkerType, Unoccupied
  <1>2. CASE \E a \in Attempts : createOrReplay(w, a) \/ claimRecoveryAttempt(w, a)
    BY <1>2 DEF createOrReplay, claimRecoveryAttempt, WorkerType
  <1>3. ASSUME worker[w].step # "idle", ~Finish(w), ClaimantStep(w)
        PROVE  ~(worker'[w].step = "apply" /\ worker'[w].answer = "succeeded")
    <2>1. worker[w] \in Claims
      BY <1>3, AtWork
    <2>2. \/ \E n : worker' = [worker EXCEPT ![w].step = "renew", ![w].count = n]
          \/ \E b : worker' = [worker EXCEPT ![w].step = "renew", ![w].late = b]
          \/ worker' = [worker EXCEPT ![w].step = "renew", ![w].call = "reverse"]
          \/ worker' = [worker EXCEPT ![w].step = "wait"]
          \/ worker' = [worker EXCEPT ![w].step = "apply", ![w].answer = "error"]
      BY <1>3 DEF ClaimantStep, AdmissionFails, claimSubmission, recoverClaim, recoverWithoutQuery,
         recoverInContext, callWithRenewedLease, CallFails, Apply, applyChargeResult,
         queryAndResolve, reverseAfterQuery, beginReversal
    <2>3. \/ worker'[w].step \in {"renew", "wait"}
          \/ worker'[w].answer = "error"
      BY <2>1, <2>2 DEF WorkerType, Claims
    <2> QED
      BY <2>3
  <1>4. ClaimantStep(w) => worker[w].step # "idle"
    BY DEF ClaimantStep, AdmissionFails, claimSubmission, recoverClaim, callWithRenewedLease,
       CallFails, Apply, Doing
  <1> QED
    BY <1>1, <1>2, <1>3, <1>4 DEF WorkerDies

(* What a step makes of a worker that has an answer to apply.               *)
LEMMA AnswerStep ==
    ASSUME CodeInv, [PCNext]_pcVars, NEW w \in Claimants,
           worker'[w].step = "apply", worker'[w].answer = "succeeded"
    PROVE  worker'[w] = worker[w] \/ codeTrade'[worker'[w].on] = "captured"
  <1>0. WorkerType /\ WireType
    BY PCTypeParts DEF CodeInv
  <1>1. CASE Handles
    <2>1. PICK r \in wire, t \in Trades, answer \in Answers : ProviderHandles(r, t, answer)
      BY <1>1 DEF Handles
    <2>2. /\ worker' = IF r.from = Gone THEN worker
                       ELSE [worker EXCEPT ![r.from].step = "apply", ![r.from].answer = answer]
          /\ codeTrade' = [codeTrade EXCEPT ![r.on] = t] /\ r.on \in Attempts
          /\ answer \in Told(r.call, t)
      BY <1>0, <2>1 DEF ProviderHandles, WireType, Requests
    <2>3. CASE r.from = w
      <3>1. w # Gone /\ worker[w].step = "wait" /\ worker[w].on = r.on
        BY <2>3, CodeAssumption DEF CodeInv, ClaimsInv, WireInv
      <3>2. worker[w] \in Claims
        BY <1>0, <3>1, AtWork
      <3>3. worker'[w].answer = answer /\ worker'[w].on = r.on
        BY <1>0, <2>2, <2>3, <3>1, <3>2 DEF WorkerType, Claims
      <3>4. answer = "succeeded" => t = "captured"
        <4>1. NotFound \in {"unknown", "failed"}
          BY CodeAssumption
        <4> QED
          BY <2>2, <4>1 DEF Told, AnswerOf, Trades
      <3>5. codeTrade'[r.on] = t
        BY <2>2, PCTypeParts DEF CodeInv, TradeType
      <3> QED
        BY <3>3, <3>4, <3>5
    <2>4. CASE r.from # w
      BY <1>0, <2>2, <2>4 DEF WorkerType
    <2> QED
      BY <2>3, <2>4
  <1>2. ASSUME NEW v \in Claimants,
               \/ \E a \in Attempts : createOrReplay(v, a) \/ claimRecoveryAttempt(v, a)
               \/ ClaimantStep(v) \/ WorkerDies(v)
        PROVE  worker'[w] = worker[w]
    <2>1. CASE v # w
      BY <1>0, <1>2, <2>1, OneWorkerOnly
    <2>2. CASE v = w
      BY <1>0, <1>2, <2>2, OwnStep
    <2> QED
      BY <2>1, <2>2
  <1>3. UNCHANGED worker \/ Handles
           \/ \E v \in Claimants :
                 \/ \E a \in Attempts : createOrReplay(v, a) \/ claimRecoveryAttempt(v, a)
                 \/ ClaimantStep(v) \/ WorkerDies(v)
    BY DEF PCNext, Trades, Handles, CustomerDecides, requestRecoveryAction, handlePaymentWebhook,
           BecomesDue, LeaseExpires, expireOverduePayments, cancelMachineOrder, Expire, pcVars
  <1> QED
    BY <1>1, <1>2, <1>3

LEMMA SuccessStep ==
    ASSUME CodeInv, SuccessInv, [PCNext]_pcVars
    PROVE  SuccessInv'
  <1>0. attempt \in [Attempts -> AttemptStates] /\ WorkerType
    BY PCTypeParts DEF CodeInv, RowsType, AttemptType
  <1>1. ASSUME NEW w \in Claimants, worker'[w].step = "apply", worker'[w].answer = "succeeded"
        PROVE  codeTrade'[worker'[w].on] \in {"captured", "reversed"}
    <2>1. CASE codeTrade'[worker'[w].on] = "captured"
      BY <2>1
    <2>2. CASE worker'[w] = worker[w]
      <3>1. PICK a \in Attempts : a = worker[w].on
        BY <1>0, <1>1, <2>2, AtWork, ClaimParts
      <3>2. codeTrade[a] \in {"captured", "reversed"}
        BY <1>1, <2>2, <3>1 DEF SuccessInv
      <3>3. codeTrade'[a] \in {"captured", "reversed"}
        BY <3>2, TakenStays
      <3> QED
        BY <2>2, <3>1, <3>3
    <2> QED
      BY <1>1, <2>1, <2>2, AnswerStep
  <1>2. ASSUME NEW a \in Attempts, attempt'[a] = "succeeded"
        PROVE  codeTrade'[a] \in {"captured", "reversed"}
    <2>1. CASE attempt[a] = "succeeded"
      BY <2>1, TakenStays DEF SuccessInv
    <2>2. CASE attempt[a] # "succeeded"
      <3>1. PICK w \in Claimants : Books(w)
        BY <1>2, <2>2, CodeEffects DEF Ordinary, NoSuccess, Closes, Handles, Decides, Sends,
           ProviderHandles, CustomerDecides, rowVars, attemptVars
      <3>2. worker[w].on = a
        BY <1>0, <1>2, <2>2, <3>1 DEF Books
      <3>3. codeTrade[a] \in {"captured", "reversed"}
        BY <3>1, <3>2 DEF Books, SuccessInv
      <3> QED
        BY <3>3, TakenStays
    <2> QED
      BY <2>1, <2>2
  <1> QED
    BY <1>1, <1>2 DEF SuccessInv

LEMMA SuccessInit == PCInit => SuccessInv
  BY DEF PCInit, SuccessInv, Unoccupied

(* An attempt succeeds only when the provider has taken its money           *)
(* (transitionProviderPaymentTerminal, applyChargeResult).                  *)
THEOREM SuccessIsCaptured == PCSpec => []SuccessInv
  BY CodeInvHolds, SuccessInit, SuccessStep, PTL DEF PCSpec

-----------------------------------------------------------------------------
(* The contract.                                                            *)

(* Its steps, of the one payment there is.                                  *)
MoneyStep ==
    LET old == PaymentMoney
        new == PaymentMoney'
        may == PaymentStage = "open"
    IN  /\ PaymentStage' = PaymentStage
        /\ \/ new = old
           \/ may /\ old \in {"none", "returned"} /\ new = "offered"
           \/ may /\ old = "offered" /\ new = "taken"
           \/ old = "offered" /\ new = "none"
           \/ new = "returned"

StageStep ==
    LET money == PaymentMoney
        new   == PaymentStage'
    IN  /\ PaymentMoney' = money
        /\ PaymentStage = "open"
        /\ \/ new = "paid" /\ money \in {"taken", "returned"}
           \/ new = "closed" /\ money \in {"none", "returned"}

LEMMA CodeLift ==
    ASSUME MoneyStep \/ StageStep
    PROVE  Contract!Next \/ UNCHANGED Contract!vars
  <1> DEFINE stage == [p \in {"payment"} |-> PaymentStage]
             money == [p \in {"payment"} |-> PaymentMoney]
             doubt == [p \in {"payment"} |-> FALSE]
  <1>1. /\ stage["payment"] = PaymentStage /\ money["payment"] = PaymentMoney
        /\ doubt' = doubt
    OBVIOUS
  <1>2. CASE MoneyStep
    <2>1. stage' = stage
      BY <1>2 DEF MoneyStep
    <2>2. money' = [money EXCEPT !["payment"] = PaymentMoney']
      OBVIOUS
    <2>3. CASE PaymentMoney' = PaymentMoney
      <3>1. money' = money
        BY <2>3
      <3> QED
        BY <1>1, <2>1, <3>1 DEF Contract!vars
    <2>4. CASE PaymentMoney' # PaymentMoney
      <3>1. Contract!MoneyGoes("payment", PaymentMoney')
        BY <1>1, <2>1, <2>2 DEF Contract!MoneyGoes
      <3>2. \/ Contract!Offer("payment") \/ Contract!Take("payment")
            \/ Contract!Withdraw("payment") \/ Contract!Return("payment")
        BY <1>1, <1>2, <2>4, <3>1 DEF MoneyStep, Contract!Offer, Contract!Take,
           Contract!Withdraw, Contract!Return, Contract!MayTake
      <3> QED
        BY <3>2 DEF Contract!Next
    <2> QED
      BY <2>3, <2>4
  <1>3. CASE StageStep
    <2>1. money' = money
      BY <1>3 DEF StageStep
    <2>2. stage' = [stage EXCEPT !["payment"] = PaymentStage']
      OBVIOUS
    <2>3. Contract!StageGoes("payment", PaymentStage')
      BY <1>1, <2>1, <2>2 DEF Contract!StageGoes
    <2>4. Contract!Pay("payment") \/ Contract!Close("payment")
      BY <1>1, <1>3, <2>3 DEF StageStep, Contract!Pay, Contract!Close
    <2> QED
      BY <2>4 DEF Contract!Next
  <1> QED
    BY <1>2, <1>3

(* What the money is.                                                       *)
LEMMA MoneyIs ==
    /\ (\E a \in Attempts : codeTrade[a] = "captured") => PaymentMoney = "taken"
    /\ (\A a \in Attempts : ~MayCapture(a)) =>
          PaymentMoney = IF \E a \in Attempts : codeTrade[a] = "reversed" THEN "returned" ELSE "none"
    /\ (\A a \in Attempts : codeTrade[a] # "captured") /\ (\E a \in Attempts : MayCapture(a)) =>
          PaymentMoney = "offered"
  BY DEF PaymentMoney, MayCapture

LEMMA MoneyStays ==
    ASSUME SameMoney
    PROVE  PaymentMoney' = PaymentMoney
  <1>1. \A a \in Attempts : MayCapture(a)' <=> MayCapture(a)
    BY DEF SameMoney, MayCapture, Charging
  <1> QED
    BY <1>1 DEF PaymentMoney, SameMoney

(* The customer, or the provider, settles the trade that may take money.    *)
LEMMA TradeMoves ==
    ASSUME NotFound = "unknown", CodeInv, SuccessInv, NEW a \in Attempts, MayCapture(a),
           codeTrade[a] # "captured", NEW t \in {"paying", "captured", "refused"},
           codeTrade' = [codeTrade EXCEPT ![a] = t], UNCHANGED payment,
           \A b \in Attempts : b # a => (Charging(b)' <=> Charging(b))
    PROVE  MoneyStep
  <1>1. payment \in Open
    <2>1. codeTrade[a] # "reversed"
      BY DEF MayCapture
    <2>2. attempt[a] # "succeeded"
      BY <2>1 DEF SuccessInv
    <2>3. Active(a)
      BY <2>2 DEF CodeInv, RowInv, KeptInv
    <2> QED
      BY <2>3 DEF CodeInv, RowInv, PlayInv
  <1>2. \A b \in Attempts : b # a => ~MayCapture(b) /\ ~MayCapture(b)' /\ codeTrade'[b] = codeTrade[b]
    <2>1. \A b \in Attempts : b # a => ~MayCapture(b)
      BY DEF CodeInv, RowInv, ChargedOnce
    <2>2. \A b \in Attempts : b # a => codeTrade'[b] = codeTrade[b]
      BY PCTypeParts DEF CodeInv, TradeType
    <2> QED
      BY <2>1, <2>2 DEF MayCapture, Charging
  <1>3. codeTrade'[a] = t
    BY PCTypeParts DEF CodeInv, TradeType
  <1>4. PaymentMoney = "offered"
    BY <1>2, MoneyIs DEF MayCapture
  <1>5. PaymentStage = "open" /\ PaymentStage' = "open"
    BY <1>1 DEF PaymentStage, Open, Closed
  <1>6. PaymentMoney' \in {"offered", "taken", "returned", "none"}
    BY DEF PaymentMoney
  <1> QED
    BY <1>4, <1>5, <1>6 DEF MoneyStep

(* A trade is reversed.                                                     *)
LEMMA ReverseMoves ==
    ASSUME CodeInv, NEW a \in Attempts,
           codeTrade' = [codeTrade EXCEPT ![a] = "reversed"], UNCHANGED payment,
           \A b \in Attempts : b # a => (Charging(b)' <=> Charging(b))
    PROVE  MoneyStep
  <1>1. codeTrade'[a] = "reversed" /\ ~MayCapture(a)'
        /\ \A b \in Attempts : b # a => codeTrade'[b] = codeTrade[b]
    BY PCTypeParts DEF CodeInv, TradeType, MayCapture
  <1>2. \A b \in Attempts : b # a => (MayCapture(b)' <=> MayCapture(b))
    BY <1>1 DEF MayCapture, Charging
  <1>3. PaymentStage' = PaymentStage
    BY DEF PaymentStage
  <1>4. CASE \A b \in Attempts : b # a => ~MayCapture(b)
    <2>1. \A b \in Attempts : ~MayCapture(b)'
      BY <1>1, <1>2, <1>4
    <2>2. PaymentMoney' = "returned"
      BY <1>1, <2>1 DEF PaymentMoney, MayCapture
    <2> QED
      BY <1>3, <2>2 DEF MoneyStep
  <1>5. ASSUME NEW b \in Attempts, b # a, MayCapture(b)
        PROVE  MoneyStep
    <2>1. \A c \in Attempts : c # b => ~MayCapture(c)
      BY <1>5 DEF CodeInv, RowInv, ChargedOnce
    <2>2. \A c \in Attempts : codeTrade'[c] = "captured" <=> codeTrade[c] = "captured"
      BY <1>1, <1>5, <2>1 DEF MayCapture
    <2>3. MayCapture(b)' /\ codeTrade'[b] = codeTrade[b]
      BY <1>1, <1>2, <1>5
    <2>4. PaymentMoney' = PaymentMoney
      BY <1>5, <2>2, <2>3 DEF PaymentMoney
    <2> QED
      BY <1>3, <2>4 DEF MoneyStep
  <1> QED
    BY <1>4, <1>5

(* The provider handles a call.                                             *)
LEMMA HandlesMoves ==
    ASSUME NotFound = "unknown", CodeInv, SuccessInv, Handles
    PROVE  MoneyStep
  <1>0. codeTrade \in [Attempts -> Trades] /\ WireType
    BY PCTypeParts DEF CodeInv, TradeType
  <1>1. PICK r \in wire, t \in Trades, answer \in Answers : ProviderHandles(r, t, answer)
    BY DEF Handles
  <1>2. PICK a \in Attempts : a = r.on
    BY <1>0 DEF WireType, Requests
  <1>3. /\ codeTrade' = [codeTrade EXCEPT ![a] = t] /\ UNCHANGED payment
        /\ wire' = wire \ {r} /\ codeTrade[a] \in Trades /\ r.call \in Calls
        /\ t \in After(r.call, codeTrade[a]) /\ answer \in Told(r.call, t)
    BY <1>0, <1>1, <1>2 DEF ProviderHandles, WireType, Requests, rowVars, parentVars
  <1>4. \/ t = codeTrade[a] /\ (r.call = "charge" => t # "absent")
        \/ r.call = "charge" /\ codeTrade[a] = "absent" /\ t \in {"paying", "captured", "refused"}
        \/ r.call = "reverse" /\ t = "reversed"
    BY <1>3 DEF After
  <1>5. \A b \in Attempts : b # a => (Charging(b)' <=> Charging(b))
    BY <1>2, <1>3 DEF Charging
  <1>6. CASE t = codeTrade[a] /\ (r.call = "charge" => t # "absent")
    <2>1. codeTrade' = codeTrade
      BY <1>0, <1>3, <1>6
    <2>2. t = "absent" => (Charging(a)' <=> Charging(a))
      BY <1>3, <1>6 DEF Charging
    <2>3. \A b \in Attempts : MayCapture(b)' <=> MayCapture(b)
      BY <1>5, <1>6, <2>1, <2>2 DEF MayCapture, Charging
    <2>4. PaymentMoney' = PaymentMoney
      BY <2>1, <2>3 DEF PaymentMoney
    <2> QED
      BY <1>3, <2>4 DEF MoneyStep, PaymentStage
  <1>7. CASE r.call = "charge" /\ codeTrade[a] = "absent" /\ t \in {"paying", "captured", "refused"}
    <2>1. MayCapture(a)
      BY <1>2, <1>7 DEF MayCapture
    <2> QED
      BY <1>3, <1>5, <1>7, <2>1, TradeMoves
  <1>8. CASE r.call = "reverse" /\ t = "reversed"
    BY <1>3, <1>5, <1>8, ReverseMoves
  <1> QED
    BY <1>4, <1>6, <1>7, <1>8

(* Every step of a scan, of recovery or of the provider is a step of the    *)
(* contract, or none.                                                       *)
LEMMA CodeContractStep ==
    ASSUME NotFound = "unknown", CodeInv, SuccessInv, [PCNext]_pcVars
    PROVE  Contract!Next \/ UNCHANGED Contract!vars
  <1>1. CASE Ordinary
    <2>1. PaymentStage' = PaymentStage
      BY <1>1 DEF Ordinary, SameStage, PaymentStage, Open, Closed
    <2> QED
      BY <1>1, <2>1, MoneyStays, CodeLift DEF Ordinary, MoneyStep
  <1>2. ASSUME NEW w \in Claimants, Books(w) PROVE StageStep
    <2> DEFINE a == worker[w].on
    <2>1. a \in Attempts
      BY <1>2, PCTypeParts, AtWork, ClaimParts DEF Books, CodeInv
    <2>2. codeTrade[a] \in {"captured", "reversed"}
      BY <1>2 DEF Books, SuccessInv
    <2>3. PaymentMoney \in {"taken", "returned"}
      <3>1. CASE codeTrade[a] = "captured"
        BY <2>1, <3>1, MoneyIs
      <3>2. CASE codeTrade[a] = "reversed"
        <4>1. \A b \in Attempts : MayCapture(b) => b = a
          BY <1>2, <2>1 DEF Books, CodeInv, RowInv, ChargeInv, PlayInv
        <4>2. ~MayCapture(a)
          BY <3>2 DEF MayCapture
        <4>3. \A b \in Attempts : ~MayCapture(b)
          BY <4>1, <4>2
        <4> QED
          BY <2>1, <3>2, <4>3, MoneyIs
      <3> QED
        BY <2>2, <3>1, <3>2
    <2>4. PaymentStage = "open" /\ PaymentStage' = "paid"
      BY <1>2 DEF Books, PaymentStage, Open, Closed
    <2>5. PaymentMoney' = PaymentMoney
      BY <1>2, MoneyStays DEF Books
    <2> QED
      BY <2>3, <2>4, <2>5 DEF StageStep
  <1>3. CASE Closes
    <2>1. PaymentMoney \in {"none", "returned"}
      BY <1>3, MoneyIs DEF Closes
    <2>2. PaymentStage = "open" /\ PaymentStage' = "closed"
      BY <1>3 DEF Closes, PaymentStage, Open, Closed
    <2>3. PaymentMoney' = PaymentMoney
      BY <1>3, MoneyStays DEF Closes
    <2> QED
      BY <2>1, <2>2, <2>3, CodeLift DEF StageStep
  <1>4. ASSUME NEW a \in Attempts, Sends(a) PROVE MoneyStep
    <2>1. PaymentStage = "open" /\ PaymentStage' = "open"
      BY <1>4 DEF Sends, PaymentStage, Open, Closed
    <2>2. \A b \in Attempts : b # a => (MayCapture(b)' <=> MayCapture(b))
      BY <1>4 DEF Sends, MayCapture, Charging
    <2>3. MayCapture(a) => MayCapture(a)'
      BY <1>4 DEF Sends, MayCapture, Charging
    <2>4. UNCHANGED codeTrade
      BY <1>4 DEF Sends
    <2>5. CASE MayCapture(a)' <=> MayCapture(a)
      <3>1. \A b \in Attempts : MayCapture(b)' <=> MayCapture(b)
        BY <2>2, <2>5
      <3>2. PaymentMoney' = PaymentMoney
        BY <2>4, <3>1 DEF PaymentMoney
      <3> QED
        BY <2>1, <3>2 DEF MoneyStep
    <2>6. CASE MayCapture(a)' /\ ~MayCapture(a)
      <3>1. CASE \E b \in Attempts : codeTrade[b] = "captured"
        <4>1. PaymentMoney' = PaymentMoney
          BY <2>4, <3>1 DEF PaymentMoney
        <4> QED
          BY <2>1, <4>1 DEF MoneyStep
      <3>2. CASE \A b \in Attempts : codeTrade[b] # "captured"
        <4>1. PaymentMoney' = "offered"
          BY <2>4, <2>6, <3>2 DEF PaymentMoney
        <4>2. PaymentMoney \in {"none", "returned", "offered"}
          BY <3>2 DEF PaymentMoney
        <4> QED
          BY <2>1, <4>1, <4>2 DEF MoneyStep
      <3> QED
        BY <3>1, <3>2
    <2> QED
      BY <2>3, <2>5, <2>6
  <1>5. CASE Handles
    BY <1>5, HandlesMoves, CodeLift
  <1>6. CASE Decides
    <2>1. PICK a \in Attempts, t \in {"captured", "refused"} : CustomerDecides(a, t)
      BY <1>6 DEF Decides
    <2>2. /\ MayCapture(a) /\ codeTrade[a] # "captured"
          /\ codeTrade' = [codeTrade EXCEPT ![a] = t] /\ UNCHANGED <<payment, wire>>
      BY <2>1 DEF CustomerDecides, MayCapture, rowVars, parentVars
    <2>3. \A b \in Attempts : b # a => (Charging(b)' <=> Charging(b))
      BY <2>2 DEF Charging
    <2> QED
      BY <2>2, <2>3, TradeMoves, CodeLift
  <1> QED
    BY <1>1, <1>2, <1>3, <1>4, <1>5, <1>6, CodeEffects, CodeLift

LEMMA CodeContractInit == PCInit => Contract!Init
  <1> SUFFICES ASSUME PCInit PROVE Contract!Init
    OBVIOUS
  <1>1. PaymentStage = "open" /\ PaymentMoney = "none"
    BY DEF PCInit, PaymentStage, PaymentMoney, MayCapture, Closed
  <1> QED
    BY <1>1 DEF Contract!Init

(* A payment made by scanning codes keeps the contract that the orders and  *)
(* the machine rely on, whatever its workers, the provider and the          *)
(* operators do, where the adapter does not take a number the provider      *)
(* lacks for a refusal: it is booked only for captured money, and closed    *)
(* only when no charge can take any (transitionProviderPaymentTerminal,     *)
(* expireOverduePayments, cancelMachineOrder).                              *)
THEOREM CodeKeepsContract ==
    ASSUME NotFound = "unknown"
    PROVE  PCSpec => KeepsPaymentContract
  <1>1. CodeInv /\ SuccessInv /\ [PCNext]_pcVars => [Contract!Next]_(Contract!vars)
    BY CodeContractStep
  <1> QED
    BY <1>1, CodeContractInit, CodeInvHolds, SuccessIsCaptured, PTL
    DEF PCSpec, KeepsPaymentContract, Contract!Spec
=============================================================================
