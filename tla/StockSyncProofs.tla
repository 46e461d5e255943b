-------------------------- MODULE StockSyncProofs --------------------------
(***************************************************************************)
(* StockSync for any number of slots, orders, uploads under way, tasks and  *)
(* upsets: its types, that reserved_qty counts the orders that hold a unit  *)
(* and stays within on_hand_qty, that a movement is applied once, that an   *)
(* accepted one is applied or was cut off, that a slot with a movement not  *)
(* taken or a failed dispense is not sold, and that the ledger accounts for *)
(* the stock.                                                               *)
(***************************************************************************)
EXTENDS StockSync, FiniteSetTheorems, TLAPS

Holding == {"reserved", "dropped", "committed", "failed"}
Holders(s) == {o \in Sales : sale[o].at \in Holding /\ sale[o].slot = s}

(* reserved_qty counts the orders that hold a unit, and on_hand_qty covers it. *)
ReservedInv ==
    \A s \in Slots : reserved[s] = Cardinality(Holders(s)) /\ reserved[s] <= onHand[s]

(* A call is about a movement; the one that applies or marks it is the only *)
(* one, and the row it stored is still accepted and not applied.            *)
CallInv ==
    /\ \A c \in Calls : call[c].at # "none" => call[c].move \in Movements
    /\ \A c \in Calls : call[c].at \in {"apply", "mark"} =>
           raw[call[c].move] = "accepted" /\ applied[call[c].move] = 0
    /\ \A c, d \in Calls :
           /\ call[c].at \in {"apply", "mark"} /\ call[d].at \in {"apply", "mark"}
           /\ call[c].move = call[d].move
           => c = d

FreshInv == \A m \in Movements : raw[m] = "none" => applied[m] = 0

(* A blocker takes the stock out of the sale; where there is none, the      *)
(* slot's state withholds it.                                               *)
WithheldInv ==
    \A s \in Slots :
        /\ s \in blocked => saleable[s] = 0
        /\ s \in distrusted => s \in blocked \/ state[s] = "held"

IndInv ==
    /\ TypeOK /\ ReservedInv /\ CallInv /\ FreshInv
    /\ AppliedOnce /\ AcceptedIsApplied /\ WithheldInv /\ LedgerSums

-----------------------------------------------------------------------------
LEMMA Pairs == \A m \in Movements : Task(m) \in Tasks /\ Slot(m) \in Slots
BY DEF Movements, Task, Slot

LEMMA SomeSlot == (CHOOSE s \in Slots : TRUE) \in Slots
BY StockAssumption

-----------------------------------------------------------------------------
(* The parts that a step leaves alone. *)

Records == [at : {"none"} \union HandlerSteps, move : (0 .. MaxTasks) \X Slots,
            ans : {"none", "accepted", "reconciliation", "error"}, heard : BOOLEAN]
CallType == call \in [Calls -> Records]

LEMMA ReservedSame ==
    ASSUME ReservedInv, UNCHANGED <<sale, reserved, onHand>>
    PROVE  ReservedInv'
<1>1. \A s \in Slots : Holders(s)' = Holders(s)
  BY DEF Holders
<1>2. QED
  BY <1>1 DEF ReservedInv

(* Rows may be stored as open and cases settled; none is accepted anew, and *)
(* an accepted one stays.                                                   *)
RowsKept ==
    \A m \in Movements :
        /\ raw[m] = "accepted" <=> raw'[m] = "accepted"
        /\ raw'[m] = "none" => raw[m] = "none"

LEMMA RowsSame ==
    ASSUME CallInv, FreshInv, AppliedOnce, AcceptedIsApplied,
           RowsKept, UNCHANGED <<call, applied, torn>>
    PROVE  CallInv' /\ FreshInv' /\ AppliedOnce' /\ AcceptedIsApplied'
BY DEF CallInv, FreshInv, AppliedOnce, AcceptedIsApplied, Handled, RowsKept

(* One upload goes on, the others stay. *)
LEMMA CallSet ==
    ASSUME CallType, NEW c \in Calls, NEW r \in Records, call' = [call EXCEPT ![c] = r]
    PROVE  CallType' /\ call'[c] = r /\ \A d \in Calls : d # c => call'[d] = call[d]
BY DEF CallType, Records

(* A call that is not applying or marking, before and after, concerns no row. *)
LEMMA CallOutside ==
    ASSUME CallType, CallInv, FreshInv, AppliedOnce, AcceptedIsApplied,
           RowsKept, UNCHANGED applied, torn \subseteq torn',
           NEW c \in Calls, NEW r \in Records, call' = [call EXCEPT ![c] = r],
           r.at \notin {"apply", "mark"},
           r.at # "none" => r.move \in Movements,
           call[c].at \in {"apply", "mark"} =>
               applied[call[c].move] > 0 \/ call[c].move \in torn'
    PROVE  CallInv' /\ FreshInv' /\ AppliedOnce' /\ AcceptedIsApplied'
<1>1. call'[c] = r /\ \A d \in Calls : d # c => call'[d] = call[d]
  BY CallSet
<1>2. CallInv'
  BY <1>1 DEF CallInv, RowsKept
<1>3. FreshInv' /\ AppliedOnce'
  BY DEF FreshInv, AppliedOnce, RowsKept
<1>4. AcceptedIsApplied'
  BY <1>1 DEF AcceptedIsApplied, Handled, RowsKept
<1>5. QED
  BY <1>2, <1>3, <1>4

(* The record that Answer leaves. *)
LEMMA AnswerIs ==
    ASSUME CallType, CallInv, NEW c \in Calls, call[c].at # "none",
           NEW ans \in {"accepted", "reconciliation", "error"}, Answer(c, ans)
    PROVE  \E r \in Records :
               /\ call' = [call EXCEPT ![c] = r]
               /\ r.at \in {"answer", "none"}
               /\ r.at # "none" => r.move \in Movements
<1>1. call[c] \in Records /\ call[c].move \in Movements
  BY DEF CallType, Records, CallInv
<1>2. NoCall \in Records /\ NoCall.at = "none"
  BY SomeSlot, StockAssumption DEF NoCall, Records
<1>3. CASE call[c].heard
  <2> DEFINE r == [call[c] EXCEPT !.at = "answer", !.ans = ans]
  <2>1. r \in Records /\ r.at = "answer" /\ r.move = call[c].move
    BY <1>1 DEF Records, HandlerSteps
  <2>2. call' = [call EXCEPT ![c] = r]
    BY <1>3 DEF Answer
  <2>3. QED
    BY <2>1, <2>2, <1>1
<1>4. CASE ~call[c].heard
  BY <1>2, <1>4 DEF Answer
<1>5. QED
  BY <1>3, <1>4

LEMMA GoIs ==
    ASSUME CallType, CallInv, NEW c \in Calls, call[c].at # "none",
           NEW step \in HandlerSteps, Go(c, step)
    PROVE  \E r \in Records :
               /\ call' = [call EXCEPT ![c] = r]
               /\ r.at = step /\ r.move = call[c].move /\ r.move \in Movements
<1>1. call[c] \in Records /\ call[c].move \in Movements
  BY DEF CallType, Records, CallInv
<1> DEFINE r == [call[c] EXCEPT !.at = step]
<1>2. r \in Records /\ r.at = step /\ r.move = call[c].move
  BY <1>1 DEF Records
<1>3. call' = [call EXCEPT ![c] = r]
  BY DEF Go
<1>4. QED
  BY <1>1, <1>2, <1>3

LEMMA TypedCall == TypeOK => CallType
BY DEF TypeOK, CallType, Records

(* What Upsert does to the projection. *)
LEMMA UpsertIs ==
    ASSUME TypeOK, NEW given \in SUBSET Slots, NEW blockers \in SUBSET Slots,
           NEW quantity \in [Slots -> Quantities], NEW free \in [Slots -> Quantities],
           NEW reset \in BOOLEAN, Upsert(given, quantity, free, blockers, reset)
    PROVE  /\ physical' \in [Slots -> Quantities] /\ saleable' \in [Slots -> Quantities]
           /\ state' \in [Slots -> SalesStates]
           /\ \A s \in given \intersect blockers : saleable'[s] = 0
           /\ \A s \in Slots \ given : saleable'[s] = saleable[s] /\ state'[s] = state[s]
           /\ \A s \in given : state[s] = "held" /\ ~reset => state'[s] = "held"
<1>1. /\ physical \in [Slots -> Quantities] /\ saleable \in [Slots -> Quantities]
      /\ state \in [Slots -> SalesStates] /\ 0 \in Quantities
  BY StockAssumption DEF TypeOK, Quantities, StockAssumption
<1>2. physical' \in [Slots -> Quantities] /\ saleable' \in [Slots -> Quantities]
  BY <1>1 DEF Upsert
<1>3. state' \in [Slots -> SalesStates]
  BY <1>1 DEF Upsert, SalesStates
<1>4. QED
  BY <1>2, <1>3 DEF Upsert

-----------------------------------------------------------------------------
LEMMA InitInd == Init => IndInv
<1> SUFFICES ASSUME Init PROVE IndInv
  OBVIOUS
<1> USE StockAssumption DEF StockAssumption
<1>1. NoCall.at = "none" /\ NoCall \in Records
  BY SomeSlot DEF NoCall, Records
<1>2. TypeOK
  <2>1. 0 \in Quantities /\ \A q \in Quantities : q \in Int
    BY DEF Quantities
  <2>2. NoMove \in [kind : {"none", "count", "refill"}, before : Quantities, after : Quantities]
    BY <2>1 DEF NoMove
  <2>3. /\ pending \in [open : BOOLEAN, of : [Slots -> 0 .. MaxTasks], qty : [Slots -> Quantities]]
        /\ snap \in [live : BOOLEAN, onHand : [Slots -> Quantities], free : [Slots -> Quantities]]
    BY <2>1 DEF Init, NoCount, NoSnap
  <2>4. sale \in [Sales -> [at : SaleStatuses, slot : Slots]]
    BY SomeSlot DEF Init, NoSale, SaleStatuses
  <2>5. call \in [Calls -> Records]
    BY <1>1 DEF Init
  <2>6. /\ move \in [Movements -> [kind : {"none", "count", "refill"},
                                   before : Quantities, after : Quantities]]
        /\ sync \in [Movements -> SyncStatuses] /\ raw \in [Movements -> RawStatuses]
        /\ applied \in [Movements -> Nat]
    BY <2>2 DEF Init, SyncStatuses, RawStatuses
  <2>7. /\ ledger \in [Slots -> Int] /\ reserved \in [Slots -> Nat]
        /\ onHand \in [Slots -> Quantities] /\ real \in [Slots -> Quantities]
        /\ physical \in [Slots -> Quantities] /\ saleable \in [Slots -> Quantities]
        /\ state \in [Slots -> SalesStates]
    BY <2>1 DEF Init, SalesStates
  <2>8. tasks \in 0 .. MaxTasks /\ upsets \in 0 .. MaxUpsets
    BY DEF Init
  <2>9. /\ established \in BOOLEAN /\ acked \in BOOLEAN
        /\ blocked \subseteq Slots /\ distrusted \subseteq Slots /\ torn \subseteq Movements
    BY Zenon DEF Init
  <2>10. QED
    BY <2>3, <2>4, <2>5, <2>6, <2>7, <2>8, <2>9 DEF TypeOK, Records
<1>3. ReservedInv
  <2>1. \A s \in Slots : Holders(s) = {}
    BY DEF Init, Holders, Holding, NoSale
  <2>2. Cardinality({}) = 0
    BY FS_EmptySet
  <2>3. \A s \in Slots : reserved[s] = 0 /\ onHand[s] = 0
    BY DEF Init
  <2>4. QED
    BY <2>1, <2>2, <2>3 DEF ReservedInv
<1>4. CallInv /\ FreshInv
  BY <1>1 DEF Init, CallInv, FreshInv
<1>5. AppliedOnce /\ AcceptedIsApplied /\ WithheldInv /\ LedgerSums
  BY DEF Init, AppliedOnce, AcceptedIsApplied, WithheldInv, LedgerSums
<1>6. QED
  BY <1>2, <1>3, <1>4, <1>5 DEF IndInv

-----------------------------------------------------------------------------
(* The operator's tasks. *)

LEMMA StageInd == IndInv /\ stage_physical_stock_attestation_for_platform => IndInv'
<1> SUFFICES ASSUME IndInv, stage_physical_stock_attestation_for_platform PROVE IndInv'
  OBVIOUS
<1> USE StockAssumption DEF StockAssumption, stage_physical_stock_attestation_for_platform, operatorVars, projectionVars, worldVars, inventoryVars, serviceVars
<1>1. TypeOK'
  <2>1. tasks' \in 0 .. MaxTasks
    BY DEF IndInv, TypeOK
  <2>2. pending' \in [open : BOOLEAN, of : [Slots -> 0 .. MaxTasks], qty : [Slots -> Quantities]]
    BY <2>1 DEF IndInv, TypeOK
  <2>3. \A m \in Movements :
            [kind |-> "count", before |-> physical[Slot(m)], after |-> real[Slot(m)]]
               \in [kind : {"none", "count", "refill"}, before : Quantities, after : Quantities]
    BY Pairs DEF IndInv, TypeOK
  <2>4. move' \in [Movements -> [kind : {"none", "count", "refill"},
                                 before : Quantities, after : Quantities]]
    BY <2>3 DEF IndInv, TypeOK
  <2>5. sync' \in [Movements -> SyncStatuses]
    BY DEF IndInv, TypeOK, SyncStatuses
  <2>6. QED
    BY <2>1, <2>2, <2>4, <2>5 DEF IndInv, TypeOK
<1>2. ReservedInv'
  BY ReservedSame DEF IndInv
<1>3. CallInv' /\ FreshInv' /\ AppliedOnce' /\ AcceptedIsApplied'
  BY RowsSame DEF IndInv, RowsKept
<1>4. WithheldInv' /\ LedgerSums'
  BY DEF IndInv, WithheldInv, LedgerSums
<1>5. QED
  BY <1>1, <1>2, <1>3, <1>4 DEF IndInv

LEMMA RefillInd ==
    ASSUME IndInv, NEW added \in [Slots -> Quantities], submit_refill_batch_in_tx(added)
    PROVE  IndInv'
<1> DEFINE filled == {s \in Slots : added[s] > 0}
           after == [s \in Slots |-> physical[s] + added[s]]
<1>0. /\ physical' \in [Slots -> Quantities] /\ saleable' \in [Slots -> Quantities]
      /\ state' \in [Slots -> SalesStates]
      /\ blocked' = blocked \ filled /\ distrusted' = distrusted \ filled
      /\ \A s \in Slots \ filled : saleable'[s] = saleable[s] /\ state'[s] = state[s]
  <2>1. TypeOK /\ filled \in SUBSET Slots /\ blocked \ filled \in SUBSET Slots
    BY DEF IndInv, TypeOK
  <2>2. after \in [Slots -> Quantities]
    BY StockAssumption DEF IndInv, TypeOK, Quantities, StockAssumption, submit_refill_batch_in_tx
  <2>3. Upsert(filled, after, after, blocked \ filled, TRUE)
    BY DEF submit_refill_batch_in_tx
  <2>4. blocked' = blocked \ filled /\ distrusted' = distrusted \ filled
    BY DEF submit_refill_batch_in_tx
  <2> HIDE DEF filled, after
  <2>5. QED
    BY <2>1, <2>2, <2>3, <2>4, UpsertIs
<1> USE StockAssumption DEF StockAssumption, submit_refill_batch_in_tx, operatorVars, projectionVars, worldVars, inventoryVars, serviceVars
<1>1. TypeOK'
  <2>1. tasks' \in 0 .. MaxTasks
    BY DEF IndInv, TypeOK
  <2>2. \A s \in Slots : real[s] + added[s] \in Quantities /\ physical[s] + added[s] \in Quantities
    BY DEF IndInv, TypeOK, Quantities
  <2>3. \A m \in Movements :
            [kind |-> "refill", before |-> physical[Slot(m)],
             after |-> [s \in Slots |-> physical[s] + added[s]][Slot(m)]]
               \in [kind : {"none", "count", "refill"}, before : Quantities, after : Quantities]
    BY <2>2, Pairs DEF IndInv, TypeOK
  <2>4. move' \in [Movements -> [kind : {"none", "count", "refill"},
                                 before : Quantities, after : Quantities]]
    BY <2>3 DEF IndInv, TypeOK
  <2>5. sync' \in [Movements -> SyncStatuses]
    BY DEF IndInv, TypeOK, SyncStatuses
  <2>6. real' \in [Slots -> Quantities]
    BY <2>2
  <2>7. /\ physical' \in [Slots -> Quantities] /\ saleable' \in [Slots -> Quantities]
        /\ state' \in [Slots -> SalesStates]
        /\ blocked' \subseteq Slots /\ distrusted' \subseteq Slots
    BY <1>0 DEF IndInv, TypeOK
  <2>8. QED
    BY <2>1, <2>4, <2>5, <2>6, <2>7 DEF IndInv, TypeOK
<1>2. ReservedInv'
  BY ReservedSame DEF IndInv
<1>3. CallInv' /\ FreshInv' /\ AppliedOnce' /\ AcceptedIsApplied'
  BY RowsSame DEF IndInv, RowsKept
<1>4. WithheldInv'
  BY <1>0 DEF IndInv, WithheldInv
<1>5. LedgerSums'
  BY DEF IndInv, LedgerSums
<1>6. QED
  BY <1>1, <1>2, <1>3, <1>4, <1>5 DEF IndInv

LEMMA FinalizeInd == IndInv /\ finalize_pending_physical_stock_attestation_if_accepted => IndInv'
<1> SUFFICES ASSUME IndInv, finalize_pending_physical_stock_attestation_if_accepted PROVE IndInv'
  OBVIOUS
<1> USE StockAssumption
    DEF StockAssumption, finalize_pending_physical_stock_attestation_if_accepted, operatorVars, projectionVars, worldVars, inventoryVars, serviceVars
<1>0. /\ physical' \in [Slots -> Quantities] /\ saleable' \in [Slots -> Quantities]
      /\ state' \in [Slots -> SalesStates]
  <2>1. TypeOK /\ pending.qty \in [Slots -> Quantities]
    BY DEF IndInv, TypeOK
  <2>2. QED
    BY <2>1, UpsertIs
<1>1. TypeOK'
  BY <1>0 DEF IndInv, TypeOK, NoCount, Quantities
<1>2. ReservedInv'
  BY ReservedSame DEF IndInv
<1>3. CallInv' /\ FreshInv' /\ AppliedOnce' /\ AcceptedIsApplied'
  BY RowsSame DEF IndInv, RowsKept
<1>4. WithheldInv' /\ LedgerSums'
  BY DEF IndInv, WithheldInv, LedgerSums
<1>5. QED
  BY <1>1, <1>2, <1>3, <1>4 DEF IndInv

-----------------------------------------------------------------------------
(* The uploader. *)

LEMMA SendInd ==
    ASSUME IndInv, NEW c \in Calls, NEW m \in Movements, submit_stock_movement_upload(c, m)
    PROVE  IndInv'
<1> USE DEF submit_stock_movement_upload, operatorVars, projectionVars, worldVars, inventoryVars, serviceVars
<1> DEFINE r == [at |-> "check", move |-> m, ans |-> "none", heard |-> TRUE]
<1>1. r \in Records /\ r.move \in Movements /\ r.at = "check"
  BY DEF Records, HandlerSteps, Movements, Tasks
<1>2. CallType /\ CallType'
  BY <1>1, TypedCall, CallSet DEF IndInv
<1>3. TypeOK'
  BY <1>2 DEF IndInv, TypeOK, CallType, Records
<1>4. CallInv' /\ FreshInv' /\ AppliedOnce' /\ AcceptedIsApplied'
  BY <1>1, <1>2, CallOutside DEF IndInv, RowsKept
<1>5. ReservedInv'
  BY ReservedSame DEF IndInv
<1>6. WithheldInv' /\ LedgerSums'
  BY DEF IndInv, WithheldInv, LedgerSums
<1>7. QED
  BY <1>3, <1>4, <1>5, <1>6 DEF IndInv

LEMMA RespondInd ==
    ASSUME IndInv, NEW c \in Calls, record_stock_movement_upload_response(c)
    PROVE  IndInv'
<1> USE DEF record_stock_movement_upload_response, operatorVars, projectionVars, worldVars, inventoryVars, serviceVars
<1>1. NoCall \in Records /\ NoCall.at = "none"
  BY SomeSlot, StockAssumption DEF NoCall, Records
<1>2. CallType /\ CallType'
  BY <1>1, TypedCall, CallSet DEF IndInv
<1>3. call[c].move \in Movements /\ Slot(call[c].move) \in Slots
  BY Pairs DEF IndInv, CallInv
<1> DEFINE s == Slot(call[c].move)
<1>4. /\ sync' \in [Movements -> SyncStatuses]
      /\ blocked' \subseteq Slots /\ distrusted' \subseteq Slots
      /\ saleable' \in [Slots -> Quantities] /\ state' \in [Slots -> SalesStates]
      /\ physical' \in [Slots -> Quantities]
      /\ WithheldInv'
  <2>1. /\ sync \in [Movements -> SyncStatuses]
        /\ blocked \subseteq Slots /\ distrusted \subseteq Slots
        /\ saleable \in [Slots -> Quantities] /\ 0 \in Quantities
        /\ physical \in [Slots -> Quantities] /\ state \in [Slots -> SalesStates]
        /\ WithheldInv
    BY StockAssumption DEF IndInv, TypeOK, StockAssumption, Quantities
  <2>2. sync' \in [Movements -> SyncStatuses]
    BY <2>1 DEF SyncStatuses
  <2>3. CASE UNCHANGED projectionVars
    BY <2>1, <2>2, <2>3 DEF WithheldInv
  <2>4. CASE /\ apply_sale_safety_blocker_in_tx(s)
             /\ distrusted' = distrusted \union {s}
             /\ UNCHANGED physical
    <3>1. saleable' \in [Slots -> Quantities] /\ state' \in [Slots -> SalesStates]
      BY <2>1, <2>4, <1>3 DEF apply_sale_safety_blocker_in_tx, SalesStates
    <3>2. /\ saleable'[s] = 0
          /\ \A z \in Slots : z # s => saleable'[z] = saleable[z] /\ state'[z] = state[z]
      BY <2>1, <2>4, <1>3 DEF apply_sale_safety_blocker_in_tx
    <3>3. blocked' = blocked \union {s} /\ distrusted' = distrusted \union {s}
      BY <2>4 DEF apply_sale_safety_blocker_in_tx
    <3> HIDE DEF s
    <3>4. WithheldInv'
      BY <2>1, <3>2, <3>3 DEF WithheldInv
    <3>5. blocked' \subseteq Slots /\ distrusted' \subseteq Slots
      BY <2>1, <3>3, <1>3 DEF s
    <3>6. QED
      BY <2>1, <2>2, <2>4, <3>1, <3>4, <3>5
  <2>5. QED
    BY <2>3, <2>4
<1>5. TypeOK'
  BY <1>2, <1>4 DEF IndInv, TypeOK, CallType, Records
<1>6. CallInv' /\ FreshInv' /\ AppliedOnce' /\ AcceptedIsApplied'
  BY <1>1, <1>2, CallOutside DEF IndInv, RowsKept
<1>7. ReservedInv'
  BY ReservedSame DEF IndInv
<1>8. LedgerSums'
  BY DEF IndInv, LedgerSums
<1>9. QED
  BY <1>4, <1>5, <1>6, <1>7, <1>8 DEF IndInv

LEMMA GiveUpInd ==
    ASSUME IndInv, NEW c \in Calls, mark_stock_movement_upload_failed(c)
    PROVE  IndInv'
<1> USE DEF mark_stock_movement_upload_failed, operatorVars, projectionVars, worldVars, inventoryVars, serviceVars
<1>1. NoCall \in Records /\ NoCall.at = "none"
  BY SomeSlot, StockAssumption DEF NoCall, Records
<1>2. CallType
  BY TypedCall DEF IndInv
<1>3. PICK r \in Records :
          /\ call' = [call EXCEPT ![c] = r]
          /\ r.at \in {call[c].at, "none"} /\ r.at # "answer"
          /\ r.at # "none" => r.move = call[c].move /\ r.at = call[c].at
          /\ call[c].at \in {"apply", "mark"} => r.at = call[c].at
  <2>1. CASE call[c].at = "answer"
    BY <2>1, <1>1
  <2>2. CASE call[c].at # "answer"
    <3> DEFINE q == [call[c] EXCEPT !.heard = FALSE]
    <3>1. q \in Records /\ q.at = call[c].at /\ q.move = call[c].move
      BY <1>2 DEF CallType, Records
    <3>2. call' = [call EXCEPT ![c] = q]
      BY <2>2
    <3>3. QED
      BY <2>2, <3>1, <3>2
  <2>3. QED
    BY <2>1, <2>2
<1>4. call'[c] = r /\ (\A d \in Calls : d # c => call'[d] = call[d]) /\ CallType'
  BY <1>2, <1>3, CallSet
<1>5. TypeOK'
  BY <1>4, StockAssumption DEF IndInv, TypeOK, CallType, Records, StockAssumption
<1>6. CallInv'
  BY <1>3, <1>4 DEF IndInv, CallInv
<1>7. FreshInv' /\ AppliedOnce'
  BY DEF IndInv, FreshInv, AppliedOnce
<1>8. AcceptedIsApplied'
  BY <1>3, <1>4 DEF IndInv, AcceptedIsApplied, Handled
<1>9. ReservedInv'
  BY ReservedSame DEF IndInv
<1>10. WithheldInv' /\ LedgerSums'
  BY DEF IndInv, WithheldInv, LedgerSums
<1>11. QED
  BY <1>5, <1>6, <1>7, <1>8, <1>9, <1>10 DEF IndInv

-----------------------------------------------------------------------------
(* The handler. *)

LEMMA AnswerKnown == \A m \in Movements : ExistingAnswer(m) \in {"accepted", "reconciliation"}
BY DEF ExistingAnswer

LEMMA ReceiveInd ==
    ASSUME IndInv, NEW c \in Calls, receiveRawMovement(c)
    PROVE  IndInv'
<1> USE DEF receiveRawMovement, At, operatorVars, projectionVars, worldVars, inventoryVars, serviceVars
<1>1. CallType /\ CallInv /\ call[c].move \in Movements
  BY TypedCall DEF IndInv, CallInv
<1>2. PICK r \in Records :
          /\ call' = [call EXCEPT ![c] = r]
          /\ r.at \notin {"apply", "mark"}
          /\ r.at # "none" => r.move \in Movements
  <2>1. CASE Answer(c, ExistingAnswer(call[c].move))
    BY <1>1, <2>1, AnswerKnown, AnswerIs
  <2>2. CASE Go(c, IF acked THEN "insert" ELSE "case")
    <3> DEFINE step == IF acked THEN "insert" ELSE "case"
    <3>1. step \in HandlerSteps /\ step \notin {"apply", "mark"}
      BY DEF HandlerSteps
    <3>2. QED
      BY <1>1, <2>2, <3>1, GoIs
  <2>3. QED
    BY <2>1, <2>2
<1>3. CallType'
  BY <1>1, <1>2, CallSet
<1>4. TypeOK'
  BY <1>3 DEF IndInv, TypeOK, CallType, Records
<1>5. CallInv' /\ FreshInv' /\ AppliedOnce' /\ AcceptedIsApplied'
  BY <1>1, <1>2, CallOutside DEF IndInv, RowsKept
<1>6. ReservedInv'
  BY ReservedSame DEF IndInv
<1>7. WithheldInv' /\ LedgerSums'
  BY DEF IndInv, WithheldInv, LedgerSums
<1>8. QED
  BY <1>4, <1>5, <1>6, <1>7 DEF IndInv

LEMMA CaseInd ==
    ASSUME IndInv, NEW c \in Calls, insertReconciliation(c)
    PROVE  IndInv'
<1> USE DEF insertReconciliation, At, operatorVars, projectionVars, worldVars, inventoryVars, serviceVars
<1>1. CallType /\ CallInv /\ call[c].move \in Movements
  BY TypedCall DEF IndInv, CallInv
<1>2. PICK r \in Records :
          /\ call' = [call EXCEPT ![c] = r]
          /\ r.at \in {"answer", "none"}
          /\ r.at # "none" => r.move \in Movements
  BY <1>1, AnswerIs
<1>3. CallType'
  BY <1>1, <1>2, CallSet
<1>4. raw' \in [Movements -> RawStatuses] /\ RowsKept
  BY <1>1 DEF IndInv, TypeOK, RawStatuses, RowsKept
<1>5. TypeOK'
  BY <1>3, <1>4 DEF IndInv, TypeOK, CallType, Records
<1>6. CallInv' /\ FreshInv' /\ AppliedOnce' /\ AcceptedIsApplied'
  BY <1>1, <1>2, <1>4, CallOutside DEF IndInv
<1>7. ReservedInv'
  BY ReservedSame DEF IndInv
<1>8. WithheldInv' /\ LedgerSums'
  BY DEF IndInv, WithheldInv, LedgerSums
<1>9. QED
  BY <1>5, <1>6, <1>7, <1>8 DEF IndInv

LEMMA InsertInd ==
    ASSUME IndInv, NEW c \in Calls, insertAccepted(c)
    PROVE  IndInv'
<1> USE DEF insertAccepted, At, operatorVars, projectionVars, worldVars, inventoryVars, serviceVars
<1> DEFINE m == call[c].move
<1>1. CallType /\ CallInv /\ m \in Movements
  BY TypedCall DEF IndInv, CallInv
<1>2. ASSUME raw[m] # "none", Answer(c, ExistingAnswer(m)), UNCHANGED raw
      PROVE  TypeOK' /\ CallInv' /\ FreshInv' /\ AppliedOnce' /\ AcceptedIsApplied'
  <2>1. PICK r \in Records :
            /\ call' = [call EXCEPT ![c] = r]
            /\ r.at \in {"answer", "none"}
            /\ r.at # "none" => r.move \in Movements
    BY <1>1, <1>2, AnswerKnown, AnswerIs
  <2>2. CallType'
    BY <1>1, <2>1, CallSet
  <2>3. TypeOK'
    BY <1>2, <2>2 DEF IndInv, TypeOK, CallType, Records
  <2>4. CallInv' /\ FreshInv' /\ AppliedOnce' /\ AcceptedIsApplied'
    BY <1>1, <1>2, <2>1, CallOutside DEF IndInv, RowsKept
  <2>5. QED
    BY <2>3, <2>4
<1>3. ASSUME raw[m] = "none", raw' = [raw EXCEPT ![m] = "accepted"], Go(c, "apply")
      PROVE  TypeOK' /\ CallInv' /\ FreshInv' /\ AppliedOnce' /\ AcceptedIsApplied'
  <2>1. PICK r \in Records :
            call' = [call EXCEPT ![c] = r] /\ r.at = "apply" /\ r.move = m
    BY <1>1, <1>3, GoIs DEF HandlerSteps
  <2>2. CallType' /\ call'[c] = r /\ \A d \in Calls : d # c => call'[d] = call[d]
    BY <1>1, <2>1, CallSet
  <2>3. raw' \in [Movements -> RawStatuses]
    BY <1>1, <1>3 DEF IndInv, TypeOK, RawStatuses
  <2>4. TypeOK'
    BY <2>2, <2>3 DEF IndInv, TypeOK, CallType, Records
  <2>5. /\ raw'[m] = "accepted" /\ applied[m] = 0 /\ applied' = applied
        /\ \A x \in Movements : x # m => raw'[x] = raw[x]
    BY <1>1, <1>3 DEF IndInv, TypeOK, FreshInv
  <2>6. \A d \in Calls : call[d].at \in {"apply", "mark"} => call[d].move # m
    BY <1>1, <1>3 DEF CallInv
  <2>7. CallInv'
    BY <1>1, <2>1, <2>2, <2>5, <2>6 DEF CallInv
  <2>8. FreshInv' /\ AppliedOnce'
    BY <2>5 DEF IndInv, FreshInv, AppliedOnce
  <2>9. AcceptedIsApplied'
    <3> SUFFICES ASSUME NEW x \in Movements, raw'[x] = "accepted"
                 PROVE  applied'[x] > 0 \/ x \in torn' \/ Handled(x)'
      BY DEF AcceptedIsApplied
    <3>1. CASE x = m
      BY <3>1, <2>1, <2>2 DEF Handled
    <3>2. CASE x # m
      <4>1. applied[x] > 0 \/ x \in torn \/ Handled(x)
        BY <3>2, <2>5 DEF IndInv, AcceptedIsApplied
      <4>2. Handled(x) => Handled(x)'
        BY <1>3, <2>2 DEF Handled
      <4>3. QED
        BY <4>1, <4>2, <2>5
    <3>3. QED
      BY <3>1, <3>2
  <2>10. QED
    BY <2>4, <2>7, <2>8, <2>9
<1>4. TypeOK' /\ CallInv' /\ FreshInv' /\ AppliedOnce' /\ AcceptedIsApplied'
  BY <1>2, <1>3
<1>5. ReservedInv'
  BY ReservedSame DEF IndInv
<1>6. WithheldInv' /\ LedgerSums'
  BY DEF IndInv, WithheldInv, LedgerSums
<1>7. QED
  BY <1>4, <1>5, <1>6 DEF IndInv

LEMMA MarkInd ==
    ASSUME IndInv, NEW c \in Calls, markReconciliation(c)
    PROVE  IndInv'
<1> USE DEF markReconciliation, At, operatorVars, projectionVars, worldVars, inventoryVars, serviceVars
<1> DEFINE m == call[c].move
<1>1. CallType /\ CallInv /\ m \in Movements
  BY TypedCall DEF IndInv, CallInv
<1>2. PICK r \in Records :
          /\ call' = [call EXCEPT ![c] = r]
          /\ r.at \in {"answer", "none"}
          /\ r.at # "none" => r.move \in Movements
  BY <1>1, AnswerIs
<1>3. CallType' /\ call'[c] = r /\ \A d \in Calls : d # c => call'[d] = call[d]
  BY <1>1, <1>2, CallSet
<1>4. /\ raw' \in [Movements -> RawStatuses] /\ raw'[m] = "open"
      /\ \A x \in Movements : x # m => raw'[x] = raw[x]
  BY <1>1 DEF IndInv, TypeOK, RawStatuses
<1>5. TypeOK'
  BY <1>3, <1>4 DEF IndInv, TypeOK, CallType, Records
<1>6. \A d \in Calls : call'[d].at \in {"apply", "mark"} => d # c /\ call[d].move # m
  BY <1>1, <1>2, <1>3 DEF CallInv
<1>7. CallInv'
  BY <1>1, <1>2, <1>3, <1>4, <1>6 DEF CallInv
<1>8. FreshInv' /\ AppliedOnce'
  BY <1>1, <1>4 DEF IndInv, FreshInv, AppliedOnce
<1>9. AcceptedIsApplied'
  BY <1>3, <1>4 DEF IndInv, AcceptedIsApplied, Handled
<1>10. ReservedInv'
  BY ReservedSame DEF IndInv
<1>11. WithheldInv' /\ LedgerSums'
  BY DEF IndInv, WithheldInv, LedgerSums
<1>12. QED
  BY <1>5, <1>7, <1>8, <1>9, <1>10, <1>11 DEF IndInv

LEMMA RestoreInd ==
    ASSUME IndInv, NEW c \in Calls, restoreSlotAfterAcceptedLocalMaintenance(c)
    PROVE  IndInv'
<1> USE DEF restoreSlotAfterAcceptedLocalMaintenance, At, operatorVars, projectionVars, worldVars, inventoryVars, serviceVars
<1>1. CallType /\ CallInv
  BY TypedCall DEF IndInv
<1>2. PICK r \in Records :
          /\ call' = [call EXCEPT ![c] = r]
          /\ r.at \in {"answer", "none"}
          /\ r.at # "none" => r.move \in Movements
  BY <1>1, AnswerIs
<1>3. CallType'
  BY <1>1, <1>2, CallSet
<1>4. raw' \in [Movements -> RawStatuses] /\ RowsKept
  BY DEF IndInv, TypeOK, RawStatuses, RowsKept
<1>5. TypeOK'
  BY <1>3, <1>4 DEF IndInv, TypeOK, CallType, Records
<1>6. CallInv' /\ FreshInv' /\ AppliedOnce' /\ AcceptedIsApplied'
  BY <1>1, <1>2, <1>4, CallOutside DEF IndInv
<1>7. ReservedInv'
  BY ReservedSame DEF IndInv
<1>8. WithheldInv' /\ LedgerSums'
  BY DEF IndInv, WithheldInv, LedgerSums
<1>9. QED
  BY <1>5, <1>6, <1>7, <1>8 DEF IndInv

LEMMA EndsInd ==
    ASSUME IndInv, NEW c \in Calls, HandlerEnds(c)
    PROVE  IndInv'
<1> USE DEF HandlerEnds, At, operatorVars, projectionVars, worldVars, inventoryVars, serviceVars
<1>1. CallType /\ CallInv /\ call[c].move \in Movements
  BY TypedCall DEF IndInv, CallInv
<1>2. PICK r \in Records :
          /\ call' = [call EXCEPT ![c] = r]
          /\ r.at \in {"answer", "none"}
          /\ r.at # "none" => r.move \in Movements
  BY <1>1, AnswerIs
<1>3. CallType'
  BY <1>1, <1>2, CallSet
<1>4. /\ torn \subseteq torn' /\ torn' \subseteq Movements
      /\ call[c].at \in {"apply", "mark"} => call[c].move \in torn'
  BY <1>1 DEF IndInv, TypeOK
<1>5. upsets' \in 0 .. MaxUpsets
  BY StockAssumption DEF IndInv, TypeOK, StockAssumption
<1>6. TypeOK'
  BY <1>3, <1>4, <1>5 DEF IndInv, TypeOK, CallType, Records
<1>7. CallInv' /\ FreshInv' /\ AppliedOnce' /\ AcceptedIsApplied'
  BY <1>1, <1>2, <1>4, CallOutside DEF IndInv, RowsKept
<1>8. ReservedInv'
  BY ReservedSame DEF IndInv
<1>9. WithheldInv' /\ LedgerSums'
  BY DEF IndInv, WithheldInv, LedgerSums
<1>10. QED
  BY <1>6, <1>7, <1>8, <1>9 DEF IndInv

(* What SetOnHand does to a slot. *)
LEMMA OnHandSet ==
    ASSUME TypeOK, LedgerSums, NEW s \in Slots, NEW quantity \in Quantities,
           SetOnHand(s, quantity, quantity - onHand[s])
    PROVE  /\ onHand' \in [Slots -> Quantities] /\ ledger' \in [Slots -> Int]
           /\ LedgerSums'
           /\ onHand'[s] = quantity
           /\ \A z \in Slots : z # s => onHand'[z] = onHand[z]
<1>1. onHand \in [Slots -> Quantities] /\ ledger \in [Slots -> Int] /\ ledger = onHand
  BY DEF TypeOK, LedgerSums
<1>2. quantity \in Int /\ onHand[s] \in Int /\ ledger[s] + (quantity - onHand[s]) = quantity
  BY <1>1, StockAssumption DEF Quantities, StockAssumption
<1>3. onHand' = [onHand EXCEPT ![s] = quantity]
  BY DEF SetOnHand
<1>4. ledger' = [ledger EXCEPT ![s] = quantity]
  BY <1>1, <1>2 DEF SetOnHand
<1>5. QED
  BY <1>1, <1>2, <1>3, <1>4 DEF LedgerSums

(* A quantity that covers what is reserved keeps ReservedInv. *)
LEMMA ReservedCovered ==
    ASSUME TypeOK, ReservedInv, LedgerSums, NEW s \in Slots, NEW quantity \in Quantities,
           SetOnHand(s, quantity, quantity - onHand[s]),
           Covers(s, quantity), UNCHANGED <<sale, reserved>>
    PROVE  ReservedInv'
<1>1. \A z \in Slots : Holders(z)' = Holders(z)
  BY DEF Holders
<1>2. onHand'[s] = quantity /\ \A z \in Slots : z # s => onHand'[z] = onHand[z]
  BY OnHandSet
<1>3. QED
  BY <1>1, <1>2 DEF ReservedInv, Covers

LEMMA ApplyInd ==
    ASSUME IndInv, NEW c \in Calls, applyTrustedFieldStockMovement(c)
    PROVE  IndInv'
<1> USE DEF applyTrustedFieldStockMovement, At, operatorVars, projectionVars, worldVars, inventoryVars, serviceVars
<1> DEFINE m == call[c].move
<1>1. /\ CallType /\ CallInv /\ m \in Movements /\ Slot(m) \in Slots
      /\ raw[m] = "accepted" /\ applied[m] = 0
  BY TypedCall, Pairs DEF IndInv, CallInv
<1>2. move[m].after \in Quantities
  BY <1>1 DEF IndInv, TypeOK
<1>3. WithheldInv'
  BY DEF IndInv, WithheldInv
<1>4. ASSUME Fits(m), Covers(Slot(m), move[m].after),
             SetOnHand(Slot(m), move[m].after, move[m].after - onHand[Slot(m)]),
             applied' = [applied EXCEPT ![m] = @ + 1], Go(c, "restore"), UNCHANGED torn
      PROVE  IndInv'
  <2>1. PICK r \in Records :
            call' = [call EXCEPT ![c] = r] /\ r.at = "restore" /\ r.move = m
    BY <1>1, <1>4, GoIs DEF HandlerSteps
  <2>2. CallType' /\ call'[c] = r /\ \A d \in Calls : d # c => call'[d] = call[d]
    BY <1>1, <2>1, CallSet
  <2>3. /\ applied' \in [Movements -> Nat] /\ applied'[m] = 1
        /\ \A x \in Movements : x # m => applied'[x] = applied[x]
    BY <1>1, <1>4 DEF IndInv, TypeOK
  <2>4. onHand' \in [Slots -> Quantities] /\ ledger' \in [Slots -> Int] /\ LedgerSums'
    BY <1>1, <1>2, <1>4, OnHandSet DEF IndInv
  <2>5. TypeOK'
    BY <2>2, <2>3, <2>4, <1>4 DEF IndInv, TypeOK, CallType, Records
  <2>6. ReservedInv'
    BY <1>1, <1>2, <1>4, ReservedCovered DEF IndInv
  <2>7. \A d \in Calls : call'[d].at \in {"apply", "mark"} => d # c /\ call[d].move # m
    BY <1>1, <2>1, <2>2 DEF CallInv
  <2>8. CallInv'
    BY <1>1, <2>1, <2>2, <2>3, <2>7 DEF CallInv
  <2>9. FreshInv' /\ AppliedOnce'
    BY <1>1, <2>3 DEF IndInv, FreshInv, AppliedOnce
  <2>10. AcceptedIsApplied'
    BY <1>4, <2>2, <2>3 DEF IndInv, AcceptedIsApplied, Handled
  <2>11. QED
    BY <1>3, <2>4, <2>5, <2>6, <2>8, <2>9, <2>10 DEF IndInv
<1>5. ASSUME torn' = torn \union {m}, Answer(c, "error"), UNCHANGED <<onHand, ledger, applied>>
      PROVE  IndInv'
  <2>1. PICK r \in Records :
            /\ call' = [call EXCEPT ![c] = r]
            /\ r.at \in {"answer", "none"}
            /\ r.at # "none" => r.move \in Movements
    BY <1>1, <1>5, AnswerIs
  <2>2. CallType'
    BY <1>1, <2>1, CallSet
  <2>3. TypeOK'
    BY <1>1, <1>5, <2>2 DEF IndInv, TypeOK, CallType, Records
  <2>4. torn \subseteq torn' /\ m \in torn'
    BY <1>5
  <2>5. CallInv' /\ FreshInv' /\ AppliedOnce' /\ AcceptedIsApplied'
    BY <1>1, <1>5, <2>1, <2>4, CallOutside DEF IndInv, RowsKept
  <2>6. ReservedInv' /\ LedgerSums'
    BY <1>5, ReservedSame DEF IndInv, LedgerSums
  <2>7. QED
    BY <1>3, <2>3, <2>5, <2>6 DEF IndInv
<1>6. ASSUME Go(c, "mark"), UNCHANGED <<onHand, ledger, applied, torn>>
      PROVE  IndInv'
  <2>1. PICK r \in Records :
            call' = [call EXCEPT ![c] = r] /\ r.at = "mark" /\ r.move = m
    BY <1>1, <1>6, GoIs DEF HandlerSteps
  <2>2. CallType' /\ call'[c] = r /\ \A d \in Calls : d # c => call'[d] = call[d]
    BY <1>1, <2>1, CallSet
  <2>3. TypeOK'
    BY <1>6, <2>2 DEF IndInv, TypeOK, CallType, Records
  <2>4. CallInv'
    BY <1>1, <1>6, <2>1, <2>2 DEF CallInv
  <2>5. FreshInv' /\ AppliedOnce'
    BY <1>6 DEF IndInv, FreshInv, AppliedOnce
  <2>6. AcceptedIsApplied'
    BY <1>6, <2>1, <2>2 DEF IndInv, AcceptedIsApplied, Handled
  <2>7. ReservedInv' /\ LedgerSums'
    BY <1>6, ReservedSame DEF IndInv, LedgerSums
  <2>8. QED
    BY <1>3, <2>3, <2>4, <2>5, <2>6, <2>7 DEF IndInv
<1>7. QED
  BY <1>4, <1>5, <1>6

-----------------------------------------------------------------------------
(* The operator at the platform, the acknowledgement and the snapshots. *)

LEMMA ResolveInd ==
    ASSUME IndInv, NEW m \in Movements, resolveCase(m)
    PROVE  IndInv'
<1> USE DEF resolveCase, operatorVars, projectionVars, worldVars, inventoryVars, serviceVars
<1>1. Slot(m) \in Slots
  BY Pairs
<1>2. raw' \in [Movements -> RawStatuses] /\ RowsKept
  BY DEF IndInv, TypeOK, RawStatuses, RowsKept
<1>3. CallInv' /\ FreshInv' /\ AppliedOnce' /\ AcceptedIsApplied'
  BY <1>2, RowsSame DEF IndInv
<1>4. WithheldInv'
  BY DEF IndInv, WithheldInv
<1>5. onHand' \in [Slots -> Quantities] /\ ledger' \in [Slots -> Int] /\ LedgerSums' /\ ReservedInv'
  <2>1. CASE UNCHANGED <<onHand, ledger>>
    BY <2>1, ReservedSame DEF IndInv, TypeOK, LedgerSums
  <2>2. ASSUME NEW quantity \in Quantities, Covers(Slot(m), quantity),
               SetOnHand(Slot(m), quantity, quantity - onHand[Slot(m)])
        PROVE  onHand' \in [Slots -> Quantities] /\ ledger' \in [Slots -> Int]
               /\ LedgerSums' /\ ReservedInv'
    BY <1>1, <2>2, OnHandSet, ReservedCovered DEF IndInv
  <2>3. QED
    BY <2>1, <2>2
<1>6. TypeOK'
  BY <1>2, <1>5 DEF IndInv, TypeOK
<1>7. QED
  BY <1>3, <1>4, <1>5, <1>6 DEF IndInv

LEMMA AcknowledgeInd == IndInv /\ acknowledge_planogram => IndInv'
<1> SUFFICES ASSUME IndInv, acknowledge_planogram PROVE IndInv'
  OBVIOUS
<1> USE DEF acknowledge_planogram, operatorVars, projectionVars, worldVars, inventoryVars
<1>1. TypeOK'
  BY DEF IndInv, TypeOK
<1>2. CallInv' /\ FreshInv' /\ AppliedOnce' /\ AcceptedIsApplied'
  BY RowsSame DEF IndInv, RowsKept
<1>3. ReservedInv'
  BY ReservedSame DEF IndInv
<1>4. WithheldInv' /\ LedgerSums'
  BY DEF IndInv, WithheldInv, LedgerSums
<1>5. QED
  BY <1>1, <1>2, <1>3, <1>4 DEF IndInv

LEMMA TakeSnapshotInd == IndInv /\ getStockSnapshotByMachineCode => IndInv'
<1> SUFFICES ASSUME IndInv, getStockSnapshotByMachineCode PROVE IndInv'
  OBVIOUS
<1> USE DEF getStockSnapshotByMachineCode, operatorVars, projectionVars, worldVars, inventoryVars, serviceVars
<1>1. \A s \in Slots : (IF HasOpenCase(s) THEN 0 ELSE onHand[s] - reserved[s]) \in Quantities
  BY StockAssumption DEF IndInv, TypeOK, ReservedInv, Quantities, StockAssumption
<1>2. snap' \in [live : BOOLEAN, onHand : [Slots -> Quantities], free : [Slots -> Quantities]]
  BY <1>1 DEF IndInv, TypeOK
<1>3. TypeOK'
  BY <1>2 DEF IndInv, TypeOK
<1>4. CallInv' /\ FreshInv' /\ AppliedOnce' /\ AcceptedIsApplied'
  BY RowsSame DEF IndInv, RowsKept
<1>5. ReservedInv'
  BY ReservedSame DEF IndInv
<1>6. WithheldInv' /\ LedgerSums'
  BY DEF IndInv, WithheldInv, LedgerSums
<1>7. QED
  BY <1>3, <1>4, <1>5, <1>6 DEF IndInv

LEMMA ApplySnapshotInd == IndInv /\ apply_platform_stock_snapshot => IndInv'
<1> SUFFICES ASSUME IndInv, apply_platform_stock_snapshot PROVE IndInv'
  OBVIOUS
<1> USE DEF apply_platform_stock_snapshot, operatorVars, projectionVars, worldVars, inventoryVars, serviceVars
<1>1. 0 \in Quantities
  BY StockAssumption DEF Quantities, StockAssumption
<1>2. /\ physical' \in [Slots -> Quantities] /\ saleable' \in [Slots -> Quantities]
      /\ state' \in [Slots -> SalesStates]
      /\ blocked' = blocked /\ distrusted' = distrusted
      /\ WithheldInv'
  <2>1. /\ TypeOK /\ WithheldInv /\ blocked \in SUBSET Slots
        /\ snap.onHand \in [Slots -> Quantities] /\ snap.free \in [Slots -> Quantities]
    BY DEF IndInv, TypeOK
  <2>2. CASE UNCHANGED projectionVars
    BY <2>1, <2>2 DEF TypeOK, WithheldInv
  <2>3. CASE /\ Upsert(Slots, snap.onHand, snap.free, blocked, FALSE)
             /\ UNCHANGED <<blocked, distrusted>>
    <3>1. /\ physical' \in [Slots -> Quantities] /\ saleable' \in [Slots -> Quantities]
          /\ state' \in [Slots -> SalesStates]
          /\ \A s \in Slots : s \in blocked => saleable'[s] = 0
          /\ \A s \in Slots : state[s] = "held" => state'[s] = "held"
      <4>1. Slots \in SUBSET Slots /\ FALSE \in BOOLEAN
        OBVIOUS
      <4>2. Upsert(Slots, snap.onHand, snap.free, blocked, FALSE)
        BY <2>3
      <4> HIDE DEF apply_platform_stock_snapshot, projectionVars
      <4> HIDE <2>3
      <4>3. /\ physical' \in [Slots -> Quantities] /\ saleable' \in [Slots -> Quantities]
            /\ state' \in [Slots -> SalesStates]
            /\ \A s \in Slots \intersect blocked : saleable'[s] = 0
            /\ \A s \in Slots : state[s] = "held" /\ ~FALSE => state'[s] = "held"
        BY <2>1, <4>1, <4>2, UpsertIs
      <4>4. QED
        BY <4>3
    <3>2. QED
      BY <2>1, <2>3, <3>1 DEF WithheldInv
  <2>4. QED
    BY <2>2, <2>3
<1>3. snap' \in [live : BOOLEAN, onHand : [Slots -> Quantities], free : [Slots -> Quantities]]
  BY <1>1 DEF NoSnap
<1>4. TypeOK'
  BY <1>2, <1>3 DEF IndInv, TypeOK
<1>5. CallInv' /\ FreshInv' /\ AppliedOnce' /\ AcceptedIsApplied'
  BY RowsSame DEF IndInv, RowsKept
<1>6. ReservedInv'
  BY ReservedSame DEF IndInv
<1>7. LedgerSums'
  BY DEF IndInv, LedgerSums
<1>8. QED
  BY <1>2, <1>4, <1>5, <1>6, <1>7 DEF IndInv

-----------------------------------------------------------------------------
(* The order: who holds a unit, before and after. *)

LEMMA HoldersFinite == \A s \in Slots : IsFiniteSet(Holders(s)) /\ Cardinality(Holders(s)) \in Nat
<1> TAKE s \in Slots
<1>1. Holders(s) \subseteq Sales /\ IsFiniteSet(Sales)
  BY StockAssumption DEF Holders, StockAssumption
<1>2. IsFiniteSet(Holders(s))
  BY <1>1, FS_Subset
<1>3. QED
  BY <1>2, FS_CardinalityType

SaleType == [at : SaleStatuses, slot : Slots]

(* An order begins to hold a unit of its slot. *)
LEMMA TakesUnit ==
    ASSUME TypeOK, ReservedInv, NEW o \in Sales, NEW s \in Slots,
           sale[o].at \notin Holding, onHand[s] - reserved[s] >= 1, UNCHANGED onHand,
           reserved' = [reserved EXCEPT ![s] = @ + 1],
           sale' = [sale EXCEPT ![o] = [at |-> "reserved", slot |-> s]]
    PROVE  ReservedInv' /\ reserved' \in [Slots -> Nat] /\ sale' \in [Sales -> SaleType]
<1>1. sale \in [Sales -> SaleType] /\ reserved \in [Slots -> Nat] /\ onHand \in [Slots -> Quantities]
  BY DEF TypeOK, SaleType
<1>2. Holders(s)' = Holders(s) \union {o} /\ o \notin Holders(s)
  BY <1>1 DEF Holders, Holding
<1>3. \A z \in Slots : z # s => Holders(z)' = Holders(z)
  BY <1>1 DEF Holders, Holding
<1>4. Cardinality(Holders(s)') = Cardinality(Holders(s)) + 1
  BY <1>2, HoldersFinite, FS_AddElement
<1>5. reserved'[s] = reserved[s] + 1 /\ \A z \in Slots : z # s => reserved'[z] = reserved[z]
  BY <1>1
<1>6. onHand[s] \in Int /\ reserved[s] \in Nat
  BY <1>1, StockAssumption DEF Quantities, StockAssumption
<1>7. ReservedInv'
  <2> SUFFICES ASSUME NEW z \in Slots
               PROVE  reserved'[z] = Cardinality(Holders(z)') /\ reserved'[z] <= onHand'[z]
    BY DEF ReservedInv
  <2>1. reserved[z] = Cardinality(Holders(z)) /\ reserved[z] <= onHand[z] /\ onHand'[z] = onHand[z]
    BY DEF ReservedInv
  <2>2. CASE z = s
    BY <2>1, <2>2, <1>4, <1>5, <1>6
  <2>3. CASE z # s
    BY <2>1, <2>3, <1>3, <1>5
  <2>4. QED
    BY <2>2, <2>3
<1>8. reserved' \in [Slots -> Nat] /\ sale' \in [Sales -> SaleType]
  BY <1>1 DEF SaleType, SaleStatuses
<1>9. QED
  BY <1>7, <1>8

(* An order gives its unit up. *)
LEMMA HolderGone ==
    ASSUME TypeOK, ReservedInv, NEW o \in Sales, sale[o].at \in Holding,
           NEW at \in {"closed", "returned"}, sale' = [sale EXCEPT ![o].at = at],
           reserved' = [reserved EXCEPT ![sale[o].slot] = @ - 1]
    PROVE  /\ sale' \in [Sales -> SaleType] /\ reserved' \in [Slots -> Nat]
           /\ \A z \in Slots : reserved'[z] = Cardinality(Holders(z)')
           /\ reserved[sale[o].slot] >= 1
           /\ reserved'[sale[o].slot] = reserved[sale[o].slot] - 1
           /\ \A z \in Slots : z # sale[o].slot => reserved'[z] = reserved[z]
<1> DEFINE s == sale[o].slot
<1>1. sale \in [Sales -> SaleType] /\ reserved \in [Slots -> Nat] /\ s \in Slots
  BY DEF TypeOK, SaleType
<1>2. Holders(s)' = Holders(s) \ {o} /\ o \in Holders(s)
  BY <1>1 DEF Holders, Holding, SaleType
<1>3. \A z \in Slots : z # s => Holders(z)' = Holders(z)
  BY <1>1 DEF Holders, Holding, SaleType
<1>4. IsFiniteSet(Holders(s) \ {o}) /\ Cardinality(Holders(s) \ {o}) = Cardinality(Holders(s)) - 1
  <2>1. IsFiniteSet(Holders(s))
    BY <1>1, HoldersFinite
  <2>2. QED
    BY <1>2, <2>1, FS_RemoveElement
<1>5. Cardinality(Holders(s)') = Cardinality(Holders(s)) - 1
  BY <1>2, <1>4
<1>6. Cardinality(Holders(s)') \in Nat
  BY <1>2, <1>4, FS_CardinalityType
<1>7. reserved'[s] = reserved[s] - 1 /\ \A z \in Slots : z # s => reserved'[z] = reserved[z]
  BY <1>1
<1>8. reserved[s] = Cardinality(Holders(s)) /\ reserved[s] \in Nat
  BY <1>1 DEF ReservedInv
<1>9. reserved[s] >= 1 /\ reserved'[s] \in Nat /\ reserved'[s] = Cardinality(Holders(s)')
  BY <1>5, <1>6, <1>7, <1>8
<1>10. \A z \in Slots : reserved'[z] = Cardinality(Holders(z)')
  <2> TAKE z \in Slots
  <2>1. CASE z = s
    BY <2>1, <1>9
  <2>2. CASE z # s
    BY <2>2, <1>3, <1>7 DEF ReservedInv
  <2>3. QED
    BY <2>1, <2>2
<1>11. reserved' \in [Slots -> Nat]
  BY <1>1, <1>9
<1>12. sale' \in [Sales -> SaleType]
  BY <1>1 DEF SaleType, SaleStatuses
<1>13. QED
  BY <1>7, <1>9, <1>10, <1>11, <1>12

(* An order goes on holding its unit. *)
LEMMA HoldsOn ==
    ASSUME TypeOK, ReservedInv, NEW o \in Sales, sale[o].at \in Holding,
           NEW at \in {"dropped", "committed", "failed"},
           sale' = [sale EXCEPT ![o].at = at], UNCHANGED <<reserved, onHand>>
    PROVE  ReservedInv' /\ sale' \in [Sales -> SaleType]
<1>1. sale \in [Sales -> SaleType]
  BY DEF TypeOK, SaleType
<1>2. \A s \in Slots : Holders(s)' = Holders(s)
  BY <1>1 DEF Holders, Holding, SaleType
<1>3. QED
  BY <1>1, <1>2 DEF ReservedInv, SaleType, SaleStatuses

LEMMA CreateOrderInd ==
    ASSUME IndInv, NEW o \in Sales, NEW s \in Slots, create_order(o, s)
    PROVE  IndInv'
<1> USE DEF create_order, operatorVars, projectionVars, serviceVars
<1>1. ReservedInv' /\ reserved' \in [Slots -> Nat] /\ sale' \in [Sales -> SaleType]
  BY TakesUnit DEF IndInv, Holding
<1>2. TypeOK'
  BY <1>1 DEF IndInv, TypeOK, SaleType
<1>3. CallInv' /\ FreshInv' /\ AppliedOnce' /\ AcceptedIsApplied'
  BY RowsSame DEF IndInv, RowsKept
<1>4. WithheldInv' /\ LedgerSums'
  BY DEF IndInv, WithheldInv, LedgerSums
<1>5. QED
  BY <1>1, <1>2, <1>3, <1>4 DEF IndInv

LEMMA ReleaseInd ==
    ASSUME IndInv, NEW o \in Sales, releaseReservation(o)
    PROVE  IndInv'
<1> USE DEF releaseReservation, operatorVars, projectionVars, serviceVars
<1> DEFINE s == sale[o].slot
<1>0. Ended(o) \in {"closed", "returned"}
  BY DEF Ended
<1>1. /\ sale' \in [Sales -> SaleType] /\ reserved' \in [Slots -> Nat]
      /\ \A z \in Slots : reserved'[z] = Cardinality(Holders(z)')
      /\ reserved'[s] = reserved[s] - 1
      /\ \A z \in Slots : z # s => reserved'[z] = reserved[z]
  BY <1>0, HolderGone DEF IndInv, Holding
<1>2. reserved \in [Slots -> Nat] /\ onHand \in [Slots -> Quantities] /\ s \in Slots
  BY DEF IndInv, TypeOK
<1>3. \A z \in Slots : reserved'[z] <= onHand[z]
  BY <1>1, <1>2, StockAssumption DEF IndInv, ReservedInv, Quantities, StockAssumption
<1>4. ReservedInv'
  BY <1>1, <1>3 DEF ReservedInv
<1>5. TypeOK'
  BY <1>1 DEF IndInv, TypeOK, SaleType
<1>6. CallInv' /\ FreshInv' /\ AppliedOnce' /\ AcceptedIsApplied'
  BY RowsSame DEF IndInv, RowsKept
<1>7. WithheldInv' /\ LedgerSums'
  BY DEF IndInv, WithheldInv, LedgerSums
<1>8. QED
  BY <1>4, <1>5, <1>6, <1>7 DEF IndInv

LEMMA DropInd ==
    ASSUME IndInv, NEW o \in Sales, UnitDrops(o)
    PROVE  IndInv'
<1> USE DEF UnitDrops, operatorVars, projectionVars, inventoryVars, serviceVars
<1>1. ReservedInv' /\ sale' \in [Sales -> SaleType]
  BY HoldsOn DEF IndInv, Holding
<1>2. real' \in [Slots -> Quantities]
  <2>1. real \in [Slots -> Quantities]
    BY DEF IndInv, TypeOK
  <2>2. \A q \in Quantities : q > 0 => q - 1 \in Quantities
    BY StockAssumption DEF Quantities, StockAssumption
  <2>3. QED
    BY <2>1, <2>2
<1>3. TypeOK'
  BY <1>1, <1>2 DEF IndInv, TypeOK, SaleType
<1>4. CallInv' /\ FreshInv' /\ AppliedOnce' /\ AcceptedIsApplied'
  BY RowsSame DEF IndInv, RowsKept
<1>5. WithheldInv' /\ LedgerSums'
  BY DEF IndInv, WithheldInv, LedgerSums
<1>6. QED
  BY <1>1, <1>3, <1>4, <1>5 DEF IndInv

LEMMA CommitInd ==
    ASSUME IndInv, NEW o \in Sales, apply_dispense_success_to_local_stock_in_tx(o)
    PROVE  IndInv'
<1> USE DEF apply_dispense_success_to_local_stock_in_tx, operatorVars, inventoryVars, serviceVars
<1> DEFINE s == sale[o].slot
           after == [physical EXCEPT ![s] = @ - 1]
<1>1. ReservedInv' /\ sale' \in [Sales -> SaleType]
  BY HoldsOn DEF IndInv, Holding
<1>2. /\ TypeOK /\ WithheldInv /\ physical \in [Slots -> Quantities]
      /\ s \in Slots /\ blocked \in SUBSET Slots
  BY DEF IndInv, TypeOK
<1>3. physical[s] - 1 \in Quantities
  BY <1>2, StockAssumption DEF Quantities, StockAssumption
<1>4. after \in [Slots -> Quantities]
  BY <1>2, <1>3
<1>5. Upsert({s}, after, after, blocked, FALSE)
  OBVIOUS
<1>6. /\ physical' \in [Slots -> Quantities] /\ saleable' \in [Slots -> Quantities]
      /\ state' \in [Slots -> SalesStates]
      /\ s \in blocked => saleable'[s] = 0
      /\ \A z \in Slots : z # s => saleable'[z] = saleable[z] /\ state'[z] = state[z]
      /\ state[s] = "held" => state'[s] = "held"
  <2> HIDE DEF s, after
  <2> HIDE DEF apply_dispense_success_to_local_stock_in_tx
  <2>1. {s} \in SUBSET Slots /\ FALSE \in BOOLEAN
    BY <1>2
  <2>2. /\ physical' \in [Slots -> Quantities] /\ saleable' \in [Slots -> Quantities]
        /\ state' \in [Slots -> SalesStates]
        /\ \A z \in {s} \intersect blocked : saleable'[z] = 0
        /\ \A z \in Slots \ {s} : saleable'[z] = saleable[z] /\ state'[z] = state[z]
        /\ \A z \in {s} : state[z] = "held" /\ ~FALSE => state'[z] = "held"
    BY <1>2, <1>4, <1>5, <2>1, UpsertIs
  <2>3. QED
    BY <1>2, <2>2
<1>7. WithheldInv'
  BY <1>2, <1>6 DEF WithheldInv
<1>8. TypeOK'
  BY <1>1, <1>6 DEF IndInv, TypeOK, SaleType
<1>9. CallInv' /\ FreshInv' /\ AppliedOnce' /\ AcceptedIsApplied'
  BY RowsSame DEF IndInv, RowsKept
<1>10. LedgerSums'
  BY DEF IndInv, LedgerSums
<1>11. QED
  BY <1>1, <1>7, <1>8, <1>9, <1>10 DEF IndInv

LEMMA FailInd ==
    ASSUME IndInv, NEW o \in Sales, commit_journaled_dispense_failure(o)
    PROVE  IndInv'
<1> USE DEF commit_journaled_dispense_failure, operatorVars, projectionVars, inventoryVars, serviceVars
<1>1. ReservedInv' /\ sale' \in [Sales -> SaleType]
  BY HoldsOn DEF IndInv, Holding
<1>2. upsets' \in 0 .. MaxUpsets
  BY StockAssumption DEF IndInv, TypeOK, StockAssumption
<1>3. TypeOK'
  BY <1>1, <1>2 DEF IndInv, TypeOK, SaleType
<1>4. CallInv' /\ FreshInv' /\ AppliedOnce' /\ AcceptedIsApplied'
  BY RowsSame DEF IndInv, RowsKept
<1>5. WithheldInv' /\ LedgerSums'
  BY DEF IndInv, WithheldInv, LedgerSums
<1>6. QED
  BY <1>1, <1>3, <1>4, <1>5 DEF IndInv

LEMMA HoldInd ==
    ASSUME IndInv, NEW o \in Sales, block_command_slot(o)
    PROVE  IndInv'
<1> USE DEF block_command_slot, operatorVars, worldVars, inventoryVars, serviceVars
<1>1. ReservedInv'
  BY ReservedSame DEF IndInv
<1>2. /\ sale[o].slot \in Slots /\ state \in [Slots -> SalesStates]
      /\ blocked \subseteq Slots /\ distrusted \subseteq Slots /\ WithheldInv
  BY DEF IndInv, TypeOK
<1>3. /\ state' \in [Slots -> SalesStates] /\ state'[sale[o].slot] = "held"
      /\ \A z \in Slots : z # sale[o].slot => state'[z] = state[z]
  BY <1>2 DEF SalesStates
<1>4. blocked' \subseteq Slots /\ distrusted' \subseteq Slots
  BY <1>2
<1>5. WithheldInv'
  BY <1>2, <1>3 DEF WithheldInv
<1>6. TypeOK'
  BY <1>3, <1>4 DEF IndInv, TypeOK
<1>7. CallInv' /\ FreshInv' /\ AppliedOnce' /\ AcceptedIsApplied'
  BY RowsSame DEF IndInv, RowsKept
<1>8. LedgerSums'
  BY DEF IndInv, LedgerSums
<1>9. QED
  BY <1>1, <1>5, <1>6, <1>7, <1>8 DEF IndInv

LEMMA ConfirmInd ==
    ASSUME IndInv, NEW o \in Sales, confirmReservation(o)
    PROVE  IndInv'
<1> USE DEF confirmReservation, operatorVars, projectionVars, serviceVars
<1> DEFINE s == sale[o].slot
<1>0. Ended(o) \in {"closed", "returned"}
  BY DEF Ended
<1>1. /\ sale' \in [Sales -> SaleType] /\ reserved' \in [Slots -> Nat]
      /\ \A z \in Slots : reserved'[z] = Cardinality(Holders(z)')
      /\ reserved[s] >= 1 /\ reserved'[s] = reserved[s] - 1
      /\ \A z \in Slots : z # s => reserved'[z] = reserved[z]
  BY <1>0, HolderGone DEF IndInv, Holding
<1>2. reserved \in [Slots -> Nat] /\ onHand \in [Slots -> Quantities] /\ s \in Slots
  BY DEF IndInv, TypeOK
<1>3. reserved[s] <= onHand[s] /\ onHand[s] - 1 \in Quantities /\ (onHand[s] - 1) - onHand[s] = -1
  BY <1>1, <1>2, StockAssumption DEF IndInv, ReservedInv, Quantities, StockAssumption
<1>4. SetOnHand(s, onHand[s] - 1, (onHand[s] - 1) - onHand[s])
  BY <1>3
<1>5. /\ onHand' \in [Slots -> Quantities] /\ ledger' \in [Slots -> Int] /\ LedgerSums'
      /\ onHand'[s] = onHand[s] - 1 /\ \A z \in Slots : z # s => onHand'[z] = onHand[z]
  BY <1>2, <1>3, <1>4, OnHandSet DEF IndInv
<1>6. ReservedInv'
  <2> SUFFICES ASSUME NEW z \in Slots PROVE reserved'[z] <= onHand'[z]
    BY <1>1 DEF ReservedInv
  <2>1. CASE z = s
    BY <2>1, <1>1, <1>2, <1>3, <1>5, StockAssumption DEF Quantities, StockAssumption
  <2>2. CASE z # s
    BY <2>2, <1>1, <1>5 DEF IndInv, ReservedInv
  <2>3. QED
    BY <2>1, <2>2
<1>7. TypeOK'
  BY <1>1, <1>5 DEF IndInv, TypeOK, SaleType
<1>8. CallInv' /\ FreshInv' /\ AppliedOnce' /\ AcceptedIsApplied'
  BY RowsSame DEF IndInv, RowsKept
<1>9. WithheldInv'
  BY DEF IndInv, WithheldInv
<1>10. QED
  BY <1>5, <1>6, <1>7, <1>8, <1>9 DEF IndInv

-----------------------------------------------------------------------------
LEMMA StutterInd == IndInv /\ UNCHANGED vars => IndInv'
<1> SUFFICES ASSUME IndInv, UNCHANGED vars PROVE IndInv'
  OBVIOUS
<1> USE DEF vars, operatorVars, projectionVars, worldVars, inventoryVars, serviceVars
<1>1. TypeOK'
  BY DEF IndInv, TypeOK
<1>2. CallInv' /\ FreshInv' /\ AppliedOnce' /\ AcceptedIsApplied'
  BY RowsSame DEF IndInv, RowsKept
<1>3. ReservedInv'
  BY ReservedSame DEF IndInv
<1>4. WithheldInv' /\ LedgerSums'
  BY DEF IndInv, WithheldInv, LedgerSums
<1>5. QED
  BY <1>1, <1>2, <1>3, <1>4 DEF IndInv

LEMMA NextInd == IndInv /\ [Next]_vars => IndInv'
<1> SUFFICES ASSUME IndInv, [Next]_vars PROVE IndInv'
  OBVIOUS
<1>1. CASE Operator
  BY <1>1, StageInd, RefillInd, ResolveInd DEF Operator
<1>2. CASE finalize_pending_physical_stock_attestation_if_accepted
  BY <1>2, FinalizeInd
<1>3. ASSUME NEW c \in Calls, Handler(c) PROVE IndInv'
  BY <1>3, ReceiveInd, CaseInd, InsertInd, ApplyInd, MarkInd, RestoreInd DEF Handler
<1>4. ASSUME NEW c \in Calls, Uploader(c) PROVE IndInv'
  BY <1>4, SendInd, RespondInd DEF Uploader
<1>5. ASSUME NEW c \in Calls, Upset(c) PROVE IndInv'
  BY <1>5, GiveUpInd, EndsInd DEF Upset
<1>6. CASE Snapshot
  BY <1>6, AcknowledgeInd, TakeSnapshotInd, ApplySnapshotInd DEF Snapshot
<1>7. ASSUME NEW o \in Sales, Sale(o) PROVE IndInv'
  BY <1>7, CreateOrderInd, ReleaseInd, DropInd, CommitInd, FailInd, HoldInd,
         ConfirmInd DEF Sale
<1>8. CASE UNCHANGED vars
  BY <1>8, StutterInd
<1>9. QED
  BY <1>1, <1>2, <1>3, <1>4, <1>5, <1>6, <1>7, <1>8 DEF Next

(* Everything that the daemon, the uploads, the handlers and the orders do  *)
(* keeps the inductive invariant (StockSync's Next).                        *)
THEOREM IndInvHolds == Spec => []IndInv
<1>1. Init => IndInv
  BY InitInd
<1>2. IndInv /\ [Next]_vars => IndInv'
  BY NextInd
<1>3. QED
  BY <1>1, <1>2, PTL DEF Spec

(* Every variable keeps its type; in particular a slot never holds, has on  *)
(* hand or offers fewer than none or more than its capacity.                *)
THEOREM TypeCorrect == Spec => []TypeOK
<1>1. IndInv => TypeOK
  BY DEF IndInv
<1>2. QED
  BY <1>1, IndInvHolds, PTL

(* A movement changes inventories at most once, however often and by        *)
(* however many uploaders it is sent (receiveRawMovement and the unique row *)
(* of machine_raw_stock_movements).                                         *)
THEOREM AppliedAtMostOnce == Spec => []AppliedOnce
<1>1. IndInv => AppliedOnce
  BY DEF IndInv
<1>2. QED
  BY <1>1, IndInvHolds, PTL

(* A stored row is "accepted" only if its movement was applied, is being    *)
(* applied, or its handler was cut off (receiveRawMovement).                *)
THEOREM NoAcceptedIsForgotten == Spec => []AcceptedIsApplied
<1>1. IndInv => AcceptedIsApplied
  BY DEF IndInv
<1>2. QED
  BY <1>1, IndInvHolds, PTL

(* A slot with a movement that the platform did not take, or a dispense     *)
(* whose failure was put on it, is not offered before the operator has      *)
(* refilled or counted it, whichever of the projection's writers ran since  *)
(* (upsert_stock_projection_with_state_in_tx and its callers,               *)
(* apply_sale_safety_blocker_in_tx, update_slot_sales_state).               *)
THEOREM NoBlockedIsSold == Spec => []BlockedIsNotSold
<1>1. IndInv => BlockedIsNotSold
  <2> SUFFICES ASSUME IndInv, NEW s \in distrusted PROVE ~Offered(s)
    BY DEF BlockedIsNotSold
  <2>1. s \in Slots /\ (saleable[s] = 0 \/ state[s] = "held")
    BY DEF IndInv, TypeOK, WithheldInv
  <2>2. QED
    BY <2>1 DEF Offered
<1>2. QED
  BY <1>1, IndInvHolds, PTL

(* The inventory movements of a slot sum up to its on_hand_qty              *)
(* (applyTrustedFieldStockMovement, resolveCase, confirmReservation).       *)
THEOREM LedgerAccounts == Spec => []LedgerSums
<1>1. IndInv => LedgerSums
  BY DEF IndInv
<1>2. QED
  BY <1>1, IndInvHolds, PTL

(* reserved_qty counts the orders that hold a unit of the slot, and         *)
(* on_hand_qty covers them, whatever counts, refills and resolved cases set *)
(* it to (the check on inventories, reserveForOrder, confirmReservation).   *)
THEOREM ReservedIsCovered == Spec => []ReservedInv
<1>1. IndInv => ReservedInv
  BY DEF IndInv
<1>2. QED
  BY <1>1, IndInvHolds, PTL
=============================================================================
