----------------------------- MODULE StockSync -----------------------------
(***************************************************************************)
(* How a machine's stock is counted, refilled and sold, and how it and the  *)
(* platform agree about it.                                                 *)
(*                                                                          *)
(* The daemon keeps its own projection of every slot in SQLite (physical    *)
(* and saleable stock, sales state, blockers).  A count or refill by the    *)
(* operator is a task of one movement per slot, each queued with its upload *)
(* (stock_movement_sync and an outbox event).  A refill changes the projection at once; a count is   *)
(* only staged and is committed when every movement of it is accepted.      *)
(* The service stores a movement once (machine_raw_stock_movements), then   *)
(* applies it to inventories in a transaction of its own, or opens a        *)
(* reconciliation case.  Snapshots flow back and overwrite the projection.  *)
(* A slot is withheld from sale by a blocker, a row of its own, when the    *)
(* platform did not take a movement, and by its sales state when a dispense *)
(* failed; a refill or a committed count ends both.                         *)
(*                                                                          *)
(* A slow request and a list of due uploads read before another uploader    *)
(* got its answer are the same here: a call that is still to be checked.    *)
(* Statuses "pending" and "failed" of an upload are one, "open"; the reason *)
(* of a case, the slot's status at the platform and the lock of the whole   *)
(* machine are left out.  The planogram is the machine's first and stays:   *)
(* only its acknowledgement may still be on its way.                        *)
(***************************************************************************)
EXTENDS Integers, FiniteSets

CONSTANTS
    Slots,      \* the slots of the active planogram
    Capacity,   \* units that fit into a slot
    Sales,      \* orders of one unit, one after the other
    Calls,      \* uploads under way at a time
    MaxTasks,   \* bound: counts and refills
    MaxUpsets   \* bound: time-outs of an uploader, failures of the service and
                \* dispenses that fail

ASSUME StockAssumption ==
    /\ Slots # {}
    /\ IsFiniteSet(Sales)
    /\ Capacity \in Nat \ {0}
    /\ MaxTasks \in Nat /\ MaxUpsets \in Nat

Tasks == 1 .. MaxTasks
Movements == Tasks \X Slots
Quantities == 0 .. Capacity

Task(m) == m[1]
Slot(m) == m[2]

VARIABLES
    tasks,        \* the number of tasks submitted so far
    move,         \* what each movement says
    sync,         \* stock_movement_sync, and whether the upload is queued
    pending,      \* the staged count
    established,  \* a count has been committed
    physical, saleable, state,   \* current_stock_projection of each slot
    blocked,      \* sale_safety_blockers
    real,         \* units that are in the slot
    sale,         \* the orders
    call,         \* the uploads
    snap,         \* a snapshot on its way to the daemon
    acked,        \* the planogram's acknowledgement has reached the platform
    onHand, reserved,   \* inventories
    raw,          \* machine_raw_stock_movements
    upsets,
    applied,      \* how often a movement was applied to inventories
    torn,         \* movements whose handler ended between its two transactions
    ledger,       \* sum of inventory_movements of each slot
    distrusted    \* slots with a movement not taken or a dispense failed since
                  \* the operator's last refill or count (history)

operatorVars == <<tasks, move, pending, established>>
projectionVars == <<physical, saleable, state, blocked, distrusted>>
worldVars == <<real, sale>>
inventoryVars == <<onHand, reserved, ledger>>
serviceVars == <<acked, raw, applied, torn>>
vars == <<operatorVars, sync, projectionVars, worldVars, call, snap,
          inventoryVars, serviceVars, upsets>>

NoMove == [kind |-> "none", before |-> 0, after |-> 0]
NoCount == [open |-> FALSE, of |-> [s \in Slots |-> 0], qty |-> [s \in Slots |-> 0]]
NoSale == [at |-> "none", slot |-> CHOOSE s \in Slots : TRUE]
NoCall == [at |-> "none", move |-> <<0, CHOOSE s \in Slots : TRUE>>,
           ans |-> "none", heard |-> FALSE]
NoSnap == [live |-> FALSE, onHand |-> [s \in Slots |-> 0], free |-> [s \in Slots |-> 0]]

(* slot_sales_state: "held" is frozen or suspect, "shut" is sold out or     *)
(* waiting for a reconciliation.                                            *)
SalesStates == {"sale_ready", "held", "shut"}
SaleStatuses == {"none", "reserved", "dropped", "committed", "failed", "returned", "closed"}
SyncStatuses == {"none", "open", "accepted", "reconciled"}
RawStatuses == {"none", "accepted", "open", "resolved", "rejected", "corrected"}
HandlerSteps == {"check", "case", "insert", "apply", "mark", "restore", "answer"}

TypeOK ==
    /\ tasks \in 0 .. MaxTasks
    /\ move \in [Movements -> [kind : {"none", "count", "refill"},
                               before : Quantities, after : Quantities]]
    /\ sync \in [Movements -> SyncStatuses]
    /\ pending \in [open : BOOLEAN, of : [Slots -> 0 .. MaxTasks],
                    qty : [Slots -> Quantities]]
    /\ established \in BOOLEAN /\ acked \in BOOLEAN
    /\ physical \in [Slots -> Quantities] /\ saleable \in [Slots -> Quantities]
    /\ state \in [Slots -> SalesStates]
    /\ blocked \subseteq Slots /\ distrusted \subseteq Slots
    /\ real \in [Slots -> Quantities]
    /\ sale \in [Sales -> [at : SaleStatuses, slot : Slots]]
    /\ call \in [Calls -> [at : {"none"} \union HandlerSteps,
                           move : (0 .. MaxTasks) \X Slots,
                           ans : {"none", "accepted", "reconciliation", "error"},
                           heard : BOOLEAN]]
    /\ snap \in [live : BOOLEAN, onHand : [Slots -> Quantities],
                 free : [Slots -> Quantities]]
    /\ onHand \in [Slots -> Quantities] /\ reserved \in [Slots -> Nat]
    /\ raw \in [Movements -> RawStatuses]
    /\ upsets \in 0 .. MaxUpsets
    /\ applied \in [Movements -> Nat]
    /\ torn \subseteq Movements
    /\ ledger \in [Slots -> Int]

(* The first planogram: its inventories start at zero                       *)
(* (machines.service.ts:1555), apply_planogram has given each slot a        *)
(* projection of nothing that needs a count, and the slots hold what they   *)
(* hold.                                                                    *)
Init ==
    /\ tasks = 0
    /\ move = [m \in Movements |-> NoMove]
    /\ sync = [m \in Movements |-> "none"]
    /\ pending = NoCount
    /\ established = FALSE
    /\ physical = [s \in Slots |-> 0] /\ saleable = [s \in Slots |-> 0]
    /\ state = [s \in Slots |-> "shut"]
    /\ blocked = {} /\ distrusted = {}
    /\ real \in [Slots -> Quantities]
    /\ sale = [o \in Sales |-> NoSale]
    /\ call = [c \in Calls |-> NoCall]
    /\ snap = NoSnap
    /\ acked = FALSE
    /\ onHand = [s \in Slots |-> 0] /\ reserved = [s \in Slots |-> 0]
    /\ raw = [m \in Movements |-> "none"]
    /\ upsets = 0
    /\ applied = [m \in Movements |-> 0]
    /\ torn = {}
    /\ ledger = onHand

-----------------------------------------------------------------------------
(* The projection of a slot. *)

(* What create_order looks for in the sale view. *)
Offered(s) == state[s] = "sale_ready" /\ saleable[s] > 0

(* upsert_stock_projection_with_state_in_tx of the given slots: a blocker   *)
(* keeps saleable stock at zero and the state as it is; a held slot stays   *)
(* held unless the hold is reset.                                           *)
Upsert(given, quantity, free, blockers, reset) ==
    LET keeps(s) == s \in blockers \/ (state[s] = "held" /\ ~reset) IN
    /\ physical' = [s \in Slots |-> IF s \in given THEN quantity[s] ELSE physical[s]]
    /\ saleable' = [s \in Slots |-> IF s \notin given THEN saleable[s]
                                    ELSE IF s \in blockers THEN 0 ELSE free[s]]
    /\ state' = [s \in Slots |-> IF s \notin given \/ keeps(s) THEN state[s]
                                 ELSE IF free[s] > 0 THEN "sale_ready" ELSE "shut"]

-----------------------------------------------------------------------------
(* The operator's tasks at the machine. *)

(* A slot of the staged count that the platform has accepted stays as it is *)
(* when the count is corrected.                                             *)
Carried(s) == pending.open /\ sync[<<pending.of[s], s>>] = "accepted"

(* A new count waits for the answers of the one before it, and replaces it  *)
(* only if one of them was a reconciliation.                                *)
MayStage ==
    pending.open =>
        /\ \E s \in Slots : sync[<<pending.of[s], s>>] = "reconciled"
        /\ \A s \in Slots : sync[<<pending.of[s], s>>] # "open"

stage_physical_stock_attestation_for_platform ==
    /\ tasks < MaxTasks
    /\ MayStage
    /\ tasks' = tasks + 1
    /\ LET counted == {<<tasks', s>> : s \in {z \in Slots : ~Carried(z)}} IN
       /\ pending' = [open |-> TRUE,
                      of |-> [s \in Slots |-> IF Carried(s) THEN pending.of[s] ELSE tasks'],
                      qty |-> [s \in Slots |-> IF Carried(s) THEN pending.qty[s] ELSE real[s]]]
       /\ move' = [m \in Movements |->
                      IF m \in counted
                      THEN [kind |-> "count", before |-> physical[Slot(m)], after |-> real[Slot(m)]]
                      ELSE move[m]]
       /\ sync' = [m \in Movements |-> IF m \in counted THEN "open" ELSE sync[m]]
    /\ UNCHANGED <<established, projectionVars, worldVars, call, snap,
                   inventoryVars, serviceVars, upsets>>

(* A refill task keeps its number until all its movements are accepted, and *)
(* a task takes one batch.                                                  *)
RefillTaskIsFree ==
    \A m \in Movements : move[m].kind = "refill" => sync[m] = "accepted"

submit_refill_batch_in_tx(added) ==
    /\ tasks < MaxTasks
    /\ established
    /\ RefillTaskIsFree
    /\ \E s \in Slots : added[s] > 0
    /\ \A s \in Slots : real[s] + added[s] <= Capacity
    /\ \A s \in Slots : physical[s] + added[s] <= Capacity
    /\ LET filled == {s \in Slots : added[s] > 0}
           after == [s \in Slots |-> physical[s] + added[s]] IN
       /\ tasks' = tasks + 1
       /\ move' = [m \in Movements |->
                      IF Task(m) = tasks' /\ Slot(m) \in filled
                      THEN [kind |-> "refill", before |-> physical[Slot(m)], after |-> after[Slot(m)]]
                      ELSE move[m]]
       /\ sync' = [m \in Movements |->
                      IF Task(m) = tasks' /\ Slot(m) \in filled THEN "open" ELSE sync[m]]
       /\ real' = [s \in Slots |-> real[s] + added[s]]
       /\ Upsert(filled, after, after, blocked \ filled, TRUE)
       /\ blocked' = blocked \ filled
       /\ distrusted' = distrusted \ filled
    /\ UNCHANGED <<pending, established, sale, call, snap,
                   inventoryVars, serviceVars, upsets>>

(* The second phase of a count: it overwrites the projection. *)
finalize_pending_physical_stock_attestation_if_accepted ==
    /\ pending.open
    /\ \A s \in Slots : sync[<<pending.of[s], s>>] = "accepted"
    /\ Upsert(Slots, pending.qty, pending.qty, {}, TRUE)
    /\ blocked' = {} /\ distrusted' = {}
    /\ established' = TRUE
    /\ pending' = NoCount
    /\ UNCHANGED <<tasks, move, sync, worldVars, call, snap, inventoryVars, serviceVars, upsets>>

-----------------------------------------------------------------------------
(* The uploader: the daemon's timer and the request that follows a task run *)
(* one each.  A refill's or count's upload is due until it is answered.     *)

submit_stock_movement_upload(c, m) ==
    /\ call[c].at = "none"
    /\ sync[m] = "open"
    /\ call' = [call EXCEPT ![c] = [at |-> "check", move |-> m, ans |-> "none", heard |-> TRUE]]
    /\ UNCHANGED <<operatorVars, sync, projectionVars, worldVars, snap,
                   inventoryVars, serviceVars, upsets>>

apply_sale_safety_blocker_in_tx(s) ==
    /\ blocked' = blocked \union {s}
    /\ saleable' = [saleable EXCEPT ![s] = 0]
    /\ state' = [state EXCEPT ![s] = "shut"]

record_stock_movement_upload_response(c) ==
    LET m == call[c].move IN
    /\ call[c].at = "answer" /\ call[c].heard
    /\ \/ /\ call[c].ans = "accepted"
          /\ sync' = [sync EXCEPT ![m] = "accepted"]
          /\ UNCHANGED projectionVars
       \/ /\ call[c].ans = "reconciliation"
          /\ sync' = [sync EXCEPT ![m] = "reconciled"]
          /\ apply_sale_safety_blocker_in_tx(Slot(m))
          /\ distrusted' = distrusted \union {Slot(m)}
          /\ UNCHANGED physical
       \/ /\ call[c].ans = "error"
          /\ UNCHANGED <<sync, projectionVars>>
    /\ call' = [call EXCEPT ![c] = NoCall]
    /\ UNCHANGED <<operatorVars, worldVars, snap, inventoryVars, serviceVars, upsets>>

(* The uploader gives up waiting, or the daemon is restarted: the upload    *)
(* stays due and the handler goes on.                                       *)
mark_stock_movement_upload_failed(c) ==
    /\ call[c].heard
    /\ upsets < MaxUpsets
    /\ upsets' = upsets + 1
    /\ call' = [call EXCEPT ![c] = IF @.at = "answer" THEN NoCall ELSE [@ EXCEPT !.heard = FALSE]]
    /\ UNCHANGED <<operatorVars, sync, projectionVars, worldVars, snap,
                   inventoryVars, serviceVars>>

-----------------------------------------------------------------------------
(* The service's handler of one upload, between its database calls. *)

At(c, step) == call[c].at = step
Go(c, step) == call' = [call EXCEPT ![c].at = step]
Answer(c, ans) ==
    call' = [call EXCEPT ![c] = IF @.heard THEN [@ EXCEPT !.at = "answer", !.ans = ans] ELSE NoCall]

(* responseForExisting: every stored movement that is not in reconciliation *)
(* is "already_accepted".                                                   *)
ExistingAnswer(m) == IF raw[m] \in {"open", "resolved"} THEN "reconciliation" ELSE "accepted"

(* Mutation: a movement that is being applied is taken on again. *)
ReceiveUnapplied(c) ==
    LET m == call[c].move IN
    /\ At(c, "check")
    /\ \/ /\ raw[m] # "none" /\ (raw[m] # "accepted" \/ applied[m] > 0)
          /\ Answer(c, ExistingAnswer(m))
       \/ /\ raw[m] = "accepted" /\ applied[m] = 0
          /\ Go(c, "apply")
       \/ /\ raw[m] = "none"
          /\ Go(c, IF acked THEN "insert" ELSE "case")
    /\ UNCHANGED <<operatorVars, sync, projectionVars, worldVars, snap,
                   inventoryVars, serviceVars, upsets>>

(* Mutation: a movement that was stored and not applied is an error.        *)
ReceiveStrictly(c) ==
    LET m == call[c].move IN
    /\ At(c, "check")
    /\ \/ /\ raw[m] # "none"
          /\ Answer(c, IF raw[m] = "accepted" /\ applied[m] = 0 THEN "error" ELSE ExistingAnswer(m))
       \/ /\ raw[m] = "none"
          /\ Go(c, IF acked THEN "insert" ELSE "case")
    /\ UNCHANGED <<operatorVars, sync, projectionVars, worldVars, snap,
                   inventoryVars, serviceVars, upsets>>

(* Before the planogram is acknowledged the movement matches no slot. *)
receiveRawMovement(c) ==
    LET m == call[c].move IN
    /\ At(c, "check")
    /\ \/ /\ raw[m] # "none"
          /\ Answer(c, ExistingAnswer(m))
       \/ /\ raw[m] = "none"
          /\ Go(c, IF acked THEN "insert" ELSE "case")
    /\ UNCHANGED <<operatorVars, sync, projectionVars, worldVars, snap,
                   inventoryVars, serviceVars, upsets>>

(* The unique key (machine, movement) refuses a second row; here nobody     *)
(* catches that.                                                            *)
insertReconciliation(c) ==
    LET m == call[c].move IN
    /\ At(c, "case")
    /\ \/ /\ raw[m] = "none"
          /\ raw' = [raw EXCEPT ![m] = "open"]
          /\ Answer(c, "reconciliation")
       \/ /\ raw[m] # "none"
          /\ Answer(c, "error")
          /\ UNCHANGED raw
    /\ UNCHANGED <<operatorVars, sync, projectionVars, worldVars, snap,
                   inventoryVars, acked, applied, torn, upsets>>

insertAccepted(c) ==
    LET m == call[c].move IN
    /\ At(c, "insert")
    /\ \/ /\ raw[m] = "none"
          /\ raw' = [raw EXCEPT ![m] = "accepted"]
          /\ Go(c, "apply")
       \/ /\ raw[m] # "none"
          /\ Answer(c, ExistingAnswer(m))
          /\ UNCHANGED raw
    /\ UNCHANGED <<operatorVars, sync, projectionVars, worldVars, snap,
                   inventoryVars, acked, applied, torn, upsets>>

(* A count overwrites whatever is there, a refill finds what the machine    *)
(* had before it.                                                           *)
Fits(m) == move[m].kind = "refill" => onHand[Slot(m)] = move[m].before

(* The check on the table: reserved_qty <= on_hand_qty. *)
Covers(s, quantity) == reserved[s] <= quantity

SetOnHand(s, quantity, delta) ==
    /\ onHand' = [onHand EXCEPT ![s] = quantity]
    /\ ledger' = [ledger EXCEPT ![s] = @ + delta]

(* Mutation: the movement's own difference is booked for a count too. *)
ApplyReported(c) ==
    LET m == call[c].move IN
    /\ At(c, "apply")
    /\ \/ /\ Fits(m) /\ Covers(Slot(m), move[m].after)
          /\ SetOnHand(Slot(m), move[m].after, move[m].after - move[m].before)
          /\ applied' = [applied EXCEPT ![m] = @ + 1]
          /\ Go(c, "restore")
          /\ UNCHANGED torn
       \/ /\ Fits(m) /\ ~Covers(Slot(m), move[m].after)
          /\ torn' = torn \union {m}
          /\ Answer(c, "error")
          /\ UNCHANGED <<onHand, ledger, applied>>
       \/ /\ ~Fits(m)
          /\ Go(c, "mark")
          /\ UNCHANGED <<onHand, ledger, applied, torn>>
    /\ UNCHANGED <<operatorVars, sync, projectionVars, worldVars, snap, reserved, acked, raw, upsets>>

applyTrustedFieldStockMovement(c) ==
    LET m == call[c].move
        s == Slot(m) IN
    /\ At(c, "apply")
    /\ \/ /\ Fits(m) /\ Covers(s, move[m].after)
          /\ SetOnHand(s, move[m].after, move[m].after - onHand[s])
          /\ applied' = [applied EXCEPT ![m] = @ + 1]
          /\ Go(c, "restore")
          /\ UNCHANGED torn
       \/ /\ Fits(m) /\ ~Covers(s, move[m].after)
          /\ torn' = torn \union {m}
          /\ Answer(c, "error")
          /\ UNCHANGED <<onHand, ledger, applied>>
       \/ /\ ~Fits(m)
          /\ Go(c, "mark")
          /\ UNCHANGED <<onHand, ledger, applied, torn>>
    /\ UNCHANGED <<operatorVars, sync, projectionVars, worldVars, snap, reserved, acked, raw, upsets>>

(* Mutation: a movement that could not be applied is still answered as one. *)
MarkForgotten(c) ==
    /\ At(c, "mark")
    /\ Answer(c, "accepted")
    /\ UNCHANGED <<operatorVars, sync, projectionVars, worldVars, snap,
                   inventoryVars, serviceVars, upsets>>

markReconciliation(c) ==
    /\ At(c, "mark")
    /\ raw' = [raw EXCEPT ![call[c].move] = "open"]
    /\ Answer(c, "reconciliation")
    /\ UNCHANGED <<operatorVars, sync, projectionVars, worldVars, snap,
                   inventoryVars, acked, applied, torn, upsets>>

(* The operator has been at the slot: its open cases are settled. *)
restoreSlotAfterAcceptedLocalMaintenance(c) ==
    LET s == Slot(call[c].move) IN
    /\ At(c, "restore")
    /\ raw' = [m \in Movements |->
                  IF Slot(m) = s /\ raw[m] = "open" THEN "resolved" ELSE raw[m]]
    /\ Answer(c, "accepted")
    /\ UNCHANGED <<operatorVars, sync, projectionVars, worldVars, snap,
                   inventoryVars, acked, applied, torn, upsets>>

(* The service dies, or its database call fails: the uploader sees an error. *)
HandlerEnds(c) ==
    /\ ~At(c, "none") /\ ~At(c, "answer")
    /\ upsets < MaxUpsets
    /\ upsets' = upsets + 1
    /\ torn' = IF At(c, "apply") \/ At(c, "mark") THEN torn \union {call[c].move} ELSE torn
    /\ Answer(c, "error")
    /\ UNCHANGED <<operatorVars, sync, projectionVars, worldVars, snap,
                   inventoryVars, acked, raw, applied>>

-----------------------------------------------------------------------------
(* The operator at the platform, the acknowledgement and the snapshots. *)

resolveCase(m) ==
    /\ raw[m] = "open"
    /\ \/ /\ raw' = [raw EXCEPT ![m] = "rejected"]
          /\ UNCHANGED <<onHand, ledger>>
       \/ \E quantity \in Quantities :
              /\ Covers(Slot(m), quantity)
              /\ raw' = [raw EXCEPT ![m] = "corrected"]
              /\ SetOnHand(Slot(m), quantity, quantity - onHand[Slot(m)])
    /\ UNCHANGED <<operatorVars, sync, projectionVars, worldVars, call, snap,
                   reserved, acked, applied, torn, upsets>>

acknowledge_planogram ==
    /\ ~acked
    /\ acked' = TRUE
    /\ UNCHANGED <<operatorVars, sync, projectionVars, worldVars, call, snap,
                   inventoryVars, raw, applied, torn, upsets>>

HasOpenCase(s) == \E m \in Movements : Slot(m) = s /\ raw[m] = "open"

getStockSnapshotByMachineCode ==
    /\ ~snap.live
    /\ acked
    /\ snap' = [live |-> TRUE, onHand |-> onHand,
                free |-> [s \in Slots |-> IF HasOpenCase(s) THEN 0 ELSE onHand[s] - reserved[s]]]
    /\ UNCHANGED <<operatorVars, sync, projectionVars, worldVars, call,
                   inventoryVars, serviceVars, upsets>>

(* order_session_reserves_local_stock *)
OrderIsActive == \E o \in Sales : sale[o].at \in {"reserved", "dropped"}

(* The snapshot is refused while uploads are due or an order is active. *)
SnapshotIsWelcome == (\A m \in Movements : sync[m] # "open") /\ ~OrderIsActive

(* Mutation: a snapshot is the platform's last word on a slot. *)
ApplySnapshotAnyway ==
    /\ snap.live
    /\ \/ /\ SnapshotIsWelcome
          /\ Upsert(Slots, snap.onHand, snap.free, {}, FALSE)
          /\ UNCHANGED <<blocked, distrusted>>
       \/ /\ ~SnapshotIsWelcome
          /\ UNCHANGED projectionVars
    /\ snap' = NoSnap
    /\ UNCHANGED <<operatorVars, sync, worldVars, call, inventoryVars, serviceVars, upsets>>

apply_platform_stock_snapshot ==
    /\ snap.live
    /\ \/ /\ SnapshotIsWelcome
          /\ Upsert(Slots, snap.onHand, snap.free, blocked, FALSE)
          /\ UNCHANGED <<blocked, distrusted>>
       \/ /\ ~SnapshotIsWelcome
          /\ UNCHANGED projectionVars
    /\ snap' = NoSnap
    /\ UNCHANGED <<operatorVars, sync, worldVars, call, inventoryVars, serviceVars, upsets>>

-----------------------------------------------------------------------------
(* One order of one unit: the machine sells from its projection, the        *)
(* platform reserves; the drop is committed locally and confirmed by the    *)
(* result that follows.  Or the dispense fails, or nobody knows whether the *)
(* unit fell; then the machine holds the slot.                              *)

create_order(o, s) ==
    /\ sale[o].at = "none" /\ ~OrderIsActive
    /\ Offered(s)
    /\ onHand[s] - reserved[s] >= 1
    /\ reserved' = [reserved EXCEPT ![s] = @ + 1]
    /\ sale' = [sale EXCEPT ![o] = [at |-> "reserved", slot |-> s]]
    /\ UNCHANGED <<operatorVars, sync, projectionVars, real, call, snap,
                   onHand, ledger, serviceVars, upsets>>

(* At the platform, what became of a command that failed. *)
Ended(o) == IF sale[o].at = "failed" THEN "returned" ELSE "closed"

(* Cancelled, expired, or the dispense failed. *)
releaseReservation(o) ==
    /\ sale[o].at \in {"reserved", "failed"}
    /\ reserved' = [reserved EXCEPT ![sale[o].slot] = @ - 1]
    /\ sale' = [sale EXCEPT ![o].at = Ended(o)]
    /\ UNCHANGED <<operatorVars, sync, projectionVars, real, call, snap,
                   onHand, ledger, serviceVars, upsets>>

UnitDrops(o) ==
    /\ sale[o].at = "reserved"
    /\ real[sale[o].slot] > 0
    /\ real' = [real EXCEPT ![sale[o].slot] = @ - 1]
    /\ sale' = [sale EXCEPT ![o].at = "dropped"]
    /\ UNCHANGED <<operatorVars, sync, projectionVars, call, snap,
                   inventoryVars, serviceVars, upsets>>

apply_dispense_success_to_local_stock_in_tx(o) ==
    LET s == sale[o].slot
        after == [physical EXCEPT ![s] = @ - 1] IN
    /\ sale[o].at = "dropped"
    /\ physical[s] >= 1
    /\ Upsert({s}, after, after, blocked, FALSE)
    /\ sale' = [sale EXCEPT ![o].at = "committed"]
    /\ UNCHANGED <<operatorVars, sync, blocked, distrusted, real, call, snap,
                   inventoryVars, serviceVars, upsets>>

(* A failed result is journaled: nothing is taken from the stock, whether   *)
(* or not the unit fell.                                                    *)
commit_journaled_dispense_failure(o) ==
    /\ sale[o].at \in {"reserved", "dropped"}
    /\ upsets < MaxUpsets
    /\ upsets' = upsets + 1
    /\ sale' = [sale EXCEPT ![o].at = "failed"]
    /\ UNCHANGED <<operatorVars, sync, projectionVars, real, call, snap,
                   inventoryVars, serviceVars>>

(* Then, in a transaction of its own, the slot is frozen or suspect         *)
(* (update_slot_sales_state), which deletes its blocker; and once more      *)
(* whenever the command is delivered again.                                 *)
block_command_slot(o) ==
    LET s == sale[o].slot IN
    /\ sale[o].at \in {"failed", "returned"}
    /\ state' = [state EXCEPT ![s] = "held"]
    /\ blocked' = blocked \ {s}
    /\ distrusted' = distrusted \union {s}
    /\ UNCHANGED <<operatorVars, sync, physical, saleable, worldVars, call, snap,
                   inventoryVars, serviceVars, upsets>>

(* The result of a success, or an operator's word on a command that ended   *)
(* otherwise.                                                               *)
confirmReservation(o) ==
    LET s == sale[o].slot IN
    /\ sale[o].at \in {"committed", "failed"}
    /\ reserved' = [reserved EXCEPT ![s] = @ - 1]
    /\ SetOnHand(s, onHand[s] - 1, -1)
    /\ sale' = [sale EXCEPT ![o].at = Ended(o)]
    /\ UNCHANGED <<operatorVars, sync, projectionVars, real, call, snap, serviceVars, upsets>>

-----------------------------------------------------------------------------
Operator ==
    \/ stage_physical_stock_attestation_for_platform
    \/ \E added \in [Slots -> Quantities] : submit_refill_batch_in_tx(added)
    \/ \E m \in Movements : resolveCase(m)

Handler(c) ==
    \/ receiveRawMovement(c) \/ insertReconciliation(c) \/ insertAccepted(c)
    \/ applyTrustedFieldStockMovement(c) \/ markReconciliation(c)
    \/ restoreSlotAfterAcceptedLocalMaintenance(c)

Uploader(c) ==
    \/ \E m \in Movements : submit_stock_movement_upload(c, m)
    \/ record_stock_movement_upload_response(c)

Upset(c) == mark_stock_movement_upload_failed(c) \/ HandlerEnds(c)

Snapshot ==
    acknowledge_planogram \/ getStockSnapshotByMachineCode \/ apply_platform_stock_snapshot

Sale(o) ==
    \/ \E s \in Slots : create_order(o, s)
    \/ releaseReservation(o) \/ UnitDrops(o)
    \/ apply_dispense_success_to_local_stock_in_tx(o)
    \/ commit_journaled_dispense_failure(o) \/ block_command_slot(o)
    \/ confirmReservation(o)

Next ==
    \/ Operator
    \/ finalize_pending_physical_stock_attestation_if_accepted
    \/ \E c \in Calls : Handler(c) \/ Uploader(c) \/ Upset(c)
    \/ Snapshot
    \/ \E o \in Sales : Sale(o)

(* The handlers run on, the uploader's timer sends what is due and takes    *)
(* the answers, every five seconds; each reading of the task or the status  *)
(* finalizes.  Nothing is assumed of people, sales or the acknowledgement.  *)
Fairness ==
    /\ \A c \in Calls : WF_vars(Handler(c) \/ record_stock_movement_upload_response(c))
    /\ \A m \in Movements : WF_vars(\E c \in Calls : submit_stock_movement_upload(c, m))
    /\ WF_vars(finalize_pending_physical_stock_attestation_if_accepted)

Spec == Init /\ [][Next]_vars
FairSpec == Spec /\ Fairness

-----------------------------------------------------------------------------
(* A movement changes inventories at most once, however often it is         *)
(* uploaded: the unique row decides who applies it (receiveRawMovement).    *)
AppliedOnce == \A m \in Movements : applied[m] <= 1

Handled(m) == \E c \in Calls : call[c].move = m /\ call[c].at \in {"apply", "mark"}

(* What the platform keeps as accepted has been applied, is being applied,  *)
(* or its handler was cut off between the two transactions of               *)
(* receiveRawMovement; a refill that did not fit is never kept as accepted. *)
AcceptedIsApplied ==
    \A m \in Movements : raw[m] = "accepted" => applied[m] > 0 \/ m \in torn \/ Handled(m)

(* A slot with a movement that the platform did not take, or with a         *)
(* dispense whose failure was put on it, is not offered again before the    *)
(* operator has refilled or counted it: not by a snapshot, a later drop, a  *)
(* blocker that replaces a hold or a hold that replaces a blocker           *)
(* (upsert_stock_projection_with_state_in_tx and its callers,               *)
(* apply_sale_safety_blocker_in_tx, update_slot_sales_state).               *)
BlockedIsNotSold == \A s \in distrusted : ~Offered(s)

(* inventory_movements account for every change of on_hand_qty, though a    *)
(* count is made from a quantity the platform may not have had              *)
(* (applyTrustedFieldStockMovement, resolveCase, confirmReservation).       *)
LedgerSums == ledger = onHand

(* An upload comes to an end: its answer is recorded, whatever was lost or  *)
(* failed on the way (flush_due_once).                                      *)
UploadsEnd == \A m \in Movements : sync[m] = "open" ~> sync[m] # "open"

-----------------------------------------------------------------------------
(* Said of the code, and not so. *)

(* "only after every staged correction has a durable Platform acceptance    *)
(* receipt" (store.rs:5129): a movement the operator rejected is answered   *)
(* "already_accepted" when it is sent again, and its count committed.       *)
CommittedIsAccepted ==
    [][ pending.open /\ ~pending'.open
        => \A s \in Slots : raw[<<pending.of[s], s>>] \in {"accepted", "corrected"} ]_vars

(* An accepted count takes effect at the platform: one below reserved_qty   *)
(* fails after its row was written, and is "already_accepted" from then on. *)
CountTakesEffect == \A m \in Movements : sync[m] = "accepted" => m \notin torn

(* A drop is taken from the machine's stock: a count made after it, and     *)
(* committed before it, leaves nothing to take it from.                     *)
DropFindsStock == \A o \in Sales : sale[o].at = "dropped" => physical[sale[o].slot] >= 1
=============================================================================
