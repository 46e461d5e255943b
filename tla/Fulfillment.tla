----------------------------- MODULE Fulfillment -----------------------------
(***************************************************************************)
(* How the service API gets a paid order's units out of the machine.        *)
(*                                                                          *)
(* Each line has a dispatch command in the durable outbox; an operator may  *)
(* add one compensation command per order.  Commands, acknowledgements and  *)
(* results travel over MQTT, which loses, repeats and delays them: a        *)
(* message once sent may be received at any later time, any number of       *)
(* times, or never.  The machine keeps DispenseContract: it accepts a       *)
(* command it was sent and tells at most one outcome.  A success is         *)
(* confirmed in several steps and a recovery action in three, with crashes  *)
(* in between.                                                              *)
(*                                                                          *)
(* Left out: columns nothing here reads (the slot's sales status, retry     *)
(* counters, notifications, work orders, audit) and the message inbox,      *)
(* which only records.  Deadlines are steps that may come at any time.      *)
(***************************************************************************)
EXTENDS RefundLedger

CONSTANTS
    Stock,           \* on-hand units of each line's slot, the order's included
    MaxConfirming,   \* bound: confirmations under way at the same time
    OperatorActs     \* bound: what operators do: recovery actions, resolve, refund

Outcomes == {"confirm_dispensed", "confirm_not_dispensed"}
Remedies == {"request_refund", "compensation_dispense"}
RecoveryActions == Outcomes \union Remedies

ASSUME StockAssumption ==
    /\ Stock \in Nat \ {0}
    /\ MaxConfirming \in Nat
    /\ OperatorActs \subseteq (RecoveryActions \union {"resolve", "refund"})

Commands == [line : Lines, kind : {"dispatch", "compensation"}]

VARIABLES
    order,        \* the rows of RefundLedger
    command,      \* vending_commands.status, "none" before the row exists
    reservation,  \* inventory_reservations.status, the row made for a command
    onHand,       \* inventories.on_hand_qty, by line
    reserved,     \* inventories.reserved_qty, by line
    others,       \* units of the slot reserved by other orders (history)
    movement,     \* machine_raw_stock_movements.status, by command and source
    action,       \* order_recovery_actions.status
    about,        \* order_recovery_actions.command_id, {} before the row exists
    dispatching,  \* commands a dispatcher has read as pending
    confirming,   \* successes on their way to the confirming transaction
    acting,       \* recovery requests under way
    published,    \* commands handed to the broker
    machine       \* what the machine has told of a command (external)

stockVars   == <<reservation, onHand, reserved, others>>
recoverVars == <<action, about, acting>>
procVars    == <<dispatching, confirming>>
vars == <<order, command, stockVars, movement, recoverVars, procVars, published, machine>>

MachineOutcomes == {"success", "failure", "unknown"}

CommandStatuses ==
    {"pending", "sent", "acknowledged", "succeeded", "failed", "result_unknown"}
Claimable == {"pending", "sent", "acknowledged", "result_unknown"}

(* The movement ids of the three ways a success arrives: the resolve        *)
(* endpoint and the recovery action share theirs.                           *)
Sources == {"mqtt", "manual"}
Ways == {"mqtt", "resolve", "recovery"}
SourceOf(way) == IF way = "mqtt" THEN "mqtt" ELSE "manual"
Confirmations == [command : Commands, way : Ways, step : {"lookup", "confirm"}]
Confirmation(c, way, step) == [command |-> c, way |-> way, step |-> step]

TypeOK ==
    /\ order \in Books
    /\ command \in [Commands -> CommandStatuses \union {"none"}]
    /\ reservation \in [Commands -> {"none", "active", "confirmed", "released"}]
    /\ onHand \in [Lines -> Nat]
    /\ reserved \in [Lines -> Nat]
    /\ others \in [Lines -> Nat]
    /\ movement \in [Commands \X Sources -> {"none", "accepted", "reconciliation"}]
    /\ action \in [RecoveryActions -> {"none", "started", "completed", "failed"}]
    /\ about \in [RecoveryActions -> SUBSET Commands]
    /\ dispatching \subseteq Commands
    /\ confirming \subseteq Confirmations
    /\ acting \in [RecoveryActions ->
                      {"idle", "started", "confirming", "done", "refused"}]
    /\ published \subseteq Commands
    /\ machine \in [Commands -> {"nothing", "accepted"} \union MachineOutcomes]

Dispatch(l) == [line |-> l, kind |-> "dispatch"]
Compensation(l) == [line |-> l, kind |-> "compensation"]
CommandsOf(l) == {Dispatch(l), Compensation(l)}

(* The payment has just settled: order paid, stock reserved, one pending    *)
(* dispatch command per line.                                               *)
Init ==
    /\ order = PaidOrder
    /\ command = [c \in Commands |-> IF c.kind = "dispatch" THEN "pending" ELSE "none"]
    /\ reservation = [c \in Commands |-> IF c.kind = "dispatch" THEN "active" ELSE "none"]
    /\ onHand = [l \in Lines |-> Stock]
    /\ reserved = [l \in Lines |-> 1]
    /\ others = [l \in Lines |-> 0]
    /\ movement = [m \in Commands \X Sources |-> "none"]
    /\ action = [a \in RecoveryActions |-> "none"]
    /\ about = [a \in RecoveryActions |-> {}]
    /\ dispatching = {}
    /\ confirming = {}
    /\ acting = [a \in RecoveryActions |-> "idle"]
    /\ published = {}
    /\ machine = [c \in Commands |-> "nothing"]

-----------------------------------------------------------------------------
(* Stock.                                                                   *)

ActiveRows(l) == {c \in CommandsOf(l) : reservation[c] = "active"}

(* Mutation: any row of the line is released again.                         *)
ReleaseAnyRow(l) ==
    \E c \in CommandsOf(l) :
        /\ reserved[l] >= 1 /\ reservation[c] # "none"
        /\ reserved' = [reserved EXCEPT ![l] = @ - 1]
        /\ reservation' = [reservation EXCEPT ![c] = "released"]
        /\ UNCHANGED <<onHand, others>>

releaseReservation(l) ==
    \/ /\ ActiveRows(l) = {}
       /\ UNCHANGED stockVars
    \/ \E c \in ActiveRows(l) :
        /\ reserved[l] >= 1
        /\ reserved' = [reserved EXCEPT ![l] = @ - 1]
        /\ reservation' = [reservation EXCEPT ![c] = "released"]
        /\ UNCHANGED <<onHand, others>>

(* The sweep of expired reservations looks at their time only.              *)
releaseExpiredInventoryReservations(l) ==
    /\ ActiveRows(l) # {}
    /\ releaseReservation(l)
    /\ UNCHANGED <<order, command, movement, recoverVars, procVars, published, machine>>

(* Another order takes a free unit of the same slot.                        *)
reserveForOrder(l) ==
    /\ onHand[l] - reserved[l] >= 1
    /\ reserved' = [reserved EXCEPT ![l] = @ + 1]
    /\ others' = [others EXCEPT ![l] = @ + 1]
    /\ UNCHANGED <<order, command, reservation, onHand, movement, recoverVars,
                   procVars, published, machine>>

-----------------------------------------------------------------------------
(* The outbox.  A dispatcher reads the pending commands, publishes each and *)
(* then marks it sent; dispatchers overlap and die anywhere.  Reading and   *)
(* publishing are one step: a message may be received late anyway.          *)

dispatchPendingCommandsForOrder(c) ==
    /\ command[c] = "pending"
    /\ dispatching' = dispatching \union {c}
    /\ published' = published \union {c}
    /\ UNCHANGED <<order, command, stockVars, movement, recoverVars, confirming,
                   machine>>

(* Mutation: the command is marked sent whatever happened meanwhile.        *)
MarkSentBlindly(c) ==
    /\ c \in dispatching
    /\ command' = [command EXCEPT ![c] = "sent"]
    /\ dispatching' = dispatching \ {c}
    /\ UNCHANGED <<order, stockVars, movement, recoverVars, confirming, published,
                   machine>>

markPendingCommandSent(c) ==
    /\ c \in dispatching
    /\ command' = IF command[c] = "pending"
                  THEN [command EXCEPT ![c] = "sent"] ELSE command
    /\ dispatching' = dispatching \ {c}
    /\ UNCHANGED <<order, stockVars, movement, recoverVars, confirming, published,
                   machine>>

(* Mutation: an acknowledgement is taken at any time.                       *)
AckAnyTime(c) ==
    /\ machine[c] # "nothing" /\ command[c] # "none"
    /\ command' = [command EXCEPT ![c] = "acknowledged"]
    /\ UNCHANGED <<order, stockVars, movement, recoverVars, procVars, published,
                   machine>>

handleCommandAck(c) ==
    /\ machine[c] # "nothing"
    /\ command[c] \in {"pending", "sent"}
    /\ command' = [command EXCEPT ![c] = "acknowledged"]
    /\ UNCHANGED <<order, stockVars, movement, recoverVars, procVars, published,
                   machine>>

-----------------------------------------------------------------------------
(* The end of a command.                                                    *)

(* Nobody knows: the order goes to an operator, stock stays reserved.       *)
MarkUnknown(c, eligible) ==
    /\ command[c] \in eligible
    /\ command' = [command EXCEPT ![c] = "result_unknown"]
    /\ order' = IF order.status = "manual_handling" THEN order
                ELSE [order EXCEPT
                        !.status = projectOrderStatus(order.paymentState, "manual_handling"),
                        !.fulfillmentState = "manual_handling"]
    /\ UNCHANGED <<stockVars, movement, recoverVars, procVars, published, machine>>

Fresh(b) == {r \in Refunds : b.refund[r] = "none"}

(* The unit stayed in the slot: its stock is free, the line failed, and     *)
(* what failed is refunded unless the operator is to decide.                *)
FailCommand(c, stageRefund) ==
    /\ command' = [command EXCEPT ![c] = "failed"]
    /\ releaseReservation(c.line)
    /\ \E r \in Fresh(order) :
        LET marked == markOrderLineFailed(order, c.line)
        IN order' = IF stageRefund THEN stageFailedLineRefund(marked, r) ELSE marked

(* Mutations: an overdue command is taken for a failed one; an acknowledged *)
(* command does not become overdue.                                         *)
TimeoutFails(c) ==
    /\ command[c] \in {"sent", "acknowledged"}
    /\ FailCommand(c, TRUE)
    /\ UNCHANGED <<movement, recoverVars, procVars, published, machine>>
AcknowledgedWaits(c) == MarkUnknown(c, {"sent"})

(* A sent command whose answer is overdue.                                  *)
markTimedOutCommands(c) == MarkUnknown(c, {"sent", "acknowledged"})

BeginConfirmation(c, way) ==
    /\ Cardinality(confirming) < MaxConfirming
    /\ confirming' = confirming \union {Confirmation(c, way, "lookup")}

(* Dispense results, in any order and any number of times.                  *)
SuccessResult(c) ==
    /\ machine[c] = "success"
    /\ command[c] \in Claimable
    /\ BeginConfirmation(c, "mqtt")
    /\ UNCHANGED <<order, command, stockVars, movement, recoverVars, dispatching,
                   published, machine>>

UnknownResult(c) ==
    /\ machine[c] = "unknown"
    /\ MarkUnknown(c, {"pending", "sent", "acknowledged"})

FailureResult(c) ==
    /\ machine[c] = "failure"
    /\ command[c] \in Claimable
    /\ FailCommand(c, TRUE)
    /\ UNCHANGED <<movement, recoverVars, procVars, published, machine>>

handleDispenseResult(c) == SuccessResult(c) \/ UnknownResult(c) \/ FailureResult(c)

-----------------------------------------------------------------------------
(* A success: the movement is looked up by its id, then everything changes  *)
(* in one transaction.  A repeated result carries the time it had; what an  *)
(* operator confirms carries the present time, and conflicts with any       *)
(* movement of that id.                                                     *)

AlreadyAccepted(c, way) == way = "mqtt" /\ movement[<<c, "mqtt">>] = "accepted"

(* A recovery request goes on when its confirmation ends.                   *)
Resume(way, accepted) ==
    /\ acting' = IF way # "recovery" THEN acting
                 ELSE [acting EXCEPT !["confirm_dispensed"] =
                          IF accepted THEN "done" ELSE "refused"]
    /\ UNCHANGED <<action, about>>

(* Without an active reservation the movement is put aside, for good.       *)
receiveRawMovement(c, way) ==
    LET new == movement[<<c, SourceOf(way)>>] = "none"
        reservedStill == ActiveRows(c.line) # {}
    IN  /\ Confirmation(c, way, "lookup") \in confirming
        /\ confirming' = (confirming \ {Confirmation(c, way, "lookup")}) \union
             (IF new /\ reservedStill THEN {Confirmation(c, way, "confirm")} ELSE {})
        /\ movement' = IF new /\ ~reservedStill
                       THEN [movement EXCEPT ![<<c, SourceOf(way)>>] = "reconciliation"]
                       ELSE movement
        /\ IF new /\ reservedStill THEN UNCHANGED recoverVars
           ELSE Resume(way, AlreadyAccepted(c, way))
        /\ UNCHANGED <<order, command, stockVars, dispatching, published, machine>>

(* Mutation: the command is not claimed first.                              *)
ConfirmUnclaimed(c) ==
    /\ onHand[c.line] >= 1 /\ reserved[c.line] >= 1
    /\ ActiveRows(c.line) # {}

CanConfirm(c) ==
    /\ command[c] \in Claimable
    /\ onHand[c.line] >= 1 /\ reserved[c.line] >= 1
    /\ ActiveRows(c.line) # {}

confirmOrderBoundDispenseSucceeded(c, way) ==
    LET key == <<c, SourceOf(way)>>
        ok == movement[key] = "none" /\ CanConfirm(c)
    IN  /\ Confirmation(c, way, "confirm") \in confirming
        /\ confirming' = confirming \ {Confirmation(c, way, "confirm")}
        /\ Resume(way, ok \/ AlreadyAccepted(c, way))
        /\ IF ok
           THEN /\ movement' = [movement EXCEPT ![key] = "accepted"]
                /\ command' = [command EXCEPT ![c] = "succeeded"]
                /\ onHand' = [onHand EXCEPT ![c.line] = @ - 1]
                /\ reserved' = [reserved EXCEPT ![c.line] = @ - 1]
                /\ reservation' = [k \in Commands |->
                     IF k \in ActiveRows(c.line) THEN "confirmed" ELSE reservation[k]]
                /\ \E r \in Fresh(order) :
                     order' = markOrderLineDispensed(order, c.line, r)
           ELSE UNCHANGED <<movement, command, onHand, reserved, reservation, order>>
        /\ UNCHANGED <<others, dispatching, published, machine>>

-----------------------------------------------------------------------------
(* An operator says what happened to a command.                             *)

resolveCommandAsDispensed(c) ==
    /\ "resolve" \in OperatorActs
    /\ command[c] \notin {"none", "failed"}
    /\ BeginConfirmation(c, "resolve")
    /\ UNCHANGED <<order, command, stockVars, movement, recoverVars, dispatching,
                   published, machine>>

ResolvableAsFailed == {"sent", "acknowledged", "result_unknown"}

resolveCommandAsNotDispensed(c, refund) ==
    /\ "resolve" \in OperatorActs
    /\ command[c] \in ResolvableAsFailed
    /\ FailCommand(c, refund)
    /\ UNCHANGED <<movement, recoverVars, procVars, published, machine>>

-----------------------------------------------------------------------------
(* Recovery actions: a row is started, the action done, the row ended.      *)
(* Unique indexes allow one physical outcome and one remedy per order.      *)

startRecoveryAction(a) ==
    /\ a \in OperatorActs
    /\ a \in Outcomes => \A b \in Outcomes : action[b] = "none"
    /\ a \in Remedies => /\ \A b \in Remedies : action[b] = "none"
                         /\ action["confirm_not_dispensed"] = "completed"
                         /\ ~ActiveRefundExists(order)
    /\ \E c \in Commands :
        /\ IF a \in Remedies THEN c \in about["confirm_not_dispensed"]
           ELSE command[c] = "result_unknown" /\ order.fulfillmentState = "manual_handling"
        /\ about' = [about EXCEPT ![a] = {c}]
    /\ action' = [action EXCEPT ![a] = "started"]
    /\ acting' = [acting EXCEPT ![a] = "started"]
    /\ UNCHANGED <<order, command, stockVars, movement, procVars, published, machine>>

Answer(a, how) ==
    /\ acting' = [acting EXCEPT ![a] = how]
    /\ UNCHANGED <<action, about>>

confirmDispensed(c) ==
    /\ acting["confirm_dispensed"] = "started" /\ c \in about["confirm_dispensed"]
    /\ IF command[c] = "failed"
       THEN Answer("confirm_dispensed", "refused") /\ UNCHANGED confirming
       ELSE Answer("confirm_dispensed", "confirming") /\ BeginConfirmation(c, "recovery")
    /\ UNCHANGED <<order, command, stockVars, movement, dispatching, published,
                   machine>>

(* A command that failed meanwhile is answered as done when it was seen     *)
(* failed before the transaction, and refused when it was not.              *)
confirmNotDispensed(c) ==
    LET a == "confirm_not_dispensed" IN
    /\ acting[a] = "started" /\ c \in about[a]
    /\ IF command[c] \in ResolvableAsFailed
       THEN FailCommand(c, FALSE) /\ Answer(a, "done")
       ELSE /\ UNCHANGED <<order, command, stockVars>>
            /\ \/ command[c] = "failed" /\ Answer(a, "done")
               \/ Answer(a, "refused")
    /\ UNCHANGED <<movement, procVars, published, machine>>

(* A compensation takes a free unit and a reservation of its own.           *)
createCompensationDispenseCommand(l) ==
    LET a == "compensation_dispense"  c == Compensation(l) IN
    /\ acting[a] = "started" /\ Dispatch(l) \in about[a]
    /\ IF onHand[l] - reserved[l] >= 1
       THEN /\ command' = [command EXCEPT ![c] = "pending"]
            /\ reservation' = [reservation EXCEPT ![c] = "active"]
            /\ reserved' = [reserved EXCEPT ![l] = @ + 1]
            /\ Answer(a, "done")
       ELSE /\ Answer(a, "refused")
            /\ UNCHANGED <<command, reservation, reserved>>
    /\ UNCHANGED <<order, onHand, others, movement, procVars, published, machine>>

(* A full refund in the operator's name; a second request returns the       *)
(* first one's row.                                                         *)
AdminRefund ==
    \/ /\ CanRequestFullRefund(order, "admin_refund")
       /\ \E r \in Fresh(order) : order' = requestFullRefund(order, r, "admin_refund")
    \/ Active(order, "admin_refund") /\ UNCHANGED order

requestRefund ==
    /\ acting["request_refund"] = "started"
    /\ \/ AdminRefund /\ Answer("request_refund", "done")
       \/ /\ ~Active(order, "admin_refund")
          /\ ~CanRequestFullRefund(order, "admin_refund")
          /\ Answer("request_refund", "refused")
          /\ UNCHANGED order
    /\ UNCHANGED <<command, stockVars, movement, procVars, published, machine>>

completeRecoveryAction(a) ==
    /\ acting[a] = "done"
    /\ action' = [action EXCEPT ![a] = "completed"]
    /\ acting' = [acting EXCEPT ![a] = "idle"]
    /\ UNCHANGED <<order, command, stockVars, movement, about, procVars, published,
                   machine>>

failRecoveryAction(a) ==
    /\ acting[a] = "refused"
    /\ action' = [action EXCEPT ![a] = "failed"]
    /\ acting' = [acting EXCEPT ![a] = "idle"]
    /\ UNCHANGED <<order, command, stockVars, movement, about, procVars, published,
                   machine>>

(* The refund endpoint of the order, outside the recovery actions.          *)
requestMockRefund ==
    /\ "refund" \in OperatorActs
    /\ AdminRefund
    /\ UNCHANGED <<command, stockVars, movement, recoverVars, procVars, published,
                   machine>>

-----------------------------------------------------------------------------
(* Refunds, as far as fulfilment meets them: an open one ends.  How, and    *)
(* what it does with a fulfilment state read earlier, is RefundDispatch's.  *)

RefundEnds(r, result) ==
    /\ order.refund[r] \in OpenRefundStatuses
    /\ order' = applyRefundTerminalState(order, r, result, order.fulfillmentState)
    /\ UNCHANGED <<command, stockVars, movement, recoverVars, procVars, published,
                   machine>>

-----------------------------------------------------------------------------
(* The service dies: what was under way is lost, the rows stay.             *)
Crash ==
    /\ dispatching' = {}
    /\ confirming' = {}
    /\ acting' = [a \in RecoveryActions |-> "idle"]
    /\ UNCHANGED <<order, command, stockVars, movement, action, about, published,
                   machine>>

(* The machine's side of DispenseContract: Accept, then Conclude and Tell.  *)
MachineAccepts(c) ==
    /\ c \in published /\ machine[c] = "nothing"
    /\ machine' = [machine EXCEPT ![c] = "accepted"]
    /\ UNCHANGED <<order, command, stockVars, movement, recoverVars, procVars,
                   published>>

MachineTells(c) ==
    /\ machine[c] = "accepted"
    /\ \E r \in MachineOutcomes : machine' = [machine EXCEPT ![c] = r]
    /\ UNCHANGED <<order, command, stockVars, movement, recoverVars, procVars,
                   published>>

Outbox(c) ==
    \/ dispatchPendingCommandsForOrder(c) \/ markPendingCommandSent(c)
    \/ MachineAccepts(c) \/ MachineTells(c)

Results(c) ==
    \/ handleCommandAck(c) \/ handleDispenseResult(c) \/ markTimedOutCommands(c)
    \/ \E way \in Ways :
         receiveRawMovement(c, way) \/ confirmOrderBoundDispenseSucceeded(c, way)

Operator ==
    \/ \E c \in Commands :
        \/ resolveCommandAsDispensed(c)
        \/ \E refund \in BOOLEAN : resolveCommandAsNotDispensed(c, refund)
        \/ confirmDispensed(c) \/ confirmNotDispensed(c)
    \/ \E a \in RecoveryActions :
        startRecoveryAction(a) \/ completeRecoveryAction(a) \/ failRecoveryAction(a)
    \/ \E l \in Lines : createCompensationDispenseCommand(l)
    \/ requestRefund \/ requestMockRefund

StockStep(l) == releaseExpiredInventoryReservations(l) \/ reserveForOrder(l)

Next ==
    \/ \E c \in Commands : Outbox(c) \/ Results(c)
    \/ Operator
    \/ \E l \in Lines : StockStep(l)
    \/ \E r \in Refunds, result \in {"succeeded", "failed"} : RefundEnds(r, result)
    \/ Crash

Spec == Init /\ [][Next]_vars

(* The scheduler dispatches and times out every minute; a dispatcher is not *)
(* killed every time before it has marked the command.                      *)
FairSpec ==
    /\ Spec
    /\ \A c \in Commands :
        /\ WF_vars(dispatchPendingCommandsForOrder(c))
        /\ SF_vars(markPendingCommandSent(c))
        /\ WF_vars(markTimedOutCommands(c))

-----------------------------------------------------------------------------
(* Properties.                                                              *)

Having(l, status) == {c \in CommandsOf(l) : command[c] = status}

(* Stock follows the commands whatever is repeated, late or swept: the      *)
(* reserved quantity is that of the active rows and of other orders, each   *)
(* success takes exactly one unit, and no unit is promised twice            *)
(* (releaseReservation, confirmOrderBoundDispenseSucceeded,                 *)
(* createCompensationDispenseCommand).                                      *)
StockFollowsCommands ==
    \A l \in Lines :
        /\ reserved[l] = Cardinality(ActiveRows(l)) + others[l]
        /\ onHand[l] + Cardinality(Having(l, "succeeded")) = Stock
        /\ reserved[l] <= onHand[l]

(* A line has never two commands that can still give out a unit, or have:   *)
(* a compensation exists only when the dispatch command has failed.         *)
OneLiveCommand ==
    \A l \in Lines :
        \A c, d \in CommandsOf(l) :
            /\ command[c] \notin {"none", "failed"}
            /\ command[d] \notin {"none", "failed"}
            => c = d

(* However success and failure race, the rows of a line agree: it is        *)
(* dispensed when one of its commands has succeeded, with one confirmed     *)
(* reservation and one accepted movement, and failed or open otherwise.     *)
LineIsCoherent ==
    \A l \in Lines :
        LET given == Having(l, "succeeded") IN
        /\ (order.line[l] = "dispensed") <=> (given # {})
        /\ (order.line[l] = "dispense_failed") => (Having(l, "failed") # {})
        /\ (given = {}) <=> (\A c \in CommandsOf(l) : reservation[c] # "confirmed")
        /\ \A c \in CommandsOf(l), s \in Sources :
             (movement[<<c, s>>] = "accepted") => (c \in given)
        /\ \A c \in CommandsOf(l) :
             (c \in given) => (\E s \in Sources : movement[<<c, s>>] = "accepted")

(* Left to itself the service says of a command what the machine said of    *)
(* it: a timeout is never taken for a failure, nor a late answer for        *)
(* another one (handleDispenseResult, markTimedOutCommands).                *)
OutcomeIsMachines ==
    OperatorActs = {} =>
        \A c \in Commands :
            /\ (command[c] = "succeeded") => (machine[c] = "success")
            /\ (command[c] = "failed") => (machine[c] = "failure")

Covers(r, l) == order.reason[r] # PartialReason \/ order.lineRefundId[l] = r

(* Left to itself the service never returns the money of a line that gave   *)
(* out its unit: neither with the failed lines of the order nor in full     *)
(* (markOrderLinesFailedAndBuildRefundDecision, stageFailedLineRefund).     *)
UnitOrMoney ==
    OperatorActs = {} =>
        \A l \in Lines, r \in Refunds :
            (order.line[l] = "dispensed" /\ order.refund[r] # "none") => ~Covers(r, l)

(* Left to itself the service leaves no failed line unpaid: when the last   *)
(* line ends, whichever way, each failed one is covered by a refund or in   *)
(* an operator's hands (buildPendingFailedLinePartialRefundDecision).       *)
FailedIsRefunded ==
    (OperatorActs = {} /\ LinesIn(order, "pending") = {}) =>
        \A l \in LinesIn(order, "dispense_failed") :
            \/ order.lineRefund[l] = "manual_handling"
            \/ \E r \in Refunds : order.refund[r] # "none" /\ Covers(r, l)

(* What has ended stays ended, whatever is acknowledged, told, swept or     *)
(* resolved afterwards: a late message never reopens a command, a           *)
(* reservation or a movement, and a dispensed line stays dispensed          *)
(* (handleCommandAck, markPendingCommandSent, handleDispenseResult).        *)
KeepsEnds ==
    /\ \A c \in Commands :
          /\ command[c] \in {"succeeded", "failed"} => command'[c] = command[c]
          /\ reservation[c] \in {"confirmed", "released"} => reservation'[c] = reservation[c]
    /\ \A m \in Commands \X Sources : movement[m] # "none" => movement'[m] = movement[m]
    /\ \A l \in Lines : order.line[l] = "dispensed" => order'.line[l] = "dispensed"
EndsAreFinal == [][KeepsEnds]_vars

(* A command ends or is put before an operator: the outbox is dispatched,   *)
(* and what is not answered times out, over crashes and lost messages.      *)
CommandEnds ==
    \A c \in Commands :
        (command[c] \in {"pending", "sent", "acknowledged"}) ~>
            (command[c] \in {"succeeded", "failed", "result_unknown"})

(* Said of the code, and not so: "Refund and compensation recovery actions  *)
(* are mutually exclusive" (startRecoveryAction).                           *)
RefundOrCompensation ==
    ActiveRefundExists(order) =>
        \A l \in Lines : command[Compensation(l)] \in {"none", "failed"}

(* Said of the code, and not so: an order with a command whose result is    *)
(* unknown is in manual handling (markDispenseResultUnknown), where the     *)
(* recovery actions are offered.                                            *)
UnknownIsManual ==
    (\E c \in Commands : command[c] = "result_unknown") =>
        order.fulfillmentState = "manual_handling"

(* Said of the code, and not so: a delayed success is confirmed after the   *)
(* command was marked unknown (handleDispenseResult).                       *)
DelayedSuccessConfirms ==
    \A c \in Commands :
        (movement[<<c, "mqtt">>] = "reconciliation") => (command[c] \in {"succeeded", "failed"})
=============================================================================
