---------------------------- MODULE DispenseDaemon ----------------------------
(***************************************************************************)
(* How the machine's daemon executes dispense commands                     *)
(* (apps/vending-daemon/src/mqtt.rs and state/store.rs).                   *)
(*                                                                         *)
(* Commands arrive over MQTT at least once.  The MQTT loop handles one     *)
(* message at a time: it acknowledges the command in the command log,      *)
(* marks it dispensing, drives the hardware, journals the outcome and      *)
(* commits its side effects (local stock, result outbox, order session)    *)
(* in one transaction, and blocks the slot of a failed dispense.  A worker *)
(* repeats side effects that could not be committed.  The process may die  *)
(* between any two of these steps; at start-up it looks once for commands  *)
(* that were interrupted long ago.  The outbox is published at least once. *)
(*                                                                         *)
(* Each step that commits to the local database is one action; what is     *)
(* only in memory is in phase, job and inflight and is lost in a crash.    *)
(* External: the server that issues commands, the broker, the hardware.    *)
(***************************************************************************)
EXTENDS Naturals

CONSTANTS
    Commands,       \* command numbers
    Orders,
    OrderOf,        \* the order of each command
    NoCommand,      \* an order session that knows of no command
    NoSession,      \* an order without a local session
    NoEvent,
    NoAnswer,
    MaxCrashes      \* bound: how often the daemon may die

ASSUME DaemonAssumption ==
    /\ OrderOf \in [Commands -> Orders]
    /\ NoCommand \notin Commands
    /\ NoSession \notin Commands
    /\ NoCommand # NoSession
    /\ MaxCrashes \in Nat

VARIABLES
    log,        \* command_log.status, "none" without a row
    result,     \* command_log.result_payload_json: the journaled outcome
    committed,  \* command_log.side_effects_committed_at is set
    moved,      \* number of stock movements "dispense:<command>"
    outbox,     \* outbox_events
    session,    \* order_sessions: the command its last known status names
    finished,   \* order_sessions.next_action is a terminal one
    blocked,    \* the command's slot is frozen or suspect
    phase,      \* where the process is: down, its start-up scans, or up
    scan,       \* interrupted commands the start-up scan has yet to handle
    job,        \* what the MQTT loop (or the start-up scan) is doing
    inflight,   \* the outbox event handed to the MQTT client
    answer,     \* the order status read from the server, not yet applied
    crashes,
    latest,     \* external: the server's latest command of each order
    issued,     \* external: commands the server has published
    starts,     \* external: how often the hardware was told to dispense
    drops,      \* external: units that left the slot
    wire        \* external: events that reached the broker

storeVars == <<log, result, committed, moved, outbox, session, finished, blocked>>
procVars  == <<phase, scan, job, inflight, answer, crashes>>
hardVars  == <<starts, drops>>
netVars   == <<latest, issued, wire>>
vars      == <<storeVars, procVars, hardVars, netVars>>

(* failure: a definite fault of the controller, and also the local timeout. *)
Outcomes == {"success", "failure", "unknown"}
Active   == {"acknowledged", "dispensing"}
Logs     == {"none"} \union Active \union {"succeeded", "failed"}

Ack(c)       == [kind |-> "ack", cmd |-> c, res |-> "none"]
Result(c, r) == [kind |-> "result", cmd |-> c, res |-> r]
Events == [kind : {"ack", "result"}, cmd : Commands, res : Outcomes \union {"none"}]

Statuses == [cmd : Commands \union {NoCommand}, final : BOOLEAN]

LoopSteps == {"acked", "start", "waiting", "journal", "commit", "block"}
ScanSteps == {"staleCommit", "staleBlock"}
Idle  == [pc |-> "idle", cmd |-> NoCommand, res |-> "none"]
Job(pc, c, r) == [pc |-> pc, cmd |-> c, res |-> r]
Jobs ==
    {Idle} \union
    [pc : LoopSteps \union ScanSteps, cmd : Commands, res : Outcomes \union {"none"}]

TypeOK ==
    /\ log \in [Commands -> Logs]
    /\ result \in [Commands -> Outcomes \union {"none"}]
    /\ committed \in [Commands -> BOOLEAN]
    /\ moved \in [Commands -> 0 .. 1]
    /\ outbox \subseteq Events
    /\ session \in [Orders -> Commands \union {NoCommand, NoSession}]
    /\ finished \in [Orders -> BOOLEAN]
    /\ blocked \in [Commands -> BOOLEAN]
    /\ phase \in {"down", "journaled", "stale", "up"}
    /\ scan \subseteq Commands
    /\ job \in Jobs
    /\ inflight \in Events \union {NoEvent}
    /\ answer \in [Orders -> {NoAnswer} \union Statuses]
    /\ crashes \in 0 .. MaxCrashes
    /\ latest \in [Orders -> Commands \union {NoCommand}]
    /\ issued \subseteq Commands
    /\ starts \in [Commands -> Nat]
    /\ drops \in [Commands -> Nat]
    /\ wire \subseteq Events

Init ==
    /\ log = [c \in Commands |-> "none"]
    /\ result = [c \in Commands |-> "none"]
    /\ committed = [c \in Commands |-> FALSE]
    /\ moved = [c \in Commands |-> 0]
    /\ outbox = {}
    /\ session \in [Orders -> {NoCommand, NoSession}]
    /\ finished = [o \in Orders |-> FALSE]
    /\ blocked = [c \in Commands |-> FALSE]
    /\ phase = "journaled"
    /\ scan = {}
    /\ job = Idle
    /\ inflight = NoEvent
    /\ answer = [o \in Orders |-> NoAnswer]
    /\ crashes = 0
    /\ latest = [o \in Orders |-> NoCommand]
    /\ issued = {}
    /\ starts = [c \in Commands |-> 0]
    /\ drops = [c \in Commands |-> 0]
    /\ wire = {}

At(pc)  == job.pc = pc
Goto(j) == job' = j

-----------------------------------------------------------------------------
(* The local store.                                                         *)

(* insert_outbox_in_tx: an event has a fixed id, a second insert replaces   *)
(* the first.                                                               *)
insert_outbox_in_tx(e) ==
    outbox' = {x \in outbox : x.kind # e.kind \/ x.cmd # e.cmd} \union {e}

(* record_command_result_journal: the first outcome stays.                  *)
record_command_result_journal(c, r) ==
    IF result[c] = "none"
    THEN /\ result' = [result EXCEPT ![c] = r]
         /\ log' = [log EXCEPT ![c] = IF r = "success" THEN "succeeded" ELSE "failed"]
    ELSE UNCHANGED <<result, log>>

(* commit_journaled_dispense_side_effects refuses an outcome that was not   *)
(* journaled, a success without a session, and a command that is not the    *)
(* one the order's session knows.                                           *)
CanCommit(c, r) ==
    /\ result[c] = r
    /\ \/ session[OrderOf[c]] = c
       \/ session[OrderOf[c]] = NoSession /\ r # "success"

(* An order that has a session gets the next action success or              *)
(* dispense_failed.                                                         *)
FinishSession(o) ==
    finished' = [finished EXCEPT ![o] = @ \/ session[o] # NoSession]

(* Mutation: the result is reported although the stock was not written.     *)
CommitReportsOnly(c, r) ==
    /\ result[c] = r
    /\ moved' = IF CanCommit(c, r) /\ r = "success" THEN [moved EXCEPT ![c] = 1] ELSE moved
    /\ insert_outbox_in_tx(Result(c, r))
    /\ committed' = [committed EXCEPT ![c] = CanCommit(c, r)]
    /\ FinishSession(OrderOf[c])

(* One transaction: stock, result event, the order session and the mark.    *)
commit_journaled_dispense_side_effects(c, r) ==
    /\ CanCommit(c, r)
    /\ moved' = IF r = "success" THEN [moved EXCEPT ![c] = 1] ELSE moved
    /\ insert_outbox_in_tx(Result(c, r))
    /\ committed' = [committed EXCEPT ![c] = TRUE]
    /\ FinishSession(OrderOf[c])

-----------------------------------------------------------------------------
(* handle_dispense_command.                                                 *)

(* Mutation: an unfinished command is executed when it is delivered again.  *)
ReceiveRestartsActive(c) ==
    /\ phase = "up" /\ At("idle") /\ c \in issued
    /\ \/ /\ result[c] # "none"
          /\ Goto(Job("commit", c, result[c]))
          /\ UNCHANGED <<log, outbox>>
       \/ /\ result[c] = "none"
          /\ log' = [log EXCEPT ![c] = "acknowledged"]
          /\ insert_outbox_in_tx(Ack(c))
          /\ Goto(Job("acked", c, "none"))
    /\ UNCHANGED <<result, committed, moved, session, finished, blocked>>
    /\ UNCHANGED <<phase, scan, inflight, answer, crashes, hardVars, netVars>>

(* A finished command is only committed again, an unfinished one ignored, a *)
(* new one acknowledged (record_command_ack_tx).                            *)
handle_dispense_command(c) ==
    /\ phase = "up" /\ At("idle") /\ c \in issued
    /\ \/ /\ result[c] # "none"
          /\ Goto(Job("commit", c, result[c]))
          /\ UNCHANGED <<log, outbox>>
       \/ /\ result[c] = "none" /\ log[c] \notin Active
          /\ log' = [log EXCEPT ![c] = "acknowledged"]
          /\ insert_outbox_in_tx(Ack(c))
          /\ Goto(Job("acked", c, "none"))
    /\ UNCHANGED <<result, committed, moved, session, finished, blocked>>
    /\ UNCHANGED <<phase, scan, inflight, answer, crashes, hardVars, netVars>>

mark_command_dispensing ==
    /\ At("acked")
    /\ log' = [log EXCEPT ![job.cmd] = "dispensing"]
    /\ Goto(Job("start", job.cmd, "none"))
    /\ UNCHANGED <<result, committed, moved, outbox, session, finished, blocked>>
    /\ UNCHANGED <<phase, scan, inflight, answer, crashes, hardVars, netVars>>

(* The lower controller is told to dispense ...                             *)
dispense_with_progress ==
    /\ At("start")
    /\ starts' = [starts EXCEPT ![job.cmd] = @ + 1]
    /\ Goto(Job("waiting", job.cmd, "none"))
    /\ UNCHANGED <<storeVars, phase, scan, inflight, answer, crashes, drops, netVars>>

(* ... or it is not there, and nothing moves.                               *)
HardwareRefuses ==
    /\ At("start")
    /\ Goto(Job("journal", job.cmd, "failure"))
    /\ UNCHANGED <<storeVars, phase, scan, inflight, answer, crashes, hardVars, netVars>>

(* The controller reports a drop or a fault, says that it does not know, or *)
(* the local timeout ends the wait: the mechanism may still be moving.      *)
HardwareAnswers ==
    /\ At("waiting")
    /\ \E r \in Outcomes :
          /\ r = "success" => drops[job.cmd] > 0
          /\ Goto(Job("journal", job.cmd, r))
    /\ UNCHANGED <<storeVars, phase, scan, inflight, answer, crashes, hardVars, netVars>>

Journal ==
    /\ At("journal")
    /\ record_command_result_journal(job.cmd, job.res)
    /\ Goto(Job("commit", job.cmd, job.res))
    /\ UNCHANGED <<committed, moved, outbox, session, finished, blocked>>
    /\ UNCHANGED <<phase, scan, inflight, answer, crashes, hardVars, netVars>>

Commit ==
    /\ At("commit")
    /\ commit_journaled_dispense_side_effects(job.cmd, job.res)
    /\ Goto(IF job.res = "success" THEN Idle ELSE Job("block", job.cmd, job.res))
    /\ UNCHANGED <<log, result, session, blocked>>
    /\ UNCHANGED <<phase, scan, inflight, answer, crashes, hardVars, netVars>>

(* A database error, a commit that is refused, or a slot that is not in the *)
(* counted planogram: the handler returns the error and the rest of its     *)
(* steps is left out.                                                       *)
HandlerFails ==
    /\ job.pc \in {"acked", "journal", "commit", "block"}
    /\ Goto(Idle)
    /\ UNCHANGED <<storeVars, phase, scan, inflight, answer, crashes, hardVars, netVars>>

block_slot_for_dispense_failure ==
    /\ At("block")
    /\ blocked' = [blocked EXCEPT ![job.cmd] = TRUE]
    /\ Goto(Idle)
    /\ UNCHANGED <<log, result, committed, moved, outbox, session, finished>>
    /\ UNCHANGED <<phase, scan, inflight, answer, crashes, hardVars, netVars>>

-----------------------------------------------------------------------------
(* Recovery.                                                                *)

(* Mutation: side effects are only repeated at start-up.                    *)
RecoverAtStartOnly(c) ==
    /\ phase = "journaled"
    /\ result[c] # "none" /\ ~committed[c]
    /\ commit_journaled_dispense_side_effects(c, result[c])
    /\ UNCHANGED <<log, result, session, blocked>>
    /\ UNCHANGED <<phase, scan, job, inflight, answer, crashes, hardVars, netVars>>

(* Mutation: an outcome that was not committed is reported as unknown.      *)
RecoverAsUnknown(c) ==
    /\ phase \in {"journaled", "up"}
    /\ result[c] # "none" /\ ~committed[c]
    /\ insert_outbox_in_tx(Result(c, "unknown"))
    /\ committed' = [committed EXCEPT ![c] = TRUE]
    /\ FinishSession(OrderOf[c])
    /\ UNCHANGED <<log, result, moved, session, blocked>>
    /\ UNCHANGED <<phase, scan, job, inflight, answer, crashes, hardVars, netVars>>

(* At start-up and every 30 seconds; an error leaves the row for the next   *)
(* round.                                                                   *)
recover_journaled_dispense_side_effects(c) ==
    /\ phase \in {"journaled", "up"}
    /\ result[c] # "none" /\ ~committed[c]
    /\ commit_journaled_dispense_side_effects(c, result[c])
    /\ UNCHANGED <<log, result, session, blocked>>
    /\ UNCHANGED <<phase, scan, job, inflight, answer, crashes, hardVars, netVars>>

(* list_active_unfinished_commands: what an earlier run did not finish.     *)
Interrupted == {c \in Commands : log[c] \in Active /\ result[c] = "none"}

(* The second start-up scan: those that are past their deadline get the     *)
(* outcome unknown.                                                         *)
recover_stale_active_dispense_commands(c) ==
    /\ phase = "stale" /\ At("idle") /\ c \in scan
    /\ record_command_result_journal(c, "unknown")
    /\ scan' = scan \ {c}
    /\ Goto(Job("staleCommit", c, "unknown"))
    /\ UNCHANGED <<committed, moved, outbox, session, finished, blocked>>
    /\ UNCHANGED <<phase, inflight, answer, crashes, hardVars, netVars>>

StaleCommit ==
    /\ At("staleCommit")
    /\ commit_journaled_dispense_side_effects(job.cmd, job.res)
    /\ Goto(Job("staleBlock", job.cmd, job.res))
    /\ UNCHANGED <<log, result, session, blocked>>
    /\ UNCHANGED <<phase, scan, inflight, answer, crashes, hardVars, netVars>>

(* An error ends the scan; the remaining commands wait for a restart.       *)
StaleScanFails ==
    /\ phase = "stale"
    /\ Goto(Idle) /\ phase' = "up" /\ scan' = {}
    /\ UNCHANGED <<storeVars, inflight, answer, crashes, hardVars, netVars>>

block_slot_for_dispense_result_unknown ==
    /\ At("staleBlock")
    /\ blocked' = [blocked EXCEPT ![job.cmd] = TRUE]
    /\ Goto(Idle)
    /\ UNCHANGED <<log, result, committed, moved, outbox, session, finished>>
    /\ UNCHANGED <<phase, scan, inflight, answer, crashes, hardVars, netVars>>

(* run: the scans in their order, then the MQTT loop.                       *)
run ==
    /\ At("idle")
    /\ \/ /\ phase = "journaled" /\ phase' = "stale"
          /\ scan' \in SUBSET Interrupted  \* is_stale_for_restart_recovery
       \/ /\ phase = "stale" /\ scan = {} /\ phase' = "up"
          /\ UNCHANGED scan
    /\ UNCHANGED <<storeVars, job, inflight, answer, crashes, hardVars, netVars>>

Crash ==
    /\ phase # "down" /\ crashes < MaxCrashes
    /\ phase' = "down" /\ crashes' = crashes + 1
    /\ Goto(Idle) /\ scan' = {} /\ inflight' = NoEvent
    /\ answer' = [o \in Orders |-> NoAnswer]
    /\ UNCHANGED <<storeVars, hardVars, netVars>>

Restart ==
    /\ phase = "down"
    /\ phase' = "journaled"
    /\ UNCHANGED <<storeVars, scan, job, inflight, answer, crashes, hardVars, netVars>>

-----------------------------------------------------------------------------
(* The outbox: one event at a time is claimed and handed to the MQTT        *)
(* client, also while a command is executed.                                *)
flush_due_outbox(e) ==
    /\ phase = "up"
    /\ e \in outbox /\ inflight = NoEvent
    /\ inflight' = e
    /\ UNCHANGED <<storeVars, phase, scan, job, answer, crashes, hardVars, netVars>>

(* The client sends, and sends again after a reconnect, only while the loop *)
(* polls it, that is between two commands.                                  *)
Transmit ==
    /\ phase = "up" /\ At("idle") /\ inflight # NoEvent
    /\ wire' = wire \union {inflight}
    /\ UNCHANGED <<storeVars, procVars, hardVars, latest, issued>>

(* The broker has the event.  When its row cannot be removed it is sent     *)
(* again.                                                                   *)
acknowledge_mqtt_outbox_publish ==
    /\ phase = "up" /\ At("idle") /\ inflight # NoEvent /\ inflight \in wire
    /\ \/ outbox' = {x \in outbox : x.kind # inflight.kind \/ x.cmd # inflight.cmd}
       \/ outbox' = outbox
    /\ inflight' = NoEvent
    /\ UNCHANGED <<log, result, committed, moved, session, finished, blocked>>
    /\ UNCHANGED <<phase, scan, job, answer, crashes, hardVars, netVars>>

(* While its local session is unfinished the order's status is polled (the  *)
(* machine UI asks every two seconds, shutdown.rs once at start-up).  The   *)
(* status names the order's latest command, if there is one.  It may be     *)
(* final: once the server knows the command's end or has given it up, when  *)
(* a compensation command is the latest one, and also with no command yet,  *)
(* when the payment is with an operator, who may settle it later.           *)
refresh_current_from_backend(o) ==
    /\ phase # "down" /\ session[o] # NoSession /\ ~finished[o]
    /\ answer[o] = NoAnswer
    /\ \E final \in BOOLEAN :
          /\ session[o] # latest[o] \/ final
          /\ answer' = [answer EXCEPT ![o] = [cmd |-> latest[o], final |-> final]]
    /\ UNCHANGED <<storeVars, phase, scan, job, inflight, crashes, hardVars, netVars>>

(* The answer overwrites what was committed locally since it was read.      *)
apply_backend_order_status(o) ==
    /\ phase # "down" /\ answer[o] # NoAnswer
    /\ session' = [session EXCEPT ![o] = answer[o].cmd]
    /\ finished' = [finished EXCEPT ![o] = answer[o].final]
    /\ answer' = [answer EXCEPT ![o] = NoAnswer]
    /\ UNCHANGED <<log, result, committed, moved, outbox, blocked>>
    /\ UNCHANGED <<phase, scan, job, inflight, crashes, hardVars, netVars>>

-----------------------------------------------------------------------------
(* External.                                                                *)
Issue(c) ==
    /\ c \notin issued
    /\ issued' = issued \union {c}
    /\ latest' = [latest EXCEPT ![OrderOf[c]] = c]
    /\ UNCHANGED <<storeVars, procVars, hardVars, wire>>

(* A mechanism that jams never gets here.                                   *)
MotorDrops(c) ==
    /\ drops[c] < starts[c]
    /\ drops' = [drops EXCEPT ![c] = @ + 1]
    /\ UNCHANGED <<storeVars, procVars, starts, netVars>>

-----------------------------------------------------------------------------
JobStep ==
    \/ mark_command_dispensing \/ dispense_with_progress \/ HardwareRefuses
    \/ HardwareAnswers \/ Journal \/ Commit \/ HandlerFails
    \/ block_slot_for_dispense_failure
    \/ StaleCommit \/ StaleScanFails \/ block_slot_for_dispense_result_unknown

Next ==
    \/ JobStep \/ run \/ Crash \/ Restart \/ Transmit \/ acknowledge_mqtt_outbox_publish
    \/ \E c \in Commands :
          \/ handle_dispense_command(c)
          \/ recover_journaled_dispense_side_effects(c)
          \/ recover_stale_active_dispense_commands(c)
          \/ Issue(c) \/ MotorDrops(c)
    \/ \E e \in Events : flush_due_outbox(e)
    \/ \E o \in Orders : refresh_current_from_backend(o) \/ apply_backend_order_status(o)

Spec == Init /\ [][Next]_vars

(* The daemon is restarted, its loop and its workers go on, the database    *)
(* and the counted planogram take the side effects in the end, the order's  *)
(* status is polled while it is unfinished, and the broker is reachable     *)
(* again and again.                                                         *)
Fairness ==
    /\ WF_vars(Restart) /\ WF_vars(run) /\ WF_vars(JobStep)
    /\ \A c \in Commands :
          /\ WF_vars(recover_journaled_dispense_side_effects(c))
          /\ WF_vars(recover_stale_active_dispense_commands(c))
    /\ \A c \in Commands, r \in Outcomes : SF_vars(flush_due_outbox(Result(c, r)))
    /\ SF_vars(Transmit) /\ SF_vars(acknowledge_mqtt_outbox_publish)
    /\ \A o \in Orders :
          /\ WF_vars(session[o] # latest[o] /\ refresh_current_from_backend(o))
          /\ WF_vars(apply_backend_order_status(o))

FairSpec == Spec /\ Fairness

-----------------------------------------------------------------------------
(* Properties.                                                              *)

(* The hardware is told to dispense at most once for a command, however     *)
(* often the command is delivered and wherever the daemon dies (the         *)
(* ActiveDuplicate and DuplicateFinal returns of handle_dispense_command).  *)
MotorOnce == \A c \in Commands : starts[c] <= 1

(* What the loop or the scan holds in memory still agrees with the durable  *)
(* log when it is used: the mechanism was not started for a command that is *)
(* about to start it, the outcome about to be written is the first one, the *)
(* outcome about to be committed is the journaled one, and the scan only    *)
(* ends commands that nobody executes (the returns of                       *)
(* handle_dispense_command, the order of the calls in run).                 *)
MemoryIsCurrent ==
    /\ job.pc \in LoopSteps => phase = "up"
    /\ job.pc \in ScanSteps \/ scan # {} => phase = "stale"
    /\ scan \subseteq Interrupted
    /\ job.pc \in {"acked", "start"} => starts[job.cmd] = 0
    /\ job.pc \in {"acked", "start", "waiting", "journal"} => job.cmd \in Interrupted
    /\ job.pc = "journal" => job.res \in Outcomes
    /\ job.pc = "journal" /\ job.res = "success" => drops[job.cmd] > 0
    /\ job.pc \in {"commit", "block"} \union ScanSteps =>
          job.res \in Outcomes /\ result[job.cmd] = job.res

(* The log explains what happened to the mechanism: a command that was      *)
(* started is in the log, one that is final has an outcome, and a journaled *)
(* success was seen to drop.                                                *)
JournalExplains ==
    \A c \in Commands :
        /\ result[c] = "none" <=> log[c] \in {"none"} \union Active
        /\ log[c] = "none" => starts[c] = 0
        /\ drops[c] <= starts[c]
        /\ result[c] = "success" => drops[c] > 0

(* A server that hears of a command hears one outcome, the journaled one:   *)
(* neither the start-up scans nor a repeated delivery report another.       *)
ReportsAgree ==
    \A e \in outbox \union wire : e.kind = "result" => result[e.cmd] = e.res

(* A success that reached the broker was seen to drop and its stock         *)
(* movement is in the local ledger exactly once; no unit is taken off the   *)
(* ledger otherwise (apply_dispense_success_to_local_stock_in_tx).          *)
SuccessIsBacked ==
    \A c \in Commands :
        /\ Result(c, "success") \in wire => drops[c] = 1 /\ moved[c] = 1
        /\ moved[c] = 1 => drops[c] = 1 /\ result[c] = "success"

(* The side effects of an outcome become visible together: none before the  *)
(* commit, and after it the movement of a success and a report in the       *)
(* outbox or already sent (commit_journaled_dispense_side_effects).         *)
CommitIsWhole ==
    \A c \in Commands :
        IF committed[c]
        THEN /\ result[c] # "none"
             /\ moved[c] = IF result[c] = "success" THEN 1 ELSE 0
             /\ Result(c, result[c]) \in outbox \union wire
        ELSE /\ moved[c] = 0
             /\ \A e \in outbox \union wire : e.kind = "result" => e.cmd # c

(* The daemon keeps the contract: a unit leaves at most once, an outcome is *)
(* final, and what is told is the outcome.                                  *)
Contract == INSTANCE DispenseContract WITH
    stage   <- [c \in Commands |->
                   IF result[c] # "none" THEN "concluded"
                   ELSE IF log[c] # "none" THEN "accepted" ELSE "new"],
    outcome <- result,
    told    <- {t \in Commands \X Outcomes : Result(t[1], t[2]) \in wire}

KeepsContract == Contract!Spec

(* The order's session on the machine is over and names another command, or *)
(* none: the commit of c is refused and no poll will change that.           *)
ClosedTo(c) == finished[OrderOf[c]] /\ session[OrderOf[c]] # c

(* The journaled outcome of an order's latest command is reported in the    *)
(* end, although its first commit failed, the daemon died in between, or    *)
(* the order's session did not yet know the command                         *)
(* (run_journaled_dispense_recovery_worker).  The exceptions are an order   *)
(* without a session, one whose session was over before it knew the         *)
(* command, and a command that another one of its order has overtaken.      *)
JournaledIsReported ==
    \A c \in Commands :
        LET open == session[OrderOf[c]] # NoSession /\ latest[OrderOf[c]] = c /\ ~ClosedTo(c)
        IN  (result[c] # "none" /\ open) ~> (~open \/ \E r \in Outcomes : Result(c, r) \in wire)

(* Said of the code, and not so.  The recovery worker says of an outcome it *)
(* cannot commit that its side effects remain recoverable: the outcome of   *)
(* the order's latest command is committed in the end.                      *)
RemainsRecoverable ==
    \A c \in Commands :
        LET current == session[OrderOf[c]] # NoSession /\ latest[OrderOf[c]] = c
        IN  (result[c] # "none" /\ current) ~> (committed[c] \/ ~current)

(* The test unknown_dispense_result_freezes_local_slot_until_manual_clear   *)
(* says that an unknown outcome freezes its slot: when all side effects of  *)
(* an unknown outcome are marked as committed and the daemon waits for the  *)
(* next command, the slot is not on sale.                                   *)
UnknownFreezesSlot ==
    \A c \in Commands :
        phase = "up" /\ At("idle") /\ result[c] = "unknown" /\ committed[c] => blocked[c]
=============================================================================
