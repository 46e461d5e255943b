--------------------------- MODULE SerialDispense ---------------------------
(***************************************************************************)
(* How the daemon's serial adapter has the lower controller dispense        *)
(* (crates/vending-core/src/serial.rs).                                     *)
(*                                                                          *)
(* One call at a time opens the port, sends the dispense frame, repeats it  *)
(* when it is refused or stays unanswered, and follows the controller's     *)
(* frames to the end.  The line is FIFO in each direction and loses frames; *)
(* frames carry no command number, so that the adapter can only tell from   *)
(* their order what they are about.  A read may run out of time whatever is *)
(* on its way.  The controller goes on whether or not somebody listens.     *)
(*                                                                          *)
(* A frame that is on the line when the port is closed is gone: the port    *)
(* purges what nobody read, and a controller that has not taken a frame by  *)
(* the end of its call never does.  F0, F1 and E5 are repeated or only warn *)
(* and are sent once here; AB, AC and AF are one heartbeat, "working".      *)
(***************************************************************************)
EXTENDS Naturals, Sequences

CONSTANTS
    MaxCalls,   \* bound: dispense calls, one after the other
    MaxLine,    \* bound: frames on the line, in each direction
    Repeats     \* how often the controller sends F2 (3)

ASSUME SerialAssumption ==
    /\ MaxCalls \in Nat
    /\ MaxLine \in Nat \ {0}
    /\ Repeats \in Nat \ {0}

COMMAND_ATTEMPTS == 3
Calls == 1 .. MaxCalls
Nobody == 0

VARIABLES
    call,        \* the call under way, or the last one
    adapter,     \* where it is, and its counters
    result,      \* what each call has returned
    down, up,    \* frames to the controller, frames to the daemon
    controller,  \* its state, the call it works for, F2 frames sent
    delivered,   \* calls whose unit arrived at the outlet
    overlapped,  \* calls that met a controller at work when they opened the port
    trouble      \* calls that met a late or lost frame, noise or a fault

daemonVars == <<call, adapter, result, overlapped>>
vars == <<daemonVars, down, up, controller, delivered, trouble>>

Working == {"dispensing", "pickup", "resetting"}
Faults == {"jammed", "blocked"}

(* LowerFrame, by what the adapter tells apart: event is F0 or E5, fault is *)
(* E3 or E6, as an answer or as a heartbeat.                                *)
Heartbeats == {"idle", "working"}
LowerFrames == Heartbeats \union {"ack", "busy", "crc", "event", "fault", "F1", "F2"}
UpperFrames == {"dispense", "query"}

Closed == [pc |-> "closed", attempt |-> 1, query |-> 1, last |-> FALSE,
           missed |-> 0, pickedUp |-> FALSE]

Adapters ==
    [pc : {"closed", "open", "ack", "query", "complete", "probe"},
     attempt : 1 .. COMMAND_ATTEMPTS, query : 1 .. COMMAND_ATTEMPTS, last : BOOLEAN,
     missed : 0 .. (COMMAND_ATTEMPTS - 1), pickedUp : BOOLEAN]

Controllers ==
    [state : {"idle"} \union Working \union Faults,
     work : Calls \union {Nobody}, sent : 0 .. Repeats]

TypeOK ==
    /\ call \in 0 .. MaxCalls
    /\ adapter \in Adapters
    /\ result \in [Calls -> {"none", "ok", "failed", "interrupted"}]
    /\ down \in Seq(UpperFrames) /\ Len(down) <= MaxLine
    /\ up \in Seq(LowerFrames) /\ Len(up) <= MaxLine
    /\ controller \in Controllers
    /\ delivered \subseteq Calls /\ overlapped \subseteq Calls /\ trouble \subseteq Calls

Init ==
    /\ call = 0
    /\ adapter = Closed
    /\ result = [c \in Calls |-> "none"]
    /\ down = <<>> /\ up = <<>>
    /\ controller = [state |-> "idle", work |-> Nobody, sent |-> 0]
    /\ delivered = {} /\ overlapped = {} /\ trouble = {}

At(pc) == adapter.pc = pc
Goto(pc) == [adapter EXCEPT !.pc = pc]

(* The line after a frame was sent: it is on its way, or lost.              *)
Sent(line, frame) ==
    {line} \union (IF Len(line) < MaxLine THEN {Append(line, frame)} ELSE {})

Blame == trouble' = trouble \union {call}

-----------------------------------------------------------------------------
(* The adapter: steps that send or end.                                     *)

Ends(outcome) ==
    /\ result' = [result EXCEPT ![call] = outcome]
    /\ adapter' = Closed
    /\ down' = <<>>

(* build_dispense_frame and a write: the next attempt waits for its ACK.    *)
SendDispense(attempt) ==
    /\ adapter' = [Closed EXCEPT !.pc = "ack", !.attempt = attempt]
    /\ down' \in Sent(down, "dispense")
    /\ UNCHANGED result

SendQuery(query, last) ==
    /\ adapter' = [adapter EXCEPT !.pc = "query", !.query = query, !.last = last]
    /\ down' \in Sent(down, "query")
    /\ UNCHANGED result

(* The loop over the attempts goes on, or ends in one more status query.    *)
NextAttempt ==
    IF adapter.attempt < COMMAND_ATTEMPTS
    THEN SendDispense(adapter.attempt + 1)
    ELSE SendQuery(1, TRUE)

(* The status query brought nothing that helps.                             *)
GiveUpQuery ==
    IF adapter.last THEN Ends("failed") ELSE NextAttempt

Follow ==
    /\ adapter' = [Closed EXCEPT !.pc = "complete"]
    /\ UNCHANGED <<result, down>>

Stay == UNCHANGED <<adapter, result, down>>

-----------------------------------------------------------------------------
(* The adapter: what a frame does to it, in the order of the code's match.  *)

(* Mutation: heartbeats are not expected before the ACK.                    *)
AckOnly(frame) ==
    \/ frame = "ack" /\ Follow
    \/ frame \in {"crc", "busy"} /\ NextAttempt
    \/ frame \notin {"ack", "crc", "busy"} /\ Ends("failed")

wait_for_ack(frame) ==
    \/ frame = "ack" /\ Follow
    \/ frame \in {"crc", "busy"} /\ NextAttempt
    \/ frame \in Heartbeats /\ Stay
    \/ frame \notin {"ack", "crc", "busy"} \union Heartbeats /\ Ends("failed")

(* Each query reads one frame.  A status ends the query; that the           *)
(* controller is at work stands for the ACK that is missing.                *)
query_status_after_missing_ack(frame) ==
    \/ frame = "working" /\ Follow
    \/ frame \in {"idle", "fault"} /\ GiveUpQuery
    \/ /\ frame \notin {"working", "idle", "fault"}
       /\ IF adapter.query < COMMAND_ATTEMPTS
          THEN SendQuery(adapter.query + 1, adapter.last) ELSE GiveUpQuery

(* Mutation: an idle controller has completed, pickup or not.               *)
IdleCompletes(frame) ==
    \/ frame \in {"F2", "idle"} /\ Ends("ok")
    \/ /\ frame = "F1"
       /\ adapter' = [adapter EXCEPT !.pickedUp = TRUE, !.missed = 0]
       /\ UNCHANGED <<result, down>>
    \/ frame \in {"ack", "event", "working"} /\ Stay
    \/ frame \in {"busy", "crc", "fault"} /\ Ends("failed")

wait_for_completion(frame) ==
    LET heard == [adapter EXCEPT !.missed = 0] IN
    \/ frame = "F2" /\ Ends("ok")
    \/ frame = "idle" /\ adapter.pickedUp /\ Ends("ok")
    \/ /\ frame = "F1"
       /\ adapter' = [heard EXCEPT !.pickedUp = TRUE]
       /\ UNCHANGED <<result, down>>
    \/ /\ frame \in {"ack", "event", "working"} \/ (frame = "idle" /\ ~adapter.pickedUp)
       /\ adapter' = heard
       /\ UNCHANGED <<result, down>>
    \/ frame \in {"busy", "crc", "fault"} /\ Ends("failed")

Missed ==
    IF adapter.missed + 1 < COMMAND_ATTEMPTS
    THEN /\ adapter' = [adapter EXCEPT !.pc = "complete", !.missed = @ + 1]
         /\ UNCHANGED <<result, down>>
    ELSE Ends("failed")

(* Any status will do, also a fault; what else is read is thrown away.      *)
probe_handshake(frame) ==
    \/ /\ frame \in Heartbeats \union {"fault"}
       /\ adapter' = [adapter EXCEPT !.pc = "complete", !.missed = 0]
       /\ UNCHANGED <<result, down>>
    \/ frame \notin Heartbeats \union {"fault"} /\ Missed

-----------------------------------------------------------------------------
(* The adapter: its steps.                                                  *)

(* The port is opened and a first status awaited; a controller at work will *)
(* do, a fault or silence will not.                                         *)
open_operational_port_locked ==
    /\ At("closed") /\ call < MaxCalls
    /\ call' = call + 1
    /\ down' = <<>> /\ up' = <<>>
    /\ overlapped' = IF controller.state = "idle" THEN overlapped
                     ELSE overlapped \union {call'}
    /\ \/ /\ controller.state \notin Faults
          /\ adapter' = [Closed EXCEPT !.pc = "open"]
          /\ UNCHANGED <<result, trouble>>
       \/ /\ result' = [result EXCEPT ![call'] = "failed"]
          /\ trouble' = trouble \union {call'}
          /\ UNCHANGED adapter
    /\ UNCHANGED <<controller, delivered>>

dispense_inner ==
    /\ At("open") /\ SendDispense(1)
    /\ UNCHANGED <<call, up, controller, delivered, overlapped, trouble>>

Reads ==
    /\ up # <<>>
    /\ \/ At("ack") /\ wait_for_ack(Head(up))
       \/ At("query") /\ query_status_after_missing_ack(Head(up))
       \/ At("complete") /\ wait_for_completion(Head(up))
       \/ At("probe") /\ probe_handshake(Head(up))
    /\ up' = IF adapter'.pc = "closed" THEN <<>> ELSE Tail(up)
    /\ UNCHANGED <<call, controller, delivered, overlapped, trouble>>

(* No frame came in time.                                                   *)
TimesOut ==
    /\ \/ At("ack") /\ SendQuery(1, FALSE)
       \/ /\ At("query")
          /\ IF adapter.query < COMMAND_ATTEMPTS
             THEN SendQuery(adapter.query + 1, adapter.last) ELSE GiveUpQuery
       \/ At("complete") /\ adapter' = Goto("probe") /\ down' \in Sent(down, "query")
          /\ UNCHANGED result
       \/ At("probe") /\ Missed
    /\ Blame
    /\ up' = IF adapter'.pc = "closed" THEN <<>> ELSE up
    /\ UNCHANGED <<call, controller, delivered, overlapped>>

(* command_deadline, looked at where the completion is awaited.             *)
DeadlinePasses ==
    /\ At("complete") /\ Ends("failed")
    /\ Blame
    /\ up' = <<>>
    /\ UNCHANGED <<call, controller, delivered, overlapped>>

(* The daemon dies, or the local timeout of mqtt.rs drops the call.         *)
Interrupt ==
    /\ ~At("closed") /\ Ends("interrupted")
    /\ Blame
    /\ up' = <<>>
    /\ UNCHANGED <<call, controller, delivered, overlapped>>

-----------------------------------------------------------------------------
(* The controller (external), as its protocol document and the simulator    *)
(* describe it.                                                             *)

(* Nobody listens, the frame arrives, or it is lost.                        *)
Says(frame) ==
    \/ At("closed") /\ UNCHANGED <<up, trouble>>
    \/ /\ ~At("closed") /\ Len(up) < MaxLine
       /\ up' = Append(up, frame) /\ UNCHANGED trouble
    \/ ~At("closed") /\ Blame /\ UNCHANGED up

Status ==
    CASE controller.state = "idle" -> "idle"
      [] controller.state \in Working -> "working"
      [] controller.state \in Faults -> "fault"

Becomes(state) == controller' = [controller EXCEPT !.state = state]

(* An idle controller starts.  Otherwise the frame is thrown away and the   *)
(* answer is E4 (protocol) or the status (simulator).                       *)
start_dispense ==
    IF controller.state = "idle"
    THEN /\ controller' = [state |-> "dispensing", work |-> call, sent |-> 0]
         /\ Says("ack")
    ELSE /\ Says("busy") \/ Says(Status)
         /\ UNCHANGED controller

(* The frame was damaged on the way.                                        *)
Noise == Blame /\ up' \in Sent(up, "crc")

handle_upper_frame ==
    /\ down # <<>> /\ down' = Tail(down)
    /\ \/ Head(down) = "dispense" /\ start_dispense
       \/ Head(down) = "dispense" /\ Noise /\ UNCHANGED controller
       \/ Head(down) = "query" /\ Says(Status) /\ UNCHANGED controller
    /\ UNCHANGED <<daemonVars, delivered>>

heartbeat_loop ==
    /\ ~At("closed") /\ up' \in Sent(up, Status) \ {up}
    /\ UNCHANGED <<daemonVars, down, controller, delivered, trouble>>

(* F0, E5, F1 and the way home.                                             *)
run_dispense_sequence ==
    /\ \/ /\ controller.state = "dispensing" /\ Becomes("pickup")
          /\ delivered' = delivered \union {controller.work}
          /\ Says("event")
       \/ /\ controller.state = "pickup" /\ UNCHANGED <<controller, delivered>>
          /\ Says("event")
       \/ /\ controller.state = "pickup" /\ Becomes("resetting") /\ UNCHANGED delivered
          /\ Says("F1")
    /\ UNCHANGED <<daemonVars, down>>

finish_reset_successfully ==
    /\ controller.state = "resetting"
    /\ \/ /\ controller.sent < Repeats
          /\ controller' = [controller EXCEPT !.sent = @ + 1]
          /\ Says("F2")
       \/ /\ controller.sent = Repeats
          /\ controller' = [state |-> "idle", work |-> Nobody, sent |-> 0]
          /\ UNCHANGED <<up, trouble>>
    /\ UNCHANGED <<daemonVars, down, delivered>>

(* E3 on the way out or back; E6 when something is left on the platform.    *)
Fails ==
    /\ \/ controller.state \in {"dispensing", "resetting"} /\ Becomes("jammed")
       \/ controller.state = "resetting" /\ Becomes("blocked")
    /\ controller.sent = 0
    /\ IF At("closed") THEN UNCHANGED <<up, trouble>> ELSE Blame /\ up' \in Sent(up, "fault")
    /\ UNCHANGED <<daemonVars, down, delivered>>

(* An emptied platform, F2 and idle again; or the controller is restarted.  *)
Recovers ==
    /\ controller.state \in Faults
    /\ controller' = [state |-> "idle", work |-> Nobody, sent |-> 0]
    /\ IF controller.state = "blocked" THEN Says("F2") ELSE UNCHANGED <<up, trouble>>
    /\ UNCHANGED <<daemonVars, down, delivered>>

(* The fault reset holds the port; it may time out before the controller is *)
(* home.                                                                    *)
run_fault_reset_on_port ==
    /\ At("closed") /\ controller.state \in Faults
    /\ controller' = [state |-> "resetting", work |-> Nobody, sent |-> 0]
    /\ UNCHANGED <<daemonVars, down, up, delivered, trouble>>

Next ==
    \/ open_operational_port_locked \/ dispense_inner
    \/ Reads \/ TimesOut \/ DeadlinePasses \/ Interrupt
    \/ handle_upper_frame \/ heartbeat_loop
    \/ run_dispense_sequence \/ finish_reset_successfully
    \/ Fails \/ Recovers \/ run_fault_reset_on_port

Spec == Init /\ [][Next]_vars

-----------------------------------------------------------------------------
(* Properties.                                                              *)

(* A call that found the controller idle reports success only if its own    *)
(* unit arrived at the outlet: no stale completion, heartbeat or lost frame *)
(* is taken for it, in whatever order they come (wait_for_completion).      *)
SuccessIsOwn ==
    \A c \in Calls : result[c] = "ok" => c \in delivered \union overlapped

(* A call that found the controller idle fails only for a reason: a frame   *)
(* that was late or lost, noise, a fault or the deadline.  What the         *)
(* controller sends on its own, before and between its answers, never fails *)
(* a dispense (wait_for_ack, wait_for_completion).                          *)
FailureHasCause ==
    \A c \in Calls : result[c] = "failed" => c \in trouble \union overlapped

(* Said of the code, and not so: a status "at work" after a missing ACK     *)
(* means that the controller has taken the command, so that its completion  *)
(* is the command's (query_status_after_missing_ack).                       *)
SuccessIsDelivered ==
    \A c \in Calls : result[c] = "ok" => c \in delivered
=============================================================================
