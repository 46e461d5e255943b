------------------------ MODULE SerialDispenseProofs ------------------------
(***************************************************************************)
(* Proofs about SerialDispense, for any number of calls, any capacity of    *)
(* the line and any number of repeated frames.                              *)
(***************************************************************************)
EXTENDS SerialDispense, SequenceTheorems, TLAPS

USE SerialAssumption DEF SerialAssumption

(* The port is open exactly during a call, which has not returned yet, and  *)
(* the line is empty outside of one.  A controller on its way out works for *)
(* some call.                                                               *)
PortInv ==
    /\ call = 0 => At("closed")
    /\ At("closed") => down = <<>> /\ up = <<>>
    /\ ~At("closed") => result[call] = "none"
    /\ \A c \in Calls : c > call => result[c] = "none"
    /\ controller.state \in {"dispensing", "pickup"} => controller.work # Nobody

Alone == ~At("closed") /\ call \notin overlapped

(* A call that found the controller idle: whatever the controller does is   *)
(* its work, and what announces the end of a pickup follows the delivery.   *)
OwnInv ==
    Alone =>
        /\ controller.state \in {"dispensing", "pickup"} => controller.work = call
        /\ controller.state \in {"pickup", "resetting", "blocked"} => call \in delivered
        /\ adapter.pickedUp => call \in delivered
        /\ \A i \in 1 .. Len(up) : up[i] \in {"F1", "F2"} => call \in delivered

Calm == Alone /\ call \notin trouble

(* What is on the line to the daemon: nothing that fails a call, heartbeats *)
(* only, or an ACK with nothing but heartbeats before it.                   *)
Harmless(line) == \A i \in 1 .. Len(line) : line[i] \notin {"busy", "crc", "fault"}
Quiet(line) == \A i \in 1 .. Len(line) : line[i] \in Heartbeats
AckFirst(line) ==
    \E i \in 1 .. Len(line) :
        /\ line[i] = "ack"
        /\ \A j \in 1 .. Len(line) : j < i => line[j] \in Heartbeats

(* A call that met no trouble either: the controller has not taken its one  *)
(* frame yet, or its ACK is the first frame that matters, or was read.      *)
CalmInv ==
    Calm =>
        /\ adapter.pc \in {"open", "ack", "complete"}
        /\ controller.state \notin Faults
        /\ Harmless(up)
        /\ At("open") => controller.state = "idle" /\ down = <<>> /\ Quiet(up)
        /\ At("ack") =>
             \/ /\ controller.state = "idle" /\ Quiet(up)
                /\ down = <<>> \/ down = <<"dispense">>
             \/ down = <<>> /\ AckFirst(up)
        /\ At("complete") => down = <<>>

IndInv ==
    /\ TypeOK /\ PortInv /\ OwnInv /\ CalmInv
    /\ SuccessIsOwn /\ FailureHasCause

-----------------------------------------------------------------------------
(* The lines.                                                               *)

(* What a sender does to the line it writes to.                             *)
LEMMA SentLine ==
    ASSUME NEW S, NEW line \in Seq(S), Len(line) <= MaxLine, NEW f \in S,
           NEW new \in Sent(line, f)
    PROVE  /\ new \in Seq(S) /\ Len(new) <= MaxLine
           /\ Len(line) <= Len(new)
           /\ \A i \in 1 .. Len(line) : new[i] = line[i]
           /\ \A i \in 1 .. Len(new) : i > Len(line) => new[i] = f
  <1>1. CASE new = line
    BY <1>1
  <1>2. CASE Len(line) < MaxLine /\ new = Append(line, f)
    <2>1. /\ new \in Seq(S) /\ Len(new) = Len(line) + 1
          /\ \A i \in 1 .. Len(line) : new[i] = line[i]
          /\ new[Len(line) + 1] = f
      BY <1>2, AppendProperties
    <2>. QED  BY <1>2, <2>1
  <1>. QED  BY <1>1, <1>2 DEF Sent

(* What a reader leaves.                                                    *)
LEMMA ReadLine ==
    ASSUME NEW S, NEW line \in Seq(S), line # <<>>, Len(line) <= MaxLine
    PROVE  /\ Head(line) \in S /\ Head(line) = line[1]
           /\ 1 \in 1 .. Len(line)
           /\ Tail(line) \in Seq(S) /\ Len(Tail(line)) <= MaxLine
           /\ \A i \in 1 .. Len(Tail(line)) : i + 1 \in 1 .. Len(line) /\ Tail(line)[i] = line[i + 1]
  <1>1. /\ Head(line) \in S /\ Tail(line) \in Seq(S)
        /\ Len(Tail(line)) = Len(line) - 1
        /\ \A i \in 1 .. Len(Tail(line)) : Tail(line)[i] = line[i + 1]
    BY HeadTailProperties
  <1>2. Len(line) \in Nat /\ Len(line) # 0
    OBVIOUS
  <1>. QED  BY <1>1, <1>2

LEMMA EmptyLine ==
    ASSUME NEW S
    PROVE  <<>> \in Seq(S) /\ Len(<<>>) <= MaxLine
  OBVIOUS

(* A frame the controller sends.                                            *)
LEMMA SaysLine ==
    ASSUME TypeOK, NEW f \in LowerFrames, Says(f)
    PROVE  /\ up' \in Sent(up, f)
           /\ At("closed") => up' = up /\ trouble' = trouble
           /\ trouble' \in {trouble, trouble \union {call}}
           /\ ~At("closed") /\ call \notin trouble' => up' = Append(up, f) /\ Len(up) < MaxLine
  BY DEF Says, Sent, Blame, TypeOK

LEMMA StatusFrame ==
    ASSUME TypeOK
    PROVE  /\ Status \in LowerFrames
           /\ Status \notin {"busy", "crc", "ack", "F1", "F2", "event"}
           /\ controller.state = "idle" => Status = "idle"
           /\ controller.state \notin Faults => Status \in Heartbeats
  BY DEF TypeOK, Controllers, Status, LowerFrames, Heartbeats, Working, Faults

-----------------------------------------------------------------------------
(* What the adapter's steps do to the call.                                 *)

(* What a success takes.                                                    *)
Earned == up # <<>> /\ (Head(up) = "F2" \/ adapter.pickedUp)

(* The adapter is somewhere in the call, which goes on or has ended.        *)
Moves ==
    /\ adapter' \in Adapters
    /\ down' \in Seq(UpperFrames) /\ Len(down') <= MaxLine
    /\ \/ adapter'.pc # "closed" /\ UNCHANGED result
       \/ /\ adapter'.pc = "closed" /\ down' = <<>>
          /\ \E r \in {"ok", "failed", "interrupted"} :
               result' = [result EXCEPT ![call] = r] /\ (r = "ok" => Earned)
    /\ adapter'.pickedUp => adapter.pickedUp \/ (up # <<>> /\ Head(up) = "F1")

LEMMA FreshAdapter ==
    /\ Closed \in Adapters /\ Closed.pc = "closed" /\ Closed.pickedUp = FALSE
    /\ \A pc \in {"open", "ack", "complete"}, a \in 1 .. COMMAND_ATTEMPTS :
         LET fresh == [Closed EXCEPT !.pc = pc, !.attempt = a] IN
         fresh \in Adapters /\ fresh.pc = pc /\ fresh.pickedUp = FALSE
    /\ \A pc \in {"open", "ack", "complete"} :
         LET fresh == [Closed EXCEPT !.pc = pc] IN
         fresh \in Adapters /\ fresh.pc = pc /\ fresh.pickedUp = FALSE
  <1>1. Closed \in Adapters
    BY DEF Closed, Adapters, COMMAND_ATTEMPTS
  <1>2. Closed.pc = "closed" /\ Closed.pickedUp = FALSE
    BY DEF Closed
  <1>3. ASSUME NEW pc \in {"open", "ack", "complete"}, NEW a \in 1 .. COMMAND_ATTEMPTS
        PROVE  /\ [Closed EXCEPT !.pc = pc, !.attempt = a] \in Adapters
               /\ [Closed EXCEPT !.pc = pc, !.attempt = a].pc = pc
               /\ [Closed EXCEPT !.pc = pc, !.attempt = a].pickedUp = FALSE
    BY <1>1, <1>2 DEF Adapters
  <1>4. ASSUME NEW pc \in {"open", "ack", "complete"}
        PROVE  /\ [Closed EXCEPT !.pc = pc] \in Adapters
               /\ [Closed EXCEPT !.pc = pc].pc = pc
               /\ [Closed EXCEPT !.pc = pc].pickedUp = FALSE
    BY <1>1, <1>2 DEF Adapters
  <1>. QED  BY <1>1, <1>2, <1>3, <1>4

LEMMA EndsMoves ==
    ASSUME TypeOK, NEW r \in {"ok", "failed", "interrupted"}, Ends(r),
           r = "ok" => Earned
    PROVE  Moves
  <1>1. down' \in Seq(UpperFrames) /\ Len(down') <= MaxLine
    BY EmptyLine DEF Ends
  <1>. QED  BY <1>1, FreshAdapter DEF Moves, Ends

LEMMA SendDispenseMoves ==
    ASSUME TypeOK, NEW a \in 1 .. COMMAND_ATTEMPTS, SendDispense(a)
    PROVE  Moves /\ adapter'.pc # "closed"
  <1>1. "dispense" \in UpperFrames
    BY DEF UpperFrames
  <1>2. down' \in Seq(UpperFrames) /\ Len(down') <= MaxLine
    BY <1>1, SentLine DEF SendDispense, TypeOK
  <1>. QED  BY <1>2, FreshAdapter DEF Moves, SendDispense

LEMMA SendQueryMoves ==
    ASSUME TypeOK, NEW q \in 1 .. COMMAND_ATTEMPTS, NEW last \in BOOLEAN, SendQuery(q, last)
    PROVE  Moves /\ adapter'.pc # "closed"
  <1>1. "query" \in UpperFrames
    BY DEF UpperFrames
  <1>2. down' \in Seq(UpperFrames) /\ Len(down') <= MaxLine
    BY <1>1, SentLine DEF SendQuery, TypeOK
  <1>. QED  BY <1>2 DEF Moves, SendQuery, Adapters, TypeOK, COMMAND_ATTEMPTS

LEMMA NextAttemptMoves ==
    ASSUME TypeOK, NextAttempt
    PROVE  Moves /\ adapter'.pc # "closed"
  <1>1. CASE adapter.attempt < COMMAND_ATTEMPTS
    <2>1. adapter.attempt + 1 \in 1 .. COMMAND_ATTEMPTS
      BY <1>1 DEF TypeOK, Adapters, COMMAND_ATTEMPTS
    <2>. QED  BY <1>1, <2>1, SendDispenseMoves DEF NextAttempt
  <1>2. CASE ~(adapter.attempt < COMMAND_ATTEMPTS)
    <2>1. 1 \in 1 .. COMMAND_ATTEMPTS /\ TRUE \in BOOLEAN
      BY DEF COMMAND_ATTEMPTS
    <2>. QED  BY <1>2, <2>1, SendQueryMoves DEF NextAttempt
  <1>. QED  BY <1>1, <1>2

LEMMA GiveUpQueryMoves ==
    ASSUME TypeOK, GiveUpQuery
    PROVE  Moves
  BY NextAttemptMoves, EndsMoves DEF GiveUpQuery

LEMMA QueryAgainMoves ==
    ASSUME TypeOK, adapter.query < COMMAND_ATTEMPTS, SendQuery(adapter.query + 1, adapter.last)
    PROVE  Moves /\ adapter'.pc # "closed"
  <1>1. adapter.query + 1 \in 1 .. COMMAND_ATTEMPTS /\ adapter.last \in BOOLEAN
    BY DEF TypeOK, Adapters, COMMAND_ATTEMPTS
  <1>. QED  BY <1>1, SendQueryMoves

LEMMA FollowMoves ==
    ASSUME TypeOK, Follow
    PROVE  Moves /\ adapter'.pc # "closed"
  BY FreshAdapter DEF TypeOK, Moves, Follow

LEMMA StayMoves ==
    ASSUME TypeOK, ~At("closed"), Stay
    PROVE  Moves /\ adapter'.pc # "closed"
  BY DEF TypeOK, Moves, Stay, At

LEMMA MissedMoves ==
    ASSUME TypeOK, Missed
    PROVE  Moves
  <1>1. CASE adapter.missed + 1 < COMMAND_ATTEMPTS
    <2>1. adapter.missed + 1 \in 0 .. (COMMAND_ATTEMPTS - 1)
      BY <1>1 DEF TypeOK, Adapters, COMMAND_ATTEMPTS
    <2>2. /\ adapter' = [adapter EXCEPT !.pc = "complete", !.missed = adapter.missed + 1]
          /\ UNCHANGED <<result, down>>
      BY <1>1 DEF Missed
    <2>3. adapter' \in Adapters /\ adapter'.pc = "complete" /\ adapter'.pickedUp = adapter.pickedUp
      BY <2>1, <2>2 DEF TypeOK, Adapters
    <2>. QED  BY <2>2, <2>3 DEF TypeOK, Moves
  <1>2. CASE ~(adapter.missed + 1 < COMMAND_ATTEMPTS)
    BY <1>2, EndsMoves DEF Missed
  <1>. QED  BY <1>1, <1>2

LEMMA AckMoves ==
    ASSUME TypeOK, At("ack"), NEW f \in LowerFrames, wait_for_ack(f)
    PROVE  Moves
  <1>1. ~At("closed")
    BY DEF At
  <1>. QED  BY <1>1, FollowMoves, NextAttemptMoves, StayMoves, EndsMoves DEF wait_for_ack

LEMMA QueryMoves ==
    ASSUME TypeOK, NEW f \in LowerFrames, query_status_after_missing_ack(f)
    PROVE  Moves
  BY FollowMoves, GiveUpQueryMoves, QueryAgainMoves DEF query_status_after_missing_ack

(* The answer resets the count of silences.                                 *)
LEMMA HeardAdapter ==
    ASSUME TypeOK
    PROVE  /\ [adapter EXCEPT !.missed = 0] \in Adapters
           /\ [adapter EXCEPT !.missed = 0].pc = adapter.pc
           /\ [adapter EXCEPT !.missed = 0].pickedUp = adapter.pickedUp
           /\ [[adapter EXCEPT !.missed = 0] EXCEPT !.pickedUp = TRUE] \in Adapters
           /\ [[adapter EXCEPT !.missed = 0] EXCEPT !.pickedUp = TRUE].pc = adapter.pc
           /\ [adapter EXCEPT !.pc = "complete", !.missed = 0] \in Adapters
           /\ [adapter EXCEPT !.pc = "complete", !.missed = 0].pc = "complete"
           /\ [adapter EXCEPT !.pc = "complete", !.missed = 0].pickedUp = adapter.pickedUp
  <1>1. 0 \in 0 .. (COMMAND_ATTEMPTS - 1)
    BY DEF COMMAND_ATTEMPTS
  <1>2. adapter \in Adapters
    BY DEF TypeOK
  <1>3. /\ [adapter EXCEPT !.missed = 0] \in Adapters
        /\ [adapter EXCEPT !.missed = 0].pc = adapter.pc
        /\ [adapter EXCEPT !.missed = 0].pickedUp = adapter.pickedUp
    BY <1>1, <1>2 DEF Adapters
  <1>4. /\ [[adapter EXCEPT !.missed = 0] EXCEPT !.pickedUp = TRUE] \in Adapters
        /\ [[adapter EXCEPT !.missed = 0] EXCEPT !.pickedUp = TRUE].pc = adapter.pc
    BY <1>3 DEF Adapters
  <1>5. /\ [adapter EXCEPT !.pc = "complete", !.missed = 0] \in Adapters
        /\ [adapter EXCEPT !.pc = "complete", !.missed = 0].pc = "complete"
        /\ [adapter EXCEPT !.pc = "complete", !.missed = 0].pickedUp = adapter.pickedUp
    BY <1>1, <1>2 DEF Adapters
  <1>. QED  BY <1>3, <1>4, <1>5

LEMMA CompletionMoves ==
    ASSUME TypeOK, At("complete"), up # <<>>, wait_for_completion(Head(up))
    PROVE  Moves
  <1>1. CASE (Head(up) = "F2" \/ (Head(up) = "idle" /\ adapter.pickedUp)) /\ Ends("ok")
    BY <1>1, EndsMoves DEF Earned
  <1>2. CASE /\ Head(up) = "F1"
             /\ adapter' = [[adapter EXCEPT !.missed = 0] EXCEPT !.pickedUp = TRUE]
             /\ UNCHANGED <<result, down>>
    BY <1>2, HeardAdapter DEF Moves, TypeOK, At
  <1>3. CASE adapter' = [adapter EXCEPT !.missed = 0] /\ UNCHANGED <<result, down>>
    BY <1>3, HeardAdapter DEF Moves, TypeOK, At
  <1>4. CASE Ends("failed")
    BY <1>4, EndsMoves
  <1>. QED  BY <1>1, <1>2, <1>3, <1>4 DEF wait_for_completion

LEMMA ProbeMoves ==
    ASSUME TypeOK, NEW f \in LowerFrames, probe_handshake(f)
    PROVE  Moves
  <1>1. CASE /\ adapter' = [adapter EXCEPT !.pc = "complete", !.missed = 0]
             /\ UNCHANGED <<result, down>>
    BY <1>1, HeardAdapter DEF Moves, TypeOK
  <1>2. CASE Missed
    BY <1>2, MissedMoves
  <1>. QED  BY <1>1, <1>2 DEF probe_handshake

LEMMA ReadsMoves ==
    ASSUME TypeOK, Reads
    PROVE  Moves
  <1>1. up # <<>> /\ Head(up) \in LowerFrames
    BY ReadLine DEF TypeOK, Reads
  <1>. QED
    BY <1>1, AckMoves, QueryMoves, CompletionMoves, ProbeMoves DEF Reads

LEMMA TimesOutMoves ==
    ASSUME TypeOK, TimesOut
    PROVE  Moves
  <1>1. CASE At("ack") /\ SendQuery(1, FALSE)
    <2>1. 1 \in 1 .. COMMAND_ATTEMPTS /\ FALSE \in BOOLEAN
      BY DEF COMMAND_ATTEMPTS
    <2>. QED  BY <1>1, <2>1, SendQueryMoves
  <1>2. CASE IF adapter.query < COMMAND_ATTEMPTS
             THEN SendQuery(adapter.query + 1, adapter.last) ELSE GiveUpQuery
    BY <1>2, QueryAgainMoves, GiveUpQueryMoves
  <1>3. CASE /\ At("complete") /\ adapter' = Goto("probe") /\ down' \in Sent(down, "query")
             /\ UNCHANGED result
    <2>1. down' \in Seq(UpperFrames) /\ Len(down') <= MaxLine
      BY <1>3, SentLine DEF TypeOK, UpperFrames
    <2>2. /\ adapter' \in Adapters /\ adapter'.pc = "probe"
          /\ adapter'.pickedUp = adapter.pickedUp
      BY <1>3 DEF TypeOK, Adapters, Goto
    <2>. QED  BY <1>3, <2>1, <2>2 DEF Moves
  <1>4. CASE Missed
    BY <1>4, MissedMoves
  <1>. QED  BY <1>1, <1>2, <1>3, <1>4 DEF TimesOut

(* Steps of the adapter within a call.                                      *)
AdapterStep == dispense_inner \/ Reads \/ TimesOut \/ DeadlinePasses \/ Interrupt

LEMMA AdapterMoves ==
    ASSUME TypeOK, AdapterStep
    PROVE  /\ Moves /\ ~At("closed")
           /\ UNCHANGED <<call, controller, delivered, overlapped>>
           /\ trouble' \in {trouble, trouble \union {call}}
           /\ up' \in {up, <<>>} \/ (up # <<>> /\ up' = Tail(up))
  <1>1. CASE dispense_inner
    <2>1. 1 \in 1 .. COMMAND_ATTEMPTS
      BY DEF COMMAND_ATTEMPTS
    <2>2. Moves
      BY <1>1, <2>1, SendDispenseMoves DEF dispense_inner
    <2>. QED  BY <1>1, <2>2 DEF dispense_inner, At
  <1>2. CASE Reads
    BY <1>2, ReadsMoves DEF Reads, At
  <1>3. CASE TimesOut
    BY <1>3, TimesOutMoves DEF TimesOut, At, Blame
  <1>4. CASE DeadlinePasses
    BY <1>4, EndsMoves DEF DeadlinePasses, At, Blame
  <1>5. CASE Interrupt
    BY <1>5, EndsMoves DEF Interrupt, At, Blame
  <1>. QED  BY <1>1, <1>2, <1>3, <1>4, <1>5 DEF AdapterStep

LEMMA AdapterLine ==
    ASSUME TypeOK, up' \in {up, <<>>} \/ (up # <<>> /\ up' = Tail(up))
    PROVE  /\ up' \in Seq(LowerFrames) /\ Len(up') <= MaxLine
           /\ \A i \in 1 .. Len(up') : \E j \in 1 .. Len(up) : up'[i] = up[j]
  <1>1. CASE up' = up
    BY <1>1 DEF TypeOK
  <1>2. CASE up' = <<>>
    <2>1. Len(up') = 0
      BY <1>2
    <2>. QED  BY <1>2, <2>1, EmptyLine
  <1>3. CASE up # <<>> /\ up' = Tail(up)
    BY <1>3, ReadLine DEF TypeOK
  <1>. QED  BY <1>1, <1>2, <1>3

-----------------------------------------------------------------------------
(* What the controller's steps do to the line and to the controller.        *)

(* The controller takes a frame or not, says one or not, and leaves the     *)
(* daemon alone.                                                            *)
Acts ==
    /\ UNCHANGED daemonVars
    /\ down' = down \/ (down # <<>> /\ down' = Tail(down))
    /\ up' = up \/ \E f \in LowerFrames : up' \in Sent(up, f)
    /\ At("closed") => UNCHANGED <<up, trouble>>
    /\ trouble' \in {trouble, trouble \union {call}}
    /\ controller' \in Controllers
    /\ delivered' \in {delivered, delivered \union {controller.work}}
    /\ delivered' = delivered \/ controller.state = "dispensing"
    /\ controller'.state \in {"dispensing", "pickup"} => controller'.work # Nobody

LEMMA CallOpen ==
    ASSUME TypeOK, PortInv
    PROVE  /\ down # <<>> \/ up # <<>> => ~At("closed")
           /\ ~At("closed") => call \in Calls /\ call # Nobody
  BY DEF TypeOK, PortInv, Calls, Nobody

LEMMA SaysActs ==
    ASSUME TypeOK, NEW f \in LowerFrames, Says(f)
    PROVE  /\ up' = up \/ \E g \in LowerFrames : up' \in Sent(up, g)
           /\ At("closed") => UNCHANGED <<up, trouble>>
           /\ trouble' \in {trouble, trouble \union {call}}
  BY SaysLine

LEMMA StartActs ==
    ASSUME TypeOK, PortInv, down # <<>>, start_dispense, delivered' = delivered,
           UNCHANGED daemonVars, down' = Tail(down)
    PROVE  Acts
  <1>1. ~At("closed") /\ call \in Calls /\ call # Nobody
    BY CallOpen
  <1>2. CASE controller.state = "idle"
    <2>1. controller' = [state |-> "dispensing", work |-> call, sent |-> 0] /\ Says("ack")
      BY <1>2 DEF start_dispense
    <2>2. controller' \in Controllers /\ controller'.work # Nobody
      BY <1>1, <2>1 DEF Controllers, Working
    <2>3. "ack" \in LowerFrames
      BY DEF LowerFrames
    <2>. QED  BY <2>1, <2>2, <2>3, SaysActs DEF Acts
  <1>3. CASE controller.state # "idle"
    <2>1. /\ Says("busy") \/ Says(Status)
          /\ controller' = controller
      BY <1>3 DEF start_dispense
    <2>2. "busy" \in LowerFrames /\ Status \in LowerFrames
      BY StatusFrame DEF LowerFrames
    <2>3. controller' \in Controllers
          /\ (controller'.state \in {"dispensing", "pickup"} => controller'.work # Nobody)
      BY <2>1 DEF TypeOK, PortInv
    <2>. QED  BY <2>1, <2>2, <2>3, SaysActs DEF Acts
  <1>. QED  BY <1>2, <1>3

LEMMA HandleActs ==
    ASSUME TypeOK, PortInv, handle_upper_frame
    PROVE  Acts
  <1>1. ~At("closed") /\ down # <<>> /\ down' = Tail(down)
        /\ UNCHANGED <<daemonVars, delivered>>
    BY CallOpen DEF handle_upper_frame
  <1>2. ASSUME controller' = controller
        PROVE  controller' \in Controllers
               /\ (controller'.state \in {"dispensing", "pickup"} => controller'.work # Nobody)
    BY <1>2 DEF TypeOK, PortInv
  <1>3. CASE start_dispense
    BY <1>1, <1>3, StartActs
  <1>4. CASE Noise /\ UNCHANGED controller
    <2>1. "crc" \in LowerFrames
      BY DEF LowerFrames
    <2>. QED  BY <1>1, <1>2, <1>4, <2>1 DEF Acts, Noise, Blame
  <1>5. CASE Says(Status) /\ UNCHANGED controller
    BY <1>1, <1>2, <1>5, StatusFrame, SaysActs DEF Acts
  <1>. QED  BY <1>3, <1>4, <1>5 DEF handle_upper_frame

LEMMA HeartbeatActs ==
    ASSUME TypeOK, PortInv, heartbeat_loop
    PROVE  Acts
  <1>1. controller' \in Controllers
        /\ (controller'.state \in {"dispensing", "pickup"} => controller'.work # Nobody)
    BY DEF TypeOK, PortInv, heartbeat_loop
  <1>. QED  BY <1>1, StatusFrame DEF Acts, heartbeat_loop

LEMMA SequenceActs ==
    ASSUME TypeOK, PortInv, run_dispense_sequence
    PROVE  Acts
  <1>1. controller \in Controllers
    BY DEF TypeOK
  <1>2. "event" \in LowerFrames /\ "F1" \in LowerFrames
    BY DEF LowerFrames
  <1>3. CASE /\ controller.state = "dispensing" /\ Becomes("pickup")
             /\ delivered' = delivered \union {controller.work}
             /\ Says("event")
    <2>1. controller' \in Controllers /\ controller'.work = controller.work
      BY <1>1, <1>3 DEF Becomes, Controllers, Working
    <2>. QED  BY <1>2, <1>3, <2>1, SaysActs DEF Acts, run_dispense_sequence, PortInv
  <1>4. CASE /\ controller.state = "pickup" /\ UNCHANGED <<controller, delivered>>
             /\ Says("event")
    BY <1>1, <1>2, <1>4, SaysActs DEF Acts, run_dispense_sequence, PortInv
  <1>5. CASE /\ controller.state = "pickup" /\ Becomes("resetting") /\ UNCHANGED delivered
             /\ Says("F1")
    <2>1. controller' \in Controllers /\ controller'.state = "resetting"
      BY <1>1, <1>5 DEF Becomes, Controllers, Working
    <2>. QED  BY <1>2, <1>5, <2>1, SaysActs DEF Acts, run_dispense_sequence
  <1>. QED  BY <1>3, <1>4, <1>5 DEF run_dispense_sequence

LEMMA FinishActs ==
    ASSUME TypeOK, PortInv, finish_reset_successfully
    PROVE  Acts
  <1>1. controller \in Controllers /\ controller.sent \in 0 .. Repeats
    BY DEF TypeOK, Controllers
  <1>2. "F2" \in LowerFrames
    BY DEF LowerFrames
  <1>3. CASE /\ controller.sent < Repeats
             /\ controller' = [controller EXCEPT !.sent = @ + 1]
             /\ Says("F2")
    <2>1. controller.sent + 1 \in 0 .. Repeats
      BY <1>1, <1>3
    <2>2. controller' \in Controllers /\ controller'.state = controller.state
      BY <1>1, <1>3, <2>1 DEF Controllers
    <2>. QED  BY <1>2, <1>3, <2>2, SaysActs DEF Acts, finish_reset_successfully
  <1>4. CASE /\ controller' = [state |-> "idle", work |-> Nobody, sent |-> 0]
             /\ UNCHANGED <<up, trouble>>
    <2>1. controller' \in Controllers /\ controller'.state = "idle"
      BY <1>4 DEF Controllers
    <2>. QED  BY <1>4, <2>1 DEF Acts, finish_reset_successfully
  <1>. QED  BY <1>3, <1>4 DEF finish_reset_successfully

LEMMA FailsActs ==
    ASSUME TypeOK, PortInv, Fails
    PROVE  Acts
  <1>1. controller \in Controllers
    BY DEF TypeOK
  <1>2. controller' \in Controllers /\ controller'.state \in Faults
    BY <1>1 DEF Fails, Becomes, Controllers, Faults
  <1>3. "fault" \in LowerFrames
    BY DEF LowerFrames
  <1>. QED  BY <1>2, <1>3 DEF Acts, Fails, Blame, Faults

LEMMA RecoversActs ==
    ASSUME TypeOK, PortInv, Recovers
    PROVE  Acts
  <1>1. controller' \in Controllers /\ controller'.state = "idle"
    BY DEF Recovers, Controllers
  <1>2. "F2" \in LowerFrames
    BY DEF LowerFrames
  <1>. QED  BY <1>1, <1>2, SaysActs DEF Acts, Recovers

LEMMA ResetActs ==
    ASSUME TypeOK, PortInv, run_fault_reset_on_port
    PROVE  Acts
  <1>1. controller' \in Controllers /\ controller'.state = "resetting"
    BY DEF run_fault_reset_on_port, Controllers, Working
  <1>. QED  BY <1>1 DEF Acts, run_fault_reset_on_port

(* Steps of the controller.                                                 *)
ControllerStep ==
    \/ handle_upper_frame \/ heartbeat_loop
    \/ run_dispense_sequence \/ finish_reset_successfully
    \/ Fails \/ Recovers \/ run_fault_reset_on_port

LEMMA ControllerActs ==
    ASSUME TypeOK, PortInv, ControllerStep
    PROVE  Acts
  BY HandleActs, HeartbeatActs, SequenceActs, FinishActs, FailsActs, RecoversActs, ResetActs
  DEF ControllerStep

LEMMA ActsLine ==
    ASSUME TypeOK, Acts
    PROVE  /\ up' \in Seq(LowerFrames) /\ Len(up') <= MaxLine
           /\ down' \in Seq(UpperFrames) /\ Len(down') <= MaxLine
  <1>1. up' \in Seq(LowerFrames) /\ Len(up') <= MaxLine
    <2>1. CASE up' = up
      BY <2>1 DEF TypeOK
    <2>2. ASSUME NEW f \in LowerFrames, up' \in Sent(up, f)
          PROVE  up' \in Seq(LowerFrames) /\ Len(up') <= MaxLine
      BY <2>2, SentLine DEF TypeOK
    <2>. QED  BY <2>1, <2>2 DEF Acts
  <1>2. down' \in Seq(UpperFrames) /\ Len(down') <= MaxLine
    <2>1. CASE down' = down
      BY <2>1 DEF TypeOK
    <2>2. CASE down # <<>> /\ down' = Tail(down)
      BY <2>2, ReadLine DEF TypeOK
    <2>. QED  BY <2>1, <2>2 DEF Acts
  <1>. QED  BY <1>1, <1>2

-----------------------------------------------------------------------------
(* Types and the port.                                                      *)

LEMMA NextSplit ==
    ASSUME [Next]_vars
    PROVE  open_operational_port_locked \/ AdapterStep \/ ControllerStep \/ UNCHANGED vars
  BY DEF Next, AdapterStep, ControllerStep

LEMMA InitPort == Init => TypeOK /\ PortInv
  <1> SUFFICES ASSUME Init PROVE TypeOK /\ PortInv
    OBVIOUS
  <1>1. Closed \in Adapters /\ Closed.pc = "closed"
    BY FreshAdapter
  <1>2. <<>> \in Seq(UpperFrames) /\ <<>> \in Seq(LowerFrames) /\ Len(<<>>) <= MaxLine
    BY EmptyLine
  <1>3. [state |-> "idle", work |-> Nobody, sent |-> 0] \in Controllers
    BY DEF Controllers
  <1>4. TypeOK
    BY <1>1, <1>2, <1>3 DEF Init, TypeOK, Calls
  <1>5. PortInv
    BY <1>1 DEF Init, PortInv, At, Calls
  <1>. QED  BY <1>4, <1>5

(* Opening the port begins a call or fails it at once.                      *)
LEMMA OpenMoves ==
    ASSUME TypeOK, PortInv, open_operational_port_locked
    PROVE  TypeOK' /\ PortInv'
  <1>1. call + 1 \in Calls /\ call' = call + 1 /\ call' \in 0 .. MaxCalls
    BY DEF open_operational_port_locked, TypeOK, Calls
  <1>2. adapter = adapter' \/ adapter' = [Closed EXCEPT !.pc = "open"]
    BY DEF open_operational_port_locked
  <1>3. adapter' \in Adapters
    BY <1>2, FreshAdapter DEF TypeOK
  <1>4. /\ down' \in Seq(UpperFrames) /\ Len(down') <= MaxLine
        /\ up' \in Seq(LowerFrames) /\ Len(up') <= MaxLine
    BY EmptyLine DEF open_operational_port_locked
  <1>5. TypeOK'
    BY <1>1, <1>3, <1>4 DEF open_operational_port_locked, TypeOK
  <1>6. CASE UNCHANGED <<result, trouble>> /\ adapter' = [Closed EXCEPT !.pc = "open"]
    <2>1. adapter'.pc = "open" /\ result[call'] = "none"
      <3>1. call' \in Calls /\ call' > call
        BY <1>1 DEF TypeOK
      <3>2. result[call'] = "none"
        BY <3>1 DEF PortInv
      <3>3. adapter'.pc = "open"
        BY <1>6, FreshAdapter
      <3>. QED  BY <3>2, <3>3
    <2>2. \A c \in Calls : c > call' => c > call
      BY <1>1 DEF TypeOK, Calls
    <2>3. ~At("closed")' /\ call' # 0
      BY <1>1, <2>1 DEF At, Calls
    <2>. QED
      BY <1>5, <1>6, <2>1, <2>2, <2>3 DEF PortInv, open_operational_port_locked
  <1>7. CASE result' = [result EXCEPT ![call'] = "failed"] /\ UNCHANGED adapter
    <2>1. \A c \in Calls : c > call' => c > call /\ c # call'
      BY <1>1 DEF TypeOK, Calls
    <2>2. \A c \in Calls : c > call' => result'[c] = "none"
      BY <1>7, <2>1 DEF PortInv, TypeOK
    <2>3. At("closed")'
      BY <1>7 DEF At, open_operational_port_locked
    <2>. QED
      BY <1>5, <2>2, <2>3 DEF PortInv, open_operational_port_locked, At
  <1>. QED  BY <1>5, <1>6, <1>7 DEF open_operational_port_locked

(* Where the call ends, both lines are emptied.                             *)
LEMMA AdapterCloses ==
    ASSUME TypeOK, AdapterStep, adapter'.pc = "closed"
    PROVE  up' = <<>> /\ down' = <<>>
  <1>1. Moves
    BY AdapterMoves
  <1>2. down' = <<>>
    BY <1>1 DEF Moves
  <1>3. ~dispense_inner
    BY FreshAdapter DEF dispense_inner, SendDispense, COMMAND_ATTEMPTS
  <1>. QED
    BY <1>2, <1>3 DEF AdapterStep, Reads, TimesOut, DeadlinePasses, Interrupt

LEMMA AdapterPort ==
    ASSUME TypeOK, PortInv, AdapterStep
    PROVE  TypeOK' /\ PortInv'
  <1>1. /\ Moves /\ ~At("closed")
        /\ UNCHANGED <<call, controller, delivered, overlapped>>
        /\ trouble' \in {trouble, trouble \union {call}}
        /\ up' \in {up, <<>>} \/ (up # <<>> /\ up' = Tail(up))
    BY AdapterMoves
  <1>2. call \in Calls /\ call # Nobody
    BY <1>1, CallOpen
  <1>3. up' \in Seq(LowerFrames) /\ Len(up') <= MaxLine
    BY <1>1, AdapterLine
  <1>4. /\ result' \in [Calls -> {"none", "ok", "failed", "interrupted"}]
        /\ \A c \in Calls : c # call => result'[c] = result[c]
        /\ adapter'.pc # "closed" => result' = result
    BY <1>1 DEF Moves, TypeOK
  <1>5. TypeOK'
    BY <1>1, <1>2, <1>3, <1>4 DEF TypeOK, Moves
  <1>6. At("closed")' => up' = <<>> /\ down' = <<>>
    BY AdapterCloses DEF At
  <1>7. ~At("closed")' => result'[call'] = "none"
    BY <1>1, <1>4 DEF PortInv, At
  <1>8. \A c \in Calls : c > call' => result'[c] = "none"
    BY <1>1, <1>2, <1>4 DEF PortInv, Calls
  <1>9. call' # 0
    BY <1>1, <1>2 DEF Nobody
  <1>. QED  BY <1>1, <1>5, <1>6, <1>7, <1>8, <1>9 DEF PortInv

LEMMA ControllerPort ==
    ASSUME TypeOK, PortInv, ControllerStep
    PROVE  TypeOK' /\ PortInv'
  <1>1. Acts
    BY ControllerActs
  <1>2. /\ up' \in Seq(LowerFrames) /\ Len(up') <= MaxLine
        /\ down' \in Seq(UpperFrames) /\ Len(down') <= MaxLine
    BY <1>1, ActsLine
  <1>3. trouble' \subseteq Calls
    <2>1. CASE At("closed")
      BY <1>1, <2>1 DEF Acts, TypeOK
    <2>2. CASE ~At("closed")
      BY <1>1, <2>2, CallOpen DEF Acts, TypeOK
    <2>. QED  BY <2>1, <2>2
  <1>4. delivered' \subseteq Calls
    <2>1. controller.state = "dispensing" => controller.work \in Calls
      BY DEF PortInv, TypeOK, Controllers
    <2>. QED  BY <1>1, <2>1 DEF Acts, TypeOK
  <1>5. TypeOK'
    BY <1>1, <1>2, <1>3, <1>4 DEF TypeOK, Acts, daemonVars
  <1>6. At("closed") => down' = <<>> /\ up' = <<>>
    BY <1>1 DEF Acts, PortInv
  <1>. QED  BY <1>1, <1>5, <1>6 DEF PortInv, Acts, daemonVars, At

LEMMA PortStep ==
    ASSUME TypeOK, PortInv, [Next]_vars
    PROVE  TypeOK' /\ PortInv'
  <1>1. CASE UNCHANGED vars
    <2>1. UNCHANGED <<call, adapter, result, overlapped, down, up, controller, delivered, trouble>>
      BY <1>1 DEF vars, daemonVars
    <2>. QED  BY <2>1 DEF TypeOK, PortInv, At
  <1>. QED  BY <1>1, NextSplit, OpenMoves, AdapterPort, ControllerPort

-----------------------------------------------------------------------------
(* What the controller does during a call is the call's.                    *)

(* A call that finds the controller idle begins with nothing announced.     *)
LEMMA OwnOpen ==
    ASSUME TypeOK, PortInv, open_operational_port_locked
    PROVE  OwnInv'
  <1>1. CASE adapter' = adapter
    <2>1. ~Alone'
      BY <1>1 DEF Alone, At, open_operational_port_locked
    <2>. QED  BY <2>1 DEF OwnInv
  <1>2. CASE adapter' = [Closed EXCEPT !.pc = "open"]
    <2>1. adapter'.pickedUp = FALSE
      BY <1>2, FreshAdapter
    <2>2. Alone' => controller.state = "idle"
      BY DEF Alone, open_operational_port_locked
    <2>3. up' = <<>> /\ controller' = controller
      BY DEF open_operational_port_locked
    <2>4. Len(up') = 0
      BY <2>3
    <2>. QED  BY <2>1, <2>2, <2>3, <2>4 DEF OwnInv
  <1>. QED  BY <1>1, <1>2 DEF open_operational_port_locked

LEMMA OwnAdapter ==
    ASSUME TypeOK, PortInv, OwnInv, AdapterStep
    PROVE  OwnInv'
  <1> SUFFICES ASSUME Alone' PROVE OwnInv'
    BY DEF OwnInv
  <1>1. /\ Moves /\ ~At("closed")
        /\ UNCHANGED <<call, controller, delivered, overlapped>>
        /\ up' \in {up, <<>>} \/ (up # <<>> /\ up' = Tail(up))
    BY AdapterMoves
  <1>2. Alone
    BY <1>1 DEF Alone
  <1>3. \A i \in 1 .. Len(up') : up'[i] \in {"F1", "F2"} => call \in delivered
    BY <1>1, <1>2, AdapterLine DEF OwnInv
  <1>4. adapter'.pickedUp => call \in delivered
    <2>1. CASE adapter.pickedUp
      BY <1>2, <2>1 DEF OwnInv
    <2>2. CASE up # <<>> /\ Head(up) = "F1"
      BY <1>2, <2>2, ReadLine DEF OwnInv, TypeOK
    <2>. QED  BY <1>1, <2>1, <2>2 DEF Moves
  <1>. QED  BY <1>1, <1>2, <1>3, <1>4 DEF OwnInv

(* A step of the controller that announces nothing leaves its line as good  *)
(* as it was.                                                               *)
LEMMA OwnLine ==
    ASSUME TypeOK, NEW f \in LowerFrames, up' \in {up} \union Sent(up, f),
           \A i \in 1 .. Len(up) : up[i] \in {"F1", "F2"} => call \in delivered,
           f \in {"F1", "F2"} => call \in delivered,
           delivered \subseteq delivered'
    PROVE  \A i \in 1 .. Len(up') : up'[i] \in {"F1", "F2"} => call \in delivered'
  <1>1. CASE up' = up
    BY <1>1
  <1>2. CASE up' \in Sent(up, f)
    <2>1. /\ up' \in Seq(LowerFrames) /\ Len(up) <= Len(up')
          /\ \A i \in 1 .. Len(up) : up'[i] = up[i]
          /\ \A i \in 1 .. Len(up') : i > Len(up) => up'[i] = f
      BY <1>2, SentLine DEF TypeOK
    <2>2. \A i \in 1 .. Len(up') : i \in 1 .. Len(up) \/ i > Len(up)
      BY <2>1 DEF TypeOK
    <2>. QED  BY <2>1, <2>2
  <1>. QED  BY <1>1, <1>2

(* The frame a step of the controller sends and what it may announce.       *)
OwnStep(f) ==
    /\ f \in LowerFrames /\ up' \in {up} \union Sent(up, f)
    /\ f \in {"F1", "F2"} => controller.state \in {"pickup", "resetting", "blocked"}
    /\ delivered \subseteq delivered'
    /\ controller'.state \in {"dispensing", "pickup"} =>
         \/ controller'.work = call
         \/ controller.state \in {"dispensing", "pickup"} /\ controller'.work = controller.work
    /\ controller'.state \in {"pickup", "resetting", "blocked"} =>
         \/ controller.state \in {"pickup", "resetting", "blocked"}
         \/ controller.state = "dispensing" /\ controller.work \in delivered'

LEMMA OwnFollows ==
    ASSUME TypeOK, PortInv, OwnInv, UNCHANGED daemonVars, NEW f, OwnStep(f)
    PROVE  OwnInv'
  <1> SUFFICES ASSUME Alone' PROVE OwnInv'
    BY DEF OwnInv
  <1>1. Alone /\ UNCHANGED <<call, adapter>>
    BY DEF Alone, daemonVars, At
  <1>2. \A i \in 1 .. Len(up') : up'[i] \in {"F1", "F2"} => call \in delivered'
    <2>1. f \in {"F1", "F2"} => call \in delivered
      BY <1>1 DEF OwnStep, OwnInv
    <2>2. \A i \in 1 .. Len(up) : up[i] \in {"F1", "F2"} => call \in delivered
      BY <1>1 DEF OwnInv
    <2>. QED  BY <2>1, <2>2, OwnLine DEF OwnStep
  <1>3. controller'.state \in {"dispensing", "pickup"} => controller'.work = call
    BY <1>1 DEF OwnStep, OwnInv
  <1>4. controller'.state \in {"pickup", "resetting", "blocked"} => call \in delivered'
    BY <1>1 DEF OwnStep, OwnInv
  <1>5. adapter'.pickedUp => call \in delivered'
    BY <1>1 DEF OwnStep, OwnInv
  <1>. QED  BY <1>1, <1>2, <1>3, <1>4, <1>5 DEF OwnInv

LEMMA OwnController ==
    ASSUME TypeOK, PortInv, OwnInv, ControllerStep, ~At("closed")
    PROVE  OwnInv'
  <1>0. controller \in Controllers
    BY DEF TypeOK
  <1>f. {"ack", "busy", "crc", "event", "fault", "F1", "F2"} \subseteq LowerFrames
    BY DEF LowerFrames
  <1>s. Status \in LowerFrames /\ Status \notin {"F1", "F2"}
    BY StatusFrame
  <1>1. CASE handle_upper_frame
    <2>1. UNCHANGED daemonVars /\ delivered' = delivered
      BY <1>1 DEF handle_upper_frame
    <2>2. CASE start_dispense /\ controller.state = "idle"
      <3>1. controller' = [state |-> "dispensing", work |-> call, sent |-> 0] /\ Says("ack")
        BY <2>2 DEF start_dispense
      <3>2. OwnStep("ack")
        BY <1>f, <2>1, <3>1, SaysLine DEF OwnStep
      <3>. QED  BY <2>1, <3>2, OwnFollows
    <2>3. ASSUME controller' = controller, NEW g \in {"busy", "crc", Status}, up' \in {up} \union Sent(up, g)
          PROVE  OwnStep(g)
      BY <1>f, <1>s, <2>1, <2>3 DEF OwnStep
    <2>4. CASE start_dispense /\ controller.state # "idle"
      <3>1. controller' = controller /\ (Says("busy") \/ Says(Status))
        BY <2>4 DEF start_dispense
      <3>2. \E g \in {"busy", Status} : up' \in {up} \union Sent(up, g)
        BY <1>f, <1>s, <3>1, SaysLine
      <3>. QED  BY <2>1, <2>3, <3>1, <3>2, OwnFollows
    <2>5. CASE Noise /\ UNCHANGED controller
      <3>1. OwnStep("crc")
        BY <2>3, <2>5 DEF Noise
      <3>. QED  BY <2>1, <3>1, OwnFollows
    <2>6. CASE Says(Status) /\ UNCHANGED controller
      <3>1. OwnStep(Status)
        BY <1>s, <2>3, <2>6, SaysLine
      <3>. QED  BY <2>1, <3>1, OwnFollows
    <2>. QED  BY <1>1, <2>2, <2>4, <2>5, <2>6 DEF handle_upper_frame
  <1>2. CASE heartbeat_loop
    <2>1. OwnStep(Status) /\ UNCHANGED daemonVars
      BY <1>2, <1>s DEF OwnStep, heartbeat_loop
    <2>. QED  BY <2>1, OwnFollows
  <1>3. CASE run_dispense_sequence
    <2>0. UNCHANGED daemonVars
      BY <1>3 DEF run_dispense_sequence
    <2>1. CASE /\ controller.state = "dispensing" /\ Becomes("pickup")
               /\ delivered' = delivered \union {controller.work}
               /\ Says("event")
      <3>1. controller'.work = controller.work /\ controller'.state = "pickup"
        BY <1>0, <2>1 DEF Becomes, Controllers
      <3>2. OwnStep("event")
        BY <1>f, <2>1, <3>1, SaysLine DEF OwnStep
      <3>. QED  BY <2>0, <3>2, OwnFollows
    <2>2. CASE /\ controller.state = "pickup" /\ UNCHANGED <<controller, delivered>>
               /\ Says("event")
      <3>1. OwnStep("event")
        BY <1>f, <2>2, SaysLine DEF OwnStep
      <3>. QED  BY <2>0, <3>1, OwnFollows
    <2>3. CASE /\ controller.state = "pickup" /\ Becomes("resetting") /\ UNCHANGED delivered
               /\ Says("F1")
      <3>1. controller'.state = "resetting"
        BY <1>0, <2>3 DEF Becomes, Controllers
      <3>2. OwnStep("F1")
        BY <1>f, <2>3, <3>1, SaysLine DEF OwnStep
      <3>. QED  BY <2>0, <3>2, OwnFollows
    <2>. QED  BY <1>3, <2>1, <2>2, <2>3 DEF run_dispense_sequence
  <1>4. CASE finish_reset_successfully
    <2>0. UNCHANGED daemonVars /\ delivered' = delivered /\ controller.state = "resetting"
      BY <1>4 DEF finish_reset_successfully
    <2>1. CASE controller' = [controller EXCEPT !.sent = @ + 1] /\ Says("F2")
      <3>1. controller'.state = "resetting"
        BY <1>0, <2>0, <2>1 DEF Controllers
      <3>2. OwnStep("F2")
        BY <1>f, <2>0, <2>1, <3>1, SaysLine DEF OwnStep
      <3>. QED  BY <2>0, <3>2, OwnFollows
    <2>2. CASE /\ controller' = [state |-> "idle", work |-> Nobody, sent |-> 0]
               /\ UNCHANGED <<up, trouble>>
      <3>1. OwnStep("F2")
        BY <1>f, <2>0, <2>2 DEF OwnStep
      <3>. QED  BY <2>0, <3>1, OwnFollows
    <2>. QED  BY <1>4, <2>1, <2>2 DEF finish_reset_successfully
  <1>5. CASE Fails
    <2>1. /\ UNCHANGED daemonVars /\ delivered' = delivered
          /\ up' \in Sent(up, "fault")
          /\ controller'.state = "jammed"
             \/ (controller.state = "resetting" /\ controller'.state = "blocked")
      BY <1>0, <1>5 DEF Fails, Becomes, Controllers
    <2>2. OwnStep("fault")
      BY <1>f, <2>1 DEF OwnStep
    <2>. QED  BY <2>1, <2>2, OwnFollows
  <1>6. CASE Recovers
    <2>1. /\ UNCHANGED daemonVars /\ delivered' = delivered
          /\ controller'.state = "idle"
          /\ up' = up \/ (controller.state = "blocked" /\ up' \in Sent(up, "F2"))
      BY <1>f, <1>6, SaysLine DEF Recovers
    <2>2. CASE up' = up
      <3>1. OwnStep("ack")
        BY <1>f, <2>1, <2>2 DEF OwnStep
      <3>. QED  BY <2>1, <3>1, OwnFollows
    <2>3. CASE controller.state = "blocked" /\ up' \in Sent(up, "F2")
      <3>1. OwnStep("F2")
        BY <1>f, <2>1, <2>3 DEF OwnStep
      <3>. QED  BY <2>1, <3>1, OwnFollows
    <2>. QED  BY <2>1, <2>2, <2>3
  <1>7. ~run_fault_reset_on_port
    BY DEF run_fault_reset_on_port
  <1>. QED  BY <1>1, <1>2, <1>3, <1>4, <1>5, <1>6, <1>7 DEF ControllerStep

LEMMA OwnNext ==
    ASSUME TypeOK, PortInv, OwnInv, [Next]_vars
    PROVE  OwnInv'
  <1>1. CASE UNCHANGED vars
    BY <1>1 DEF vars, daemonVars, OwnInv, Alone, At
  <1>2. CASE ControllerStep /\ At("closed")
    <2>1. ~Alone'
      BY <1>2, ControllerActs DEF Alone, At, Acts, daemonVars
    <2>. QED  BY <2>1 DEF OwnInv
  <1>. QED  BY <1>1, <1>2, NextSplit, OwnOpen, OwnAdapter, OwnController

(* A success is the call's own.                                             *)
LEMMA SuccessNext ==
    ASSUME TypeOK, PortInv, OwnInv, SuccessIsOwn, [Next]_vars
    PROVE  SuccessIsOwn'
  <1>1. CASE UNCHANGED vars
    BY <1>1 DEF vars, daemonVars, SuccessIsOwn
  <1>2. CASE ControllerStep
    BY <1>2, ControllerActs DEF Acts, daemonVars, SuccessIsOwn
  <1>3. CASE open_operational_port_locked
    <2>1. overlapped \subseteq overlapped' /\ delivered' = delivered
      BY <1>3 DEF open_operational_port_locked
    <2>2. \A c \in Calls : result'[c] = "ok" => result[c] = "ok"
      BY <1>3 DEF open_operational_port_locked, TypeOK
    <2>. QED  BY <2>1, <2>2 DEF SuccessIsOwn
  <1>4. CASE AdapterStep
    <2>1. Moves /\ ~At("closed") /\ UNCHANGED <<delivered, overlapped>>
      BY <1>4, AdapterMoves
    <2>2. call \in Calls
      BY <2>1, CallOpen
    <2>3. Earned /\ call \notin overlapped => call \in delivered
      BY <2>1, ReadLine DEF Earned, OwnInv, Alone, TypeOK
    <2>4. \A c \in Calls : result'[c] = "ok" => result[c] = "ok" \/ (c = call /\ Earned)
      BY <2>1 DEF Moves, TypeOK
    <2>. QED  BY <2>1, <2>2, <2>3, <2>4 DEF SuccessIsOwn
  <1>. QED  BY <1>1, <1>2, <1>3, <1>4, NextSplit

-----------------------------------------------------------------------------
(* A call without trouble.                                                  *)

LEMMA CalmTail ==
    ASSUME NEW S, NEW line \in Seq(S), line # <<>>
    PROVE  /\ Harmless(line) => Harmless(Tail(line)) /\ Head(line) \notin {"busy", "crc", "fault"}
           /\ Quiet(line) => Quiet(Tail(line)) /\ Head(line) \in Heartbeats
           /\ AckFirst(line) => \/ Head(line) = "ack"
                                \/ Head(line) \in Heartbeats /\ AckFirst(Tail(line))
  <1>1. /\ Head(line) = line[1] /\ 1 \in 1 .. Len(line)
        /\ Len(Tail(line)) = Len(line) - 1 /\ Len(line) \in Nat
        /\ \A i \in 1 .. Len(Tail(line)) : i + 1 \in 1 .. Len(line) /\ Tail(line)[i] = line[i + 1]
    <2>1. Len(line) \in Nat /\ Len(line) # 0
      OBVIOUS
    <2>2. /\ Len(Tail(line)) = Len(line) - 1 /\ Head(line) = line[1]
          /\ \A i \in 1 .. Len(Tail(line)) : Tail(line)[i] = line[i + 1]
      BY HeadTailProperties
    <2>. QED  BY <2>1, <2>2
  <1>2. Harmless(line) => Harmless(Tail(line)) /\ Head(line) \notin {"busy", "crc", "fault"}
    BY <1>1 DEF Harmless
  <1>3. Quiet(line) => Quiet(Tail(line)) /\ Head(line) \in Heartbeats
    BY <1>1 DEF Quiet
  <1>4. ASSUME AckFirst(line), Head(line) # "ack"
        PROVE  Head(line) \in Heartbeats /\ AckFirst(Tail(line))
    <2>1. PICK i \in 1 .. Len(line) :
             /\ line[i] = "ack"
             /\ \A j \in 1 .. Len(line) : j < i => line[j] \in Heartbeats
      BY <1>4 DEF AckFirst
    <2>2. i # 1
      BY <1>1, <1>4, <2>1
    <2>3. Head(line) \in Heartbeats
      BY <1>1, <2>1, <2>2
    <2>4. i - 1 \in 1 .. Len(Tail(line))
      BY <1>1, <2>2
    <2>5. Tail(line)[i - 1] = "ack"
      <3>1. Tail(line)[i - 1] = line[(i - 1) + 1]
        BY <1>1, <2>4
      <3>2. (i - 1) + 1 = i
        BY <2>1
      <3>. QED  BY <2>1, <3>1, <3>2
    <2>6. \A j \in 1 .. Len(Tail(line)) : j < i - 1 => Tail(line)[j] \in Heartbeats
      BY <1>1, <2>1
    <2>. QED  BY <2>3, <2>4, <2>5, <2>6 DEF AckFirst
  <1>. QED  BY <1>2, <1>3, <1>4

LEMMA CalmAppend ==
    ASSUME NEW S, NEW line \in Seq(S), NEW f \in S
    PROVE  /\ Harmless(line) /\ f \notin {"busy", "crc", "fault"} => Harmless(Append(line, f))
           /\ Quiet(line) /\ f \in Heartbeats => Quiet(Append(line, f))
           /\ Quiet(line) /\ f = "ack" => AckFirst(Append(line, f))
           /\ AckFirst(line) => AckFirst(Append(line, f))
  <1> DEFINE new == Append(line, f)
  <1>1. /\ Len(new) = Len(line) + 1 /\ Len(line) \in Nat
        /\ \A i \in 1 .. Len(line) : new[i] = line[i]
        /\ new[Len(line) + 1] = f
    BY AppendProperties
  <1>2. \A i \in 1 .. Len(new) : i \in 1 .. Len(line) \/ i = Len(line) + 1
    BY <1>1
  <1>. HIDE DEF new
  <1>3. Harmless(line) /\ f \notin {"busy", "crc", "fault"} => Harmless(new)
    BY <1>1, <1>2 DEF Harmless
  <1>4. Quiet(line) /\ f \in Heartbeats => Quiet(new)
    BY <1>1, <1>2 DEF Quiet
  <1>5. ASSUME Quiet(line), f = "ack" PROVE AckFirst(new)
    <2>1. Len(line) + 1 \in 1 .. Len(new) /\ new[Len(line) + 1] = "ack"
      BY <1>1, <1>5
    <2>2. \A j \in 1 .. Len(new) : j < Len(line) + 1 => new[j] \in Heartbeats
      BY <1>1, <1>2, <1>5 DEF Quiet
    <2>. QED  BY <2>1, <2>2 DEF AckFirst
  <1>6. ASSUME AckFirst(line) PROVE AckFirst(new)
    <2>1. PICK i \in 1 .. Len(line) :
             /\ line[i] = "ack"
             /\ \A j \in 1 .. Len(line) : j < i => line[j] \in Heartbeats
      BY <1>6 DEF AckFirst
    <2>2. i \in 1 .. Len(new) /\ new[i] = "ack"
      BY <1>1, <2>1
    <2>3. \A j \in 1 .. Len(new) : j < i => new[j] \in Heartbeats
      BY <1>1, <1>2, <2>1
    <2>. QED  BY <2>2, <2>3 DEF AckFirst
  <1>. QED  BY <1>3, <1>4, <1>5, <1>6 DEF new

LEMMA CalmOpen ==
    ASSUME TypeOK, PortInv, open_operational_port_locked
    PROVE  CalmInv'
  <1>1. CASE adapter' = adapter
    <2>1. ~Calm'
      BY <1>1 DEF Calm, Alone, At, open_operational_port_locked
    <2>. QED  BY <2>1 DEF CalmInv
  <1>2. CASE adapter' = [Closed EXCEPT !.pc = "open"]
    <2>1. adapter'.pc = "open"
      BY <1>2, FreshAdapter
    <2>2. Calm' => controller.state = "idle"
      BY DEF Calm, Alone, open_operational_port_locked
    <2>3. up' = <<>> /\ down' = <<>> /\ controller' = controller
      BY DEF open_operational_port_locked
    <2>4. Len(up') = 0
      BY <2>3
    <2>5. Harmless(up)' /\ Quiet(up)'
      BY <2>4 DEF Harmless, Quiet
    <2>. QED  BY <2>1, <2>2, <2>3, <2>5 DEF CalmInv, At, Faults
  <1>. QED  BY <1>1, <1>2 DEF open_operational_port_locked

(* What a call without trouble reads never fails it.                        *)
LEMMA CalmReads ==
    ASSUME TypeOK, CalmInv, Calm, Reads
    PROVE  /\ adapter'.pc # "closed" => CalmInv'
           /\ \A c \in Calls : result'[c] = "failed" => result[c] = "failed"
  <1>1. /\ up # <<>> /\ up' = IF adapter'.pc = "closed" THEN <<>> ELSE Tail(up)
        /\ UNCHANGED <<call, controller, overlapped, trouble>>
    BY DEF Reads
  <1>2. up \in Seq(LowerFrames)
    BY DEF TypeOK
  <1>3. Harmless(up)
    BY DEF CalmInv
  <1>4. Head(up) \notin {"busy", "crc", "fault"} /\ Harmless(Tail(up))
    BY <1>1, <1>2, <1>3, CalmTail
  <1>5. At("ack") \/ At("complete")
    BY DEF CalmInv, Reads, At
  <1>6. controller.state \notin Faults
    BY DEF CalmInv
  <1>7. CASE At("ack")
    <2>0. wait_for_ack(Head(up))
      BY <1>7 DEF Reads, At
    <2>1. CASE controller.state = "idle" /\ Quiet(up) /\ (down = <<>> \/ down = <<"dispense">>)
      <3>1. Quiet(Tail(up)) /\ Head(up) \in Heartbeats
        BY <1>1, <1>2, <2>1, CalmTail
      <3>2. Stay
        BY <2>0, <3>1 DEF wait_for_ack, Heartbeats
      <3>3. adapter' = adapter /\ result' = result /\ down' = down /\ up' = Tail(up)
        BY <1>1, <1>7, <3>2 DEF Stay, At
      <3>4. CalmInv'
        BY <1>1, <1>4, <1>6, <1>7, <2>1, <3>1, <3>3 DEF CalmInv, At
      <3>. QED  BY <3>3, <3>4
    <2>2. CASE down = <<>> /\ AckFirst(up)
      <3>1. CASE Head(up) = "ack"
        <4>1. Follow
          BY <2>0, <3>1 DEF wait_for_ack, Heartbeats
        <4>2. adapter'.pc = "complete" /\ result' = result /\ down' = <<>>
          BY <2>2, <4>1, FreshAdapter DEF Follow
        <4>3. CalmInv'
          BY <1>1, <1>4, <1>6, <4>2 DEF CalmInv, At
        <4>. QED  BY <4>2, <4>3
      <3>2. CASE Head(up) \in Heartbeats /\ AckFirst(Tail(up))
        <4>1. Stay
          BY <2>0, <3>2 DEF wait_for_ack, Heartbeats
        <4>2. adapter' = adapter /\ result' = result /\ down' = down /\ up' = Tail(up)
          BY <1>1, <1>7, <4>1 DEF Stay, At
        <4>3. CalmInv'
          BY <1>1, <1>4, <1>6, <1>7, <2>2, <3>2, <4>2 DEF CalmInv, At
        <4>. QED  BY <4>2, <4>3
      <3>. QED  BY <1>1, <1>2, <2>2, <3>1, <3>2, CalmTail
    <2>. QED  BY <1>7, <2>1, <2>2 DEF CalmInv
  <1>8. CASE At("complete")
    <2>0. wait_for_completion(Head(up)) /\ down = <<>>
      BY <1>8 DEF Reads, At, CalmInv
    <2>1. CASE Ends("ok")
      <3>1. adapter'.pc = "closed"
        BY <2>1, FreshAdapter DEF Ends
      <3>2. result' = [result EXCEPT ![call] = "ok"]
        BY <2>1 DEF Ends
      <3>3. \A c \in Calls : result'[c] = "failed" => result[c] = "failed"
        BY <3>2 DEF TypeOK
      <3>. QED  BY <3>1, <3>3
    <2>2. CASE /\ adapter'.pc = "complete"
               /\ UNCHANGED <<result, down>>
      <3>1. CalmInv'
        BY <1>1, <1>4, <1>6, <2>0, <2>2 DEF CalmInv, At
      <3>. QED  BY <2>2, <3>1
    <2>3. ASSUME \/ adapter' = [[adapter EXCEPT !.missed = 0] EXCEPT !.pickedUp = TRUE]
                 \/ adapter' = [adapter EXCEPT !.missed = 0]
          PROVE  adapter'.pc = "complete"
      BY <1>8, <2>3, HeardAdapter DEF At
    <2>. QED  BY <1>4, <2>0, <2>1, <2>2, <2>3 DEF wait_for_completion
  <1>. QED  BY <1>5, <1>7, <1>8

LEMMA CalmAdapter ==
    ASSUME TypeOK, PortInv, CalmInv, AdapterStep
    PROVE  CalmInv'
  <1> SUFFICES ASSUME Calm' PROVE CalmInv'
    BY DEF CalmInv
  <1>1. /\ Moves /\ ~At("closed")
        /\ UNCHANGED <<call, controller, delivered, overlapped>>
        /\ trouble' \in {trouble, trouble \union {call}}
    BY AdapterMoves
  <1>2. Calm
    BY <1>1 DEF Calm, Alone
  <1>3. adapter'.pc # "closed"
    BY DEF Calm, Alone, At
  <1>4. CASE dispense_inner
    <2>1. /\ adapter' = [Closed EXCEPT !.pc = "ack", !.attempt = 1]
          /\ down' \in Sent(down, "dispense") /\ At("open") /\ up' = up
      BY <1>4 DEF dispense_inner, SendDispense
    <2>2. 1 \in 1 .. COMMAND_ATTEMPTS
      BY DEF COMMAND_ATTEMPTS
    <2>3. adapter'.pc = "ack"
      BY <2>1, <2>2, FreshAdapter
    <2>4. controller.state = "idle" /\ down = <<>> /\ Quiet(up) /\ Harmless(up)
      BY <1>2, <2>1 DEF CalmInv
    <2>5. down' = <<>> \/ down' = <<"dispense">>
      BY <2>1, <2>4 DEF Sent
    <2>. QED  BY <1>1, <2>1, <2>3, <2>4, <2>5 DEF CalmInv, At, Faults
  <1>5. CASE Reads
    BY <1>2, <1>3, <1>5, CalmReads
  <1>6. ~TimesOut /\ ~DeadlinePasses /\ ~Interrupt
    BY <1>1 DEF Calm, TimesOut, DeadlinePasses, Interrupt, Blame
  <1>. QED  BY <1>4, <1>5, <1>6 DEF AdapterStep

(* A frame the controller adds to the line of a call without trouble, whose *)
(* dispense frame is not waiting.                                           *)
LEMMA CalmSays ==
    ASSUME TypeOK, CalmInv, Calm, UNCHANGED daemonVars,
           NEW f \in LowerFrames, f \notin {"busy", "crc", "fault"},
           up' = Append(up, f) \/ up' = up,
           controller'.state \notin Faults, down' = down,
           controller.state = "idle" => f \in Heartbeats /\ controller'.state = "idle"
    PROVE  CalmInv'
  <1>1. up \in Seq(LowerFrames) /\ UNCHANGED <<call, adapter, overlapped>>
    BY DEF TypeOK, daemonVars
  <1>2. Harmless(up')
    BY <1>1, CalmAppend DEF CalmInv
  <1>3. AckFirst(up) => AckFirst(up')
    BY <1>1, CalmAppend
  <1>4. Quiet(up) /\ f \in Heartbeats => Quiet(up')
    BY <1>1, CalmAppend
  <1>. QED  BY <1>1, <1>2, <1>3, <1>4 DEF CalmInv, At

LEMMA CalmController ==
    ASSUME TypeOK, PortInv, CalmInv, ControllerStep
    PROVE  CalmInv'
  <1> SUFFICES ASSUME Calm' PROVE CalmInv'
    BY DEF CalmInv
  <1>1. Acts
    BY ControllerActs
  <1>2. UNCHANGED <<call, adapter, overlapped>> /\ UNCHANGED daemonVars
    BY <1>1 DEF Acts, daemonVars
  <1>3. Calm /\ ~At("closed") /\ call \notin trouble'
    BY <1>1, <1>2 DEF Acts, Calm, Alone, At
  <1>4. controller \in Controllers /\ controller.state \notin Faults /\ up \in Seq(LowerFrames)
    BY <1>3 DEF TypeOK, CalmInv
  <1>5. \A f \in LowerFrames : Says(f) => up' = Append(up, f)
    BY <1>3, SaysLine
  <1>6. {"ack", "event", "F1", "F2"} \subseteq LowerFrames
    BY DEF LowerFrames
  <1>7. CASE handle_upper_frame
    <2>1. down # <<>> /\ down' = Tail(down)
      BY <1>7 DEF handle_upper_frame
    <2>2. /\ At("ack") /\ controller.state = "idle" /\ Quiet(up)
          /\ down = <<"dispense">> /\ Harmless(up)
      BY <1>3, <2>1 DEF CalmInv, At
    <2>3. Head(down) = "dispense" /\ Tail(down) = <<>>
      BY <2>2
    <2>4. ~Noise
      BY <1>3 DEF Noise, Blame
    <2>5. start_dispense
      BY <1>7, <2>3, <2>4 DEF handle_upper_frame
    <2>6. controller' = [state |-> "dispensing", work |-> call, sent |-> 0] /\ Says("ack")
      BY <2>2, <2>5 DEF start_dispense
    <2>7. controller'.state = "dispensing" /\ up' = Append(up, "ack")
      BY <1>5, <1>6, <2>6
    <2>8. Harmless(up') /\ AckFirst(up')
      BY <1>4, <1>6, <2>2, <2>7, CalmAppend
    <2>. QED  BY <1>2, <2>1, <2>2, <2>3, <2>7, <2>8 DEF CalmInv, At, Faults
  <1>8. CASE heartbeat_loop
    <2>1. up' = Append(up, Status) /\ controller' = controller /\ down' = down
      BY <1>8 DEF heartbeat_loop, Sent
    <2>2. Status \in LowerFrames /\ Status \in Heartbeats /\ Status \notin {"busy", "crc", "fault"}
      BY <1>4, StatusFrame DEF Heartbeats
    <2>. QED  BY <1>2, <1>3, <1>4, <2>1, <2>2, CalmSays
  <1>9. CASE run_dispense_sequence
    <2>1. /\ controller.state # "idle" /\ down' = down
          /\ Says("event") \/ Says("F1")
          /\ controller' = controller \/ Becomes("pickup") \/ Becomes("resetting")
      BY <1>9 DEF run_dispense_sequence
    <2>2. controller'.state \notin Faults
      BY <1>4, <2>1 DEF Becomes, Controllers, Faults
    <2>3. PICK f \in {"event", "F1"} : up' = Append(up, f)
      BY <1>5, <1>6, <2>1
    <2>. QED  BY <1>2, <1>3, <1>6, <2>1, <2>2, <2>3, CalmSays
  <1>10. CASE finish_reset_successfully
    <2>1. /\ controller.state = "resetting" /\ down' = down
          /\ Says("F2") \/ up' = up
          /\ \/ controller' = [controller EXCEPT !.sent = @ + 1]
             \/ controller' = [state |-> "idle", work |-> Nobody, sent |-> 0]
      BY <1>10 DEF finish_reset_successfully
    <2>2. controller'.state \in {"resetting", "idle"}
      BY <1>4, <2>1 DEF Controllers
    <2>3. up' = Append(up, "F2") \/ up' = up
      BY <1>5, <1>6, <2>1
    <2>. QED  BY <1>2, <1>3, <1>6, <2>1, <2>2, <2>3, CalmSays DEF Faults
  <1>11. ~Fails /\ ~Recovers /\ ~run_fault_reset_on_port
    BY <1>3, <1>4 DEF Fails, Recovers, run_fault_reset_on_port, Blame
  <1>. QED  BY <1>7, <1>8, <1>9, <1>10, <1>11 DEF ControllerStep

LEMMA CalmNext ==
    ASSUME TypeOK, PortInv, CalmInv, [Next]_vars
    PROVE  CalmInv'
  <1>1. CASE UNCHANGED vars
    BY <1>1 DEF vars, daemonVars, CalmInv, Calm, Alone, At
  <1>. QED  BY <1>1, NextSplit, CalmOpen, CalmAdapter, CalmController

(* A failure has its cause.                                                 *)
LEMMA FailureNext ==
    ASSUME TypeOK, PortInv, CalmInv, FailureHasCause, [Next]_vars
    PROVE  FailureHasCause'
  <1>1. CASE UNCHANGED vars
    BY <1>1 DEF vars, daemonVars, FailureHasCause
  <1>2. CASE ControllerStep
    BY <1>2, ControllerActs DEF Acts, daemonVars, FailureHasCause
  <1>3. CASE open_operational_port_locked
    <2>1. overlapped \subseteq overlapped' /\ trouble \subseteq trouble'
      BY <1>3 DEF open_operational_port_locked
    <2>2. \A c \in Calls : result'[c] = "failed" => result[c] = "failed" \/ c \in trouble'
      BY <1>3 DEF open_operational_port_locked, TypeOK
    <2>. QED  BY <2>1, <2>2 DEF FailureHasCause
  <1>4. CASE AdapterStep
    <2>1. /\ Moves /\ ~At("closed") /\ UNCHANGED <<call, overlapped>>
          /\ trouble \subseteq trouble'
      BY <1>4, AdapterMoves
    <2>2. \A c \in Calls : result'[c] = "failed" => result[c] = "failed" \/ c = call
      BY <2>1 DEF Moves, TypeOK
    <2>3. CASE call \in trouble' \union overlapped
      BY <2>1, <2>2, <2>3 DEF FailureHasCause
    <2>4. CASE call \notin trouble' \union overlapped
      <3>1. Calm
        BY <2>1, <2>4 DEF Calm, Alone
      <3>2. CASE dispense_inner
        BY <2>1, <3>2 DEF dispense_inner, SendDispense, FailureHasCause
      <3>3. CASE Reads
        BY <2>1, <3>1, <3>3, CalmReads DEF FailureHasCause
      <3>4. ~TimesOut /\ ~DeadlinePasses /\ ~Interrupt
        BY <2>4 DEF TimesOut, DeadlinePasses, Interrupt, Blame
      <3>. QED  BY <1>4, <3>2, <3>3, <3>4 DEF AdapterStep
    <2>. QED  BY <2>3, <2>4
  <1>. QED  BY <1>1, <1>2, <1>3, <1>4, NextSplit

-----------------------------------------------------------------------------
(* The theorems.                                                            *)

LEMMA InitInd == Init => IndInv
  <1> SUFFICES ASSUME Init PROVE IndInv
    OBVIOUS
  <1>1. TypeOK /\ PortInv
    BY InitPort
  <1>2. At("closed")
    BY FreshAdapter DEF Init, At
  <1>3. ~Alone /\ ~Calm
    BY <1>2 DEF Alone, Calm
  <1>4. SuccessIsOwn /\ FailureHasCause
    BY DEF Init, SuccessIsOwn, FailureHasCause
  <1>. QED  BY <1>1, <1>3, <1>4 DEF IndInv, OwnInv, CalmInv

LEMMA NextInd == IndInv /\ [Next]_vars => IndInv'
  <1> SUFFICES ASSUME IndInv, [Next]_vars PROVE IndInv'
    OBVIOUS
  <1>1. TypeOK /\ PortInv /\ OwnInv /\ CalmInv /\ SuccessIsOwn /\ FailureHasCause
    BY DEF IndInv
  <1>2. TypeOK' /\ PortInv'
    BY <1>1, PortStep
  <1>3. OwnInv' /\ CalmInv'
    BY <1>1, OwnNext, CalmNext
  <1>4. SuccessIsOwn' /\ FailureHasCause'
    BY <1>1, SuccessNext, FailureNext
  <1>. QED  BY <1>2, <1>3, <1>4 DEF IndInv

(* The inductive invariant holds in every reachable state: what is known of *)
(* the line, the controller and the call between two frames (the body of    *)
(* dispense_inner).                                                         *)
THEOREM IndInvHolds == Spec => []IndInv
  <1>1. Init => IndInv
    BY InitInd
  <1>2. IndInv /\ [Next]_vars => IndInv'
    BY NextInd
  <1>. QED  BY <1>1, <1>2, PTL DEF Spec

(* Every variable keeps its type; the attempts, the status queries and the  *)
(* silences never exceed COMMAND_ATTEMPTS (the loops of dispense_inner,     *)
(* query_status_after_missing_ack and wait_for_completion).                 *)
THEOREM TypeCorrect == Spec => []TypeOK
  <1>1. IndInv => TypeOK
    BY DEF IndInv
  <1>. QED  BY <1>1, IndInvHolds, PTL

(* With any number of calls and any line, a call that found the controller  *)
(* idle reports success only if its own unit arrived (wait_for_completion). *)
THEOREM SuccessIsTheCallsOwn == Spec => []SuccessIsOwn
  <1>1. IndInv => SuccessIsOwn
    BY DEF IndInv
  <1>. QED  BY <1>1, IndInvHolds, PTL

(* With any number of calls and any line, a call that found the controller  *)
(* idle fails only after a late or lost frame, noise, a fault or the        *)
(* deadline (wait_for_ack, wait_for_completion).                            *)
THEOREM NoFailureWithoutCause == Spec => []FailureHasCause
  <1>1. IndInv => FailureHasCause
    BY DEF IndInv
  <1>. QED  BY <1>1, IndInvHolds, PTL
=============================================================================
