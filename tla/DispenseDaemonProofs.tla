------------------------- MODULE DispenseDaemonProofs -------------------------
(***************************************************************************)
(* Proofs about DispenseDaemon, for every set of commands and orders and    *)
(* any number of crashes: the inductive invariant, the safety properties    *)
(* and that the daemon keeps DispenseContract.                              *)
(***************************************************************************)
EXTENDS DispenseDaemon, TLAPS

USE DaemonAssumption

(* What a step of the loop or the scan holds.                               *)
LEMMA JobFields ==
    ASSUME NEW pc \in LoopSteps \union ScanSteps, NEW c \in Commands,
           NEW r \in Outcomes \union {"none"}
    PROVE  /\ Job(pc, c, r) \in Jobs
           /\ Job(pc, c, r).pc = pc /\ Job(pc, c, r).cmd = c /\ Job(pc, c, r).res = r
  BY DEF Job, Jobs

LEMMA IdleFields == Idle \in Jobs /\ Idle.pc = "idle"
  BY DEF Idle, Jobs

LEMMA JobParts ==
    ASSUME job \in Jobs
    PROVE  /\ job.pc \in {"idle"} \union LoopSteps \union ScanSteps
           /\ job.pc # "idle" =>
                 job.cmd \in Commands /\ job.res \in Outcomes \union {"none"}
  BY DEF Job, Jobs, Idle

(* The events of the outbox.                                                *)
LEMMA EventFields ==
    /\ \A c \in Commands : Ack(c) \in Events
    /\ \A c \in Commands, r \in Outcomes : Result(c, r) \in Events
    /\ \A e \in Events : e.cmd \in Commands
    /\ \A c \in Commands : Ack(c).kind = "ack" /\ Ack(c).cmd = c
    /\ \A c \in Commands, r \in Outcomes :
          /\ Result(c, r).kind = "result" /\ Result(c, r).cmd = c /\ Result(c, r).res = r
  BY DEF Ack, Result, Events

(* The store's rows.                                                        *)
RowsOK ==
    /\ log \in [Commands -> Logs]
    /\ result \in [Commands -> Outcomes \union {"none"}]
    /\ committed \in [Commands -> BOOLEAN]
    /\ moved \in [Commands -> 0 .. 1]
    /\ outbox \subseteq Events
    /\ blocked \in [Commands -> BOOLEAN]

SessionsOK ==
    /\ session \in [Orders -> Commands \union {NoCommand, NoSession}]
    /\ finished \in [Orders -> BOOLEAN]

ProcessOK ==
    /\ phase \in {"down", "journaled", "stale", "up"}
    /\ scan \subseteq Commands
    /\ job \in Jobs
    /\ inflight \in Events \union {NoEvent}
    /\ answer \in [Orders -> {NoAnswer} \union Statuses]
    /\ crashes \in 0 .. MaxCrashes

WorldOK ==
    /\ latest \in [Orders -> Commands \union {NoCommand}]
    /\ issued \subseteq Commands
    /\ starts \in [Commands -> Nat]
    /\ drops \in [Commands -> Nat]
    /\ wire \subseteq Events

LEMMA TypeParts == TypeOK <=> RowsOK /\ SessionsOK /\ ProcessOK /\ WorldOK
  BY DEF TypeOK, RowsOK, SessionsOK, ProcessOK, WorldOK

LEMMA TypeNext ==
    ASSUME RowsOK', SessionsOK', ProcessOK', WorldOK'
    PROVE  TypeOK'
  BY DEF TypeOK, RowsOK, SessionsOK, ProcessOK, WorldOK

(* The outbox after an event was written: the event replaces the one with   *)
(* the same id.                                                             *)
LEMMA OutboxInsert ==
    ASSUME outbox \subseteq Events, NEW e \in Events, insert_outbox_in_tx(e)
    PROVE  /\ outbox' \subseteq Events /\ e \in outbox'
           /\ \A x \in outbox' : x = e \/ x \in outbox
           /\ \A x \in outbox : x.kind # e.kind \/ x.cmd # e.cmd => x \in outbox'
  BY DEF insert_outbox_in_tx

(* What a committed outcome changes.                                        *)
LEMMA CommitEffect ==
    ASSUME TypeOK, NEW c \in Commands, NEW r \in Outcomes,
           commit_journaled_dispense_side_effects(c, r)
    PROVE  /\ result[c] = r
           /\ moved' \in [Commands -> 0 .. 1] /\ outbox' \subseteq Events
           /\ committed' \in [Commands -> BOOLEAN] /\ finished' \in [Orders -> BOOLEAN]
           /\ committed'[c] /\ \A d \in Commands : d # c => committed'[d] = committed[d]
           /\ r = "success" => moved'[c] = 1
           /\ r # "success" => moved'[c] = moved[c]
           /\ \A d \in Commands : d # c => moved'[d] = moved[d]
           /\ Result(c, r) \in outbox'
           /\ \A x \in outbox' : x = Result(c, r) \/ x \in outbox
           /\ \A d \in Commands, q \in Outcomes :
                 d # c /\ Result(d, q) \in outbox => Result(d, q) \in outbox'
  <1> USE DEF commit_journaled_dispense_side_effects
  <1>1. RowsOK /\ SessionsOK
    BY TypeParts
  <1>2. insert_outbox_in_tx(Result(c, r)) /\ Result(c, r) \in Events
    BY EventFields
  <1>3. /\ outbox' \subseteq Events /\ Result(c, r) \in outbox'
        /\ \A x \in outbox' : x = Result(c, r) \/ x \in outbox
        /\ \A x \in outbox :
              x.kind # Result(c, r).kind \/ x.cmd # Result(c, r).cmd => x \in outbox'
    BY <1>1, <1>2, OutboxInsert DEF RowsOK
  <1>4. \A d \in Commands, q \in Outcomes :
            d # c /\ Result(d, q) \in outbox => Result(d, q) \in outbox'
    BY <1>3, EventFields
  <1>5. result[c] = r
    BY DEF CanCommit
  <1>6. /\ moved' \in [Commands -> 0 .. 1]
        /\ r = "success" => moved'[c] = 1
        /\ r # "success" => moved'[c] = moved[c]
        /\ \A d \in Commands : d # c => moved'[d] = moved[d]
    BY <1>1 DEF RowsOK
  <1>7. /\ committed' \in [Commands -> BOOLEAN]
        /\ committed'[c] /\ \A d \in Commands : d # c => committed'[d] = committed[d]
    BY <1>1 DEF RowsOK
  <1>8. finished' \in [Orders -> BOOLEAN]
    BY <1>1 DEF SessionsOK, FinishSession
  <1> QED
    BY <1>3, <1>4, <1>5, <1>6, <1>7, <1>8

(* What the journal changes.                                                *)
LEMMA JournalEffect ==
    ASSUME TypeOK, NEW c \in Commands, NEW r \in Outcomes,
           record_command_result_journal(c, r)
    PROVE  /\ log' \in [Commands -> Logs]
           /\ result' \in [Commands -> Outcomes \union {"none"}]
           /\ \A d \in Commands : d # c => result'[d] = result[d] /\ log'[d] = log[d]
           /\ result[c] # "none" => result'[c] = result[c] /\ log'[c] = log[c]
           /\ result[c] = "none" => result'[c] = r /\ log'[c] \in {"succeeded", "failed"}
  BY DEF record_command_result_journal, TypeOK, Logs

-----------------------------------------------------------------------------
LEMMA TypeInit == Init => TypeOK
  BY IdleFields DEF Init, TypeOK, Logs

(* Every step keeps the types.                                              *)
LEMMA TypeStep == TypeOK /\ [Next]_vars => TypeOK'
  <1> SUFFICES ASSUME TypeOK, [Next]_vars PROVE TypeOK'
    OBVIOUS
  <1> USE TypeNext
  <1>0. RowsOK /\ SessionsOK /\ ProcessOK /\ WorldOK
    BY TypeParts
  <1>j. /\ Idle \in Jobs
        /\ \A pc \in LoopSteps \union ScanSteps, c \in Commands, r \in Outcomes \union {"none"} :
              Job(pc, c, r) \in Jobs
    BY JobFields, IdleFields
  <1>k. job.pc # "idle" => job.cmd \in Commands /\ job.res \in Outcomes \union {"none"}
    BY <1>0, JobParts DEF ProcessOK
  <1>1. ASSUME NEW c \in Commands, handle_dispense_command(c) PROVE TypeOK'
    <2>1. /\ result[c] # "none" => job' \in Jobs
          /\ result[c] = "none" => job' \in Jobs
      BY <1>0, <1>1, <1>j DEF handle_dispense_command, Goto, RowsOK, LoopSteps
    <2>2. log' \in [Commands -> Logs]
      BY <1>0, <1>1 DEF handle_dispense_command, RowsOK, Logs, Active
    <2>3. outbox' \subseteq Events
      BY <1>0, <1>1, EventFields, OutboxInsert DEF handle_dispense_command, RowsOK
    <2> QED
      BY <1>0, <1>1, <2>1, <2>2, <2>3 DEF handle_dispense_command, hardVars, netVars,
         RowsOK, SessionsOK, ProcessOK, WorldOK
  <1>2. CASE mark_command_dispensing
    <2>1. log' \in [Commands -> Logs] /\ job' \in Jobs
      BY <1>0, <1>2, <1>j, <1>k DEF mark_command_dispensing, At, Goto, RowsOK, LoopSteps, Logs, Active
    <2> QED
      BY <1>0, <1>2, <2>1 DEF mark_command_dispensing, hardVars, netVars,
         RowsOK, SessionsOK, ProcessOK, WorldOK
  <1>3. CASE dispense_with_progress
    <2>1. starts' \in [Commands -> Nat] /\ job' \in Jobs
      BY <1>0, <1>3, <1>j, <1>k DEF dispense_with_progress, At, Goto, WorldOK, LoopSteps
    <2> QED
      BY <1>0, <1>3, <2>1 DEF dispense_with_progress, storeVars, netVars,
         RowsOK, SessionsOK, ProcessOK, WorldOK
  <1>4. CASE HardwareRefuses \/ HardwareAnswers \/ HandlerFails
    <2>1. job' \in Jobs
      BY <1>0, <1>4, <1>j, <1>k DEF HardwareRefuses, HardwareAnswers, HandlerFails,
         At, Goto, LoopSteps, Outcomes
    <2> QED
      BY <1>0, <1>4, <2>1 DEF HardwareRefuses, HardwareAnswers, HandlerFails, storeVars,
         hardVars, netVars, RowsOK, SessionsOK, ProcessOK, WorldOK
  <1>5. CASE Journal
    <2>1. job.cmd \in Commands /\ job.res \in Outcomes \union {"none"} /\ job' \in Jobs
      BY <1>5, <1>j, <1>k DEF Journal, At, Goto, LoopSteps
    <2>2. log' \in [Commands -> Logs] /\ result' \in [Commands -> Outcomes \union {"none"}]
      BY <1>0, <1>5, <2>1 DEF Journal, record_command_result_journal, RowsOK, Logs
    <2> QED
      BY <1>0, <1>5, <2>1, <2>2 DEF Journal, hardVars, netVars,
         RowsOK, SessionsOK, ProcessOK, WorldOK
  <1>6. ASSUME NEW c \in Commands, NEW r \in Outcomes \union {"none"},
               commit_journaled_dispense_side_effects(c, r)
        PROVE  /\ moved' \in [Commands -> 0 .. 1] /\ committed' \in [Commands -> BOOLEAN]
               /\ outbox' \subseteq Events /\ finished' \in [Orders -> BOOLEAN]
    <2>1. Result(c, r) \in Events
      BY DEF Result, Events
    <2> QED
      BY <1>0, <1>6, <2>1, OutboxInsert
         DEF commit_journaled_dispense_side_effects, FinishSession, RowsOK, SessionsOK
  <1>7. CASE Commit \/ StaleCommit
    <2>1. /\ job.cmd \in Commands /\ job.res \in Outcomes \union {"none"}
          /\ commit_journaled_dispense_side_effects(job.cmd, job.res)
      BY <1>7, <1>k DEF Commit, StaleCommit, At
    <2>2. job' \in Jobs
      BY <1>7, <1>j, <2>1 DEF Commit, StaleCommit, Goto, LoopSteps, ScanSteps
    <2> QED
      BY <1>0, <1>6, <1>7, <2>1, <2>2 DEF Commit, StaleCommit, hardVars, netVars,
         RowsOK, SessionsOK, ProcessOK, WorldOK
  <1>8. CASE block_slot_for_dispense_failure \/ block_slot_for_dispense_result_unknown
    BY <1>0, <1>8, <1>j DEF block_slot_for_dispense_failure, Goto,
       block_slot_for_dispense_result_unknown, hardVars, netVars,
       RowsOK, SessionsOK, ProcessOK, WorldOK
  <1>9. ASSUME NEW c \in Commands, recover_journaled_dispense_side_effects(c) PROVE TypeOK'
    <2>1. result[c] \in Outcomes \union {"none"}
      BY <1>0 DEF RowsOK
    <2> QED
      BY <1>0, <1>6, <1>9, <2>1 DEF recover_journaled_dispense_side_effects, hardVars, netVars,
         RowsOK, SessionsOK, ProcessOK, WorldOK
  <1>10. ASSUME NEW c \in Commands, recover_stale_active_dispense_commands(c) PROVE TypeOK'
    <2>1. log' \in [Commands -> Logs] /\ result' \in [Commands -> Outcomes \union {"none"}]
      BY <1>10, JournalEffect DEF recover_stale_active_dispense_commands, Outcomes
    <2>2. job' \in Jobs
      BY <1>10, <1>j DEF recover_stale_active_dispense_commands, Goto, ScanSteps, Outcomes
    <2> QED
      BY <1>0, <1>10, <2>1, <2>2 DEF recover_stale_active_dispense_commands, hardVars, netVars,
         RowsOK, SessionsOK, ProcessOK, WorldOK
  <1>11. CASE StaleScanFails \/ run \/ Restart
    BY <1>0, <1>11, <1>j DEF StaleScanFails, run, Restart, Goto, Interrupted, storeVars, hardVars,
       netVars, RowsOK, SessionsOK, ProcessOK, WorldOK
  <1>12. CASE Crash
    BY <1>0, <1>12, <1>j DEF Crash, Goto, storeVars, hardVars, netVars,
       RowsOK, SessionsOK, ProcessOK, WorldOK
  <1>13. ASSUME NEW e \in Events, flush_due_outbox(e) PROVE TypeOK'
    BY <1>0, <1>13 DEF flush_due_outbox, storeVars, hardVars, netVars,
       RowsOK, SessionsOK, ProcessOK, WorldOK
  <1>14. CASE Transmit \/ acknowledge_mqtt_outbox_publish
    BY <1>0, <1>14 DEF Transmit, acknowledge_mqtt_outbox_publish, storeVars, procVars, hardVars,
       netVars, RowsOK, SessionsOK, ProcessOK, WorldOK
  <1>15. ASSUME NEW o \in Orders, refresh_current_from_backend(o) PROVE TypeOK'
    <2>1. answer' \in [Orders -> {NoAnswer} \union Statuses]
      BY <1>0, <1>15 DEF refresh_current_from_backend, Statuses, ProcessOK, WorldOK
    <2> QED
      BY <1>0, <1>15, <2>1 DEF refresh_current_from_backend, storeVars, hardVars, netVars,
         RowsOK, SessionsOK, ProcessOK, WorldOK
  <1>16. ASSUME NEW o \in Orders, apply_backend_order_status(o) PROVE TypeOK'
    <2>1. answer[o] \in Statuses
      BY <1>0, <1>16 DEF apply_backend_order_status, ProcessOK
    <2>2. answer[o].cmd \in Commands \union {NoCommand} /\ answer[o].final \in BOOLEAN
      BY <2>1 DEF Statuses
    <2>3. session' \in [Orders -> Commands \union {NoCommand, NoSession}]
      BY <1>0, <1>16, <2>2 DEF apply_backend_order_status, SessionsOK
    <2>4. finished' \in [Orders -> BOOLEAN]
      BY <1>0, <1>16, <2>2 DEF apply_backend_order_status, SessionsOK
    <2>5. answer' \in [Orders -> {NoAnswer} \union Statuses]
      BY <1>0, <1>16 DEF apply_backend_order_status, ProcessOK
    <2> QED
      BY <1>0, <1>16, <2>3, <2>4, <2>5 DEF apply_backend_order_status, hardVars, netVars,
         RowsOK, SessionsOK, ProcessOK, WorldOK
  <1>17. ASSUME NEW c \in Commands, Issue(c) \/ MotorDrops(c) PROVE TypeOK'
    BY <1>0, <1>17 DEF Issue, MotorDrops, storeVars, procVars, hardVars, netVars,
       RowsOK, SessionsOK, ProcessOK, WorldOK
  <1>18. CASE UNCHANGED vars
    BY <1>0, <1>18 DEF vars, storeVars, procVars, hardVars, netVars,
       RowsOK, SessionsOK, ProcessOK, WorldOK
  <1> QED
    BY <1>1, <1>2, <1>3, <1>4, <1>5, <1>7, <1>8, <1>9, <1>10, <1>11, <1>12, <1>13, <1>14,
       <1>15, <1>16, <1>17, <1>18 DEF Next, JobStep

-----------------------------------------------------------------------------
(* The log, the mechanism and what is in memory.                            *)
CoreInv == MotorOnce /\ MemoryIsCurrent /\ JournalExplains

coreVars == <<log, result, starts, drops, phase, scan, job>>

LEMMA CoreInit == Init => CoreInv
  BY IdleFields DEF Init, CoreInv, MotorOnce, MemoryIsCurrent, JournalExplains, LoopSteps, ScanSteps

(* A step after which nobody executes a command and the log is as before.   *)
LEMMA CoreIdle ==
    ASSUME CoreInv, job' = Idle, UNCHANGED <<log, result, starts, drops>>,
           scan' \subseteq Interrupted, scan' # {} => phase' = "stale"
    PROVE  CoreInv'
  BY IdleFields DEF CoreInv, MotorOnce, MemoryIsCurrent, JournalExplains, Interrupted,
     LoopSteps, ScanSteps

LEMMA CoreStep == TypeOK /\ CoreInv /\ [Next]_vars => CoreInv'
  <1> SUFFICES ASSUME TypeOK, CoreInv, [Next]_vars PROVE CoreInv'
    OBVIOUS
  <1>0. MotorOnce /\ MemoryIsCurrent /\ JournalExplains
    BY DEF CoreInv
  <1>a. /\ log \in [Commands -> Logs] /\ result \in [Commands -> Outcomes \union {"none"}]
        /\ starts \in [Commands -> Nat] /\ drops \in [Commands -> Nat]
        /\ scan \subseteq Commands
    BY DEF TypeOK
  <1>b. /\ job.pc # "idle" => job.cmd \in Commands /\ job.res \in Outcomes \union {"none"}
        /\ job.pc \in {"idle"} \union LoopSteps \union ScanSteps
    BY JobParts DEF TypeOK
  <1>c. job.pc \in LoopSteps => phase = "up" /\ scan = {}
    BY <1>0 DEF MemoryIsCurrent
  <1>d. \A pc \in LoopSteps \union ScanSteps, c \in Commands, r \in Outcomes \union {"none"} :
            Job(pc, c, r).pc = pc /\ Job(pc, c, r).cmd = c /\ Job(pc, c, r).res = r
    BY JobFields
  <1>1. ASSUME NEW c \in Commands, handle_dispense_command(c) PROVE CoreInv'
    <2>1. phase' = "up" /\ scan' = {} /\ UNCHANGED <<result, starts, drops>>
      BY <1>0, <1>1 DEF handle_dispense_command, hardVars, MemoryIsCurrent
    <2>2. CASE result[c] # "none"
      <3>1. UNCHANGED log /\ job'.pc = "commit" /\ job'.cmd = c /\ job'.res = result[c]
            /\ result[c] \in Outcomes
        BY <1>1, <1>a, <1>d, <2>2 DEF handle_dispense_command, Goto, LoopSteps
      <3> QED
        BY <1>0, <2>1, <3>1 DEF CoreInv, MotorOnce, MemoryIsCurrent, JournalExplains,
           LoopSteps, ScanSteps
    <2>3. CASE result[c] = "none"
      <3>1. /\ log[c] \notin Active /\ log' = [log EXCEPT ![c] = "acknowledged"]
            /\ job'.pc = "acked" /\ job'.cmd = c
        BY <1>1, <1>d, <2>3 DEF handle_dispense_command, Goto, LoopSteps
      <3>2. starts[c] = 0
        BY <1>0, <2>3, <3>1 DEF JournalExplains
      <3>3. JournalExplains'
        BY <1>0, <1>a, <2>1, <2>3, <3>1, <3>2 DEF JournalExplains, Active
      <3>4. c \in Interrupted'
        BY <1>a, <2>1, <2>3, <3>1 DEF Interrupted, Active
      <3> QED
        BY <1>0, <2>1, <3>1, <3>2, <3>3, <3>4 DEF CoreInv, MotorOnce, MemoryIsCurrent,
           LoopSteps, ScanSteps
    <2> QED
      BY <2>2, <2>3
  <1>2. CASE mark_command_dispensing
    <2>1. /\ job.pc = "acked" /\ job.cmd \in Commands /\ phase' = "up" /\ scan' = {}
          /\ UNCHANGED <<result, starts, drops>>
          /\ log' = [log EXCEPT ![job.cmd] = "dispensing"]
          /\ job'.pc = "start" /\ job'.cmd = job.cmd
      BY <1>2, <1>b, <1>c, <1>d DEF mark_command_dispensing, At, Goto, hardVars, LoopSteps
    <2>2. starts[job.cmd] = 0 /\ result[job.cmd] = "none"
      BY <1>0, <2>1 DEF MemoryIsCurrent, Interrupted
    <2>3. JournalExplains'
      BY <1>0, <1>a, <2>1, <2>2 DEF JournalExplains, Active
    <2>4. job.cmd \in Interrupted'
      BY <1>a, <2>1, <2>2 DEF Interrupted, Active
    <2> QED
      BY <1>0, <2>1, <2>2, <2>3, <2>4 DEF CoreInv, MotorOnce, MemoryIsCurrent,
         LoopSteps, ScanSteps
  <1>3. CASE dispense_with_progress
    <2>1. /\ job.pc = "start" /\ job.cmd \in Commands /\ phase' = "up" /\ scan' = {}
          /\ UNCHANGED <<log, result, drops>>
          /\ starts' = [starts EXCEPT ![job.cmd] = @ + 1]
          /\ job'.pc = "waiting" /\ job'.cmd = job.cmd
      BY <1>3, <1>b, <1>c, <1>d DEF dispense_with_progress, At, Goto, storeVars, LoopSteps
    <2>2. starts[job.cmd] = 0 /\ job.cmd \in Interrupted /\ log[job.cmd] # "none"
      BY <1>0, <2>1 DEF MemoryIsCurrent, Interrupted, Active
    <2>3. starts'[job.cmd] = 1 /\ \A c \in Commands : c # job.cmd => starts'[c] = starts[c]
      BY <1>a, <2>1, <2>2
    <2>4. JournalExplains' /\ MotorOnce'
      BY <1>0, <1>a, <2>1, <2>2, <2>3 DEF JournalExplains, MotorOnce
    <2>5. job.cmd \in Interrupted'
      BY <2>1, <2>2 DEF Interrupted
    <2> QED
      BY <2>1, <2>4, <2>5 DEF CoreInv, MemoryIsCurrent, LoopSteps, ScanSteps
  <1>4. CASE HardwareRefuses \/ HardwareAnswers
    <2>1. /\ job.pc \in {"start", "waiting"} /\ job.cmd \in Commands
          /\ phase' = "up" /\ scan' = {} /\ UNCHANGED <<log, result, starts, drops>>
          /\ job'.pc = "journal" /\ job'.cmd = job.cmd /\ job'.res \in Outcomes
          /\ job'.res = "success" => drops[job.cmd] > 0
      BY <1>4, <1>b, <1>c, <1>d DEF HardwareRefuses, HardwareAnswers, At, Goto, storeVars,
         hardVars, LoopSteps, Outcomes
    <2>2. job.cmd \in Interrupted'
      BY <1>0, <2>1 DEF MemoryIsCurrent, Interrupted
    <2> QED
      BY <1>0, <2>1, <2>2 DEF CoreInv, MotorOnce, MemoryIsCurrent, JournalExplains,
         LoopSteps, ScanSteps
  <1>5. CASE Journal
    <2>1. /\ job.pc = "journal" /\ job.cmd \in Commands /\ phase' = "up" /\ scan' = {}
          /\ UNCHANGED <<starts, drops>>
          /\ job'.pc = "commit" /\ job'.cmd = job.cmd /\ job'.res = job.res
          /\ record_command_result_journal(job.cmd, job.res)
      BY <1>5, <1>b, <1>c, <1>d DEF Journal, At, Goto, hardVars, LoopSteps
    <2>2. /\ job.res \in Outcomes /\ result[job.cmd] = "none" /\ log[job.cmd] # "none"
          /\ job.res = "success" => drops[job.cmd] > 0
      BY <1>0, <2>1 DEF MemoryIsCurrent, Interrupted, Active
    <2>3. /\ \A d \in Commands : d # job.cmd => result'[d] = result[d] /\ log'[d] = log[d]
          /\ result'[job.cmd] = job.res /\ log'[job.cmd] \in {"succeeded", "failed"}
      BY <2>1, <2>2, JournalEffect
    <2>4. JournalExplains'
      BY <1>0, <2>1, <2>2, <2>3 DEF JournalExplains, Outcomes, Active
    <2> QED
      BY <1>0, <2>1, <2>2, <2>3, <2>4 DEF CoreInv, MotorOnce, MemoryIsCurrent,
         LoopSteps, ScanSteps
  <1>6. CASE Commit
    <2>1. /\ job.pc = "commit" /\ job.cmd \in Commands /\ phase' = "up" /\ scan' = {}
          /\ UNCHANGED <<log, result, starts, drops>>
          /\ job.res \in Outcomes /\ result[job.cmd] = job.res
      BY <1>0, <1>6, <1>b, <1>c DEF Commit, At, hardVars, LoopSteps, MemoryIsCurrent
    <2>2. CASE job.res = "success"
      BY <1>6, <2>1, <2>2, CoreIdle DEF Commit, Goto
    <2>3. CASE job.res # "success"
      <3>1. job'.pc = "block" /\ job'.cmd = job.cmd /\ job'.res = job.res
        <4>1. job' = Job("block", job.cmd, job.res)
          BY <1>6, <2>3 DEF Commit, Goto
        <4> QED
          BY <1>d, <2>1, <4>1 DEF LoopSteps
      <3> QED
        BY <1>0, <2>1, <3>1 DEF CoreInv, MotorOnce, MemoryIsCurrent, JournalExplains,
           LoopSteps, ScanSteps
    <2> QED
      BY <2>2, <2>3
  <1>7. CASE HandlerFails \/ block_slot_for_dispense_failure
    BY <1>7, <1>c, CoreIdle DEF HandlerFails, block_slot_for_dispense_failure, At, Goto,
       storeVars, hardVars, LoopSteps
  <1>8. ASSUME NEW c \in Commands, recover_stale_active_dispense_commands(c) PROVE CoreInv'
    <2>1. /\ phase' = "stale" /\ c \in scan /\ scan' = scan \ {c}
          /\ UNCHANGED <<starts, drops>> /\ "unknown" \in Outcomes
          /\ record_command_result_journal(c, "unknown")
      BY <1>8 DEF recover_stale_active_dispense_commands, hardVars, Outcomes
    <2>2. job'.pc = "staleCommit" /\ job'.cmd = c /\ job'.res = "unknown"
      BY <1>8, <1>d, <2>1 DEF recover_stale_active_dispense_commands, Goto, ScanSteps
    <2>3. scan \subseteq Interrupted /\ result[c] = "none" /\ log[c] # "none"
      BY <1>0, <2>1 DEF MemoryIsCurrent, Interrupted, Active
    <2>4. /\ \A d \in Commands : d # c => result'[d] = result[d] /\ log'[d] = log[d]
          /\ result'[c] = "unknown" /\ log'[c] \in {"succeeded", "failed"}
      BY <2>1, <2>3, JournalEffect
    <2>5. JournalExplains'
      BY <1>0, <2>1, <2>3, <2>4 DEF JournalExplains, Active
    <2>6. scan' \subseteq Interrupted'
      BY <1>a, <2>1, <2>3, <2>4 DEF Interrupted
    <2> QED
      BY <1>0, <2>1, <2>2, <2>4, <2>5, <2>6 DEF CoreInv, MotorOnce, MemoryIsCurrent,
         LoopSteps, ScanSteps
  <1>9. CASE StaleCommit
    <2>1. /\ job.pc = "staleCommit" /\ job.cmd \in Commands
          /\ UNCHANGED <<log, result, starts, drops, phase, scan>>
          /\ job.res \in Outcomes /\ result[job.cmd] = job.res /\ phase = "stale"
      BY <1>0, <1>9, <1>b DEF StaleCommit, At, hardVars, ScanSteps, MemoryIsCurrent
    <2>2. job'.pc = "staleBlock" /\ job'.cmd = job.cmd /\ job'.res = job.res
      BY <1>9, <1>d, <2>1 DEF StaleCommit, Goto, ScanSteps
    <2> QED
      BY <1>0, <2>1, <2>2 DEF CoreInv, MotorOnce, MemoryIsCurrent, JournalExplains, Interrupted,
         LoopSteps, ScanSteps
  <1>10. CASE block_slot_for_dispense_result_unknown \/ StaleScanFails
    <2>1. scan \subseteq Interrupted /\ (scan # {} => phase = "stale")
      BY <1>0 DEF MemoryIsCurrent
    <2> QED
      BY <1>10, <2>1, CoreIdle DEF block_slot_for_dispense_result_unknown, StaleScanFails, Goto,
         storeVars, hardVars
  <1>11. CASE run
    <2>1. job.pc = "idle" /\ UNCHANGED <<job, log, result, starts, drops>>
      BY <1>11 DEF run, At, storeVars, hardVars
    <2>2. scan' \subseteq Interrupted /\ (scan' # {} => phase' = "stale")
      BY <1>11 DEF run
    <2> QED
      BY <1>0, <2>1, <2>2 DEF CoreInv, MotorOnce, MemoryIsCurrent, JournalExplains, Interrupted,
         LoopSteps, ScanSteps
  <1>12. CASE Crash
    BY <1>12, CoreIdle DEF Crash, Goto, storeVars, hardVars
  <1>13. CASE Restart
    <2>1. job.pc = "idle" /\ scan = {}
      BY <1>0, <1>13, <1>b DEF Restart, MemoryIsCurrent
    <2> QED
      BY <1>0, <1>13, <2>1 DEF Restart, storeVars, hardVars, CoreInv, MotorOnce,
         MemoryIsCurrent, JournalExplains, Interrupted, LoopSteps, ScanSteps
  <1>14. ASSUME NEW c \in Commands, MotorDrops(c) PROVE CoreInv'
    <2>1. /\ UNCHANGED <<log, result, starts, phase, scan, job>> /\ drops[c] < starts[c]
          /\ drops' = [drops EXCEPT ![c] = @ + 1]
      BY <1>14 DEF MotorDrops, storeVars, procVars
    <2>2. /\ \A d \in Commands : drops'[d] >= drops[d] /\ drops'[d] \in Nat
          /\ \A d \in Commands : drops'[d] <= starts[d] \/ drops'[d] = drops[d]
      BY <1>a, <2>1
    <2>3. JournalExplains'
      BY <1>0, <1>a, <2>1, <2>2 DEF JournalExplains
    <2>4. MemoryIsCurrent'
      BY <1>0, <1>a, <1>b, <2>1, <2>2 DEF MemoryIsCurrent, Interrupted
    <2> QED
      BY <1>0, <2>1, <2>3, <2>4 DEF CoreInv, MotorOnce
  <1>15. ASSUME UNCHANGED coreVars PROVE CoreInv'
    BY <1>0, <1>15 DEF coreVars, CoreInv, MotorOnce, MemoryIsCurrent, JournalExplains, Interrupted
  <1>16. ASSUME NEW c \in Commands, recover_journaled_dispense_side_effects(c) \/ Issue(c)
         PROVE  UNCHANGED coreVars
    BY <1>16 DEF recover_journaled_dispense_side_effects, Issue, storeVars, procVars, hardVars,
       coreVars
  <1>17. ASSUME NEW o \in Orders, refresh_current_from_backend(o) \/ apply_backend_order_status(o)
         PROVE  UNCHANGED coreVars
    BY <1>17 DEF refresh_current_from_backend, apply_backend_order_status, storeVars, hardVars,
       coreVars
  <1>18. ASSUME NEW e \in Events, flush_due_outbox(e)
         PROVE  UNCHANGED coreVars
    BY <1>18 DEF flush_due_outbox, storeVars, hardVars, coreVars
  <1>19. CASE Transmit \/ acknowledge_mqtt_outbox_publish
    BY <1>15, <1>19 DEF Transmit, acknowledge_mqtt_outbox_publish, storeVars, procVars, hardVars,
       coreVars
  <1>20. CASE UNCHANGED vars
    BY <1>15, <1>20 DEF vars, storeVars, procVars, hardVars, coreVars
  <1> QED
    BY <1>1, <1>2, <1>3, <1>4, <1>5, <1>6, <1>7, <1>8, <1>9, <1>10, <1>11, <1>12, <1>13, <1>14,
       <1>15, <1>16, <1>17, <1>18, <1>19, <1>20 DEF Next, JobStep

-----------------------------------------------------------------------------
(* What was committed and what was sent.                                    *)
ReportInv == ReportsAgree /\ CommitIsWhole

(* The event handed to the MQTT client, when it is a result: that of a      *)
(* committed command, also after its row was replaced or removed.           *)
InflightInv ==
    inflight # NoEvent /\ inflight.kind = "result" =>
        committed[inflight.cmd] /\ result[inflight.cmd] = inflight.res

reportVars == <<result, committed, moved, outbox, wire>>

LEMMA ReportInit == Init => ReportInv
  BY DEF Init, ReportInv, ReportsAgree, CommitIsWhole

LEMMA ResultIsEvent ==
    ASSUME NEW e \in Events, e.kind = "result"
    PROVE  e = Result(e.cmd, e.res)
  BY DEF Events, Result

(* The journal's first outcome of a command of which nothing was told.      *)
LEMMA JournalReports ==
    ASSUME TypeOK, ReportInv, NEW c \in Commands, NEW r \in Outcomes, result[c] = "none",
           record_command_result_journal(c, r),
           UNCHANGED <<committed, moved, outbox, inflight, wire>>
    PROVE  ReportInv'
  <1>1. /\ outbox \subseteq Events /\ wire \subseteq Events
        /\ committed \in [Commands -> BOOLEAN] /\ moved \in [Commands -> 0 .. 1]
    BY DEF TypeOK
  <1>2. \A d \in Commands : d # c => result'[d] = result[d]
    BY JournalEffect
  <1>3. ~committed[c] /\ \A e \in outbox \union wire : e.kind = "result" => e.cmd # c
    BY DEF ReportInv, CommitIsWhole
  <1>4. ReportsAgree'
    BY <1>1, <1>2, <1>3, EventFields DEF ReportInv, ReportsAgree
  <1>5. CommitIsWhole'
    BY <1>1, <1>2, <1>3 DEF ReportInv, CommitIsWhole
  <1> QED
    BY <1>4, <1>5 DEF ReportInv

(* The commit of a journaled outcome.                                       *)
LEMMA CommitReports ==
    ASSUME TypeOK, ReportInv, NEW c \in Commands, NEW r \in Outcomes,
           commit_journaled_dispense_side_effects(c, r),
           UNCHANGED <<result, inflight, wire>>
    PROVE  ReportInv'
  <1>1. /\ outbox \subseteq Events /\ wire \subseteq Events
        /\ committed \in [Commands -> BOOLEAN] /\ moved \in [Commands -> 0 .. 1]
    BY DEF TypeOK
  <1>2. /\ result[c] = r /\ committed'[c] /\ Result(c, r) \in outbox'
        /\ \A d \in Commands : d # c => committed'[d] = committed[d] /\ moved'[d] = moved[d]
        /\ r = "success" => moved'[c] = 1
        /\ r # "success" => moved'[c] = moved[c]
        /\ \A x \in outbox' : x = Result(c, r) \/ x \in outbox
        /\ \A d \in Commands, q \in Outcomes :
              d # c /\ Result(d, q) \in outbox => Result(d, q) \in outbox'
    BY CommitEffect
  <1>3. ReportsAgree'
    BY <1>2, EventFields DEF ReportInv, ReportsAgree
  <1>4. moved'[c] = IF r = "success" THEN 1 ELSE 0
    BY <1>2 DEF ReportInv, CommitIsWhole
  <1>5. r # "none"
    BY DEF Outcomes
  <1>6. ASSUME NEW d \in Commands, d # c, committed[d]
        PROVE  /\ result[d] # "none"
               /\ moved[d] = IF result[d] = "success" THEN 1 ELSE 0
               /\ Result(d, result[d]) \in outbox' \union wire
    <2>1. /\ result[d] # "none"
          /\ moved[d] = IF result[d] = "success" THEN 1 ELSE 0
          /\ Result(d, result[d]) \in outbox \union wire
      BY <1>6 DEF ReportInv, CommitIsWhole
    <2>2. result[d] \in Outcomes
      BY <2>1 DEF TypeOK
    <2> QED
      BY <1>2, <1>6, <2>1, <2>2
  <1>7. ASSUME NEW d \in Commands, d # c, ~committed[d]
        PROVE  /\ moved[d] = 0
               /\ \A e \in outbox' \union wire : e.kind = "result" => e.cmd # d
    <2>1. /\ moved[d] = 0
          /\ \A e \in outbox \union wire : e.kind = "result" => e.cmd # d
      BY <1>7 DEF ReportInv, CommitIsWhole
    <2>2. Result(c, r).cmd # d
      BY <1>7, EventFields
    <2> QED
      BY <1>2, <2>1, <2>2
  <1>8. CommitIsWhole'
    BY <1>2, <1>4, <1>5, <1>6, <1>7 DEF CommitIsWhole
  <1> QED
    BY <1>3, <1>8 DEF ReportInv

(* Every step keeps the reports in line with the journal.                   *)
LEMMA ReportStep == TypeOK /\ CoreInv /\ ReportInv /\ InflightInv /\ [Next]_vars => ReportInv'
  <1> SUFFICES ASSUME TypeOK, CoreInv, ReportInv, InflightInv, [Next]_vars PROVE ReportInv'
    OBVIOUS
  <1>0. MemoryIsCurrent /\ ReportsAgree /\ CommitIsWhole
    BY DEF CoreInv, ReportInv
  <1>a. /\ outbox \subseteq Events /\ wire \subseteq Events
        /\ inflight \in Events \union {NoEvent}
    BY DEF TypeOK
  <1>b. job.pc # "idle" => job.cmd \in Commands
    BY JobParts DEF TypeOK
  <1>1. ASSUME NEW c \in Commands, handle_dispense_command(c) PROVE ReportInv'
    <2>1. UNCHANGED <<result, committed, moved, inflight, wire>>
      BY <1>1 DEF handle_dispense_command, netVars
    <2>2. UNCHANGED outbox \/ insert_outbox_in_tx(Ack(c))
      BY <1>1 DEF handle_dispense_command
    <2>3. \A x \in Events : x.kind = "result" => (x \in outbox' <=> x \in outbox)
      BY <1>a, <2>2, EventFields DEF insert_outbox_in_tx
    <2>4. outbox' \subseteq Events
      BY <1>a, <2>2, EventFields DEF insert_outbox_in_tx
    <2>5. ReportsAgree'
      BY <1>0, <1>a, <2>1, <2>3, <2>4 DEF ReportsAgree
    <2>6. ASSUME NEW d \in Commands, committed[d]
          PROVE  Result(d, result[d]) \in outbox' \union wire
      <3>1. Result(d, result[d]) \in outbox \union wire
        BY <1>0, <2>6 DEF CommitIsWhole
      <3>2. result[d] \in Outcomes
        BY <1>0, <2>6 DEF CommitIsWhole, TypeOK
      <3> QED
        BY <2>3, <3>1, <3>2, EventFields
    <2>7. ASSUME NEW d \in Commands, ~committed[d]
          PROVE  \A e \in outbox' \union wire : e.kind = "result" => e.cmd # d
      BY <1>0, <1>a, <2>3, <2>4, <2>7 DEF CommitIsWhole
    <2>8. CommitIsWhole'
      BY <1>0, <2>1, <2>6, <2>7 DEF CommitIsWhole
    <2> QED
      BY <2>5, <2>8 DEF ReportInv
  <1>2. CASE Journal
    BY <1>0, <1>2, <1>b, JournalReports DEF Journal, At, netVars, MemoryIsCurrent, Interrupted
  <1>3. ASSUME NEW c \in Commands, recover_stale_active_dispense_commands(c) PROVE ReportInv'
    BY <1>0, <1>3, JournalReports DEF recover_stale_active_dispense_commands, netVars,
       MemoryIsCurrent, Interrupted, Outcomes
  <1>4. CASE Commit \/ StaleCommit
    <2>1. job.cmd \in Commands /\ job.res \in Outcomes
      BY <1>0, <1>4, <1>b DEF Commit, StaleCommit, At, MemoryIsCurrent, ScanSteps
    <2> QED
      BY <1>4, <2>1, CommitReports DEF Commit, StaleCommit, netVars
  <1>5. ASSUME NEW c \in Commands, recover_journaled_dispense_side_effects(c) PROVE ReportInv'
    <2>1. result[c] \in Outcomes
      BY <1>5 DEF recover_journaled_dispense_side_effects, TypeOK
    <2> QED
      BY <1>5, <2>1, CommitReports DEF recover_journaled_dispense_side_effects, netVars
  <1>6. CASE Transmit
    <2>1. /\ inflight \in Events /\ wire' = wire \union {inflight}
          /\ UNCHANGED <<result, committed, moved, outbox>>
      BY <1>6, <1>a DEF Transmit, storeVars
    <2>2. inflight.kind = "result" =>
              committed[inflight.cmd] /\ result[inflight.cmd] = inflight.res
      BY <1>6 DEF Transmit, InflightInv
    <2>3. ReportsAgree'
      BY <1>0, <2>1, <2>2 DEF ReportsAgree
    <2>4. CommitIsWhole'
      BY <1>0, <2>1, <2>2 DEF CommitIsWhole
    <2> QED
      BY <2>3, <2>4 DEF ReportInv
  <1>7. CASE acknowledge_mqtt_outbox_publish
    <2>1. /\ inflight \in wire /\ UNCHANGED <<result, committed, moved, wire>>
          /\ outbox' \subseteq outbox
          /\ \A x \in outbox : x.kind # inflight.kind \/ x.cmd # inflight.cmd => x \in outbox'
      BY <1>7 DEF acknowledge_mqtt_outbox_publish, netVars
    <2>2. ReportsAgree'
      BY <1>0, <2>1 DEF ReportsAgree
    <2>3. ASSUME NEW c \in Commands, committed[c]
          PROVE  Result(c, result[c]) \in outbox' \union wire
      <3>1. Result(c, result[c]) \in outbox \union wire
        BY <1>0, <2>3 DEF CommitIsWhole
      <3>2. result[c] \in Outcomes
        BY <1>0, <2>3 DEF CommitIsWhole, TypeOK
      <3>3. CASE inflight.kind = "result" /\ inflight.cmd = c
        <4>1. inflight.res = result[c]
          BY <1>0, <2>1, <3>3 DEF ReportsAgree
        <4> QED
          BY <1>a, <2>1, <3>3, <4>1, ResultIsEvent
      <3>4. CASE ~(inflight.kind = "result" /\ inflight.cmd = c)
        BY <2>1, <3>1, <3>2, <3>4, EventFields
      <3> QED
        BY <3>3, <3>4
    <2>4. CommitIsWhole'
      BY <1>0, <2>1, <2>3 DEF CommitIsWhole
    <2> QED
      BY <2>2, <2>4 DEF ReportInv
  <1>9. ASSUME UNCHANGED reportVars PROVE ReportInv'
    BY <1>0, <1>9 DEF reportVars, ReportInv, ReportsAgree, CommitIsWhole
  <1>10. CASE \/ mark_command_dispensing \/ dispense_with_progress \/ HardwareRefuses
              \/ HardwareAnswers \/ HandlerFails \/ block_slot_for_dispense_failure
              \/ StaleScanFails \/ block_slot_for_dispense_result_unknown
              \/ run \/ Crash \/ Restart \/ UNCHANGED vars
    BY <1>9, <1>10 DEF mark_command_dispensing, dispense_with_progress, HardwareRefuses,
       HardwareAnswers, HandlerFails, block_slot_for_dispense_failure, StaleScanFails,
       block_slot_for_dispense_result_unknown, run, Crash, Restart, vars, storeVars,
       netVars, reportVars
  <1>8. ASSUME NEW e \in Events, flush_due_outbox(e) PROVE ReportInv'
    BY <1>8, <1>9 DEF flush_due_outbox, storeVars, netVars, reportVars
  <1>11. ASSUME NEW o \in Orders, refresh_current_from_backend(o) \/ apply_backend_order_status(o)
         PROVE  ReportInv'
    BY <1>9, <1>11 DEF refresh_current_from_backend, apply_backend_order_status, storeVars,
       netVars, reportVars
  <1>12. ASSUME NEW c \in Commands, Issue(c) \/ MotorDrops(c) PROVE ReportInv'
    BY <1>9, <1>12 DEF Issue, MotorDrops, storeVars, procVars, netVars, reportVars
  <1> QED
    BY <1>1, <1>2, <1>3, <1>4, <1>5, <1>6, <1>7, <1>8, <1>10, <1>11, <1>12 DEF Next, JobStep

(* A committed outcome stays, and the event in flight only changes when     *)
(* there is none, or when the next one is taken from the outbox.            *)
LEMMA InflightStep == TypeOK /\ CoreInv /\ ReportInv /\ InflightInv /\ [Next]_vars => InflightInv'
  <1> SUFFICES ASSUME TypeOK, CoreInv, ReportInv, InflightInv, [Next]_vars PROVE InflightInv'
    OBVIOUS
  <1>0. MemoryIsCurrent /\ ReportsAgree /\ CommitIsWhole
    BY DEF CoreInv, ReportInv
  <1>a. /\ outbox \subseteq Events /\ inflight \in Events \union {NoEvent}
        /\ result \in [Commands -> Outcomes \union {"none"}]
        /\ committed \in [Commands -> BOOLEAN]
    BY DEF TypeOK
  <1>b. job.pc # "idle" => job.cmd \in Commands
    BY JobParts DEF TypeOK
  <1>1. ASSUME UNCHANGED inflight,
               \A c \in Commands : committed[c] => committed'[c] /\ result'[c] = result[c]
        PROVE  InflightInv'
    <2> SUFFICES ASSUME inflight # NoEvent, inflight.kind = "result"
                 PROVE  committed'[inflight.cmd] /\ result'[inflight.cmd] = inflight.res
      BY <1>1 DEF InflightInv
    <2>1. inflight.cmd \in Commands
      BY <1>a, EventFields
    <2> QED
      BY <1>1, <2>1 DEF InflightInv
  <1>2. ASSUME UNCHANGED <<inflight, committed, result>> PROVE InflightInv'
    BY <1>2 DEF InflightInv
  <1>3. ASSUME NEW e \in Events, flush_due_outbox(e) PROVE InflightInv'
    <2>1. e \in outbox /\ inflight' = e /\ UNCHANGED <<result, committed>>
      BY <1>3 DEF flush_due_outbox, storeVars
    <2>2. e.kind = "result" => result[e.cmd] = e.res
      BY <1>0, <2>1 DEF ReportsAgree
    <2>3. e.kind = "result" => committed[e.cmd]
      BY <1>0, <2>1, EventFields DEF CommitIsWhole
    <2> QED
      BY <2>1, <2>2, <2>3 DEF InflightInv
  <1>4. CASE Crash \/ acknowledge_mqtt_outbox_publish
    BY <1>4 DEF Crash, acknowledge_mqtt_outbox_publish, InflightInv
  <1>5. CASE Journal
    <2>1. /\ job.cmd \in Commands /\ job.res \in Outcomes /\ result[job.cmd] = "none"
          /\ record_command_result_journal(job.cmd, job.res)
          /\ UNCHANGED <<inflight, committed>>
      BY <1>0, <1>5, <1>b DEF Journal, At, MemoryIsCurrent, Interrupted
    <2>2. ~committed[job.cmd]
      BY <1>0, <2>1 DEF CommitIsWhole
    <2>3. \A d \in Commands : d # job.cmd => result'[d] = result[d]
      BY <2>1, JournalEffect
    <2> QED
      BY <1>1, <2>1, <2>2, <2>3
  <1>6. ASSUME NEW c \in Commands, recover_stale_active_dispense_commands(c) PROVE InflightInv'
    <2>1. /\ result[c] = "none" /\ record_command_result_journal(c, "unknown")
          /\ UNCHANGED <<inflight, committed>> /\ "unknown" \in Outcomes
      BY <1>0, <1>6 DEF recover_stale_active_dispense_commands, MemoryIsCurrent, Interrupted,
         Outcomes
    <2>2. ~committed[c]
      BY <1>0, <2>1 DEF CommitIsWhole
    <2>3. \A d \in Commands : d # c => result'[d] = result[d]
      BY <2>1, JournalEffect
    <2> QED
      BY <1>1, <2>1, <2>2, <2>3
  <1>7. ASSUME NEW c \in Commands, NEW r, commit_journaled_dispense_side_effects(c, r),
               UNCHANGED <<inflight, result>>
        PROVE  InflightInv'
    <2>1. \A d \in Commands : committed[d] => committed'[d]
      BY <1>a, <1>7 DEF commit_journaled_dispense_side_effects
    <2> QED
      BY <1>1, <1>7, <2>1
  <1>8. CASE Commit \/ StaleCommit
    BY <1>7, <1>8, <1>b DEF Commit, StaleCommit, At
  <1>9. ASSUME NEW c \in Commands, recover_journaled_dispense_side_effects(c) PROVE InflightInv'
    BY <1>7, <1>9 DEF recover_journaled_dispense_side_effects
  <1>10. CASE \/ mark_command_dispensing \/ dispense_with_progress \/ HardwareRefuses
              \/ HardwareAnswers \/ HandlerFails \/ block_slot_for_dispense_failure
              \/ StaleScanFails \/ block_slot_for_dispense_result_unknown
              \/ run \/ Restart \/ Transmit \/ UNCHANGED vars
    BY <1>2, <1>10 DEF mark_command_dispensing, dispense_with_progress, HardwareRefuses,
       HardwareAnswers, HandlerFails, block_slot_for_dispense_failure, StaleScanFails,
       block_slot_for_dispense_result_unknown, run, Restart, Transmit, vars, storeVars, procVars
  <1>11. ASSUME NEW o \in Orders, refresh_current_from_backend(o) \/ apply_backend_order_status(o)
         PROVE  InflightInv'
    BY <1>2, <1>11 DEF refresh_current_from_backend, apply_backend_order_status, storeVars
  <1>12. ASSUME NEW c \in Commands, handle_dispense_command(c) \/ Issue(c) \/ MotorDrops(c)
         PROVE  InflightInv'
    BY <1>2, <1>12 DEF handle_dispense_command, Issue, MotorDrops, storeVars, procVars
  <1> QED
    BY <1>3, <1>4, <1>5, <1>6, <1>8, <1>9, <1>10, <1>11, <1>12 DEF Next, JobStep

-----------------------------------------------------------------------------
DaemonInv == TypeOK /\ CoreInv /\ ReportInv /\ InflightInv

(* The inductive invariant of the daemon.                                   *)
THEOREM DaemonInvHolds == Spec => []DaemonInv
  <1>1. Init => DaemonInv
    BY TypeInit, CoreInit, ReportInit DEF DaemonInv, Init, InflightInv
  <1>2. DaemonInv /\ [Next]_vars => DaemonInv'
    BY TypeStep, CoreStep, ReportStep, InflightStep DEF DaemonInv
  <1> QED
    BY <1>1, <1>2, PTL DEF Spec

(* Every row, the process and the world keep their types.                   *)
THEOREM DaemonTypeCorrect == Spec => []TypeOK
  BY DaemonInvHolds, PTL DEF DaemonInv

(* The hardware is told to dispense at most once for a command.             *)
THEOREM MotorRunsOnce == Spec => []MotorOnce
  BY DaemonInvHolds, PTL DEF DaemonInv, CoreInv

(* What is in memory agrees with the durable log whenever it is used.       *)
THEOREM MemoryAlwaysCurrent == Spec => []MemoryIsCurrent
  BY DaemonInvHolds, PTL DEF DaemonInv, CoreInv

(* The log explains what the mechanism did, through crashes and restarts.   *)
THEOREM JournalAlwaysExplains == Spec => []JournalExplains
  BY DaemonInvHolds, PTL DEF DaemonInv, CoreInv

(* What is reported of a command is its journaled outcome.                  *)
THEOREM ReportsAlwaysAgree == Spec => []ReportsAgree
  BY DaemonInvHolds, PTL DEF DaemonInv, ReportInv

(* The side effects of an outcome become visible together.                  *)
THEOREM CommitAlwaysWhole == Spec => []CommitIsWhole
  BY DaemonInvHolds, PTL DEF DaemonInv, ReportInv

(* A reported success dropped one unit and moved one in the ledger.         *)
THEOREM SuccessAlwaysBacked == Spec => []SuccessIsBacked
  <1>1. DaemonInv => SuccessIsBacked
    <2> SUFFICES ASSUME DaemonInv, NEW c \in Commands
                 PROVE  /\ Result(c, "success") \in wire => drops[c] = 1 /\ moved[c] = 1
                        /\ moved[c] = 1 => drops[c] = 1 /\ result[c] = "success"
      BY DEF SuccessIsBacked
    <2>1. drops[c] \in Nat /\ starts[c] \in Nat /\ starts[c] <= 1 /\ drops[c] <= starts[c]
          /\ (result[c] = "success" => drops[c] > 0)
      BY DEF DaemonInv, TypeOK, CoreInv, MotorOnce, JournalExplains
    <2>2. result[c] = "success" => drops[c] = 1
      BY <2>1
    <2>3. moved[c] = 1 => committed[c] /\ result[c] = "success"
      BY DEF DaemonInv, ReportInv, CommitIsWhole
    <2>4. ASSUME Result(c, "success") \in wire
          PROVE  result[c] = "success" /\ moved[c] = 1
      <3>1. /\ Result(c, "success").kind = "result" /\ Result(c, "success").cmd = c
            /\ Result(c, "success").res = "success"
        BY EventFields DEF Outcomes
      <3>2. result[c] = "success"
        BY <2>4, <3>1 DEF DaemonInv, ReportInv, ReportsAgree
      <3>3. committed[c]
        BY <2>4, <3>1 DEF DaemonInv, ReportInv, CommitIsWhole
      <3> QED
        BY <3>2, <3>3 DEF DaemonInv, ReportInv, CommitIsWhole
    <2> QED
      BY <2>2, <2>3, <2>4
  <1> QED
    BY <1>1, DaemonInvHolds, PTL

-----------------------------------------------------------------------------
(* Refinement: the state of the contract in terms of the daemon's.          *)
Stage ==
    [c \in Commands |->
        IF result[c] # "none" THEN "concluded"
        ELSE IF log[c] # "none" THEN "accepted" ELSE "new"]

Told == {t \in Commands \X Outcomes : Result(t[1], t[2]) \in wire}

LEMMA ContractInit == Init => Contract!Init
  <1> SUFFICES ASSUME Init PROVE Contract!Init
    OBVIOUS
  <1>1. Stage = [c \in Commands |-> "new"]
    BY DEF Init, Stage
  <1>2. Told = {}
    BY DEF Init, Told
  <1> QED
    BY <1>1, <1>2 DEF Init, Contract!Init, Stage, Told

(* Steps that the contract does not see.                                    *)
LEMMA ContractStutter ==
    ASSUME UNCHANGED <<result, drops, wire>>,
           \A c \in Commands : log'[c] = "none" <=> log[c] = "none"
    PROVE  UNCHANGED Contract!vars
  <1>1. UNCHANGED Stage
    BY DEF Stage
  <1>2. UNCHANGED Told
    BY DEF Told
  <1> QED
    BY <1>1, <1>2 DEF Contract!vars, Stage, Told

(* The journal of a command that has no outcome concludes it.               *)
LEMMA ContractConclude ==
    ASSUME TypeOK, NEW c \in Commands, NEW r \in Outcomes,
           result[c] = "none", log[c] # "none",
           r = "success" => drops[c] = 1,
           record_command_result_journal(c, r), UNCHANGED <<drops, wire>>
    PROVE  Contract!Next
  <1>1. result' = [result EXCEPT ![c] = r]
    BY DEF record_command_result_journal
  <1>2. /\ \A d \in Commands : d # c => result'[d] = result[d] /\ log'[d] = log[d]
        /\ result'[c] = r /\ r # "none"
    BY JournalEffect DEF Outcomes
  <1>3. Stage[c] = "accepted" /\ Stage' = [Stage EXCEPT ![c] = "concluded"]
    BY <1>2 DEF Stage
  <1>4. UNCHANGED Told
    BY DEF Told
  <1>5. Contract!Conclude(c, r)
    BY <1>1, <1>3, <1>4 DEF Contract!Conclude, Stage, Told
  <1> QED
    BY <1>5 DEF Contract!Next, Contract!Outcomes, Outcomes

LEMMA ContractStep == DaemonInv /\ [Next]_vars => [Contract!Next]_(Contract!vars)
  <1> SUFFICES ASSUME DaemonInv, [Next]_vars
               PROVE  Contract!Next \/ UNCHANGED Contract!vars
    OBVIOUS
  <1>0. TypeOK /\ MotorOnce /\ MemoryIsCurrent /\ JournalExplains /\ ReportInv
    BY DEF DaemonInv, CoreInv
  <1>a. /\ log \in [Commands -> Logs] /\ result \in [Commands -> Outcomes \union {"none"}]
        /\ starts \in [Commands -> Nat] /\ drops \in [Commands -> Nat]
    BY <1>0 DEF TypeOK
  <1>b. job.pc # "idle" => job.cmd \in Commands
    BY <1>0, JobParts DEF TypeOK
  <1>c. \A c \in Commands : drops[c] > 0 => drops[c] = 1
    BY <1>0, <1>a DEF MotorOnce, JournalExplains
  <1>1. ASSUME NEW c \in Commands, handle_dispense_command(c)
        PROVE  Contract!Next \/ UNCHANGED Contract!vars
    <2>1. UNCHANGED <<result, drops, wire>>
      BY <1>1 DEF handle_dispense_command, hardVars, netVars
    <2>2. CASE UNCHANGED log
      BY <2>1, <2>2, ContractStutter
    <2>3. CASE /\ result[c] = "none" /\ log[c] \notin Active
               /\ log' = [log EXCEPT ![c] = "acknowledged"]
      <3>1. log[c] = "none"
        BY <1>0, <2>3 DEF JournalExplains
      <3>2. Stage[c] = "new" /\ Stage' = [Stage EXCEPT ![c] = "accepted"]
        BY <1>a, <2>1, <2>3, <3>1 DEF Stage
      <3>3. UNCHANGED Told
        BY <2>1 DEF Told
      <3>4. Contract!Accept(c)
        BY <2>1, <3>2, <3>3 DEF Contract!Accept, Stage, Told
      <3> QED
        BY <3>4 DEF Contract!Next
    <2> QED
      BY <1>1, <2>2, <2>3 DEF handle_dispense_command
  <1>2. CASE mark_command_dispensing
    <2>1. /\ job.cmd \in Commands /\ UNCHANGED <<result, drops, wire>>
          /\ log' = [log EXCEPT ![job.cmd] = "dispensing"] /\ log[job.cmd] # "none"
      BY <1>0, <1>2, <1>b DEF mark_command_dispensing, At, hardVars, netVars,
         MemoryIsCurrent, Interrupted, Active
    <2> QED
      BY <1>a, <2>1, ContractStutter
  <1>3. CASE Journal
    <2>1. /\ job.cmd \in Commands /\ job.res \in Outcomes
          /\ result[job.cmd] = "none" /\ log[job.cmd] # "none"
          /\ job.res = "success" => drops[job.cmd] = 1
          /\ record_command_result_journal(job.cmd, job.res) /\ UNCHANGED <<drops, wire>>
      BY <1>0, <1>3, <1>b, <1>c DEF Journal, At, hardVars, netVars,
         MemoryIsCurrent, Interrupted, Active
    <2> QED
      BY <1>0, <2>1, ContractConclude
  <1>4. ASSUME NEW c \in Commands, recover_stale_active_dispense_commands(c)
        PROVE  Contract!Next
    <2>1. /\ result[c] = "none" /\ log[c] # "none" /\ "unknown" \in Outcomes
          /\ record_command_result_journal(c, "unknown") /\ UNCHANGED <<drops, wire>>
      BY <1>0, <1>4 DEF recover_stale_active_dispense_commands, hardVars, netVars,
         MemoryIsCurrent, Interrupted, Active, Outcomes
    <2> QED
      BY <1>0, <2>1, ContractConclude
  <1>5. CASE Transmit
    <2> DEFINE e == inflight
    <2>0. e # NoEvent /\ (e.kind = "result" => result[e.cmd] = e.res)
      BY <1>5 DEF Transmit, DaemonInv, InflightInv
    <2>1. e \in Events /\ wire' = wire \union {e} /\ UNCHANGED <<log, result, drops>>
      BY <1>0, <1>5 DEF Transmit, TypeOK, storeVars, hardVars
    <2> HIDE DEF e
    <2>2. UNCHANGED Stage
      BY <2>1 DEF Stage
    <2>3. CASE e.kind = "result" /\ result[e.cmd] # "none"
      <3> DEFINE c == e.cmd
      <3>1. c \in Commands /\ result[c] = e.res /\ result[c] \in Outcomes
        BY <1>a, <2>0, <2>1, <2>3, EventFields
      <3>2. e = Result(c, result[c])
        BY <2>1, <2>3, <3>1, ResultIsEvent
      <3>3. \A d \in Commands, q \in Outcomes :
                Result(d, q) = e <=> d = c /\ q = result[c]
        BY <3>1, <3>2, EventFields
      <3>4. Told' = Told \union {<<c, result[c]>>}
        <4>1. \A t \in Commands \X Outcomes :
                  Result(t[1], t[2]) \in wire' <=>
                      Result(t[1], t[2]) \in wire \/ t = <<c, result[c]>>
          <5> TAKE t \in Commands \X Outcomes
          <5>1. t[1] \in Commands /\ t[2] \in Outcomes /\ t = <<t[1], t[2]>>
            OBVIOUS
          <5>2. Result(t[1], t[2]) = e <=> t[1] = c /\ t[2] = result[c]
            BY <3>3, <5>1
          <5> QED
            BY <2>1, <5>1, <5>2
        <4> QED
          BY <3>1, <4>1 DEF Told
      <3>5. Stage[c] = "concluded"
        BY <2>3, <3>1 DEF Stage
      <3>6. Contract!Tell(c)
        BY <2>1, <2>2, <3>4, <3>5 DEF Contract!Tell, Stage, Told
      <3> QED
        BY <3>1, <3>6 DEF Contract!Next
    <2>4. CASE ~(e.kind = "result" /\ result[e.cmd] # "none")
      <3>1. \A c \in Commands, r \in Outcomes : Result(c, r) # e
        <4> TAKE c \in Commands, r \in Outcomes
        <4>1. ASSUME e = Result(c, r) PROVE FALSE
          <5>1. e.kind = "result" /\ e.cmd = c /\ e.res = r
            BY <4>1, EventFields
          <5>2. result[c] = r /\ r # "none"
            BY <2>0, <5>1 DEF Outcomes
          <5> QED
            BY <2>4, <5>1, <5>2
        <4> QED
          BY <4>1
      <3>2. UNCHANGED Told
        BY <2>1, <3>1 DEF Told
      <3> QED
        BY <2>1, <2>2, <3>2 DEF Contract!vars, Stage, Told
    <2> QED
      BY <2>3, <2>4
  <1>6. ASSUME NEW c \in Commands, MotorDrops(c) PROVE Contract!Next
    <2>1. /\ drops[c] < starts[c] /\ drops' = [drops EXCEPT ![c] = @ + 1]
          /\ UNCHANGED <<log, result, wire>>
      BY <1>6 DEF MotorDrops, storeVars, netVars
    <2>2. drops[c] = 0 /\ starts[c] = 1
      BY <1>0, <1>a, <2>1 DEF MotorOnce
    <2>3. Stage[c] # "new"
      BY <1>0, <2>2 DEF JournalExplains, Stage
    <2>4. UNCHANGED <<Stage, Told>>
      BY <2>1 DEF Stage, Told
    <2>5. drops' = [drops EXCEPT ![c] = 1]
      BY <1>a, <2>1, <2>2
    <2>6. Contract!Drop(c)
      BY <2>1, <2>2, <2>3, <2>4, <2>5 DEF Contract!Drop, Stage, Told
    <2> QED
      BY <2>6 DEF Contract!Next
  <1>7. ASSUME UNCHANGED <<log, result, drops, wire>> PROVE UNCHANGED Contract!vars
    BY <1>7, ContractStutter
  <1>8. CASE \/ dispense_with_progress \/ HardwareRefuses \/ HardwareAnswers \/ HandlerFails
             \/ Commit \/ StaleCommit \/ block_slot_for_dispense_failure \/ StaleScanFails
             \/ block_slot_for_dispense_result_unknown
             \/ run \/ Crash \/ Restart \/ acknowledge_mqtt_outbox_publish \/ UNCHANGED vars
    BY <1>7, <1>8 DEF dispense_with_progress, HardwareRefuses, HardwareAnswers, HandlerFails,
       Commit, StaleCommit, block_slot_for_dispense_failure, StaleScanFails,
       block_slot_for_dispense_result_unknown, run, Crash, Restart,
       acknowledge_mqtt_outbox_publish, vars, storeVars, procVars, hardVars, netVars
  <1>9. ASSUME NEW o \in Orders, refresh_current_from_backend(o) \/ apply_backend_order_status(o)
        PROVE  UNCHANGED Contract!vars
    BY <1>7, <1>9 DEF refresh_current_from_backend, apply_backend_order_status, storeVars,
       hardVars, netVars
  <1>10. ASSUME NEW c \in Commands, recover_journaled_dispense_side_effects(c) \/ Issue(c)
         PROVE  UNCHANGED Contract!vars
    BY <1>7, <1>10 DEF recover_journaled_dispense_side_effects, Issue, storeVars, hardVars, netVars
  <1>11. ASSUME NEW e \in Events, flush_due_outbox(e) PROVE UNCHANGED Contract!vars
    BY <1>7, <1>11 DEF flush_due_outbox, storeVars, hardVars, netVars
  <1> QED
    BY <1>1, <1>2, <1>3, <1>4, <1>5, <1>6, <1>8, <1>9, <1>10, <1>11 DEF Next, JobStep

(* The daemon implements the contract: through redelivery, crashes and      *)
(* recovery a unit leaves at most once, an outcome is final and what is     *)
(* told is the outcome.                                                     *)
THEOREM DaemonKeepsContract == Spec => KeepsContract
  <1>1. Init /\ [][Next]_vars /\ []DaemonInv => Contract!Init /\ [][Contract!Next]_(Contract!vars)
    BY ContractInit, ContractStep, PTL
  <1> QED
    BY <1>1, DaemonInvHolds, PTL DEF Spec, KeepsContract, Contract!Spec
=============================================================================
