--------------------------- MODULE CheckoutProofs ---------------------------
(***************************************************************************)
(* Proofs about Checkout, for every set of requests and keys and any number *)
(* of flights, planograms and restarts.                                     *)
(***************************************************************************)
EXTENDS Checkout, TLAPS

USE CheckoutAssumption DEF CheckoutAssumption

(* A flight is being created: its task may still write a session.           *)
Creating(g) == task[g].step \in {"call", "commit", "write"}

(* Generations are handed out in order.                                     *)
GensInv ==
    /\ flight <= gens /\ marker.gen <= gens
    /\ \A g \in Gens : task[g] # NoTask => g <= gens

(* A creation is the active flight.                                         *)
FlightInv == \A g \in Gens : Creating(g) => flight = g

(* A request that reserves holds the fence alone and saw no flight; it has  *)
(* a key.  A task that writes holds the fence, too.                         *)
GateInv ==
    /\ \A c \in Callers : At(c, "reserving") => gate = "sale" /\ flight = 0
    /\ \A c, d \in Callers : At(c, "reserving") /\ At(d, "reserving") => c = d
    /\ \A c \in Callers : At(c, "admit") \/ At(c, "reserving") => caller[c].key \in Keys
    /\ \A g \in Gens : TaskAt(g, "write") => gate = "sale"

(* While its marker stands, a creation and its marker name one planogram.   *)
MarkerInv ==
    \A g \in Gens : Creating(g) /\ marker.gen = g => marker.plan = task[g].plan

IndInv ==
    TypeOK /\ GensInv /\ FlightInv /\ GateInv /\ MarkerInv /\ SpansNoSwitch

-----------------------------------------------------------------------------
(* What single steps do to the requests and to the tasks.                   *)

CallerType == caller \in [Callers -> {Idle} \union Requests]
TaskType == task \in [Gens -> {NoTask} \union Tasks]

(* One request goes on, the others stay.                                    *)
LEMMA CallerSet ==
    ASSUME CallerType, NEW c \in Callers, NEW r \in {Idle} \union Requests,
           caller' = [caller EXCEPT ![c] = r]
    PROVE  /\ CallerType'
           /\ caller'[c] = r
           /\ \A d \in Callers : d # c => caller'[d] = caller[d]
  BY DEF CallerType

(* One task goes on, the others stay.                                       *)
LEMMA TaskSet ==
    ASSUME TaskType, NEW g \in Gens, NEW t \in {NoTask} \union Tasks,
           task' = [task EXCEPT ![g] = t]
    PROVE  /\ TaskType'
           /\ task'[g] = t
           /\ \A h \in Gens : h # g => task'[h] = task[h]
  BY DEF TaskType

(* A task that is at a step is a whole record.                              *)
LEMMA TaskIs ==
    ASSUME TaskType, NEW g \in Gens, task[g].step # "none"
    PROVE  task[g] \in Tasks
  BY DEF TaskType, NoTask

(* A request that is at a step is a whole record.                           *)
LEMMA CallerIs ==
    ASSUME CallerType, NEW c \in Callers, caller[c].step # "idle"
    PROVE  caller[c] \in Requests
  BY DEF CallerType, Idle

(* A task moves to another step.                                            *)
LEMMA TaskStep ==
    ASSUME NEW t \in Tasks,
           NEW s \in {"call", "commit", "write", "finish", "drain"}
    PROVE  /\ [t EXCEPT !.step = s] \in Tasks
           /\ [t EXCEPT !.step = s].step = s
           /\ [t EXCEPT !.step = s].key = t.key
           /\ [t EXCEPT !.step = s].plan = t.plan
  BY DEF Tasks

(* A task is done with its creation.                                        *)
LEMMA FinishingTask ==
    ASSUME NEW t \in Tasks, NEW b \in BOOLEAN
    PROVE  Finishing(t, b) \in Tasks /\ Finishing(t, b).step = "finish"
  <1>1. 1 \in Plans
    BY DEF Plans
  <1> QED
    BY <1>1 DEF Finishing, Tasks

(* What a request does after the refresh.                                   *)
LEMMA StepType ==
    ASSUME NEW s \in {"terminal", "ask", "apply", "admit", "reserving", "joined"},
           NEW k \in Keys \union {NoKey}, NEW on \in Keys \union {NoKey},
           NEW seen \in {"active", "terminal"}
    PROVE  /\ Step(s, k, on, seen) \in Requests
           /\ Step(s, k, on, seen).step = s
           /\ Step(s, k, on, seen).key = k
  BY DEF Step, Requests, Gens

LEMMA JoinType ==
    ASSUME flight \in {0} \union Gens, NEW k
    PROVE  /\ JoinOrRefuse(k) \in {Idle} \union Requests
           /\ JoinOrRefuse(k).step \in {"idle", "joined"}
  <1>1. CASE task[flight].key = k
    BY <1>1 DEF JoinOrRefuse, Requests
  <1>2. CASE task[flight].key # k
    BY <1>2 DEF JoinOrRefuse, Idle
  <1> QED
    BY <1>1, <1>2

LEMMA DecideType ==
    ASSUME flight \in {0} \union Gens, NEW k \in Keys \union {NoKey}, NEW seen
    PROVE  /\ Decide(k, seen) \in {Idle} \union Requests
           /\ Decide(k, seen).step \in {"idle", "joined", "admit"}
           /\ Decide(k, seen).step = "admit" => Decide(k, seen).key \in Keys
  <1>1. CASE k = NoKey \/ seen = "active"
    BY <1>1 DEF Decide, Idle
  <1>2. CASE ~(k = NoKey \/ seen = "active") /\ flight # 0
    BY <1>2, JoinType DEF Decide
  <1>3. CASE ~(k = NoKey \/ seen = "active") /\ flight = 0
    <2>1. Decide(k, seen) = Step("admit", k, NoKey, "active")
      BY <1>3 DEF Decide
    <2>2. Step("admit", k, NoKey, "active") \in Requests
          /\ Step("admit", k, NoKey, "active").step = "admit"
          /\ Step("admit", k, NoKey, "active").key = k
      BY StepType
    <2> QED
      BY <1>3, <2>1, <2>2
  <1> QED
    BY <1>1, <1>2, <1>3

LEMMA RefreshType ==
    ASSUME TypeOK, NEW k \in Keys \union {NoKey}
    PROVE  /\ refresh_current_from_backend(k) \in {Idle} \union Requests
           /\ refresh_current_from_backend(k).step \in
                  {"idle", "joined", "admit", "terminal", "ask"}
           /\ refresh_current_from_backend(k).step = "admit"
                  => refresh_current_from_backend(k).key \in Keys
  <1>1. Snapshot \in {"none", "active", "terminal"}
    BY DEF TypeOK, Snapshot
  <1>2. CASE Snapshot = "none"
    BY <1>2, DecideType DEF refresh_current_from_backend, TypeOK
  <1>3. CASE Snapshot = "terminal"
    <2>1. refresh_current_from_backend(k) = Step("terminal", k, NoKey, "active")
      BY <1>3 DEF refresh_current_from_backend
    <2> QED
      BY <2>1, StepType
  <1>4. CASE Snapshot = "active"
    <2>1. refresh_current_from_backend(k) = Step("ask", k, current, "active")
      BY <1>4 DEF refresh_current_from_backend
    <2> QED
      BY <2>1, StepType DEF TypeOK
  <1> QED
    BY <1>1, <1>2, <1>3, <1>4

-----------------------------------------------------------------------------
(* Steps that touch one request or one task only.                           *)

(* The types of everything but the requests and the tasks.                  *)
RestType ==
    /\ marker \in Markers
    /\ session \in [Keys -> {"none", "active", "terminal"}]
    /\ current \in Keys \union {NoKey}
    /\ plan \in Plans
    /\ flight \in {0} \union Gens
    /\ gate \in {"idle", "sale", "binding"}
    /\ order \in [Keys -> {"absent", "open", "ended"}]
    /\ wire \subseteq [key : Keys, gen : Gens]
    /\ gens \in 0 .. MaxFlights
    /\ crashes \in 0 .. MaxCrashes

LEMMA TypeParts == TypeOK <=> RestType /\ CallerType /\ TaskType
  BY DEF TypeOK, RestType, CallerType, TaskType

LEMMA TypePartsNext == TypeOK' <=> RestType' /\ CallerType' /\ TaskType'
  BY DEF TypeOK, RestType, CallerType, TaskType

(* A request goes on without the fence: it does not come to hold it, and it *)
(* asks for it only with a key.  The marker may go.                         *)
LEMMA CallerMoves ==
    ASSUME IndInv, NEW c \in Callers, NEW r \in {Idle} \union Requests,
           caller' = [caller EXCEPT ![c] = r],
           r.step # "reserving", r.step = "admit" => r.key \in Keys,
           RestType', marker' = marker \/ marker' = NoMarker,
           UNCHANGED <<plan, flight, gate, task, gens>>
    PROVE  IndInv'
  <1>0. RestType /\ CallerType /\ TaskType
    BY TypeParts DEF IndInv
  <1>1. /\ CallerType'
        /\ caller'[c] = r
        /\ \A d \in Callers : d # c => caller'[d] = caller[d]
    BY <1>0, CallerSet
  <1>2. TypeOK'
    BY <1>0, <1>1, TypePartsNext DEF TaskType
  <1>3. GensInv'
    BY <1>0 DEF IndInv, GensInv, NoMarker, RestType
  <1>4. FlightInv'
    BY DEF IndInv, FlightInv, Creating
  <1>5. GateInv'
    BY <1>1 DEF IndInv, GateInv, At, TaskAt
  <1>6. MarkerInv'
    <2>1. CASE marker' = marker
      BY <2>1 DEF IndInv, MarkerInv, Creating
    <2>2. CASE marker' = NoMarker
      BY <2>2 DEF MarkerInv, NoMarker, Gens
    <2> QED
      BY <2>1, <2>2
  <1>7. SpansNoSwitch'
    BY DEF IndInv, SpansNoSwitch, TaskAt
  <1> QED
    BY <1>2, <1>3, <1>4, <1>5, <1>6, <1>7 DEF IndInv

(* A task goes on without the fence: it does not come to write, and it goes *)
(* on creating only under its own planogram.  A flight ends when its task   *)
(* is past its creation.                                                    *)
LEMMA TaskMoves ==
    ASSUME IndInv, NEW g \in Gens, NEW t \in {NoTask} \union Tasks,
           task' = [task EXCEPT ![g] = t],
           task[g] # NoTask \/ t = NoTask,
           t.step # "write",
           t.step \in {"call", "commit"} => Creating(g) /\ t.plan = task[g].plan,
           flight' = flight \/ (flight = g /\ flight' = 0 /\ t.step = "drain"),
           RestType', marker' = marker \/ marker' = NoMarker,
           UNCHANGED <<plan, gate, caller, gens>>
    PROVE  IndInv'
  <1>0. RestType /\ CallerType /\ TaskType
    BY TypeParts DEF IndInv
  <1>1. /\ TaskType'
        /\ task'[g] = t
        /\ \A h \in Gens : h # g => task'[h] = task[h]
    BY <1>0, TaskSet
  <1>2. TypeOK'
    BY <1>0, <1>1, TypePartsNext DEF CallerType
  <1>3. GensInv'
    <2>1. g <= gens \/ t = NoTask
      BY DEF IndInv, GensInv
    <2>2. flight' <= gens' /\ marker'.gen <= gens'
      BY <1>0 DEF IndInv, GensInv, NoMarker, RestType
    <2> QED
      BY <1>1, <2>1, <2>2 DEF IndInv, GensInv
  <1>4. FlightInv'
    <2>1. ASSUME NEW h \in Gens, Creating(h)' PROVE Creating(h) /\ flight' = flight
      <3>1. CASE h = g
        BY <1>1, <2>1, <3>1 DEF Creating
      <3>2. CASE h # g
        BY <1>1, <2>1, <3>2 DEF Creating, IndInv, FlightInv
      <3> QED
        BY <3>1, <3>2
    <2> QED
      BY <2>1 DEF IndInv, FlightInv
  <1>5. GateInv'
    <2>1. \A c \in Callers : At(c, "reserving") => flight' = 0
      BY <1>0 DEF IndInv, GateInv
    <2>2. \A h \in Gens : TaskAt(h, "write")' => gate' = "sale"
      BY <1>1 DEF IndInv, GateInv, TaskAt
    <2> QED
      BY <2>1, <2>2 DEF IndInv, GateInv, At
  <1>6. MarkerInv'
    <2>1. CASE marker' = NoMarker
      BY <2>1 DEF MarkerInv, NoMarker, Gens
    <2>2. CASE marker' = marker
      <3>1. ASSUME NEW h \in Gens, Creating(h)'
            PROVE  Creating(h) /\ task'[h].plan = task[h].plan
        BY <1>1, <3>1 DEF Creating
      <3> QED
        BY <2>2, <3>1 DEF IndInv, MarkerInv
    <2> QED
      BY <2>1, <2>2
  <1>7. SpansNoSwitch'
    BY <1>1 DEF IndInv, SpansNoSwitch, TaskAt
  <1> QED
    BY <1>2, <1>3, <1>4, <1>5, <1>6, <1>7 DEF IndInv

-----------------------------------------------------------------------------
(* Every step.                                                              *)

LEMMA InitInd == Init => IndInv
  <1> SUFFICES ASSUME Init PROVE IndInv
    OBVIOUS
  <1>1. RestType
    BY DEF Init, RestType, Markers, Plans
  <1>2. CallerType /\ TaskType
    BY DEF Init, CallerType, TaskType
  <1>3. \A g \in Gens : task[g] = NoTask
    BY DEF Init
  <1>4. \A c \in Callers : caller[c] = Idle
    BY DEF Init
  <1>5. GensInv
    BY <1>3 DEF Init, GensInv, NoMarker
  <1>6. FlightInv /\ MarkerInv /\ SpansNoSwitch
    BY <1>3 DEF FlightInv, MarkerInv, SpansNoSwitch, Creating, TaskAt, NoTask
  <1>7. GateInv
    BY <1>3, <1>4 DEF GateInv, At, TaskAt, NoTask, Idle
  <1> QED
    BY <1>1, <1>2, <1>5, <1>6, <1>7, TypeParts DEF IndInv

(* The requests and polls.                                                  *)
LEMMA RequestStep ==
    ASSUME IndInv, NEW c \in Callers,
           \/ \E k \in Keys : create_order(c, k) \/ cancel_order(c, k)
           \/ restore_current(c) \/ clear_recovery_marker_after_terminal(c)
           \/ get_order_status(c) \/ apply_backend_order_status(c)
           \/ wait_for_joined_checkout(c)
    PROVE  IndInv'
  <1>0. RestType /\ CallerType /\ TaskType
    BY TypeParts DEF IndInv
  <1>i. Idle \in {Idle} \union Requests /\ Idle.step = "idle"
    BY DEF Idle
  <1>r. UNCHANGED <<durableVars, flight, gate, platformVars, counters>> => RestType'
    BY <1>0 DEF RestType, durableVars, platformVars, counters
  <1>1. ASSUME NEW k \in Keys, create_order(c, k) PROVE IndInv'
    BY <1>0, <1>r, <1>1, RefreshType, CallerMoves
       DEF create_order, IndInv, durableVars, counters
  <1>2. ASSUME restore_current(c) PROVE IndInv'
    <2>1. (IF current = NoKey THEN marker.key ELSE NoKey) \in Keys \union {NoKey}
      BY <1>0 DEF RestType, Markers, NoMarker
    <2> DEFINE k == IF current = NoKey THEN marker.key ELSE NoKey
    <2> HIDE DEF k
    <2>2. k \in Keys \union {NoKey}
      BY <2>1 DEF k
    <2>3. caller' = [caller EXCEPT ![c] = refresh_current_from_backend(k)]
      BY <1>2 DEF restore_current, k
    <2> QED
      BY <1>0, <1>r, <1>2, <2>2, <2>3, RefreshType, CallerMoves
         DEF restore_current, IndInv, durableVars, counters
  <1>3. ASSUME clear_recovery_marker_after_terminal(c) PROVE IndInv'
    <2>1. caller[c].key \in Keys \union {NoKey}
      BY <1>0, <1>3, CallerIs DEF clear_recovery_marker_after_terminal, At, Requests
    <2>2. caller' = [caller EXCEPT ![c] = Decide(caller[c].key, "terminal")]
      BY <1>3 DEF clear_recovery_marker_after_terminal
    <2>3. RestType'
      BY <1>0, <1>3
         DEF clear_recovery_marker_after_terminal, RestType, platformVars, counters, Markers
    <2> DEFINE r == Decide(caller[c].key, "terminal")
    <2>4. flight \in {0} \union Gens
      BY <1>0 DEF RestType
    <2>5. /\ r \in {Idle} \union Requests /\ r.step # "reserving"
          /\ r.step = "admit" => r.key \in Keys
      BY <2>1, <2>4, DecideType
    <2>6. /\ marker' = NoMarker
          /\ UNCHANGED <<plan, flight, gate, task, gens>>
      BY <1>3 DEF clear_recovery_marker_after_terminal, counters
    <2> QED
      BY <2>2, <2>3, <2>5, <2>6, CallerMoves
  <1>4. ASSUME get_order_status(c) PROVE IndInv'
    <2>1. CASE Return(c)
      BY <1>i, <1>r, <1>4, <2>1, CallerMoves DEF get_order_status, Return, durableVars, counters
    <2>2. CASE ~Return(c)
      <3> DEFINE r == [caller[c] EXCEPT !.step = "apply", !.seen = StatusOf(caller[c].on)]
      <3>1. caller[c] \in Requests
        BY <1>0, <1>4, CallerIs DEF get_order_status, At
      <3>2. StatusOf(caller[c].on) \in {"active", "terminal"}
        BY DEF StatusOf
      <3>3. r \in Requests /\ r.step = "apply"
        BY <3>1, <3>2 DEF Requests
      <3>4. caller' = [caller EXCEPT ![c] = r]
        BY <1>4, <2>2 DEF get_order_status
      <3> HIDE DEF r
      <3> QED
        BY <1>r, <1>4, <3>3, <3>4, CallerMoves DEF get_order_status, durableVars, counters
    <2> QED
      BY <2>1, <2>2
  <1>5. ASSUME apply_backend_order_status(c) PROVE IndInv'
    <2>1. caller[c] \in Requests
      BY <1>0, <1>5, CallerIs DEF apply_backend_order_status, At
    <2>2. /\ caller[c].key \in Keys \union {NoKey} /\ caller[c].on \in Keys \union {NoKey}
          /\ caller[c].seen \in {"active", "terminal"}
      BY <2>1 DEF Requests
    <2>3. caller' = [caller EXCEPT ![c] = Decide(caller[c].key, caller[c].seen)]
      BY <1>5 DEF apply_backend_order_status
    <2>4. RestType'
      BY <1>0, <1>5, <2>2
         DEF apply_backend_order_status, upsert_order_session, RestType, platformVars, counters
    <2> DEFINE r == Decide(caller[c].key, caller[c].seen)
    <2>5. flight \in {0} \union Gens
      BY <1>0 DEF RestType
    <2>6. /\ r \in {Idle} \union Requests /\ r.step # "reserving"
          /\ r.step = "admit" => r.key \in Keys
      BY <2>2, <2>5, DecideType
    <2>7. /\ marker' = marker
          /\ UNCHANGED <<plan, flight, gate, task, gens>>
      BY <1>5 DEF apply_backend_order_status, counters
    <2> QED
      BY <2>3, <2>4, <2>6, <2>7, CallerMoves
  <1>6. ASSUME NEW k \in Keys, cancel_order(c, k) PROVE IndInv'
    <2>1. RestType'
      BY <1>0, <1>6 DEF cancel_order, RestType, durableVars, counters
    <2>2. /\ Step("apply", NoKey, k, "terminal") \in Requests
          /\ Step("apply", NoKey, k, "terminal").step = "apply"
      BY StepType
    <2> QED
      BY <1>6, <2>1, <2>2, CallerMoves DEF cancel_order, durableVars, counters
  <1>7. ASSUME wait_for_joined_checkout(c) PROVE IndInv'
    BY <1>i, <1>r, <1>7, CallerMoves DEF wait_for_joined_checkout, Return, durableVars, counters
  <1> QED
    BY <1>1, <1>2, <1>3, <1>4, <1>5, <1>6, <1>7

(* The tasks, when they neither take nor hold the fence.                    *)
LEMMA TaskOnlyStep ==
    ASSUME IndInv, NEW g \in Gens,
           \/ \E k \in Keys : PlatformHandles(k, g)
           \/ CallFails(g) \/ ReadStatus(g) \/ finish_flight(g)
           \/ clear_recovery_if_owner(g)
           \/ BeginCommit(g) /\ task'[g].step # "write"
    PROVE  IndInv'
  <1>0. RestType /\ CallerType /\ TaskType
    BY TypeParts DEF IndInv
  <1>n. NoTask \in {NoTask} \union Tasks /\ NoTask.step = "none"
    BY DEF NoTask
  <1>r. UNCHANGED <<durableVars, flight, gate, platformVars, counters>> => RestType'
    BY <1>0 DEF RestType, durableVars, platformVars, counters
  <1>1. ASSUME NEW k \in Keys, PlatformHandles(k, g) PROVE IndInv'
    <2>1. RestType'
      BY <1>0, <1>1 DEF PlatformHandles, RestType, durableVars, counters
    <2>2. UNCHANGED <<marker, plan, flight, gate, caller, gens>>
      BY <1>1 DEF PlatformHandles, durableVars, counters
    <2>3. CASE task[g].step = "call"
      <3>1. task[g] \in Tasks
        BY <1>0, <2>3, TaskIs
      <3>2. CASE task' = [task EXCEPT ![g] = [task[g] EXCEPT !.step = "commit"]]
        <4> DEFINE t == [task[g] EXCEPT !.step = "commit"]
        <4>1. t \in Tasks /\ t.step = "commit" /\ t.plan = task[g].plan
          BY <3>1, TaskStep
        <4>2. Creating(g) /\ task[g] # NoTask
          BY <2>3 DEF Creating, NoTask
        <4> QED
          BY <2>1, <2>2, <3>2, <4>1, <4>2, TaskMoves
      <3>3. CASE task' = [task EXCEPT ![g] =
                     Finishing(task[g], should_clear_recovery_marker_after_failure("refused"))]
        <4> DEFINE t == Finishing(task[g], should_clear_recovery_marker_after_failure("refused"))
        <4>1. t \in Tasks /\ t.step = "finish"
          BY <3>1, FinishingTask DEF should_clear_recovery_marker_after_failure
        <4>2. task[g] # NoTask
          BY <2>3 DEF NoTask
        <4> QED
          BY <2>1, <2>2, <3>3, <4>1, <4>2, TaskMoves
      <3> QED
        BY <1>1, <2>3, <3>2, <3>3 DEF PlatformHandles
    <2>4. CASE task[g].step # "call"
      <3>1. task' = task
        BY <1>0, <1>1, <2>4 DEF PlatformHandles, TaskType
      <3>2. TypeOK'
        BY <1>0, <2>1, <2>2, <3>1, TypePartsNext DEF CallerType, TaskType
      <3>3. GensInv' /\ FlightInv'
        BY <2>2, <3>1 DEF IndInv, GensInv, FlightInv, Creating
      <3>4. GateInv'
        BY <2>2, <3>1 DEF IndInv, GateInv, At, TaskAt
      <3>5. MarkerInv' /\ SpansNoSwitch'
        BY <2>2, <3>1 DEF IndInv, MarkerInv, SpansNoSwitch, Creating, TaskAt
      <3> QED
        BY <3>2, <3>3, <3>4, <3>5 DEF IndInv
    <2> QED
      BY <2>3, <2>4
  <1>2. ASSUME CallFails(g) PROVE IndInv'
    <2> DEFINE t == Finishing(task[g], should_clear_recovery_marker_after_failure("unanswered"))
    <2>1. task[g] \in Tasks /\ task[g] # NoTask
      BY <1>0, <1>2, TaskIs DEF CallFails, TaskAt, NoTask
    <2>2. t \in Tasks /\ t.step = "finish"
      BY <2>1, FinishingTask DEF should_clear_recovery_marker_after_failure
    <2>3. task' = [task EXCEPT ![g] = t]
      BY <1>2 DEF CallFails
    <2>4. RestType' /\ UNCHANGED <<marker, plan, flight, gate, caller, gens>>
      BY <1>r, <1>2 DEF CallFails, durableVars, counters
    <2> QED
      BY <2>1, <2>2, <2>3, <2>4, TaskMoves
  <1>3. ASSUME ReadStatus(g) PROVE IndInv'
    <2> DEFINE t == [task[g] EXCEPT !.phase = StatusOf(task[g].key)]
    <2>1. task[g] \in Tasks /\ task[g] # NoTask /\ Creating(g)
      BY <1>0, <1>3, TaskIs DEF ReadStatus, TaskAt, NoTask, Creating
    <2>2. StatusOf(task[g].key) \in {"active", "terminal"}
      BY DEF StatusOf
    <2>3. t \in Tasks /\ t.step = "commit" /\ t.plan = task[g].plan
      BY <1>3, <2>1, <2>2 DEF Tasks, ReadStatus, TaskAt
    <2>4. task' = [task EXCEPT ![g] = t]
      BY <1>3 DEF ReadStatus
    <2>5. RestType' /\ UNCHANGED <<marker, plan, flight, gate, caller, gens>>
      BY <1>r, <1>3 DEF ReadStatus, durableVars, counters
    <2> QED
      BY <2>1, <2>3, <2>4, <2>5, TaskMoves
  <1>4. ASSUME finish_flight(g) PROVE IndInv'
    <2> DEFINE t == [task[g] EXCEPT !.step = "drain"]
    <2>1. task[g] \in Tasks /\ task[g] # NoTask
      BY <1>0, <1>4, TaskIs DEF finish_flight, TaskAt, NoTask
    <2>2. t \in Tasks /\ t.step = "drain"
      BY <2>1, TaskStep
    <2>3. task' = [task EXCEPT ![g] = t]
      BY <1>4 DEF finish_flight, TaskGoto
    <2>4. flight' = flight \/ (flight = g /\ flight' = 0)
      BY <1>4 DEF finish_flight
    <2>5. UNCHANGED <<marker, plan, gate, caller, gens>>
      BY <1>4 DEF finish_flight, durableVars, counters
    <2>6. RestType'
      BY <1>0, <1>4, <2>4 DEF finish_flight, RestType, durableVars, platformVars, counters
    <2> QED
      BY <2>1, <2>2, <2>3, <2>4, <2>5, <2>6, TaskMoves
  <1>5. ASSUME clear_recovery_if_owner(g) PROVE IndInv'
    <2>1. task[g] # NoTask
      BY <1>5 DEF clear_recovery_if_owner, TaskAt, NoTask
    <2>2. marker' = marker \/ marker' = NoMarker
      BY <1>5 DEF clear_recovery_if_owner
    <2>3. UNCHANGED <<plan, flight, gate, caller, gens>>
      BY <1>5 DEF clear_recovery_if_owner, counters
    <2>4. RestType'
      BY <1>0, <1>5, <2>2 DEF clear_recovery_if_owner, RestType, Markers, platformVars, counters
    <2>5. task' = [task EXCEPT ![g] = NoTask]
      BY <1>5 DEF clear_recovery_if_owner
    <2> QED
      BY <1>n, <2>1, <2>2, <2>3, <2>4, <2>5, TaskMoves
  <1>6. ASSUME BeginCommit(g), task'[g].step # "write" PROVE IndInv'
    <2> DEFINE t == Finishing(task[g], FALSE)
    <2>1. task[g] \in Tasks /\ task[g] # NoTask
      BY <1>0, <1>6, TaskIs DEF BeginCommit, TaskAt, NoTask
    <2>2. t \in Tasks /\ t.step = "finish"
      BY <2>1, FinishingTask
    <2>3. ~TaskGoto(g, "write")
      <3>1. [task[g] EXCEPT !.step = "write"].step = "write"
        BY <2>1, TaskStep
      <3> QED
        BY <1>0, <1>6, <3>1 DEF TaskGoto, TaskType
    <2>4. task' = [task EXCEPT ![g] = t] /\ UNCHANGED gate
      BY <1>6, <2>3 DEF BeginCommit
    <2>5. RestType' /\ UNCHANGED <<marker, plan, flight, gate, caller, gens>>
      BY <1>r, <1>6, <2>4 DEF BeginCommit, durableVars, counters
    <2> QED
      BY <2>1, <2>2, <2>4, <2>5, TaskMoves
  <1> QED
    BY <1>1, <1>2, <1>3, <1>4, <1>5, <1>6

(* The commit: the fence is taken by the owner of the marker that stands,   *)
(* and given back with the session written.                                 *)
LEMMA CommitStep ==
    ASSUME IndInv, NEW g \in Gens,
           \/ BeginCommit(g) /\ task'[g].step = "write"
           \/ commit_created_order(g)
    PROVE  IndInv'
  <1>0. RestType /\ CallerType /\ TaskType
    BY TypeParts DEF IndInv
  <1>1. ASSUME BeginCommit(g), task'[g].step = "write" PROVE IndInv'
    <2> DEFINE t == [task[g] EXCEPT !.step = "write"]
    <2>1. task[g] \in Tasks /\ task[g] # NoTask /\ Creating(g)
      BY <1>0, <1>1, TaskIs DEF BeginCommit, TaskAt, NoTask, Creating
    <2>2. t \in Tasks /\ t.step = "write" /\ t.plan = task[g].plan
      BY <2>1, TaskStep
    <2>3. Finishing(task[g], FALSE).step = "finish"
      BY <2>1, FinishingTask
    <2>4. task' # [task EXCEPT ![g] = Finishing(task[g], FALSE)]
      BY <1>0, <1>1, <2>3 DEF TaskType
    <2>5. /\ verify_recovery_owner(g) /\ gate = "idle" /\ gate' = "sale"
          /\ task' = [task EXCEPT ![g] = t]
      BY <1>1, <2>4 DEF BeginCommit, acquire_sale_start, TaskGoto
    <2>6. UNCHANGED <<marker, plan, session, current, flight, caller, order, wire, gens, crashes>>
      BY <1>1 DEF BeginCommit, durableVars, platformVars, counters
    <2>7. /\ TaskType' /\ task'[g] = t
          /\ \A h \in Gens : h # g => task'[h] = task[h]
      BY <1>0, <2>2, <2>5, TaskSet
    <2>8. TypeOK'
      BY <1>0, <2>5, <2>6, <2>7, TypePartsNext DEF RestType, CallerType
    <2>9. GensInv'
      BY <2>1, <2>6, <2>7 DEF IndInv, GensInv
    <2>10. \A h \in Gens : Creating(h)' => Creating(h) /\ task'[h].plan = task[h].plan
      BY <2>1, <2>2, <2>7 DEF Creating
    <2>11. FlightInv' /\ MarkerInv'
      BY <2>6, <2>10 DEF IndInv, FlightInv, MarkerInv
    <2>12. \A c \in Callers : ~At(c, "reserving")
      BY <2>5 DEF IndInv, GateInv
    <2>13. GateInv'
      BY <2>5, <2>6, <2>12 DEF IndInv, GateInv, At, TaskAt
    <2>14. task[g].plan = plan
      BY <2>1, <2>5 DEF verify_recovery_owner, IndInv, MarkerInv
    <2>15. SpansNoSwitch'
      BY <2>2, <2>6, <2>7, <2>14 DEF IndInv, SpansNoSwitch, TaskAt
    <2> QED
      BY <2>8, <2>9, <2>11, <2>13, <2>15 DEF IndInv
  <1>2. ASSUME commit_created_order(g) PROVE IndInv'
    <2> DEFINE t == Finishing(task[g], TRUE)
    <2>1. task[g] \in Tasks /\ task[g] # NoTask /\ Creating(g)
      BY <1>0, <1>2, TaskIs DEF commit_created_order, TaskAt, NoTask, Creating
    <2>2. t \in Tasks /\ t.step = "finish"
      BY <2>1, FinishingTask
    <2>3. gate' = "idle" /\ task' = [task EXCEPT ![g] = t]
      BY <1>2 DEF commit_created_order, release_sale
    <2>4. UNCHANGED <<marker, plan, flight, caller, order, wire, gens, crashes>>
      BY <1>2 DEF commit_created_order, platformVars, counters
    <2>5. task[g].key \in Keys /\ task[g].phase \in {"active", "terminal"}
      BY <2>1 DEF Tasks
    <2>6. RestType'
      BY <1>0, <1>2, <2>3, <2>4, <2>5 DEF commit_created_order, upsert_order_session, RestType
    <2>7. /\ TaskType' /\ task'[g] = t
          /\ \A h \in Gens : h # g => task'[h] = task[h]
      BY <1>0, <2>2, <2>3, TaskSet
    <2>8. TypeOK'
      BY <1>0, <2>4, <2>6, <2>7, TypePartsNext DEF CallerType
    <2>9. GensInv'
      BY <2>1, <2>4, <2>7 DEF IndInv, GensInv
    <2>10. \A h \in Gens : Creating(h)' => h # g /\ Creating(h) /\ task'[h] = task[h]
      BY <2>2, <2>7 DEF Creating
    <2>11. FlightInv' /\ MarkerInv'
      BY <2>4, <2>10 DEF IndInv, FlightInv, MarkerInv
    <2>12. flight = g /\ g # 0
      BY <2>1 DEF IndInv, FlightInv, Gens
    <2>13. \A c \in Callers : ~At(c, "reserving")
      BY <2>12 DEF IndInv, GateInv
    <2>14. \A h \in Gens : ~TaskAt(h, "write")'
      <3> SUFFICES ASSUME NEW h \in Gens, TaskAt(h, "write")' PROVE FALSE
        OBVIOUS
      <3>1. h # g /\ Creating(h)
        BY <2>10 DEF TaskAt, Creating
      <3> QED
        BY <2>12, <3>1 DEF IndInv, FlightInv
    <2>15. GateInv'
      BY <2>4, <2>13, <2>14 DEF IndInv, GateInv, At
    <2>16. SpansNoSwitch'
      BY <2>14 DEF SpansNoSwitch, TaskAt
    <2> QED
      BY <2>8, <2>9, <2>11, <2>15, <2>16 DEF IndInv
  <1> QED
    BY <1>1, <1>2

(* The reservation: the fence is taken only without a flight, and given     *)
(* back with one opened.                                                    *)
LEMMA ReserveStep ==
    ASSUME IndInv, NEW c \in Callers,
           reserve_checkout_creation(c) \/ reserve_recovery_marker(c)
    PROVE  IndInv'
  <1>0. RestType /\ CallerType /\ TaskType
    BY TypeParts DEF IndInv
  <1>i. Idle \in {Idle} \union Requests /\ Idle.step = "idle"
    BY DEF Idle
  <1>1. ASSUME reserve_checkout_creation(c) PROVE IndInv'
    <2>1. UNCHANGED <<session, current, plan, flight, task, order, wire, gens, crashes>>
      BY <1>1 DEF reserve_checkout_creation, platformVars, counters
    <2>2. CASE caller' = [caller EXCEPT ![c] = JoinOrRefuse(caller[c].key)]
               /\ UNCHANGED <<gate, marker>>
      <3> DEFINE r == JoinOrRefuse(caller[c].key)
      <3>1. r \in {Idle} \union Requests /\ r.step \in {"idle", "joined"}
        BY <1>0, JoinType DEF RestType
      <3>2. RestType'
        BY <1>0, <2>1, <2>2 DEF RestType
      <3> QED
        BY <2>1, <2>2, <3>1, <3>2, CallerMoves
    <2>3. CASE Return(c) /\ UNCHANGED <<gate, marker>>
      <3>1. RestType'
        BY <1>0, <2>1, <2>3 DEF RestType
      <3> QED
        BY <1>i, <2>1, <2>3, <3>1, CallerMoves DEF Return
    <2>4. CASE /\ flight = 0 /\ acquire_sale_start
               /\ marker' = IF current = NoKey THEN marker ELSE NoMarker
               /\ caller' = [caller EXCEPT ![c].step = "reserving"]
      <3> DEFINE r == [caller[c] EXCEPT !.step = "reserving"]
      <3>1. caller[c] \in Requests
        BY <1>0, <1>1, CallerIs DEF reserve_checkout_creation, At
      <3>2. r \in Requests /\ r.step = "reserving" /\ r.key = caller[c].key
        BY <3>1 DEF Requests
      <3>3. caller' = [caller EXCEPT ![c] = r]
        BY <2>4
      <3>4. /\ CallerType' /\ caller'[c] = r
            /\ \A d \in Callers : d # c => caller'[d] = caller[d]
        BY <1>0, <3>2, <3>3, CallerSet
      <3>5. marker' = marker \/ marker' = NoMarker
        BY <2>4
      <3>6. gate = "idle" /\ gate' = "sale"
        BY <2>4 DEF acquire_sale_start
      <3>7. TypeOK'
        BY <1>0, <2>1, <3>4, <3>5, <3>6, TypePartsNext DEF RestType, TaskType, Markers
      <3>8. GensInv'
        BY <1>0, <2>1, <3>5 DEF IndInv, GensInv, NoMarker, RestType
      <3>9. FlightInv'
        BY <2>1 DEF IndInv, FlightInv, Creating
      <3>10. \A d \in Callers : ~At(d, "reserving")
        BY <3>6 DEF IndInv, GateInv
      <3>11. caller[c].key \in Keys
        BY <1>1 DEF reserve_checkout_creation, IndInv, GateInv
      <3>12. GateInv'
        <4>1. \A d \in Callers : At(d, "reserving")' => d = c
          BY <3>4, <3>10 DEF At
        <4>2. \A d \in Callers : At(d, "admit")' \/ At(d, "reserving")'
                  => caller'[d].key \in Keys
          BY <3>2, <3>4, <3>11 DEF At, IndInv, GateInv
        <4>3. \A d \in Callers : At(d, "reserving")' => gate' = "sale" /\ flight' = 0
          BY <2>1, <2>4, <3>6
        <4>4. \A g \in Gens : TaskAt(g, "write")' => gate' = "sale"
          BY <3>6
        <4> QED
          BY <4>1, <4>2, <4>3, <4>4 DEF GateInv, At
      <3>13. MarkerInv'
        <4>1. CASE marker' = marker
          BY <2>1, <4>1 DEF IndInv, MarkerInv, Creating
        <4>2. CASE marker' = NoMarker
          BY <4>2 DEF MarkerInv, NoMarker, Gens
        <4> QED
          BY <3>5, <4>1, <4>2
      <3>14. SpansNoSwitch'
        BY <2>1 DEF IndInv, SpansNoSwitch, TaskAt
      <3> QED
        BY <3>7, <3>8, <3>9, <3>12, <3>13, <3>14 DEF IndInv
    <2> QED
      BY <1>1, <2>2, <2>3, <2>4 DEF reserve_checkout_creation
  <1>2. ASSUME reserve_recovery_marker(c) PROVE IndInv'
    <2>1. caller' = [caller EXCEPT ![c] = Idle] /\ gate' = "idle"
      BY <1>2 DEF reserve_recovery_marker, Return, release_sale
    <2>2. UNCHANGED <<session, current, plan, order, crashes>>
      BY <1>2 DEF reserve_recovery_marker
    <2>3. /\ CallerType' /\ caller'[c] = Idle
          /\ \A d \in Callers : d # c => caller'[d] = caller[d]
      BY <1>0, <1>i, <2>1, CallerSet
    <2>4. flight = 0 /\ caller[c].key \in Keys
      BY <1>2 DEF reserve_recovery_marker, IndInv, GateInv
    <2>5. \A g \in Gens : ~Creating(g)
      BY <2>4 DEF IndInv, FlightInv, Gens
    <2>6. \A d \in Callers : ~At(d, "reserving")'
      BY <1>2, <2>3 DEF reserve_recovery_marker, IndInv, GateInv, At, Idle
    <2>7. \A d \in Callers : At(d, "admit")' => caller'[d].key \in Keys
      BY <2>3 DEF IndInv, GateInv, At, Idle
    <2>8. CASE marker.key \notin {NoKey, caller[c].key}
      <3>1. UNCHANGED <<marker, flight, task, wire, gens>>
        BY <1>2, <2>8 DEF reserve_recovery_marker
      <3>2. TypeOK'
        BY <1>0, <2>1, <2>2, <2>3, <3>1, TypePartsNext DEF RestType, TaskType
      <3>3. GensInv' /\ FlightInv' /\ MarkerInv'
        BY <2>2, <3>1 DEF IndInv, GensInv, FlightInv, MarkerInv, Creating
      <3>4. \A g \in Gens : ~TaskAt(g, "write")'
        BY <2>5, <3>1 DEF Creating, TaskAt
      <3>5. GateInv' /\ SpansNoSwitch'
        BY <2>6, <2>7, <3>4 DEF GateInv, SpansNoSwitch
      <3> QED
        BY <3>2, <3>3, <3>5 DEF IndInv
    <2>9. CASE marker.key \in {NoKey, caller[c].key}
      <3> DEFINE g == gens + 1
                 k == caller[c].key
                 t == [step |-> "call", key |-> k, plan |-> plan, phase |-> "active",
                       clears |-> FALSE]
      <3>1. /\ gens < MaxFlights /\ gens' = g /\ flight' = g
            /\ marker' = [key |-> k, gen |-> g, plan |-> plan]
            /\ task' = [task EXCEPT ![g] = t]
            /\ wire' = wire \union {[key |-> k, gen |-> g]}
        BY <1>2, <2>9 DEF reserve_recovery_marker
      <3>2. g \in Gens /\ gens < g /\ g \in 0 .. MaxFlights
        BY <1>0, <3>1 DEF RestType, Gens
      <3>3. t \in Tasks
        BY <1>0, <2>4 DEF RestType, Tasks
      <3>4. /\ TaskType' /\ task'[g] = t
            /\ \A h \in Gens : h # g => task'[h] = task[h]
        BY <1>0, <3>1, <3>2, <3>3, TaskSet
      <3>5. RestType'
        <4>1. marker' \in Markers
          BY <1>0, <2>4, <3>1, <3>2 DEF RestType, Markers
        <4>2. wire' \subseteq [key : Keys, gen : Gens]
          BY <1>0, <2>4, <3>1, <3>2 DEF RestType
        <4> QED
          BY <1>0, <2>1, <2>2, <3>1, <3>2, <4>1, <4>2 DEF RestType
      <3>6. TypeOK'
        BY <2>3, <3>4, <3>5, TypePartsNext
      <3>7. GensInv'
        <4>1. flight' <= gens' /\ marker'.gen <= gens'
          BY <3>1, <3>2
        <4>2. ASSUME NEW h \in Gens, task'[h] # NoTask PROVE h <= gens'
          <5>1. CASE h = g
            BY <3>1, <5>1 DEF Gens
          <5>2. CASE h # g
            BY <1>0, <3>1, <3>4, <4>2, <5>2 DEF IndInv, GensInv, Gens, RestType
          <5> QED
            BY <5>1, <5>2
        <4> QED
          BY <4>1, <4>2 DEF GensInv
      <3>8. \A h \in Gens : Creating(h)' => h = g
        BY <2>5, <3>4 DEF Creating
      <3>9. FlightInv'
        BY <3>1, <3>8 DEF FlightInv
      <3>10. MarkerInv'
        BY <3>1, <3>4, <3>8 DEF MarkerInv
      <3>11. \A h \in Gens : ~TaskAt(h, "write")'
        BY <2>5, <3>4 DEF Creating, TaskAt
      <3>12. GateInv' /\ SpansNoSwitch'
        BY <2>6, <2>7, <3>11 DEF GateInv, SpansNoSwitch
      <3> QED
        BY <3>6, <3>7, <3>9, <3>10, <3>12 DEF IndInv
    <2> QED
      BY <2>8, <2>9
  <1> QED
    BY <1>1, <1>2

(* Planograms, bindings, the platform and the end of the process.           *)
LEMMA WorldStep ==
    ASSUME IndInv,
           \/ try_acquire_reconfigure \/ apply_planogram \/ release_reconfigure
           \/ \E k \in Keys : OrderEnds(k)
           \/ Crash \/ UNCHANGED vars
    PROVE  IndInv'
  <1>0. RestType /\ CallerType /\ TaskType
    BY TypeParts DEF IndInv
  <1>1. ASSUME \/ try_acquire_reconfigure \/ apply_planogram \/ release_reconfigure
        PROVE  IndInv'
    <2>1. UNCHANGED <<marker, session, current, flight, task, caller, order, wire, gens, crashes>>
      BY <1>1 DEF try_acquire_reconfigure, apply_planogram, release_reconfigure,
                  durableVars, platformVars, counters
    <2>2. gate # "sale" /\ gate' \in {"idle", "binding"}
      BY <1>1 DEF try_acquire_reconfigure, apply_planogram, release_reconfigure
    <2>3. plan' \in Plans
      BY <1>0, <1>1 DEF try_acquire_reconfigure, apply_planogram, release_reconfigure,
                        durableVars, RestType, Plans
    <2>4. \A c \in Callers : ~At(c, "reserving")
      BY <2>2 DEF IndInv, GateInv
    <2>5. \A g \in Gens : ~TaskAt(g, "write")
      BY <2>2 DEF IndInv, GateInv
    <2>6. TypeOK'
      BY <1>0, <2>1, <2>2, <2>3, TypePartsNext DEF RestType, CallerType, TaskType
    <2>7. GensInv' /\ FlightInv' /\ MarkerInv'
      BY <2>1 DEF IndInv, GensInv, FlightInv, MarkerInv, Creating
    <2>8. GateInv' /\ SpansNoSwitch'
      BY <2>1, <2>4, <2>5 DEF IndInv, GateInv, SpansNoSwitch, At, TaskAt
    <2> QED
      BY <2>6, <2>7, <2>8 DEF IndInv
  <1>2. ASSUME (\E k \in Keys : OrderEnds(k)) \/ UNCHANGED vars PROVE IndInv'
    <2>1. UNCHANGED <<durableVars, processVars, wire, counters>>
      BY <1>2 DEF OrderEnds, vars, platformVars
    <2>2. order' \in [Keys -> {"absent", "open", "ended"}]
      BY <1>0, <1>2 DEF OrderEnds, vars, platformVars, RestType
    <2>3. UNCHANGED <<marker, session, current, plan, flight, gate, task, caller, wire, gens, crashes>>
      BY <2>1 DEF durableVars, processVars, counters
    <2>4. TypeOK'
      BY <1>0, <2>2, <2>3, TypePartsNext DEF RestType, CallerType, TaskType
    <2>5. GensInv' /\ FlightInv' /\ MarkerInv'
      BY <2>3 DEF IndInv, GensInv, FlightInv, MarkerInv, Creating
    <2>6. GateInv' /\ SpansNoSwitch'
      BY <2>3 DEF IndInv, GateInv, SpansNoSwitch, At, TaskAt
    <2> QED
      BY <2>4, <2>5, <2>6 DEF IndInv
  <1>3. ASSUME Crash PROVE IndInv'
    <2>1. /\ flight' = 0 /\ gate' = "idle"
          /\ task' = [g \in Gens |-> NoTask] /\ caller' = [c \in Callers |-> Idle]
      BY <1>3 DEF Crash
    <2>2. UNCHANGED <<marker, session, current, plan, order, wire, gens>>
      BY <1>3 DEF Crash, durableVars, platformVars
    <2>3. crashes' \in 0 .. MaxCrashes
      BY <1>0, <1>3 DEF Crash, RestType
    <2>4. CallerType' /\ TaskType'
      BY <2>1 DEF CallerType, TaskType
    <2>5. TypeOK'
      BY <1>0, <2>1, <2>2, <2>3, <2>4, TypePartsNext DEF RestType
    <2>6. GensInv'
      BY <1>0, <2>1, <2>2 DEF IndInv, GensInv, RestType
    <2>7. FlightInv' /\ MarkerInv' /\ SpansNoSwitch'
      BY <2>1 DEF FlightInv, MarkerInv, SpansNoSwitch, Creating, TaskAt, NoTask
    <2>8. GateInv'
      BY <2>1 DEF GateInv, At, TaskAt, NoTask, Idle
    <2> QED
      BY <2>5, <2>6, <2>7, <2>8 DEF IndInv
  <1> QED
    BY <1>1, <1>2, <1>3

LEMMA IndStep == IndInv /\ [Next]_vars => IndInv'
  <1> SUFFICES ASSUME IndInv, [Next]_vars PROVE IndInv'
    OBVIOUS
  <1>1. ASSUME NEW c \in Callers, restore_current(c) \/ Proceed(c) PROVE IndInv'
    BY <1>1, RequestStep, ReserveStep DEF Proceed
  <1>2. ASSUME NEW c \in Callers, NEW k \in Keys, create_order(c, k) \/ cancel_order(c, k)
        PROVE  IndInv'
    BY <1>2, RequestStep
  <1>3. ASSUME NEW g \in Gens, Run(g) PROVE IndInv'
    BY <1>3, TaskOnlyStep, CommitStep DEF Run
  <1>4. ASSUME NEW k \in Keys, NEW g \in Gens, PlatformHandles(k, g) PROVE IndInv'
    BY <1>4, TaskOnlyStep
  <1>5. CASE \/ \E k \in Keys : OrderEnds(k)
             \/ try_acquire_reconfigure \/ apply_planogram \/ release_reconfigure
             \/ Crash \/ UNCHANGED vars
    BY <1>5, WorldStep
  <1> QED
    BY <1>1, <1>2, <1>3, <1>4, <1>5 DEF Next

-----------------------------------------------------------------------------
(* The inductive invariant of the checkout: who holds the fence, which task *)
(* is the flight, and what its marker says of it                            *)
(* (payment_creation_critical_section).                                     *)
THEOREM IndInvHolds == Spec => []IndInv
  BY InitInd, IndStep, PTL DEF Spec

(* The marker, the sessions, the tasks and the requests keep their types:   *)
(* no marker without its key, no flight without a generation                *)
(* (reserve_recovery_marker, clear_recovery_if_owner).                      *)
THEOREM TypeCorrect == Spec => []TypeOK
  <1>1. IndInv => TypeOK
    BY DEF IndInv
  <1> QED
    BY <1>1, IndInvHolds, PTL

(* One task of the daemon creates an order at a time                        *)
(* (reserve_checkout_creation): every task that may still write a session   *)
(* is the active flight.  The requests of tasks that timed out are not      *)
(* tasks: several may be on the wire.                                       *)
THEOREM OneTaskCreates == Spec => []OneCreator
  <1>1. IndInv => OneCreator
    BY DEF IndInv, FlightInv, OneCreator, Creating
  <1> QED
    BY <1>1, IndInvHolds, PTL

(* A session is written under the planogram its order was reserved under    *)
(* (verify_recovery_owner), whatever deletes or replaces the marker.        *)
THEOREM NoSwitchIsSpanned == Spec => []SpansNoSwitch
  <1>1. IndInv => SpansNoSwitch
    BY DEF IndInv
  <1> QED
    BY <1>1, IndInvHolds, PTL
=============================================================================
