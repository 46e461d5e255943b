------------------------------ MODULE Checkout ------------------------------
(***************************************************************************)
(* The vending daemon's checkout.                                           *)
(*                                                                          *)
(* A request to buy reserves a durable marker with its idempotency key and  *)
(* a fresh generation, and opens a flight.  A task that outlives its caller *)
(* creates the order at the platform and commits the order's session; other *)
(* requests with the same key join the flight.  No lease is held while the  *)
(* network is waited for: the marker keeps planograms out.  The screen      *)
(* polls; polls refresh the current session, and replay the marker's key    *)
(* when there is none.  Requests, tasks, planogram changes and polls        *)
(* interleave at every await, and the daemon dies anywhere.                 *)
(*                                                                          *)
(* A key stands for its request and for its order.  The creation lock and   *)
(* the sale lease are always taken together and are one gate here; the      *)
(* participants of a flight are its task and the callers that joined it.    *)
(***************************************************************************)
EXTENDS Naturals

CONSTANTS
    Callers,      \* requests and polls under way
    Keys,         \* idempotency keys
    NoKey,
    MaxFlights,   \* bound: flights opened
    MaxPlans,     \* bound: planogram versions, the first is 1
    MaxCrashes    \* bound: ends of the process

ASSUME CheckoutAssumption ==
    /\ NoKey \notin Keys
    /\ MaxFlights \in Nat \ {0} /\ MaxPlans \in Nat \ {0} /\ MaxCrashes \in Nat

(* Generations are UUIDs: every reservation takes the next number.          *)
Gens == 1 .. MaxFlights
Plans == 1 .. MaxPlans

VARIABLES
    marker,    \* metadata checkout_creation_recovery
    session,   \* order_sessions, by what the status and next_action say
    current,   \* the session that was written last
    plan,      \* the active planogram version
    flight,    \* generation of the active flight, 0 for none
    gate,      \* the operation fence
    task,      \* the task that owns a flight
    caller,    \* what each request or poll is doing
    order,     \* the platform's order of a key (external)
    wire,      \* creations on their way to the platform
    gens,      \* generations used so far
    crashes    \* ends of the process so far

durableVars == <<marker, session, current, plan>>
processVars == <<flight, gate, task, caller>>
platformVars == <<order, wire>>
counters == <<gens, crashes>>
vars == <<durableVars, processVars, platformVars, counters>>

NoMarker == [key |-> NoKey, gen |-> 0, plan |-> 0]
Markers == {NoMarker} \union [key : Keys, gen : Gens, plan : Plans]

NoTask == [step |-> "none"]
Tasks ==
    [step : {"call", "commit", "write", "finish", "drain"},
     key : Keys, plan : Plans, phase : {"active", "terminal"}, clears : BOOLEAN]

Idle == [step |-> "idle"]
Requests ==
    [step : {"terminal", "ask", "apply", "admit", "reserving", "joined"},
     key : Keys \union {NoKey}, on : Keys \union {NoKey},
     seen : {"active", "terminal"}, gen : {0} \union Gens]

TypeOK ==
    /\ marker \in Markers
    /\ session \in [Keys -> {"none", "active", "terminal"}]
    /\ current \in Keys \union {NoKey}
    /\ plan \in Plans
    /\ flight \in {0} \union Gens
    /\ gate \in {"idle", "sale", "binding"}
    /\ task \in [Gens -> {NoTask} \union Tasks]
    /\ caller \in [Callers -> {Idle} \union Requests]
    /\ order \in [Keys -> {"absent", "open", "ended"}]
    /\ wire \subseteq [key : Keys, gen : Gens]
    /\ gens \in 0 .. MaxFlights
    /\ crashes \in 0 .. MaxCrashes

Init ==
    /\ marker = NoMarker
    /\ session = [k \in Keys |-> "none"]
    /\ current = NoKey
    /\ plan = 1
    /\ flight = 0
    /\ gate = "idle"
    /\ task = [g \in Gens |-> NoTask]
    /\ caller = [c \in Callers |-> Idle]
    /\ order = [k \in Keys |-> "absent"]
    /\ wire = {}
    /\ gens = 0
    /\ crashes = 0

-----------------------------------------------------------------------------
(* current_transaction_snapshot: the session written last.                  *)
Snapshot == IF current = NoKey THEN "none" ELSE session[current]

At(c, step) == caller[c].step = step
Return(c) == caller' = [caller EXCEPT ![c] = Idle]

TaskAt(g, step) == task[g].step = step
TaskGoto(g, step) == task' = [task EXCEPT ![g].step = step]

(* The platform's answer to a status query of an existing order.            *)
StatusOf(k) == IF order[k] = "ended" THEN "terminal" ELSE "active"

upsert_order_session(k, phase) ==
    /\ session' = [session EXCEPT ![k] = phase]
    /\ current' = k

-----------------------------------------------------------------------------
(* An active flight is joined by its own key and refuses every other.       *)
JoinOrRefuse(k) ==
    IF task[flight].key = k
    THEN [step |-> "joined", key |-> NoKey, on |-> NoKey, seen |-> "active", gen |-> flight]
    ELSE Idle

(* What a request is going to do next.                                      *)
Step(step, k, on, seen) == [step |-> step, key |-> k, on |-> on, seen |-> seen, gen |-> 0]

(* What follows the refresh.  A request ends with a sale that is under way; *)
(* else it looks for a flight.                                              *)
Decide(k, seen) ==
    IF k = NoKey \/ seen = "active" THEN Idle
    ELSE IF flight # 0 THEN JoinOrRefuse(k)
    ELSE Step("admit", k, NoKey, "active")

(* Every request, and every poll, first refreshes the current session.      *)
refresh_current_from_backend(k) ==
    CASE Snapshot = "none"     -> Decide(k, "none")
      [] Snapshot = "terminal" -> Step("terminal", k, NoKey, "active")
      [] Snapshot = "active"   -> Step("ask", k, current, "active")

create_order(c, k) ==
    /\ At(c, "idle")
    /\ caller' = [caller EXCEPT ![c] = refresh_current_from_backend(k)]
    /\ UNCHANGED <<durableVars, flight, gate, task, platformVars, counters>>

(* A poll without a session replays the marker's request.                   *)
restore_current(c) ==
    /\ At(c, "idle")
    /\ caller' = [caller EXCEPT ![c] =
           refresh_current_from_backend(IF current = NoKey THEN marker.key ELSE NoKey)]
    /\ UNCHANGED <<durableVars, flight, gate, task, platformVars, counters>>

(* The marker is deleted, whosever it is and without a lease.               *)
clear_recovery_marker_after_terminal(c) ==
    /\ At(c, "terminal")
    /\ marker' = NoMarker
    /\ caller' = [caller EXCEPT ![c] = Decide(@.key, "terminal")]
    /\ UNCHANGED <<session, current, plan, flight, gate, task, platformVars, counters>>

(* The status query is answered, or fails and leaves the session as it is.  *)
get_order_status(c) ==
    /\ At(c, "ask")
    /\ \/ caller' = [caller EXCEPT ![c].step = "apply", ![c].seen = StatusOf(caller[c].on)]
       \/ Return(c)
    /\ UNCHANGED <<durableVars, flight, gate, task, platformVars, counters>>

(* However late the answer, its session is the current one now.             *)
apply_backend_order_status(c) ==
    /\ At(c, "apply")
    /\ upsert_order_session(caller[c].on, caller[c].seen)
    /\ caller' = [caller EXCEPT ![c] = Decide(@.key, @.seen)]
    /\ UNCHANGED <<marker, plan, flight, gate, task, platformVars, counters>>

(* The cancel's answer is applied like a refresh.                           *)
cancel_order(c, k) ==
    /\ At(c, "idle")
    /\ session[k] # "none"
    /\ order' = [order EXCEPT ![k] = "ended"]
    /\ caller' = [caller EXCEPT ![c] = Step("apply", NoKey, k, "terminal")]
    /\ UNCHANGED <<durableVars, flight, gate, task, wire, counters>>

-----------------------------------------------------------------------------
(* The reservation.                                                         *)

acquire_sale_start == gate = "idle" /\ gate' = "sale"
release_sale == gate' = "idle"

(* Mutation: the flight is not looked at again under the lock.              *)
AdmitUnchecked(c) ==
    /\ At(c, "admit")
    /\ IF Snapshot = "active" THEN Return(c) /\ UNCHANGED <<gate, marker>>
       ELSE /\ acquire_sale_start
            /\ marker' = IF current = NoKey THEN marker ELSE NoMarker
            /\ caller' = [caller EXCEPT ![c].step = "reserving"]
    /\ UNCHANGED <<session, current, plan, flight, task, platformVars, counters>>

(* Under the lock: the flight again, the lease or its timeout, the session. *)
reserve_checkout_creation(c) ==
    /\ At(c, "admit")
    /\ IF flight # 0
       THEN caller' = [caller EXCEPT ![c] = JoinOrRefuse(@.key)] /\ UNCHANGED <<gate, marker>>
       ELSE \/ Return(c) /\ gate # "idle" /\ UNCHANGED <<gate, marker>>
            \/ Return(c) /\ gate = "idle" /\ Snapshot = "active" /\ UNCHANGED <<gate, marker>>
            \/ /\ Snapshot # "active"
               /\ acquire_sale_start
               /\ marker' = IF current = NoKey THEN marker ELSE NoMarker
               /\ caller' = [caller EXCEPT ![c].step = "reserving"]
    /\ UNCHANGED <<session, current, plan, flight, task, platformVars, counters>>

(* A marker of the same request is taken over with a new generation.        *)
reserve_recovery_marker(c) ==
    LET k == caller[c].key
        g == gens + 1 IN
    /\ At(c, "reserving")
    /\ IF marker.key \in {NoKey, k}
       THEN /\ gens < MaxFlights
            /\ gens' = g
            /\ marker' = [key |-> k, gen |-> g, plan |-> plan]
            /\ flight' = g
            /\ task' = [task EXCEPT ![g] =
                   [step |-> "call", key |-> k, plan |-> plan, phase |-> "active",
                    clears |-> FALSE]]
            /\ wire' = wire \union {[key |-> k, gen |-> g]}
       ELSE UNCHANGED <<marker, flight, task, wire, gens>>
    /\ release_sale
    /\ Return(c)
    /\ UNCHANGED <<session, current, plan, order, crashes>>

(* A joined request leaves with the session, without one when the flight is *)
(* over, or after its deadline.                                             *)
wait_for_joined_checkout(c) ==
    /\ At(c, "joined")
    /\ Return(c)
    /\ UNCHANGED <<durableVars, flight, gate, task, platformVars, counters>>

-----------------------------------------------------------------------------
(* The task of a flight.                                                    *)

(* The marker goes after a refusal and stays after a failure of the call.   *)
should_clear_recovery_marker_after_failure(error) == error = "refused"

(* Nothing but the key and the fate of the marker is needed any more.       *)
Finishing(t, clears) ==
    [step |-> "finish", key |-> t.key, plan |-> 1, phase |-> "active", clears |-> clears]

(* The platform creates a key's order once and answers again with it; it    *)
(* refuses only what does not exist.  A request may be handled after its    *)
(* caller gave up, and then nobody hears the answer.                        *)
PlatformHandles(k, g) ==
    /\ [key |-> k, gen |-> g] \in wire
    /\ wire' = wire \ {[key |-> k, gen |-> g]}
    /\ \/ /\ order' = [order EXCEPT ![k] = IF @ = "absent" THEN "open" ELSE @]
          /\ task' = [task EXCEPT ![g] =
                 IF @.step = "call" THEN [@ EXCEPT !.step = "commit"] ELSE @]
       \/ /\ order[k] = "absent"
          /\ task' = [task EXCEPT ![g] =
                 IF @.step = "call"
                 THEN Finishing(@, should_clear_recovery_marker_after_failure("refused"))
                 ELSE @]
          /\ UNCHANGED order
    /\ UNCHANGED <<durableVars, flight, gate, caller, counters>>

OrderEnds(k) ==
    /\ order[k] = "open"
    /\ order' = [order EXCEPT ![k] = "ended"]
    /\ UNCHANGED <<durableVars, processVars, wire, counters>>

(* The call times out, or its answer is lost or says that the platform is   *)
(* in trouble.                                                              *)
CallFails(g) ==
    /\ TaskAt(g, "call")
    /\ task' = [task EXCEPT ![g] =
           Finishing(@, should_clear_recovery_marker_after_failure("unanswered"))]
    /\ UNCHANGED <<durableVars, flight, gate, caller, platformVars, counters>>

(* The status is asked for once more; the response, "active", will do.      *)
ReadStatus(g) ==
    /\ TaskAt(g, "commit")
    /\ task' = [task EXCEPT ![g].phase = StatusOf(task[g].key)]
    /\ UNCHANGED <<durableVars, flight, gate, caller, platformVars, counters>>

(* Mutation: the marker is not looked at before the commit.                 *)
NotReplaced(g) == TRUE

verify_recovery_owner(g) == marker = [key |-> task[g].key, gen |-> g, plan |-> plan]

(* Under the lease, or without it after the timeout.                        *)
BeginCommit(g) ==
    /\ TaskAt(g, "commit")
    /\ \/ /\ gate # "idle" \/ ~verify_recovery_owner(g)
          /\ task' = [task EXCEPT ![g] = Finishing(@, FALSE)]
          /\ UNCHANGED gate
       \/ verify_recovery_owner(g) /\ acquire_sale_start /\ TaskGoto(g, "write")
    /\ UNCHANGED <<durableVars, flight, caller, platformVars, counters>>

commit_created_order(g) ==
    /\ TaskAt(g, "write")
    /\ upsert_order_session(task[g].key, task[g].phase)
    /\ release_sale
    /\ task' = [task EXCEPT ![g] = Finishing(@, TRUE)]
    /\ UNCHANGED <<marker, plan, flight, caller, platformVars, counters>>

finish_flight(g) ==
    /\ TaskAt(g, "finish")
    /\ flight' = IF flight = g THEN 0 ELSE flight
    /\ TaskGoto(g, "drain")
    /\ UNCHANGED <<durableVars, gate, caller, platformVars, counters>>

Drained(g) == \A c \in Callers : At(c, "joined") => caller[c].gen # g

(* The owner waits for those who joined.  The marker is deleted under the   *)
(* lease, or not at all after the timeout.                                  *)
clear_recovery_if_owner(g) ==
    /\ TaskAt(g, "drain")
    /\ Drained(g)
    /\ marker' = IF /\ task[g].clears
                    /\ gate = "idle"
                    /\ marker.key = task[g].key /\ marker.gen = g
                 THEN NoMarker ELSE marker
    /\ task' = [task EXCEPT ![g] = NoTask]
    /\ UNCHANGED <<session, current, plan, flight, gate, caller, platformVars, counters>>

-----------------------------------------------------------------------------
(* Planograms and bindings.                                                 *)

(* A planogram looks for the marker and the current session, a device       *)
(* binding for the current session.  A manual dispense takes the fence in   *)
(* the same way.                                                            *)
try_acquire_reconfigure ==
    /\ gate = "idle"
    /\ Snapshot # "active"
    /\ gate' = "binding"
    /\ UNCHANGED <<durableVars, flight, task, caller, platformVars, counters>>

apply_planogram ==
    /\ gate = "binding"
    /\ marker = NoMarker
    /\ plan < MaxPlans /\ plan' = plan + 1
    /\ gate' = "idle"
    /\ UNCHANGED <<marker, session, current, flight, task, caller, platformVars, counters>>

release_reconfigure ==
    /\ gate = "binding" /\ gate' = "idle"
    /\ UNCHANGED <<durableVars, flight, task, caller, platformVars, counters>>

(* The daemon ends and starts again; requests to the platform live on.      *)
Crash ==
    /\ crashes < MaxCrashes /\ crashes' = crashes + 1
    /\ flight' = 0
    /\ gate' = "idle"
    /\ task' = [g \in Gens |-> NoTask]
    /\ caller' = [c \in Callers |-> Idle]
    /\ UNCHANGED <<durableVars, platformVars, gens>>

-----------------------------------------------------------------------------
Proceed(c) ==
    \/ clear_recovery_marker_after_terminal(c)
    \/ get_order_status(c) \/ apply_backend_order_status(c)
    \/ reserve_checkout_creation(c) \/ reserve_recovery_marker(c)
    \/ wait_for_joined_checkout(c)

Run(g) ==
    \/ CallFails(g) \/ ReadStatus(g)
    \/ BeginCommit(g) \/ commit_created_order(g) \/ finish_flight(g)
    \/ clear_recovery_if_owner(g)

Next ==
    \/ \E c \in Callers : restore_current(c) \/ Proceed(c)
    \/ \E c \in Callers, k \in Keys : create_order(c, k) \/ cancel_order(c, k)
    \/ \E g \in Gens : Run(g)
    \/ \E k \in Keys, g \in Gens : PlatformHandles(k, g)
    \/ \E k \in Keys : OrderEnds(k)
    \/ try_acquire_reconfigure \/ apply_planogram \/ release_reconfigure
    \/ Crash

Spec == Init /\ [][Next]_vars

-----------------------------------------------------------------------------
(* Properties.                                                              *)

(* One task creates an order at a time: requests and replays that raced     *)
(* past the first look at the flight are stopped by the second              *)
(* (reserve_checkout_creation).  A request whose task timed out may still   *)
(* be on the wire next to it.                                               *)
OneCreator ==
    \A g, h \in Gens :
        /\ task[g].step \in {"call", "commit", "write"}
        /\ task[h].step \in {"call", "commit", "write"}
        => g = h

(* A session is written only under the planogram its order was reserved     *)
(* under, although no lease was held in between and the marker may be       *)
(* deleted or replaced: "a checkout creation or recovery replay must never  *)
(* span a planogram switch" (verify_recovery_owner).                        *)
SpansNoSwitch == \A g \in Gens : TaskAt(g, "write") => task[g].plan = plan

(* Said of the code, and not so: "replaying it either returns the           *)
(* already-created order or creates the order exactly once"                 *)
(* (restore_current).  An open order that has no session has its marker.    *)
CreatedIsRemembered ==
    \A k \in Keys : order[k] = "open" => session[k] # "none" \/ marker.key = k
=============================================================================
