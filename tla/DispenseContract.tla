--------------------------- MODULE DispenseContract ---------------------------
(***************************************************************************)
(* What the rest of the system may rely on when it sends a dispense        *)
(* command to a machine, whatever is delivered twice and whenever the      *)
(* machine's daemon is restarted: at most one unit leaves the slot, a      *)
(* command has at most one outcome, and what the machine tells about a     *)
(* command is that outcome.  The outcome "success" means that the unit     *)
(* was seen to drop; the others do not mean that it did not.               *)
(***************************************************************************)
EXTENDS Naturals

CONSTANT Commands

Outcomes == {"success", "failure", "unknown"}

VARIABLES
    stage,      \* per command: new, accepted or concluded
    outcome,    \* per command: its outcome, or none
    drops,      \* per command: the units that left the slot
    told        \* the pairs of command and outcome the machine has told

vars == <<stage, outcome, drops, told>>

Init ==
    /\ stage = [c \in Commands |-> "new"]
    /\ outcome = [c \in Commands |-> "none"]
    /\ drops = [c \in Commands |-> 0]
    /\ told = {}

Accept(c) ==
    /\ stage[c] = "new"
    /\ stage' = [stage EXCEPT ![c] = "accepted"]
    /\ UNCHANGED <<outcome, drops, told>>

(* The unit drops: also long after the command was given up.                *)
Drop(c) ==
    /\ stage[c] # "new" /\ drops[c] = 0
    /\ drops' = [drops EXCEPT ![c] = 1]
    /\ UNCHANGED <<stage, outcome, told>>

Conclude(c, r) ==
    /\ stage[c] = "accepted"
    /\ r = "success" => drops[c] = 1
    /\ stage' = [stage EXCEPT ![c] = "concluded"]
    /\ outcome' = [outcome EXCEPT ![c] = r]
    /\ UNCHANGED <<drops, told>>

Tell(c) ==
    /\ stage[c] = "concluded"
    /\ told' = told \union {<<c, outcome[c]>>}
    /\ UNCHANGED <<stage, outcome, drops>>

Next ==
    \E c \in Commands :
        \/ Accept(c) \/ Drop(c) \/ Tell(c)
        \/ \E r \in Outcomes : Conclude(c, r)

Spec == Init /\ [][Next]_vars
=============================================================================
