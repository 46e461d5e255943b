--------------------------- MODULE PaymentContract ---------------------------
(***************************************************************************)
(* What the rest of the system may rely on when it sells against a payment, *)
(* shown as a code or scanned from the customer's phone: goods are handed   *)
(* out against money that was taken, that is final, and no money is asked   *)
(* for afterwards; a payment that was closed takes none any more.  The      *)
(* exceptions are marked by doubt: an operator's write that no condition    *)
(* guards, and a close that went ahead without the provider's word.         *)
(***************************************************************************)
CONSTANT Payments

VARIABLES
    stage,  \* open, paid (the goods may be handed out) or closed
    money,  \* at the provider: none, offered (the customer can pay), taken, returned
    doubt   \* the payment was overruled, or closed without a definite answer

vars == <<stage, money, doubt>>

Init ==
    /\ stage = [p \in Payments |-> "open"]
    /\ money = [p \in Payments |-> "none"]
    /\ doubt = [p \in Payments |-> FALSE]

MayTake(p) == stage[p] = "open" \/ (stage[p] = "closed" /\ doubt[p])

MoneyGoes(p, m) ==
    /\ money' = [money EXCEPT ![p] = m]
    /\ UNCHANGED <<stage, doubt>>

Offer(p)    == MayTake(p) /\ money[p] \in {"none", "returned"} /\ MoneyGoes(p, "offered")
Take(p)     == MayTake(p) /\ money[p] = "offered" /\ MoneyGoes(p, "taken")
Withdraw(p) == money[p] = "offered" /\ MoneyGoes(p, "none")
Return(p)   == MoneyGoes(p, "returned")

StageGoes(p, s) ==
    /\ stage' = [stage EXCEPT ![p] = s]
    /\ UNCHANGED <<money, doubt>>

Pay(p)   == stage[p] = "open" /\ money[p] \in {"taken", "returned"} /\ StageGoes(p, "paid")
Close(p) == stage[p] = "open" /\ money[p] \in {"none", "returned"} /\ StageGoes(p, "closed")

(* Not even an overruled payment takes the goods back.                      *)
Overrule(p, s) ==
    /\ s = "paid" <=> stage[p] = "paid"
    /\ stage' = [stage EXCEPT ![p] = s]
    /\ doubt' = [doubt EXCEPT ![p] = TRUE]
    /\ UNCHANGED money

Next ==
    \E p \in Payments :
        \/ Offer(p) \/ Take(p) \/ Withdraw(p) \/ Return(p)
        \/ Pay(p) \/ Close(p)
        \/ \E s \in {"open", "paid", "closed"} : Overrule(p, s)

Spec == Init /\ [][Next]_vars
=============================================================================
