--------------------------- MODULE MCDispenseDaemon ---------------------------
(* DispenseDaemon for TLC: one order with one command.                      *)
EXTENDS DispenseDaemon, TLC

CONSTANTS c1, o1

OneCommand == [c \in {c1} |-> o1]
=============================================================================
