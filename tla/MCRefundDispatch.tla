-------------------------- MODULE MCRefundDispatch --------------------------
(* Instances of RefundDispatch for TLC.                                     *)
EXTENDS RefundDispatch, TLC

Symmetry == Permutations(Lines) \union Permutations(Refunds)
=============================================================================
