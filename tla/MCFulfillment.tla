---------------------------- MODULE MCFulfillment ----------------------------
(***************************************************************************)
(* Small instances of Fulfillment for TLC.                                  *)
(***************************************************************************)
EXTENDS Fulfillment, TLC

Symmetry == Permutations(Lines) \union Permutations(Refunds)
=============================================================================
