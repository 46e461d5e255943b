---------------------------- MODULE MCPaymentCode ----------------------------
(***************************************************************************)
(* Small instances of PaymentCode for TLC.                                  *)
(***************************************************************************)
EXTENDS PaymentCode, TLC

Symmetry == Permutations(Claimants)
=============================================================================
