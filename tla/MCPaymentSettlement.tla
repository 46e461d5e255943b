------------------------- MODULE MCPaymentSettlement -------------------------
(* Instances of PaymentSettlement for TLC.                                  *)
EXTENDS PaymentSettlement, TLC

Symmetry == Permutations(Orders)
==============================================================================
