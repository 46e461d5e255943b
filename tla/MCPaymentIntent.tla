--------------------------- MODULE MCPaymentIntent ---------------------------
(* Instances of PaymentIntent for TLC.                                      *)
EXTENDS PaymentIntent, TLC

Symmetry == Permutations(Workers)
==============================================================================
