------------------------------ MODULE MCBilling ------------------------------
(* Instances of Billing for TLC.                                           *)
EXTENDS Billing, TLC

(* The first charge is Stripe's, the others are M-Pesa's; or all M-Pesa's.  *)
CONSTANT c1
StripeAndMpesa == [c \in Charges |-> IF c = c1 THEN "stripe" ELSE "mpesa"]
MpesaOnly == [c \in Charges |-> "mpesa"]

(* Workers are interchangeable. *)
Symmetry == Permutations(Workers)
=============================================================================
