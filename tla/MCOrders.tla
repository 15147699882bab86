------------------------------- MODULE MCOrders -------------------------------
(* Instances of Orders for TLC.                                            *)
EXTENDS Orders, TLC

(* The first charge is Stripe's, the others are SasaPay's.                  *)
CONSTANT c1
StripeAndSasaPay == [c \in Charges |-> IF c = c1 THEN "stripe" ELSE "sasapay"]

(* Workers, orders and later statuses are interchangeable.                  *)
Symmetry ==
    Permutations(Workers) \cup Permutations(OrderIds) \cup Permutations(Fulfilment)
=============================================================================
