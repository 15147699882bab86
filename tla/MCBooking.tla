------------------------------ MODULE MCBooking ------------------------------
(* Instances of Booking for TLC.                                           *)
EXTENDS Booking, TLC

(* Opening hours that overlap and whose grids differ.                       *)
TwoRules == {[from |-> 0, to |-> 2], [from |-> 1, to |-> 4]}

(* Workers, rows and services are interchangeable.                          *)
Symmetry == Permutations(Workers) \cup Permutations(Appts) \cup Permutations(Services)
=============================================================================
