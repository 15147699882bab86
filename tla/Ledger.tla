------------------------------- MODULE Ledger -------------------------------
(***************************************************************************)
(* What the payment tables promise, whatever the payment is for: a charge  *)
(* is settled by the provider and booked here, in any order the network    *)
(* likes, but each at most once; a booking says what the provider says and *)
(* is never taken back.  Billing and Orders implement it.                  *)
(***************************************************************************)
CONSTANT Charges

VARIABLES
    outcome,   \* what the provider made of each charge
    book       \* what the Payment with that reference says

ledgerVars == <<outcome, book>>

Verdict(c) == IF outcome[c] = "paid" THEN "successful" ELSE "failed"

Init ==
    /\ outcome = [c \in Charges |-> "none"]
    /\ book = [c \in Charges |-> "none"]

(* A checkout asks the provider for a charge ...                            *)
Ask(c) ==
    /\ outcome[c] = "none"
    /\ outcome' = [outcome EXCEPT ![c] = "open"]
    /\ UNCHANGED book

(* ... the customer pays it or declines ...                                 *)
Settle(c) ==
    /\ outcome[c] = "open"
    /\ \E verdict \in {"paid", "declined"} :
          outcome' = [outcome EXCEPT ![c] = verdict]
    /\ UNCHANGED book

(* ... the checkout records a Payment for it, perhaps only now ...          *)
Record(c) ==
    /\ outcome[c] # "none"
    /\ book[c] = "none"
    /\ book' = [book EXCEPT ![c] = "pending"]
    /\ UNCHANGED outcome

(* ... and one callback books the outcome.                                  *)
Book(c) ==
    /\ outcome[c] \in {"paid", "declined"}
    /\ book[c] = "pending"
    /\ book' = [book EXCEPT ![c] = Verdict(c)]
    /\ UNCHANGED outcome

Next == \E c \in Charges : Ask(c) \/ Settle(c) \/ Record(c) \/ Book(c)

Spec == Init /\ [][Next]_ledgerVars
=============================================================================
