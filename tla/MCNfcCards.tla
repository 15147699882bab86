----------------------------- MODULE MCNfcCards -----------------------------
(* Instances of NfcCards for TLC.                                          *)
EXTENDS NfcCards, TLC

CONSTANTS u1, u2, o1

(* u1, who is staff (see the cfg), manages the organization that bought     *)
(* every tag; u2 may be a member of it or not.                              *)
BoughtByO1 == [n \in Tags |-> [customer |-> "none", org |-> o1]]
U2MayJoin == [u \in Users |-> [o \in Orgs |->
                 IF u = u1 THEN {"manager"} ELSE {"none", "member"}]]

(* The organization may have a card or none, as its plan goes, u2 has one   *)
(* and u1 none.                                                             *)
OneCard == [t \in Tenants |-> IF t = o1 THEN {0, 1} ELSE IF t = u2 THEN {1} ELSE {0}]

Symmetry ==
    Permutations(Workers) \cup Permutations(VCardIds) \cup Permutations(Slugs)
=============================================================================
