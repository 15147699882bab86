------------------------------- MODULE MCTeam -------------------------------
(* Instances of Team for TLC.                                              *)
EXTENDS Team, TLC

(* Workers and users are interchangeable.                                   *)
Symmetry == Permutations(Workers) \cup Permutations(Users)
=============================================================================
