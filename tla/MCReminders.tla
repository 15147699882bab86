----------------------------- MODULE MCReminders -----------------------------
(* Instances of Reminders for TLC.                                         *)
EXTENDS Reminders, TLC

Symmetry == Permutations(Runners) \cup Permutations(Owners)
=============================================================================
