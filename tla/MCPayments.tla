----------------------------- MODULE MCPayments -----------------------------
(* Instances of Payments for TLC. *)
EXTENDS Payments, TLC

ProcessSymmetry == Permutations(Web) \cup Permutations(Tasks)
=============================================================================
