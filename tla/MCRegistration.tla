--------------------------- MODULE MCRegistration ---------------------------
(* Instances of Registration for TLC.  Accounts, processes and deliveries  *)
(* are interchangeable.                                                    *)
EXTENDS Registration, TLC

AccountSymmetry ==
  Permutations(Users) \cup Permutations(Web) \cup Permutations(Deliveries)
=============================================================================
