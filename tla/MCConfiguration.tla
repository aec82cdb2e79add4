-------------------------- MODULE MCConfiguration --------------------------
(* Instances of Configuration for TLC.  Versions and processes are         *)
(* interchangeable, items are ordered by their ids.                        *)
EXTENDS Configuration, TLC

StaffSymmetry == Permutations(Versions) \cup Permutations(Web)
=============================================================================
