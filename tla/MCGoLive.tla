----------------------------- MODULE MCGoLive -----------------------------
(* Instances of GoLive for TLC. *)
EXTENDS GoLive, TLC

(* One category, whose only item is on the checklist, without images.      *)
AllAssigned == [c \in Categories |-> Items]
NoImages    == [c \in Categories |-> 0]

ClerkSymmetry == Permutations(Clerks)
=============================================================================
