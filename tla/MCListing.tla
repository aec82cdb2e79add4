----------------------------- MODULE MCListing -----------------------------
(* Instances of Listing for TLC. *)
EXTENDS Listing, TLC

CONSTANTS tight, roomy, i1, i2

(* A draft in a category of at most one image and no checklist moves to    *)
(* one that asks for an image, allows two and has two items, and back.     *)
TwoAssigned == tight :> {} @@ roomy :> {i1, i2}
TwoMin      == tight :> 0 @@ roomy :> 1
TwoMax      == tight :> 1 @@ roomy :> 2

ListingSymmetry == Permutations(Web) \cup Permutations({i1, i2})
=============================================================================
