----------------------------- MODULE MCBidding -----------------------------
(* Instances of Bidding for TLC.  One of two users may be banned, so only  *)
(* the workers are interchangeable.                                        *)
EXTENDS Bidding, TLC

WorkerSymmetry == Permutations(Workers)
=============================================================================
