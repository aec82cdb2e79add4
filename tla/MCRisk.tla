------------------------------- MODULE MCRisk -------------------------------
(* Instances of Risk for TLC; with liveness no symmetry is used. *)
EXTENDS Risk
=============================================================================
