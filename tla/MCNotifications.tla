-------------------------- MODULE MCNotifications --------------------------
(* Instances of Notifications for TLC; with liveness no symmetry is used. *)
EXTENDS Notifications
=============================================================================
