-------------------------- MODULE MCNotifications --------------------------
(* Finite instances of Notifications for TLC. *)
EXTENDS Notifications

CONSTANT u1
=============================================================================
