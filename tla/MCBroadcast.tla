---------------------------- MODULE MCBroadcast ----------------------------
(* Broadcast for two users and two workers; the configuration names them. *)
EXTENDS Broadcast
=============================================================================
