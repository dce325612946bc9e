----------------------------- MODULE MCPresence -----------------------------
(* Presence for TLC: two users and three sockets. *)
EXTENDS Presence
=============================================================================
