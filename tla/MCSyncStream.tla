---------------------------- MODULE MCSyncStream ----------------------------
(* SyncStream for TLC: two changes, two invocations of the replay loop. *)
EXTENDS SyncStream
=============================================================================
