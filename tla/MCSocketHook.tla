---------------------------- MODULE MCSocketHook ----------------------------
(***************************************************************************)
(* SocketHook for TLC.                                                     *)
(***************************************************************************)
EXTENDS SocketHook
=============================================================================
