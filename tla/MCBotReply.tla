------------------------------ MODULE MCBotReply ------------------------------
(* Instances of BotReply for TLC. *)
EXTENDS BotReply, TLC
=============================================================================
