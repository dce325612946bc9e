---------------------------- MODULE MCChatStore -----------------------------
(***************************************************************************)
(* ChatStore for TLC: conversations, and messages of one sender, are       *)
(* interchangeable.                                                        *)
(***************************************************************************)
EXTENDS ChatStore, TLC

Symmetry == Permutations(Convs) \cup Permutations(Mine) \cup Permutations(Theirs)
=============================================================================
