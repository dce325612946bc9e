-------------------------- MODULE MCClientSession ---------------------------
(***************************************************************************)
(* ClientSession for TLC: users and requests are interchangeable.          *)
(***************************************************************************)
EXTENDS ClientSession, TLC

Symmetry == Permutations(Users) \cup Permutations(Calls)
=============================================================================
