---------------------------- MODULE MCContacts -----------------------------
(* Contacts, with the service of FriendRequests, for TLC. *)
EXTENDS Contacts, TLC

\* Users, and handlers, are interchangeable.
Symmetry == Permutations(Users) \cup Permutations(Handlers)
=============================================================================
