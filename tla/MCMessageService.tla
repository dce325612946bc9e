-------------------------- MODULE MCMessageService --------------------------
(* Instances of MessageService for TLC. *)
EXTENDS MessageService, TLC

\* Handlers, users, conversations and keys are interchangeable.
Symmetry == Permutations(Handlers) \cup Permutations(Users)
            \cup Permutations(Convs) \cup Permutations(Keys)
=============================================================================
