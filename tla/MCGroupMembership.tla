-------------------------- MODULE MCGroupMembership --------------------------
(* Instances of GroupMembership for TLC. *)
EXTENDS GroupMembership, TLC

\* Users and handlers are interchangeable.
Symmetry == Permutations(Users) \cup Permutations(Handlers)

\* Nothing reads the records and the clients' lists but the clients, and after an
\* overlap no property but their types looks at them: they need not tell states
\* apart then.
View == IF overlap THEN <<status, role, proc, requests, crashes>> ELSE <<vars>>
=============================================================================
