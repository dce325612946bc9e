--------------------------- MODULE ConversationLog ---------------------------
(***************************************************************************)
(* What the message store promises, without transactions, locks, handlers  *)
(* or sync records: every conversation is a log that only grows at its     *)
(* end, a client's key enters the logs once, a recall is for good, and a   *)
(* participant's read position only moves forward until it joins anew.     *)
(* MessageService implements it.                                           *)
(***************************************************************************)
EXTENDS Naturals, Sequences

CONSTANTS Users, Convs, Keys

VARIABLES
    log,      \* of each conversation, the sequence of its messages
    gone,     \* the recalled ones, as <<conversation, position>>
    position  \* of each participant, how far it has read

vars == <<log, gone, position>>

Entry == [sender : Users, key : Keys]

Contains(e) == \E c \in Convs : \E i \in DOMAIN log[c] : log[c][i] = e

Init ==
    /\ log = [c \in Convs |-> <<>>]
    /\ gone = {}
    /\ position = [c \in Convs |-> [u \in Users |-> 0]]

Send(c, e) ==
    /\ ~Contains(e)
    /\ log' = [log EXCEPT ![c] = Append(@, e)]
    /\ UNCHANGED <<gone, position>>

Recall(c, i) ==
    /\ gone' = gone \cup {<<c, i>>}
    /\ UNCHANGED <<log, position>>

Read(c, u, i) ==
    /\ i > position[c][u]
    /\ position' = [position EXCEPT ![c][u] = i]
    /\ UNCHANGED <<log, gone>>

Join(c, u) ==
    /\ position' = [position EXCEPT ![c][u] = 0]
    /\ UNCHANGED <<log, gone>>

Next ==
    \E c \in Convs :
        \/ \E e \in Entry : Send(c, e)
        \/ \E i \in DOMAIN log[c] : Recall(c, i)
        \/ \E u \in Users : Join(c, u) \/ \E i \in DOMAIN log[c] : Read(c, u, i)

Spec == Init /\ [][Next]_vars
=============================================================================
