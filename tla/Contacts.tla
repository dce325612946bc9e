------------------------------ MODULE Contacts ------------------------------
(***************************************************************************)
(* The contacts panel of each user (components/chat/contacts-panel.tsx)    *)
(* over FriendRequests: what its dialogs let the user ask for, and the     *)
(* lists that chat-store.tsx loads again after each call, while            *)
(* friend.request records change the same lists.                           *)
(***************************************************************************)
EXTENDS FriendRequests

VARIABLES
    friends,   \* of each user, the friends the client shows
    caller,    \* of each handler, the user whose panel waits for it
    sending,   \* of each user, whether the send button of AddFriendDialog is disabled
    loadingId, \* of each user, the request whose buttons are disabled
    loads,     \* lists being loaded
    overtaken, \* of each user, the lists whose last load was older than what it
               \* replaced, or was lost (history)
    misled     \* there has been such a list, or a request went to a user who was
               \* picked before and no longer on offer (history)

astray == <<overtaken, misled>>
panel == <<friends, caller, sending, loadingId, loads, astray>>
allVars == <<vars, panel>>

Lists == {"requests", "friends"}

\* The requests a user's panel shows with a status.
Shown(u, s) == {i \in DOMAIN rows : view[u][i] = s}

Parties(i) == {rows[i].from, rows[i].to}

-----------------------------------------------------------------------------
(***************************************************************************)
(* The dialogs.                                                            *)
(***************************************************************************)
\* Mutant of Available: users with a pending request are offered, too.
AvailableAlways(u) == Users \ ({u} \cup friends[u])

\* availableUsers of AddFriendDialog
Available(u) == Users \ ({u} \cup friends[u] \cup UNION {Parties(i) : i \in Shown(u, "pending")})

Call(u, h) == caller' = [caller EXCEPT ![h] = u]

\* selectedUser was picked while on offer, as everyone is before the lists are loaded,
\* and outlives their changes and the request.  The service refuses a friend, which
\* changes nothing.
SendFriendRequest(u, h, b) ==
    /\ ~sending[u]
    /\ CreateFriendRequest(h, u, b)
    /\ Call(u, h)
    /\ sending' = [sending EXCEPT ![u] = TRUE]
    /\ misled' = (misled \/ b \notin Available(u))
    /\ UNCHANGED <<friends, loadingId, loads, overtaken>>

\* A request among those shown as incoming; only the one clicked last is disabled.
Decidable(u, i) ==
    /\ i \in Shown(u, "pending") /\ rows[i].to = u
    /\ loadingId[u] # i

HandleDecision(u, h, i) ==
    /\ Decidable(u, i)
    /\ ApproveFriendRequest(h, i) \/ RejectFriendRequest(h, i)
    /\ Call(u, h)
    /\ loadingId' = [loadingId EXCEPT ![u] = i]
    /\ UNCHANGED <<friends, sending, loads, astray>>

\* The service refuses: the request is no longer pending.
DecisionRefused(u, i) ==
    /\ Decidable(u, i)
    /\ rows[i].status # "pending"
    /\ requests < MaxRequests
    /\ requests' = requests + 1
    /\ loadingId' = [loadingId EXCEPT ![u] = 0]
    /\ UNCHANGED <<rows, friendships, view, proc, overlap, friends, caller, sending, loads, astray>>

-----------------------------------------------------------------------------
(***************************************************************************)
(* Calls return, and the lists are loaded again.                           *)
(***************************************************************************)
\* for: the request decided by the call that loads it, "send" or "open".
Load(u, list, for) == [user |-> u, list |-> list, for |-> for, pc |-> "asked", answer |-> {},
                       stale |-> FALSE]

\* The call a handler works for.
For(h) == IF proc[h].as = "pending" THEN <<"send", 0>> ELSE <<"decide", proc[h].id>>

\* Mutant of Reloads: an approval loads the requests alone.
ReloadsRequests(h) == {Load(caller[h], "requests", For(h))}

\* approveFriendRequest loads both lists, the other calls load the requests.
Reloads(h) == {Load(caller[h], list, For(h)) :
                 list \in IF proc[h].as = "accepted" THEN Lists ELSE {"requests"}}

\* The finally blocks: the dialog's button, or whatever loadingId is.
Settle(u, for) ==
    /\ sending' = IF for[1] = "send" THEN [sending EXCEPT ![u] = FALSE] ELSE sending
    /\ loadingId' = IF for[1] = "decide" THEN [loadingId EXCEPT ![u] = 0] ELSE loadingId

\* Answers read before this change of the tables or of a client's list.
Outdate(ls) == {[l EXCEPT !.stale = @ \/ ( /\ l.pc = "served"
                                           /\ \/ l.list = "friends" /\ friendships' # friendships
                                              \/ l.list = "requests" /\ view'[l.user] # view[l.user])] :
                l \in ls}

\* A step of the handler; when it returns, the panel goes on.  A call that fails
\* loads nothing.
Serve(h) ==
    /\ HandlerStep(h)
    /\ IF proc'[h] # Idle
         THEN /\ loads' = Outdate(loads)
              /\ UNCHANGED <<caller, sending, loadingId>>
         ELSE /\ loads' = Outdate(loads) \cup (IF At(h, "tellTo") THEN Reloads(h) ELSE {})
              /\ caller' = [caller EXCEPT ![h] = None]
              /\ IF At(h, "tellTo") THEN UNCHANGED <<sending, loadingId>>
                 ELSE Settle(caller[h], IF At(h, "accept") THEN <<"decide", proc[h].id>> ELSE <<"send", 0>>)
    /\ UNCHANGED <<friends, astray>>

Answer(l) == IF l.list = "friends" THEN {b \in Users : Friends(l.user, b)}
             ELSE {<<i, rows[i].status>> : i \in {j \in DOMAIN rows : l.user \in Parties(j)}}

\* getFriends, getFriendRequests
ServeList(l) ==
    /\ l.pc = "asked"
    /\ loads' = (loads \ {l}) \cup {[l EXCEPT !.pc = "served", !.answer = Answer(l)]}
    /\ UNCHANGED <<vars, friends, caller, sending, loadingId, astray>>

Others(l) == loads \ {l}

SameCall(l) == {m \in Others(l) : m.user = l.user /\ m.for = l.for}

\* setFriends, setFriendRequests: the whole list is replaced.
SetList(l) ==
    /\ l.pc = "served"
    /\ IF l.list = "friends"
         THEN friends' = [friends EXCEPT ![l.user] = l.answer] /\ view' = view
         ELSE /\ view' = [view EXCEPT ![l.user] =
                            [i \in Ids |-> IF \E s \in Status : <<i, s>> \in l.answer
                                           THEN CHOOSE s \in Status : <<i, s>> \in l.answer
                                           ELSE "unseen"]]
              /\ friends' = friends
    /\ loads' = {[m EXCEPT !.stale = @ \/ ( /\ m.pc = "served" /\ m.user = l.user
                                            /\ m.list = l.list)] : m \in Others(l)}
    /\ overtaken' = [overtaken EXCEPT ![l.user] = IF l.stale THEN @ \cup {l.list} ELSE @ \ {l.list}]
    /\ misled' = (misled \/ l.stale)
    /\ IF SameCall(l) = {} THEN Settle(l.user, l.for) ELSE UNCHANGED <<sending, loadingId>>
    /\ UNCHANGED <<rows, friendships, proc, bounds, caller>>

\* The answer is lost; the list stays as it is, and the call ends without the other.
ListLost(l) ==
    /\ requests < MaxRequests
    /\ requests' = requests + 1
    /\ loads' = (Others(l) \ SameCall(l))
                  \cup {[m EXCEPT !.for = <<"open", 0>>] : m \in SameCall(l)}
    /\ overtaken' = [overtaken EXCEPT ![l.user] = @ \cup {l.list}]
    /\ misled' = TRUE
    /\ Settle(l.user, l.for)
    /\ UNCHANGED <<rows, friendships, view, proc, overlap, friends, caller>>

\* A page that is opened loads both lists.
Open(u) ==
    /\ requests < MaxRequests
    /\ requests' = requests + 1
    /\ \A l \in loads : l.user # u
    /\ \A h \in Handlers : caller[h] # u
    /\ loads' = loads \cup {Load(u, list, <<"open", 0>>) : list \in Lists}
    /\ UNCHANGED <<rows, friendships, view, proc, overlap, friends, caller, sending, loadingId, astray>>

-----------------------------------------------------------------------------
ContactsInit ==
    /\ Init
    /\ friends = [u \in Users |-> {}]
    /\ caller = [h \in Handlers |-> None]
    /\ sending = [u \in Users |-> FALSE]
    /\ loadingId = [u \in Users |-> 0]
    /\ loads = {}
    /\ overtaken = [u \in Users |-> {}]
    /\ misled = FALSE

ContactsNext ==
    \/ \E u \in Users, h \in Handlers, b \in Users : SendFriendRequest(u, h, b)
    \/ \E u \in Users, h \in Handlers, i \in DOMAIN rows : HandleDecision(u, h, i)
    \/ \E u \in Users, i \in DOMAIN rows : DecisionRefused(u, i)
    \/ \E h \in Handlers : Serve(h)
    \/ \E l \in loads : ServeList(l) \/ SetList(l) \/ ListLost(l)
    \/ \E u \in Users : Open(u)

ContactsSpec == ContactsInit /\ [][ContactsNext]_allVars

-----------------------------------------------------------------------------
WellFormed ==
    /\ FriendsWellFormed
    /\ friends \in [Users -> SUBSET Users]
    /\ caller \in [Handlers -> Users \cup {None}]
    /\ sending \in [Users -> BOOLEAN]
    /\ loadingId \in [Users -> 0..MaxRows]
    /\ overtaken \in [Users -> SUBSET Lists]

\* With calls handled one at a time, and unless a load was overtaken by a record or by
\* a later load, every panel ends up with the stored status of its user's requests, and
\* that of the one who approved with the new friend (chat-store.tsx:508-543, :715-725).
\* The requester's friends are not loaded again: there the friend is missing.
ListsConverge ==
    (Quiescent /\ loads = {} /\ ~overlap) =>
        \A i \in DOMAIN rows :
            /\ \A u \in Parties(i) : "requests" \notin overtaken[u] => view[u][i] = rows[i].status
            /\ rows[i].status = "accepted" /\ "friends" \notin overtaken[rows[i].to] =>
                  rows[i].from \in friends[rows[i].to]

\* Two users who act one after the other never leave a pending request between
\* friends, nor one in each direction: the dialog offers nobody with a request in the
\* list (contacts-panel.tsx:638-661), where friend_service.go:29-31 looks in one
\* direction only.  A user picked before the list changed may still be sent one.
NoIdleRequest ==
    (Quiescent /\ ~overlap /\ ~misled) =>
        \A a, b \in Users : Pending(a, b) # {} => (Pending(b, a) = {} /\ ~Friends(a, b))
=============================================================================
