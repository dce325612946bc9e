--------------------------- MODULE FriendRequests ---------------------------
(***************************************************************************)
(* Friend requests and friendships: chat/friend_service.go over            *)
(* repository/repository.go.  A request is created after two checks and    *)
(* decided after one; the checks and the writes are separate statements.   *)
(* view is what each user's client shows of the requests: it keeps the     *)
(* last "friend.request" record of each (chat-store.tsx).  Contacts        *)
(* composes these operations with the clients that call them.              *)
(***************************************************************************)
EXTENDS Naturals, Sequences, FiniteSets

CONSTANTS
    Users,       \* user ids
    Handlers,    \* goroutines of the API process serving requests
    MaxRows,     \* bound: rows of friend_requests
    MaxRequests, \* bound: HTTP requests admitted
    None         \* no user

ASSUME BoundsAreNaturals == MaxRows \in Nat /\ MaxRequests \in Nat

VARIABLES
    rows,        \* friend_requests; a row's id is its position
    friendships, \* the <<user, friend>> pairs of friendships
    view,        \* of each user, the status its client shows for each id
    proc,        \* the state of each handler
    requests,    \* HTTP requests admitted
    overlap      \* two of them were under way at a time (history)

bounds == <<requests, overlap>>
vars == <<rows, friendships, view, proc, bounds>>

Status == {"pending", "accepted", "rejected"}
Ids == 1..MaxRows
PC == {"idle", "pendingCheck", "insert", "accept", "reject", "tellFrom", "tellTo"}

\* from, to: the parties.  id, as: the row and the status the handler's own
\* copy of it has.
Handler == [pc : PC, from : Users \cup {None}, to : Users \cup {None},
            id : 0..MaxRows, as : Status]

Idle == [pc |-> "idle", from |-> None, to |-> None, id |-> 0, as |-> "pending"]

At(h, label) == proc[h].pc = label
Go(h, label) == proc' = [proc EXCEPT ![h].pc = label]
Return(h) == proc' = [proc EXCEPT ![h] = Idle]

Admit ==
    /\ requests < MaxRequests
    /\ requests' = requests + 1
    /\ overlap' = (overlap \/ \E h \in Handlers : ~At(h, "idle"))

Friends(a, b) == <<a, b>> \in friendships

Pending(a, b) == {i \in DOMAIN rows : rows[i] = [from |-> a, to |-> b, status |-> "pending"]}

\* emitSyncEvent to one party; its client keeps the last status of a request.
Tell(u, i, s) == view' = [view EXCEPT ![u][i] = s]

-----------------------------------------------------------------------------
Init ==
    /\ rows = <<>>
    /\ friendships = {}
    /\ view = [u \in Users |-> [i \in Ids |-> "unseen"]]
    /\ proc = [h \in Handlers |-> Idle]
    /\ requests = 0
    /\ overlap = FALSE

(***************************************************************************)
(* CreateFriendRequest                                                     *)
(***************************************************************************)
CreateFriendRequest(h, a, b) ==
    /\ At(h, "idle")
    /\ Admit
    /\ a # b
    /\ ~Friends(a, b)
    /\ proc' = [proc EXCEPT ![h] = [pc |-> "pendingCheck", from |-> a, to |-> b, id |-> 0,
                                    as |-> "pending"]]
    /\ UNCHANGED <<rows, friendships, view>>

\* FindPendingFriendRequest looks for one in the same direction only.
CheckPending(h) ==
    /\ At(h, "pendingCheck")
    /\ IF Pending(proc[h].from, proc[h].to) = {} THEN Go(h, "insert") ELSE Return(h)
    /\ UNCHANGED <<rows, friendships, view, bounds>>

InsertRequest(h) ==
    /\ At(h, "insert")
    /\ Len(rows) < MaxRows
    /\ rows' = Append(rows, [from |-> proc[h].from, to |-> proc[h].to, status |-> "pending"])
    /\ proc' = [proc EXCEPT ![h].pc = "tellFrom", ![h].id = Len(rows) + 1]
    /\ UNCHANGED <<friendships, view, bounds>>

(***************************************************************************)
(* ApproveFriendRequest and RejectFriendRequest: the addressee decides a   *)
(* request that was read as pending.                                       *)
(***************************************************************************)
\* Mutant of Decide: the status of the request is not looked at.
DecideAgain(h, i, label) ==
    /\ At(h, "idle")
    /\ Admit
    /\ proc' = [proc EXCEPT ![h] = [pc |-> label, from |-> rows[i].from, to |-> rows[i].to,
                                    id |-> i, as |-> "pending"]]
    /\ UNCHANGED <<rows, friendships, view>>

Decide(h, i, label) ==
    /\ At(h, "idle")
    /\ Admit
    /\ rows[i].status = "pending"
    /\ proc' = [proc EXCEPT ![h] = [pc |-> label, from |-> rows[i].from, to |-> rows[i].to,
                                    id |-> i, as |-> "pending"]]
    /\ UNCHANGED <<rows, friendships, view>>

ApproveFriendRequest(h, i) == Decide(h, i, "accept")

RejectFriendRequest(h, i) == Decide(h, i, "reject")

\* Mutant of Pair: only the requester gets a friendship row.
OneWay(p) == {<<p.from, p.to>>}

Pair(p) == {<<p.from, p.to>>, <<p.to, p.from>>}

\* AcceptFriendRequest: the status and both friendship rows in one transaction,
\* which the unique key on the pair rolls back when they are friends already.
AcceptTx(h) ==
    LET p == proc[h] IN
    /\ At(h, "accept")
    /\ IF Pair(p) \cap friendships = {}
         THEN /\ rows' = [rows EXCEPT ![p.id].status = "accepted"]
              /\ friendships' = friendships \cup Pair(p)
              /\ proc' = [proc EXCEPT ![h].pc = "tellFrom", ![h].as = "accepted"]
         ELSE /\ Return(h)
              /\ UNCHANGED <<rows, friendships>>
    /\ UNCHANGED <<view, bounds>>

\* UpdateFriendRequestStatus writes whatever the row holds by now.
RejectTx(h) ==
    /\ At(h, "reject")
    /\ rows' = [rows EXCEPT ![proc[h].id].status = "rejected"]
    /\ proc' = [proc EXCEPT ![h].pc = "tellFrom", ![h].as = "rejected"]
    /\ UNCHANGED <<friendships, view, bounds>>

\* The record for the requester, then the one for the addressee, both with the
\* status of the handler's own copy.
TellFrom(h) ==
    /\ At(h, "tellFrom")
    /\ Tell(proc[h].from, proc[h].id, proc[h].as)
    /\ Go(h, "tellTo")
    /\ UNCHANGED <<rows, friendships, bounds>>

TellTo(h) ==
    /\ At(h, "tellTo")
    /\ Tell(proc[h].to, proc[h].id, proc[h].as)
    /\ Return(h)
    /\ UNCHANGED <<rows, friendships, bounds>>

\* The steps of a handler once it has been called.
HandlerStep(h) ==
    \/ CheckPending(h) \/ InsertRequest(h) \/ AcceptTx(h) \/ RejectTx(h)
    \/ TellFrom(h) \/ TellTo(h)

-----------------------------------------------------------------------------
Quiescent == \A h \in Handlers : At(h, "idle")

\* Types, and two parts: friendship is mutual, also while approvals of crossed requests
\* race, as the transaction of an approval adds both rows or none; and with requests
\* handled one at a time at most one pending request leads from one user to another
\* (friend_service.go:29-31).
FriendshipIsMutual == \A a, b \in Users : Friends(a, b) => Friends(b, a)
OnePending == ~overlap => \A a, b \in Users : Cardinality(Pending(a, b)) <= 1

\* An approved request made its parties friends; no race of approvals and
\* rejections loses the friendship while the request says "accepted".
AcceptedAreFriends ==
    \A i \in DOMAIN rows : rows[i].status = "accepted" => Friends(rows[i].from, rows[i].to)

FriendsWellFormed ==
    /\ rows \in Seq([from : Users, to : Users, status : Status])
    /\ friendships \in SUBSET (Users \X Users)
    /\ view \in [Users -> [Ids -> Status \cup {"unseen"}]]
    /\ proc \in [Handlers -> Handler]
    /\ requests \in Nat
    /\ overlap \in BOOLEAN
    /\ FriendshipIsMutual
    /\ OnePending
    /\ AcceptedAreFriends

\* With requests handled one at a time a decided request keeps its decision
\* (friend_service.go:96-98 and :139-141); of two decisions read as pending
\* together, the second overwrites the first.
DecidedOnce ==
    [][\A i \in DOMAIN rows :
          rows[i].status # "pending" /\ ~overlap => rows'[i].status = rows[i].status]_vars
=============================================================================
