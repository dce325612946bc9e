--------------------------- MODULE GroupMembership ---------------------------
(***************************************************************************)
(* The life of one group conversation: creation, invitations, removals,    *)
(* leaving, ownership transfer and dissolution, of                         *)
(* chat/conversation_service.go over repository/repository.go, and the     *)
(* conversation list each member's client derives from the sync records    *)
(* these operations append (chat-store.tsx).                               *)
(*                                                                         *)
(* Every query and every transaction of an operation is a step of its own: *)
(* the service reads roles and counts first and writes later, with no lock *)
(* held between.                                                           *)
(***************************************************************************)
EXTENDS Naturals, Sequences, FiniteSets

CONSTANTS
    Users,       \* user ids
    Handlers,    \* goroutines of the API process serving requests
    MaxRequests, \* bound: requests admitted in a behaviour
    MaxCrashes,  \* bound: crashes
    None         \* no user

ASSUME NoneIsNoUser == None \notin Users
ASSUME UsersAreFinite == IsFiniteSet(Users)
ASSUME BoundsAreNaturals == MaxRequests \in Nat /\ MaxCrashes \in Nat

VARIABLES
    status,   \* the conversations row: "absent", "active", "deleted"
    role,     \* the role of each user's active member row, or "none"
    stream,   \* of each user, the sync records of this group not yet replayed
    shown,    \* users whose client lists the group
    proc,     \* the state of each handler
    requests, \* requests admitted
    crashes,  \* crashes so far
    overlap,  \* two requests were under way at a time (history)
    purged    \* a dissolution deleted records not yet replayed (history)

vars == <<status, role, stream, shown, proc, requests, crashes, overlap, purged>>

Roles == {"none", "member", "admin", "owner"}
Kinds == {"member.joined", "member.left", "conversation.updated", "conversation.removed"}

PC == {"idle", "addTx", "joinedTo", "joined", "target", "count", "dissolve", "removeTx",
       "leftTo", "left", "removed", "upsert", "append", "heir", "demote", "promote"}

\* target: the member an operation is about.  todo: recipients left.
Handler == [pc : PC, actor : Users \cup {None}, target : Users \cup {None},
            todo : SUBSET Users, to : Users \cup {None}]

Idle == [pc |-> "idle", actor |-> None, target |-> None, todo |-> {}, to |-> None]

Active == {u \in Users : role[u] # "none"}
Owners == {u \in Users : role[u] = "owner"}
Manages(u) == role[u] \in {"owner", "admin"}

At(h, label) == proc[h].pc = label
Go(h, label) == proc' = [proc EXCEPT ![h].pc = label]
Return(h) == proc' = [proc EXCEPT ![h] = Idle]
Start(h, label, a, t) ==
    proc' = [proc EXCEPT ![h] = [Idle EXCEPT !.pc = label, !.actor = a, !.target = t]]

Admit ==
    /\ requests < MaxRequests
    /\ requests' = requests + 1
    /\ overlap' = (overlap \/ \E h \in Handlers : ~At(h, "idle"))
    /\ UNCHANGED <<crashes, purged>>

Emit(us, kind) ==
    stream' = [u \in Users |-> IF u \in us THEN Append(stream[u], kind) ELSE stream[u]]

\* UPDATE conversation_members SET role = r WHERE ... deleted_at IS NULL: no row
\* is no error.
SetRole(u, r) == role' = IF role[u] = "none" THEN role ELSE [role EXCEPT ![u] = r]

tables == <<status, role>>
bounds == <<requests, crashes, overlap, purged>>

-----------------------------------------------------------------------------
Nobody == [u \in Users |-> "none"]

Group(owner, others) == [u \in Users |-> IF u = owner THEN "owner"
                                         ELSE IF u \in others THEN "member" ELSE "none"]

\* Nothing yet, or a group some time after its creation, when members may have
\* left it and every client is up to date.
Init ==
    /\ \/ status = "absent" /\ role = Nobody
       \/ status = "active" /\ \E a \in Users, S \in SUBSET Users : role = Group(a, S)
    /\ stream = [u \in Users |-> <<>>]
    /\ shown = Active
    /\ proc = [h \in Handlers |-> Idle]
    /\ requests = 0
    /\ crashes = 0
    /\ overlap = FALSE
    /\ purged = FALSE

\* CreateGroupConversation: at least three distinct members with the creator.
Create(h, a, others) ==
    /\ At(h, "idle")
    /\ status = "absent"
    /\ Cardinality(others \cup {a}) >= 3
    /\ Admit
    /\ status' = "active"
    /\ role' = Group(a, others)
    /\ proc' = [proc EXCEPT ![h] = [Idle EXCEPT !.pc = "upsert", !.todo = others \cup {a}]]
    /\ UNCHANGED <<stream, shown>>

-----------------------------------------------------------------------------
(***************************************************************************)
(* AddConversationMembers                                                  *)
(***************************************************************************)
AddMembers(h, a, t) ==
    /\ At(h, "idle")
    /\ status = "active"
    /\ Manages(a)
    /\ Admit
    /\ Start(h, "addTx", a, t)
    /\ UNCHANGED <<tables, stream, shown>>

\* Insert or revive the row as a plain member; an active one is left alone.
\* Without the conversation the foreign key refuses the row.
AddTx(h) ==
    LET t == proc[h].target IN
    /\ At(h, "addTx")
    /\ IF status = "active"
         THEN /\ role' = IF role[t] = "none" THEN [role EXCEPT ![t] = "member"] ELSE role
              /\ Go(h, "joinedTo")
         ELSE /\ UNCHANGED role
              /\ Return(h)
    /\ UNCHANGED <<status, stream, shown, bounds>>

\* Mutant of JoinedRecipients: the members as they were before the change.
EarlierRecipients(h) ==
    /\ At(h, "joinedTo")
    /\ proc' = [proc EXCEPT ![h].pc = "joined", ![h].todo = Active \ {proc[h].target}]
    /\ UNCHANGED <<tables, stream, shown, bounds>>

JoinedRecipients(h) ==
    /\ At(h, "joinedTo")
    /\ proc' = [proc EXCEPT ![h].pc = "joined", ![h].todo = Active]
    /\ UNCHANGED <<tables, stream, shown, bounds>>

EmitJoined(h) ==
    /\ At(h, "joined")
    /\ Emit(proc[h].todo, "member.joined")
    /\ Go(h, "upsert")
    /\ UNCHANGED <<tables, shown, bounds>>

-----------------------------------------------------------------------------
(***************************************************************************)
(* RemoveConversationMember and LeaveConversation                          *)
(***************************************************************************)

\* Mutant of AfterRole: the owner goes like anybody else.
AfterAnyRole(r) == "removeTx"

\* Where a removal goes once the target's role is known.
AfterRole(r) == IF r = "owner" THEN "count" ELSE "removeTx"

RemoveMember(h, a, t) ==
    /\ At(h, "idle")
    /\ status = "active"
    /\ role[a] # "none"
    /\ a # t => Manages(a)
    /\ Admit
    /\ Start(h, "target", a, t)
    /\ UNCHANGED <<tables, stream, shown>>

CheckTarget(h) ==
    LET r == role[proc[h].target] IN
    /\ At(h, "target")
    /\ IF r = "none" THEN Return(h) ELSE Go(h, AfterRole(r))
    /\ UNCHANGED <<tables, stream, shown, bounds>>

Leave(h, a) ==
    /\ At(h, "idle")
    /\ status = "active"
    /\ role[a] # "none"
    /\ Admit
    /\ Start(h, AfterRole(role[a]), a, a)
    /\ UNCHANGED <<tables, stream, shown>>

\* The owner goes only when alone, and then the group goes too; otherwise the
\* ownership must be transferred first.
CountMembers(h) ==
    LET n == Cardinality(Active) IN
    /\ At(h, "count")
    /\ \/ n = 1 /\ Go(h, "dissolve")
       \/ n > 1 /\ Return(h)
       \/ n = 0 /\ Go(h, "removeTx")
    /\ UNCHANGED <<tables, stream, shown, bounds>>

\* DeleteGroupConversation: the conversation, its member rows and every sync
\* record about it, whosever, in one transaction.
Dissolve(h) ==
    /\ At(h, "dissolve")
    /\ status' = "deleted"
    /\ role' = Nobody
    /\ stream' = [u \in Users |-> <<>>]
    /\ purged' = (purged \/ \E u \in Users : stream[u] # <<>>)
    /\ Go(h, "removed")
    /\ UNCHANGED <<shown, requests, crashes, overlap>>

RemoveTx(h) ==
    /\ At(h, "removeTx")
    /\ role' = [role EXCEPT ![proc[h].target] = "none"]
    /\ Go(h, "leftTo")
    /\ UNCHANGED <<status, stream, shown, bounds>>

LeftRecipients(h) ==
    /\ At(h, "leftTo")
    /\ proc' = [proc EXCEPT ![h].pc = "left", ![h].todo = Active]
    /\ UNCHANGED <<tables, stream, shown, bounds>>

EmitLeft(h) ==
    /\ At(h, "left")
    /\ Emit(proc[h].todo \cup {proc[h].target}, "member.left")
    /\ Go(h, "removed")
    /\ UNCHANGED <<tables, shown, bounds>>

\* After a dissolution nobody is left to update.
EmitRemoved(h) ==
    /\ At(h, "removed")
    /\ Emit({proc[h].target}, "conversation.removed")
    /\ Go(h, "upsert")
    /\ UNCHANGED <<tables, shown, bounds>>

-----------------------------------------------------------------------------
(***************************************************************************)
(* emitConversationUpsert: for each recipient a summary is read, which     *)
(* needs the member row, and then appended.                                *)
(***************************************************************************)
Summarise(h, u) ==
    /\ At(h, "upsert")
    /\ u \in proc[h].todo
    /\ proc' = [proc EXCEPT ![h].todo = @ \ {u}, ![h].to = u,
                            ![h].pc = IF u \in Active THEN "append" ELSE @]
    /\ UNCHANGED <<tables, stream, shown, bounds>>

AppendUpdated(h) ==
    /\ At(h, "append")
    /\ Emit({proc[h].to}, "conversation.updated")
    /\ Go(h, "upsert")
    /\ UNCHANGED <<tables, shown, bounds>>

FinishUpsert(h) ==
    /\ At(h, "upsert")
    /\ proc[h].todo = {}
    /\ Return(h)
    /\ UNCHANGED <<tables, stream, shown, bounds>>

-----------------------------------------------------------------------------
(***************************************************************************)
(* TransferOwnership: two UPDATEs, each a transaction of its own.          *)
(***************************************************************************)
Transfer(h, a, t) ==
    /\ At(h, "idle")
    /\ status = "active"
    /\ role[a] = "owner"
    /\ a # t
    /\ Admit
    /\ Start(h, "heir", a, t)
    /\ UNCHANGED <<tables, stream, shown>>

CheckHeir(h) ==
    /\ At(h, "heir")
    /\ IF role[proc[h].target] \in {"none", "owner"} THEN Return(h) ELSE Go(h, "demote")
    /\ UNCHANGED <<tables, stream, shown, bounds>>

\* Mutant of Demote: the heir is promoted first.
PromoteFirst(h) ==
    /\ At(h, "demote")
    /\ SetRole(proc[h].target, "owner")
    /\ Go(h, "promote")
    /\ UNCHANGED <<status, stream, shown, bounds>>

Demote(h) ==
    /\ At(h, "demote")
    /\ SetRole(proc[h].actor, "admin")
    /\ Go(h, "promote")
    /\ UNCHANGED <<status, stream, shown, bounds>>

Promote(h) ==
    /\ At(h, "promote")
    /\ SetRole(proc[h].target, "owner")
    /\ Return(h)
    /\ UNCHANGED <<status, stream, shown, bounds>>

-----------------------------------------------------------------------------
\* applyIncomingEvent: a membership record reloads the list from the server.
Listed(kind, u) ==
    CASE kind = "conversation.updated" -> TRUE
      [] kind = "conversation.removed" -> FALSE
      [] OTHER -> u \in Active

\* The client of u replays its next record.
Replay(u) ==
    /\ stream[u] # <<>>
    /\ shown' = IF Listed(Head(stream[u]), u) THEN shown \cup {u} ELSE shown \ {u}
    /\ stream' = [stream EXCEPT ![u] = Tail(@)]
    /\ UNCHANGED <<tables, proc, bounds>>

Crash ==
    /\ crashes < MaxCrashes
    /\ \E h \in Handlers : ~At(h, "idle")
    /\ crashes' = crashes + 1
    /\ proc' = [h \in Handlers |-> Idle]
    /\ UNCHANGED <<tables, stream, shown, requests, overlap, purged>>

Request(h) ==
    \E a \in Users :
        \/ \E others \in SUBSET Users : Create(h, a, others)
        \/ Leave(h, a)
        \/ \E t \in Users : AddMembers(h, a, t) \/ RemoveMember(h, a, t) \/ Transfer(h, a, t)

Proceed(h) ==
    \/ AddTx(h) \/ JoinedRecipients(h) \/ EmitJoined(h)
    \/ CheckTarget(h) \/ CountMembers(h) \/ Dissolve(h)
    \/ RemoveTx(h) \/ LeftRecipients(h) \/ EmitLeft(h) \/ EmitRemoved(h)
    \/ (\E u \in Users : Summarise(h, u)) \/ AppendUpdated(h) \/ FinishUpsert(h)
    \/ CheckHeir(h) \/ Demote(h) \/ Promote(h)

Next == \/ \E h \in Handlers : Request(h) \/ Proceed(h)
        \/ \E u \in Users : Replay(u)
        \/ Crash

Spec == Init /\ [][Next]_vars

-----------------------------------------------------------------------------
TypeOK ==
    /\ status \in {"absent", "active", "deleted"}
    /\ role \in [Users -> Roles]
    /\ stream \in [Users -> Seq(Kinds)]
    /\ shown \in SUBSET Users
    /\ proc \in [Handlers -> Handler]
    /\ requests \in Nat
    /\ crashes \in Nat
    /\ overlap \in BOOLEAN
    /\ purged \in BOOLEAN

Quiescent == \A h \in Handlers : At(h, "idle")

\* A group that has members has an owner between operations: the owner leaves
\* only after a transfer (conversation_service.go:262 and :303).  So it is as long as
\* requests come one at a time and none is cut short.
OwnerKept ==
    Quiescent /\ ~overlap /\ crashes = 0 /\ Active # {} => Owners # {}

\* Ownership is transferred, never multiplied: with requests one at a time there
\* are never two owners, not even between the two updates of a transfer or after
\* a crash there (conversation_service.go:340-343).  And once dissolved the group
\* keeps no member row, whatever invitation, transfer or removal was under way when
\* it went (repository.go:543-568).
WellFormed ==
    /\ TypeOK
    /\ ~overlap => \A u, v \in Owners : u = v
    /\ status = "deleted" => Active = {}

\* All is done and replayed, nothing overlapped or was cut short, and no record
\* was deleted before its user replayed it.
Settled == /\ Quiescent /\ ~overlap /\ crashes = 0 /\ ~purged
           /\ \A u \in Users : stream[u] = <<>>

\* The clients that list the group are then those of its members, none when it is
\* gone, through removals, rejoining and dissolution, and however late each client
\* replays (sync.go:9-10).
ListConverges == Settled => shown = Active
=============================================================================
