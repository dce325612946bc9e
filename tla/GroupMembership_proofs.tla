------------------------ MODULE GroupMembership_proofs ------------------------
(***************************************************************************)
(* One group conversation, for any users, handlers and requests: it never  *)
(* has two owners, none is left without one, a dissolved group keeps no    *)
(* member, and in the end the clients list it that should.                 *)
(*                                                                         *)
(* The handlers hold no lock between what they read and what they write,   *)
(* so each claim is about requests that come one at a time, and the        *)
(* invariant is about the one handler that is at work: Stage says what     *)
(* still holds of what it read, Owes which users it has yet to tell.       *)
(***************************************************************************)
EXTENDS GroupMembership, SequenceTheorems, FiniteSetTheorems, TLAPS

-----------------------------------------------------------------------------
(***************************************************************************)
(* Types, and what no interleaving breaks.                                 *)
(***************************************************************************)
\* The parameters a handler works with are there when it needs them.
ProcType(h) ==
    /\ proc[h].pc \in PC \ {"idle", "upsert", "append"} => proc[h].target \in Users
    /\ proc[h].pc \in {"heir", "demote", "promote"} => proc[h].actor \in Users
    /\ proc[h].pc = "append" => proc[h].to \in Users

Gone == status # "active" => Active = {}

Shape == TypeOK /\ (\A h \in Handlers : ProcType(h)) /\ Gone

\* What a handler's record is after each kind of step.
LEMMA GoRecord ==
    ASSUME TypeOK, NEW h \in Handlers, NEW l \in PC, Go(h, l)
    PROVE  /\ proc' \in [Handlers -> Handler]
           /\ \A g \in Handlers \ {h} : proc'[g] = proc[g]
           /\ proc'[h].pc = l /\ proc'[h].actor = proc[h].actor
           /\ proc'[h].target = proc[h].target /\ proc'[h].todo = proc[h].todo
           /\ proc'[h].to = proc[h].to
BY DEF TypeOK, Go, Handler

LEMMA IdleRecord ==
    /\ Idle \in Handler
    /\ Idle.pc = "idle" /\ Idle.todo = {} /\ Idle.actor = None
    /\ Idle.target = None /\ Idle.to = None
BY DEF Idle, Handler, PC

LEMMA ReturnRecord ==
    ASSUME TypeOK, NEW h \in Handlers, Return(h)
    PROVE  /\ proc' \in [Handlers -> Handler]
           /\ \A g \in Handlers \ {h} : proc'[g] = proc[g]
           /\ proc'[h].pc = "idle"
BY IdleRecord DEF TypeOK, Return

LEMMA StartRecord ==
    ASSUME TypeOK, NEW h \in Handlers, NEW l \in PC, NEW a \in Users, NEW t \in Users,
           Start(h, l, a, t)
    PROVE  /\ proc' \in [Handlers -> Handler]
           /\ \A g \in Handlers \ {h} : proc'[g] = proc[g]
           /\ proc'[h].pc = l /\ proc'[h].actor = a /\ proc'[h].target = t
<1>1. [Idle EXCEPT !.pc = l, !.actor = a, !.target = t] \in Handler
  BY DEF Idle, Handler
<1>2. /\ [Idle EXCEPT !.pc = l, !.actor = a, !.target = t].pc = l
      /\ [Idle EXCEPT !.pc = l, !.actor = a, !.target = t].actor = a
      /\ [Idle EXCEPT !.pc = l, !.actor = a, !.target = t].target = t
  BY DEF Idle
<1>. QED  BY <1>1, <1>2 DEF TypeOK, Start

\* The recipients of an operation are read.
LEMMA RecipientsRecord ==
    ASSUME TypeOK, NEW h \in Handlers, NEW l \in PC, NEW us \in SUBSET Users,
           proc' = [proc EXCEPT ![h].pc = l, ![h].todo = us]
    PROVE  /\ proc' \in [Handlers -> Handler]
           /\ \A g \in Handlers \ {h} : proc'[g] = proc[g]
           /\ proc'[h].pc = l /\ proc'[h].todo = us
           /\ proc'[h].target = proc[h].target /\ proc'[h].actor = proc[h].actor
BY DEF TypeOK, Handler

LEMMA SummariseRecord ==
    ASSUME TypeOK, NEW h \in Handlers, NEW u \in Users, Summarise(h, u)
    PROVE  /\ proc' \in [Handlers -> Handler]
           /\ \A g \in Handlers \ {h} : proc'[g] = proc[g]
           /\ proc'[h].pc = IF u \in Active THEN "append" ELSE "upsert"
           /\ proc'[h].todo = proc[h].todo \ {u} /\ proc'[h].to = u
<1>1. /\ proc[h] \in Handler /\ proc[h].pc = "upsert"
      /\ "append" \in PC /\ "upsert" \in PC
  BY DEF TypeOK, Summarise, At, PC
<1>2. \A l \in PC, r \in Handler :
         /\ [r EXCEPT !.todo = @ \ {u}, !.to = u, !.pc = l] \in Handler
         /\ [r EXCEPT !.todo = @ \ {u}, !.to = u, !.pc = l].pc = l
         /\ [r EXCEPT !.todo = @ \ {u}, !.to = u, !.pc = l].todo = r.todo \ {u}
         /\ [r EXCEPT !.todo = @ \ {u}, !.to = u, !.pc = l].to = u
  BY DEF Handler
<1>3. CASE u \in Active
  <2>1. proc' = [proc EXCEPT ![h] = [proc[h] EXCEPT !.todo = @ \ {u}, !.to = u, !.pc = "append"]]
    BY <1>3 DEF Summarise
  <2>. QED  BY <1>1, <1>2, <1>3, <2>1 DEF TypeOK
<1>4. CASE u \notin Active
  <2>1. proc' = [proc EXCEPT ![h] = [proc[h] EXCEPT !.todo = @ \ {u}, !.to = u, !.pc = "upsert"]]
    BY <1>1, <1>4 DEF Summarise, TypeOK, Handler
  <2>. QED  BY <1>1, <1>2, <1>4, <2>1 DEF TypeOK
<1>. QED  BY <1>3, <1>4

LEMMA EmitType ==
    ASSUME TypeOK, NEW us, NEW kind \in Kinds, Emit(us, kind)
    PROVE  stream' \in [Users -> Seq(Kinds)]
BY DEF TypeOK, Emit

\* A step of handler h that writes no table keeps the shape if its own record is right.
LEMMA QuietShape ==
    ASSUME Shape, NEW h \in Handlers, UNCHANGED <<tables, shown>>,
           stream' \in [Users -> Seq(Kinds)],
           requests' \in Nat, crashes' \in Nat, overlap' \in BOOLEAN, purged' \in BOOLEAN,
           proc' \in [Handlers -> Handler],
           \A g \in Handlers \ {h} : proc'[g] = proc[g],
           ProcType(h)'
    PROVE  Shape'
<1>1. TypeOK'
  BY DEF Shape, TypeOK, tables
<1>2. \A g \in Handlers : ProcType(g)'
  BY DEF Shape, ProcType
<1>3. Gone'
  BY DEF Shape, Gone, Active, tables
<1>. QED  BY <1>1, <1>2, <1>3 DEF Shape

\* The same for a step that does not admit a request.
LEMMA PlainShape ==
    ASSUME Shape, NEW h \in Handlers, UNCHANGED <<tables, shown, bounds>>,
           stream' \in [Users -> Seq(Kinds)],
           proc' \in [Handlers -> Handler],
           \A g \in Handlers \ {h} : proc'[g] = proc[g],
           ProcType(h)'
    PROVE  Shape'
BY QuietShape DEF Shape, TypeOK, bounds

\* A request is admitted and goes where it has its parameters.
LEMMA StartShape ==
    ASSUME Shape, NEW h \in Handlers, NEW a \in Users, NEW t \in Users,
           NEW l \in PC \ {"idle", "upsert", "append"},
           Admit, Start(h, l, a, t), UNCHANGED <<tables, stream, shown>>
    PROVE  Shape'
<1>1. requests' \in Nat /\ crashes' \in Nat /\ overlap' \in BOOLEAN /\ purged' \in BOOLEAN
  BY DEF Admit, Shape, TypeOK
<1>2. ProcType(h)'
  BY StartRecord DEF Shape, ProcType
<1>. QED  BY <1>1, <1>2, StartRecord, QuietShape DEF Shape, TypeOK

\* A handler that goes on with the parameters it has, or returns.
LEMMA GoShape ==
    ASSUME Shape, NEW h \in Handlers, NEW l \in PC,
           UNCHANGED <<tables, shown, bounds>>, stream' \in [Users -> Seq(Kinds)],
           Return(h) \/ (Go(h, l) /\ l # "append"
                         /\ (l # "upsert" => proc[h].target \in Users)
                         /\ (l \in {"heir", "demote", "promote"} => proc[h].actor \in Users))
    PROVE  Shape'
<1>1. CASE Return(h)
  BY <1>1, ReturnRecord, PlainShape DEF Shape, ProcType
<1>2. CASE Go(h, l) /\ l # "append" /\ (l # "upsert" => proc[h].target \in Users)
           /\ (l \in {"heir", "demote", "promote"} => proc[h].actor \in Users)
  <2>1. ProcType(h)'
    BY <1>2, GoRecord DEF Shape, ProcType
  <2>. QED  BY <1>2, <2>1, GoRecord, PlainShape DEF Shape
<1>. QED  BY <1>1, <1>2

LEMMA AfterRoleIs == \A r : AfterRole(r) \in {"count", "removeTx"}
BY DEF AfterRole

LEMMA RequestShape ==
    ASSUME Shape, NEW h \in Handlers, NEW a \in Users, NEW t \in Users,
           AddMembers(h, a, t) \/ RemoveMember(h, a, t) \/ Transfer(h, a, t) \/ Leave(h, a)
    PROVE  Shape'
<1>1. CASE AddMembers(h, a, t)
  BY <1>1, StartShape DEF AddMembers, PC
<1>2. CASE RemoveMember(h, a, t)
  BY <1>2, StartShape DEF RemoveMember, PC
<1>3. CASE Transfer(h, a, t)
  BY <1>3, StartShape DEF Transfer, PC
<1>4. CASE Leave(h, a)
  <2>1. PICK l \in {"count", "removeTx"} : Start(h, l, a, a)
    BY <1>4, AfterRoleIs DEF Leave
  <2>. QED  BY <1>4, <2>1, StartShape DEF Leave, PC
<1>. QED  BY <1>1, <1>2, <1>3, <1>4

LEMMA GroupRoles ==
    ASSUME NEW a \in Users, NEW S \in SUBSET Users
    PROVE  /\ Group(a, S) \in [Users -> Roles]
           /\ \A u \in Users : /\ Group(a, S)[u] = "owner" <=> u = a
                               /\ Group(a, S)[u] # "none" <=> u \in S \cup {a}
BY DEF Group, Roles

LEMMA CreateRecord ==
    ASSUME TypeOK, NEW h \in Handlers, NEW us \in SUBSET Users,
           proc' = [proc EXCEPT ![h] = [Idle EXCEPT !.pc = "upsert", !.todo = us]]
    PROVE  /\ proc' \in [Handlers -> Handler]
           /\ \A g \in Handlers \ {h} : proc'[g] = proc[g]
           /\ proc'[h].pc = "upsert" /\ proc'[h].todo = us
<1>1. /\ [Idle EXCEPT !.pc = "upsert", !.todo = us] \in Handler
      /\ [Idle EXCEPT !.pc = "upsert", !.todo = us].pc = "upsert"
      /\ [Idle EXCEPT !.pc = "upsert", !.todo = us].todo = us
  BY DEF Idle, Handler, PC
<1>. QED  BY <1>1 DEF TypeOK

LEMMA CreateShape ==
    ASSUME Shape, NEW h \in Handlers, NEW a \in Users, NEW others \in SUBSET Users,
           Create(h, a, others)
    PROVE  Shape'
<1>1. /\ proc' \in [Handlers -> Handler]
      /\ \A g \in Handlers \ {h} : proc'[g] = proc[g]
      /\ proc'[h].pc = "upsert"
  <2>1. others \cup {a} \in SUBSET Users
    OBVIOUS
  <2>. QED  BY <2>1, CreateRecord DEF Create, Shape
<1>2. TypeOK'
  BY <1>1, GroupRoles DEF Create, Admit, Shape, TypeOK
<1>3. \A g \in Handlers : ProcType(g)'
  BY <1>1 DEF Shape, ProcType
<1>. QED  BY <1>2, <1>3 DEF Shape, Gone, Create

\* Steps that write member rows, none for a group that is not active.
LEMMA RowsShape ==
    ASSUME Shape, NEW h \in Handlers, UNCHANGED <<status, stream, shown, bounds>>,
           role' \in [Users -> Roles],
           status # "active" => \A u \in Users : role[u] = "none" => role'[u] = "none",
           proc' \in [Handlers -> Handler],
           \A g \in Handlers \ {h} : proc'[g] = proc[g],
           ProcType(h)'
    PROVE  Shape'
<1>1. TypeOK'
  BY DEF Shape, TypeOK, bounds
<1>2. \A g \in Handlers : ProcType(g)'
  BY DEF Shape, ProcType
<1>3. Gone'
  BY DEF Shape, Gone, Active
<1>. QED  BY <1>1, <1>2, <1>3 DEF Shape

LEMMA SetRoleType ==
    ASSUME TypeOK, NEW u \in Users, NEW r \in Roles, SetRole(u, r)
    PROVE  /\ role' \in [Users -> Roles]
           /\ \A v \in Users : role[v] = "none" => role'[v] = "none"
BY DEF TypeOK, SetRole

LEMMA TransferShape ==
    ASSUME Shape, NEW h \in Handlers, CheckHeir(h) \/ Demote(h) \/ Promote(h)
    PROVE  Shape'
<1>0. /\ proc[h].target \in Users /\ proc[h].actor \in Users
  BY DEF CheckHeir, Demote, Promote, At, Shape, ProcType, PC
<1>1. CASE CheckHeir(h)
  <2>1. Return(h) \/ Go(h, "demote")
    BY <1>1 DEF CheckHeir
  <2>. QED  BY <1>0, <1>1, <2>1, GoShape DEF CheckHeir, Shape, TypeOK, PC
<1>2. CASE Demote(h)
  <2>1. /\ role' \in [Users -> Roles]
        /\ \A v \in Users : role[v] = "none" => role'[v] = "none"
    BY <1>0, <1>2, SetRoleType DEF Demote, Shape, Roles
  <2>2. /\ proc' \in [Handlers -> Handler]
        /\ \A g \in Handlers \ {h} : proc'[g] = proc[g]
        /\ ProcType(h)'
    BY <1>0, <1>2, GoRecord DEF Demote, Shape, ProcType, PC
  <2>. QED  BY <1>2, <2>1, <2>2, RowsShape DEF Demote
<1>3. CASE Promote(h)
  <2>1. /\ role' \in [Users -> Roles]
        /\ \A v \in Users : role[v] = "none" => role'[v] = "none"
    BY <1>0, <1>3, SetRoleType DEF Promote, Shape, Roles
  <2>2. /\ proc' \in [Handlers -> Handler]
        /\ \A g \in Handlers \ {h} : proc'[g] = proc[g]
        /\ ProcType(h)'
    BY <1>3, ReturnRecord DEF Promote, Shape, ProcType
  <2>. QED  BY <1>3, <2>1, <2>2, RowsShape DEF Promote
<1>. QED  BY <1>1, <1>2, <1>3

LEMMA JoinShape ==
    ASSUME Shape, NEW h \in Handlers, AddTx(h) \/ JoinedRecipients(h) \/ EmitJoined(h)
    PROVE  Shape'
<1>0. proc[h].target \in Users
  BY DEF AddTx, JoinedRecipients, EmitJoined, At, Shape, ProcType, PC
<1>1. CASE AddTx(h)
  <2>1. CASE status = "active"
    <3>1. role' \in [Users -> Roles]
      BY <1>0, <1>1, <2>1 DEF AddTx, Shape, TypeOK, Roles
    <3>2. /\ proc' \in [Handlers -> Handler]
          /\ \A g \in Handlers \ {h} : proc'[g] = proc[g]
          /\ ProcType(h)'
      BY <1>0, <1>1, <2>1, GoRecord DEF AddTx, Shape, ProcType, PC
    <3>. QED  BY <1>1, <2>1, <3>1, <3>2, RowsShape DEF AddTx
  <2>2. CASE status # "active"
    BY <1>1, <2>2, GoShape DEF AddTx, Shape, TypeOK, tables, PC
  <2>. QED  BY <2>1, <2>2
<1>2. CASE JoinedRecipients(h)
  <2>1. Active \in SUBSET Users /\ "joined" \in PC
    BY DEF Active, PC
  <2>2. /\ proc' \in [Handlers -> Handler]
        /\ \A g \in Handlers \ {h} : proc'[g] = proc[g]
        /\ ProcType(h)'
    BY <1>0, <1>2, <2>1, RecipientsRecord DEF JoinedRecipients, Shape, ProcType
  <2>. QED  BY <1>2, <2>2, PlainShape DEF JoinedRecipients, Shape, TypeOK
<1>3. CASE EmitJoined(h)
  <2>1. stream' \in [Users -> Seq(Kinds)]
    BY <1>3, EmitType DEF EmitJoined, Shape, Kinds
  <2>. QED  BY <1>3, <2>1, GoShape DEF EmitJoined, PC
<1>. QED  BY <1>1, <1>2, <1>3

LEMMA LeaveShape ==
    ASSUME Shape, NEW h \in Handlers,
           \/ CheckTarget(h) \/ CountMembers(h) \/ RemoveTx(h)
           \/ LeftRecipients(h) \/ EmitLeft(h) \/ EmitRemoved(h)
    PROVE  Shape'
<1>0. proc[h].target \in Users
  BY DEF CheckTarget, CountMembers, RemoveTx, LeftRecipients, EmitLeft, EmitRemoved, At, Shape,
         ProcType, PC
<1>1. CASE CheckTarget(h)
  <2>1. PICK l \in {"count", "removeTx"} : Return(h) \/ Go(h, l)
    BY <1>1, AfterRoleIs DEF CheckTarget
  <2>. QED  BY <1>0, <1>1, <2>1, GoShape DEF CheckTarget, Shape, TypeOK, PC
<1>2. CASE CountMembers(h)
  <2>1. PICK l \in {"dissolve", "removeTx"} : Return(h) \/ Go(h, l)
    BY <1>2 DEF CountMembers
  <2>. QED  BY <1>0, <1>2, <2>1, GoShape DEF CountMembers, Shape, TypeOK, PC
<1>3. CASE RemoveTx(h)
  <2>1. role' \in [Users -> Roles] /\ \A u \in Users : role[u] = "none" => role'[u] = "none"
    BY <1>0, <1>3 DEF RemoveTx, Shape, TypeOK, Roles
  <2>2. /\ proc' \in [Handlers -> Handler]
        /\ \A g \in Handlers \ {h} : proc'[g] = proc[g]
        /\ ProcType(h)'
    BY <1>0, <1>3, GoRecord DEF RemoveTx, Shape, ProcType, PC
  <2>. QED  BY <1>3, <2>1, <2>2, RowsShape DEF RemoveTx
<1>4. CASE LeftRecipients(h)
  <2>1. Active \in SUBSET Users /\ "left" \in PC
    BY DEF Active, PC
  <2>2. /\ proc' \in [Handlers -> Handler]
        /\ \A g \in Handlers \ {h} : proc'[g] = proc[g]
        /\ ProcType(h)'
    BY <1>0, <1>4, <2>1, RecipientsRecord DEF LeftRecipients, Shape, ProcType
  <2>. QED  BY <1>4, <2>2, PlainShape DEF LeftRecipients, Shape, TypeOK
<1>5. CASE EmitLeft(h)
  <2>1. stream' \in [Users -> Seq(Kinds)]
    BY <1>5, EmitType DEF EmitLeft, Shape, Kinds
  <2>. QED  BY <1>0, <1>5, <2>1, GoShape DEF EmitLeft, PC
<1>6. CASE EmitRemoved(h)
  <2>1. stream' \in [Users -> Seq(Kinds)]
    BY <1>6, EmitType DEF EmitRemoved, Shape, Kinds
  <2>. QED  BY <1>6, <2>1, GoShape DEF EmitRemoved, PC
<1>. QED  BY <1>1, <1>2, <1>3, <1>4, <1>5, <1>6

LEMMA DissolveShape ==
    ASSUME Shape, NEW h \in Handlers, Dissolve(h)
    PROVE  Shape'
<1>1. /\ proc' \in [Handlers -> Handler]
      /\ \A g \in Handlers \ {h} : proc'[g] = proc[g]
      /\ ProcType(h)'
  BY GoRecord DEF Dissolve, At, Shape, ProcType, PC
<1>2. role' \in [Users -> Roles] /\ \A u \in Users : role'[u] = "none"
  BY DEF Dissolve, Nobody, Roles
<1>3. stream' \in [Users -> Seq(Kinds)]
  BY EmptySeq DEF Dissolve
<1>4. TypeOK'
  BY <1>1, <1>2, <1>3 DEF Dissolve, Shape, TypeOK
<1>5. \A g \in Handlers : ProcType(g)'
  BY <1>1 DEF Shape, ProcType
<1>. QED  BY <1>2, <1>4, <1>5 DEF Shape, Gone, Active

LEMMA UpsertShape ==
    ASSUME Shape, NEW h \in Handlers,
           (\E u \in Users : Summarise(h, u)) \/ AppendUpdated(h) \/ FinishUpsert(h)
    PROVE  Shape'
<1>1. ASSUME NEW u \in Users, Summarise(h, u) PROVE Shape'
  <2>1. ProcType(h)'
    BY <1>1, SummariseRecord DEF Shape, ProcType
  <2>. QED  BY <1>1, <2>1, SummariseRecord, PlainShape DEF Summarise, Shape, TypeOK
<1>2. CASE AppendUpdated(h)
  <2>1. stream' \in [Users -> Seq(Kinds)]
    BY <1>2, EmitType DEF AppendUpdated, Shape, Kinds
  <2>. QED  BY <1>2, <2>1, GoShape DEF AppendUpdated, PC
<1>3. CASE FinishUpsert(h)
  BY <1>3, GoShape DEF FinishUpsert, Shape, TypeOK, PC
<1>. QED  BY <1>1, <1>2, <1>3
LEMMA InitShape == Init => Shape
<1>. SUFFICES ASSUME Init PROVE Shape
  OBVIOUS
<1>1. role \in [Users -> Roles] /\ Gone
  <2>1. CASE status = "absent" /\ role = Nobody
    BY <2>1 DEF Nobody, Roles, Gone, Active
  <2>2. CASE status = "active" /\ \E a \in Users, S \in SUBSET Users : role = Group(a, S)
    BY <2>2, GroupRoles DEF Gone
  <2>. QED  BY <2>1, <2>2 DEF Init
<1>2. stream \in [Users -> Seq(Kinds)]
  BY EmptySeq DEF Init
<1>3. proc \in [Handlers -> Handler] /\ \A h \in Handlers : ProcType(h)
  BY IdleRecord DEF Init, ProcType
<1>4. TypeOK
  BY <1>1, <1>2, <1>3 DEF Init, TypeOK, Active
<1>. QED  BY <1>1, <1>3, <1>4 DEF Shape

\* A client replays, or the process crashes.
LEMMA OutsideShape ==
    ASSUME Shape, (\E u \in Users : Replay(u)) \/ Crash \/ UNCHANGED vars
    PROVE  Shape'
<1>1. ASSUME NEW u \in Users, Replay(u) PROVE Shape'
  <2>1. stream' \in [Users -> Seq(Kinds)]
    BY <1>1, HeadTailProperties DEF Replay, Shape, TypeOK
  <2>. QED  BY <1>1, <2>1 DEF Replay, Shape, TypeOK, ProcType, Gone, Active, tables, bounds
<1>2. CASE Crash
  BY <1>2, IdleRecord DEF Crash, Shape, TypeOK, ProcType, Gone, Active, tables
<1>3. CASE UNCHANGED vars
  BY <1>3 DEF vars, Shape, TypeOK, ProcType, Gone, Active
<1>. QED  BY <1>1, <1>2, <1>3

LEMMA ProceedShape ==
    ASSUME Shape, NEW h \in Handlers, Proceed(h)
    PROVE  Shape'
BY JoinShape, LeaveShape, DissolveShape, UpsertShape, TransferShape DEF Proceed

LEMMA NextShape == Shape /\ [Next]_vars => Shape'
<1>. SUFFICES ASSUME Shape, [Next]_vars PROVE Shape'
  OBVIOUS
<1>1. ASSUME NEW h \in Handlers, Request(h) PROVE Shape'
  BY <1>1, CreateShape, RequestShape DEF Request
<1>. QED  BY <1>1, ProceedShape, OutsideShape DEF Next

-----------------------------------------------------------------------------
(***************************************************************************)
(* One request at a time: the handler at work.                             *)
(***************************************************************************)
OneOwner == \A u, v \in Owners : u = v

\* What still holds of what handler h has read, at the step it is about to take.
Stage(h) ==
    LET a == proc[h].actor
        t == proc[h].target IN
    /\ proc[h].pc = "addTx" => Active # {}
    /\ proc[h].pc = "joinedTo" => role[t] # "none"
    /\ proc[h].pc = "count" => role[t] = "owner"
    /\ proc[h].pc = "dissolve" => Active = {t}
    /\ proc[h].pc = "removeTx" => role[t] # "owner"
    /\ proc[h].pc \in {"leftTo", "left", "removed"} => role[t] = "none"
    /\ proc[h].pc = "append" => role[proc[h].to] # "none"
    /\ proc[h].pc \in {"heir", "demote"} => role[a] = "owner" /\ a # t
    /\ proc[h].pc = "demote" => role[t] # "none"
    /\ proc[h].pc = "promote" => Owners = {} /\ role[t] # "none"

\* Between the two updates of a transfer, and only then, members have no owner.
KeptBy(h) == Active = {} \/ Owners # {} \/ At(h, "promote")

\* Whether a client lists the group once it has replayed the records s, when it lists it
\* now and its user is active.
Settles(s, listed, active) ==
    IF s = <<>> THEN listed
    ELSE \/ s[Len(s)] = "conversation.updated"
         \/ s[Len(s)] # "conversation.removed" /\ active

\* What user u's client will show, if nothing more comes, is what it should.
Foretold(u) == Settles(stream[u], u \in shown, u \in Active) <=> u \in Active

\* Handler h will yet append a record for user u that puts this right.
Owes(h, u) ==
    \/ proc[h].pc \in {"joinedTo", "leftTo", "left", "removed"} /\ u = proc[h].target
    \/ proc[h].pc = "joined" /\ u \in proc[h].todo
    \/ proc[h].pc \in {"upsert", "append"} /\ u \in proc[h].todo \cap Active
    \/ proc[h].pc = "append" /\ u = proc[h].to

ToldBy(h) == \A u \in Users : Foretold(u) \/ Owes(h, u)

Tidy(h) ==
    /\ OneOwner
    /\ Stage(h)
    /\ crashes = 0 => KeptBy(h)
    /\ crashes = 0 /\ ~purged => ToldBy(h)

\* No handler is at work.
AllClear ==
    /\ OneOwner
    /\ crashes = 0 => Active = {} \/ Owners # {}
    /\ crashes = 0 /\ ~purged => \A u \in Users : Foretold(u)

LEMMA SameRoles ==
    ASSUME role' = role
    PROVE  /\ Active' = Active /\ Owners' = Owners
           /\ OneOwner' <=> OneOwner
BY DEF Active, Owners, OneOwner

LEMMA SameLists ==
    ASSUME UNCHANGED <<stream, shown>>, NEW u \in Users, u \in Active' <=> u \in Active
    PROVE  Foretold(u)' <=> Foretold(u)
BY DEF Foretold

\* A new record is the last word for those it goes to.
LEMMA EmitTells ==
    ASSUME TypeOK, NEW us, NEW kind \in Kinds, Emit(us, kind), UNCHANGED <<role, shown>>,
           NEW u \in Users
    PROVE  /\ u \notin us => (Foretold(u)' <=> Foretold(u))
           /\ u \in us /\ kind = "conversation.updated" => (Foretold(u)' <=> u \in Active)
           /\ u \in us /\ kind = "conversation.removed" => (Foretold(u)' <=> u \notin Active)
           /\ u \in us /\ kind \in {"member.joined", "member.left"} => Foretold(u)'
<1>1. Active' = Active
  BY SameRoles
<1>2. CASE u \notin us
  <2>1. stream'[u] = stream[u]
    BY <1>2 DEF Emit
  <2>. QED  BY <1>1, <1>2, <2>1 DEF Foretold
<1>3. CASE u \in us
  <2>1. stream'[u] = Append(stream[u], kind) /\ stream[u] \in Seq(Kinds)
    BY <1>3 DEF Emit, TypeOK
  <2>2. /\ stream'[u] # <<>> /\ stream'[u][Len(stream'[u])] = kind
    BY <2>1, AppendProperties
  <2>3. Settles(stream'[u], u \in shown', u \in Active') <=>
          (kind = "conversation.updated" \/ (kind # "conversation.removed" /\ u \in Active))
    BY <1>1, <2>2 DEF Settles
  <2>. QED  BY <1>1, <1>3, <2>3 DEF Foretold
<1>. QED  BY <1>2, <1>3

\* Replaying changes nothing of what a client will show in the end.
LEMMA ReplayTells ==
    ASSUME TypeOK, NEW v \in Users, Replay(v), NEW u \in Users
    PROVE  Foretold(u)' <=> Foretold(u)
<1>1. Active' = Active /\ stream[v] \in Seq(Kinds) /\ stream[v] # <<>>
  BY SameRoles DEF Replay, tables, TypeOK
<1>2. CASE u # v
  <2>1. stream'[u] = stream[u] /\ (u \in shown' <=> u \in shown)
    BY <1>2 DEF Replay, TypeOK
  <2>. QED  BY <1>1, <2>1 DEF Foretold
<1>3. CASE u = v
  <2>0. stream'[v] = Tail(stream[v])
    BY DEF Replay, TypeOK
  <2>1. /\ Head(stream[v]) \in Kinds /\ Head(stream[v]) = stream[v][1]
        /\ Len(stream[v]) \in Nat \ {0}
        /\ Len(Tail(stream[v])) = Len(stream[v]) - 1
        /\ \A i \in 1..Len(Tail(stream[v])) : Tail(stream[v])[i] = stream[v][i+1]
        /\ Tail(stream[v]) = <<>> <=> Len(stream[v]) = 1
    <3>1. /\ Head(stream[v]) \in Kinds /\ Tail(stream[v]) \in Seq(Kinds)
          /\ Len(Tail(stream[v])) = Len(stream[v]) - 1
          /\ \A i \in 1..Len(Tail(stream[v])) : Tail(stream[v])[i] = stream[v][i+1]
      BY <1>1, HeadTailProperties
    <3>2. Len(stream[v]) \in Nat \ {0}
      BY <1>1, EmptySeq
    <3>3. /\ Tail(stream[v]) # <<>> => Len(Tail(stream[v])) \in Nat \ {0}
          /\ Tail(stream[v]) = <<>> => Len(Tail(stream[v])) = 0
      BY <3>1, EmptySeq
    <3>4. Head(stream[v]) = stream[v][1]
      OBVIOUS
    <3>. QED  BY <3>1, <3>2, <3>3, <3>4
  <2>2. v \in shown' <=> \/ Head(stream[v]) = "conversation.updated"
                         \/ Head(stream[v]) # "conversation.removed" /\ v \in Active
    BY <2>1 DEF Replay, Listed, Kinds
  <2>3. CASE Len(stream[v]) = 1
    <3>1. stream'[v] = <<>>
      BY <2>0, <2>1, <2>3
    <3>. QED  BY <1>1, <1>3, <2>1, <2>2, <2>3, <3>1 DEF Foretold, Settles
  <2>4. CASE Len(stream[v]) > 1
    <3>1. /\ stream'[v] # <<>>
          /\ stream'[v][Len(stream'[v])] = stream[v][Len(stream[v])]
      <4>1. Len(Tail(stream[v])) \in 1..Len(Tail(stream[v]))
        BY <2>1, <2>4
      <4>2. Tail(stream[v])[Len(Tail(stream[v]))] = stream[v][Len(stream[v])]
        BY <2>1, <4>1
      <4>3. Tail(stream[v]) # <<>>
        BY <2>1, <2>4
      <4>. QED  BY <2>0, <4>2, <4>3
    <3>. QED  BY <1>1, <1>3, <3>1 DEF Foretold, Settles
  <2>. QED  BY <2>1, <2>3, <2>4
<1>. QED  BY <1>2, <1>3

\* A step of handler h that writes no table and no record: it need only have been right to
\* go where it goes, owing what it owed.
LEMMA QuietTidy ==
    ASSUME NEW h \in Handlers, Tidy(h), UNCHANGED <<tables, stream, shown, bounds>>,
           Stage(h)', At(h, "promote") => At(h, "promote")',
           \A u \in Users : Owes(h, u) => Owes(h, u)' \/ Foretold(u)
    PROVE  Tidy(h)'
<1>1. Active' = Active /\ Owners' = Owners /\ OneOwner'
  BY SameRoles DEF tables, Tidy
<1>2. \A u \in Users : Foretold(u)' <=> Foretold(u)
  BY <1>1, SameLists
<1>. QED  BY <1>1, <1>2 DEF Tidy, KeptBy, ToldBy, bounds

(***************************************************************************)
(* Admission.                                                              *)
(***************************************************************************)
LEMMA StartTidy ==
    ASSUME Shape, NEW h \in Handlers, NEW a \in Users, NEW t \in Users, AllClear,
           AddMembers(h, a, t) \/ RemoveMember(h, a, t) \/ Transfer(h, a, t) \/ Leave(h, a)
    PROVE  Tidy(h)'
<1>1. UNCHANGED <<tables, stream, shown>> /\ crashes' = crashes /\ purged' = purged
  BY DEF AddMembers, RemoveMember, Transfer, Leave, Admit
<1>2. Active' = Active /\ Owners' = Owners /\ OneOwner' /\ role' = role
  BY <1>1, SameRoles DEF tables, AllClear
<1>3. \A u \in Users : Foretold(u)' <=> Foretold(u)
  BY <1>1, <1>2, SameLists
<1>4. Stage(h)'
  <2>1. CASE AddMembers(h, a, t)
    <3>1. proc'[h].pc = "addTx"
      BY <2>1, StartRecord DEF AddMembers, Shape, PC
    <3>2. a \in Active
      BY <2>1 DEF AddMembers, Manages, Active
    <3>. QED  BY <1>2, <3>1, <3>2 DEF Stage
  <2>2. CASE RemoveMember(h, a, t)
    <3>1. proc'[h].pc = "target"
      BY <2>2, StartRecord DEF RemoveMember, Shape, PC
    <3>. QED  BY <3>1 DEF Stage
  <2>3. CASE Transfer(h, a, t)
    <3>1. proc'[h].pc = "heir" /\ proc'[h].actor = a /\ proc'[h].target = t
      BY <2>3, StartRecord DEF Transfer, Shape, PC
    <3>. QED  BY <1>2, <2>3, <3>1 DEF Transfer, Stage
  <2>4. CASE Leave(h, a)
    <3>1. CASE role[a] = "owner"
      <4>1. proc'[h].pc = "count" /\ proc'[h].target = a
        BY <2>4, <3>1, StartRecord DEF Leave, AfterRole, Shape, PC
      <4>. QED  BY <1>2, <3>1, <4>1 DEF Stage
    <3>2. CASE role[a] # "owner"
      <4>1. proc'[h].pc = "removeTx" /\ proc'[h].target = a
        BY <2>4, <3>2, StartRecord DEF Leave, AfterRole, Shape, PC
      <4>. QED  BY <1>2, <3>2, <4>1 DEF Stage
    <3>. QED  BY <3>1, <3>2
  <2>. QED  BY <2>1, <2>2, <2>3, <2>4
<1>. QED  BY <1>1, <1>2, <1>3, <1>4 DEF AllClear, Tidy, KeptBy, ToldBy

\* The new members are those the handler is going to tell.
LEMMA CreateTidy ==
    ASSUME Shape, NEW h \in Handlers, NEW a \in Users, NEW others \in SUBSET Users, AllClear,
           Create(h, a, others)
    PROVE  Tidy(h)'
<1>1. /\ role' = Group(a, others) /\ UNCHANGED <<stream, shown>>
      /\ crashes' = crashes /\ purged' = purged
  BY DEF Create, Admit
<1>2. Active' = others \cup {a} /\ Owners' = {a}
  BY <1>1, GroupRoles DEF Active, Owners
<1>3. Active = {}
  BY DEF Create, Shape, Gone
<1>4. proc'[h].pc = "upsert" /\ proc'[h].todo = others \cup {a}
  <2>1. others \cup {a} \in SUBSET Users
    OBVIOUS
  <2>. QED  BY <2>1, CreateRecord DEF Create, Shape
<1>5. \A u \in Users : u \in Active' => Owes(h, u)'
  BY <1>2, <1>4 DEF Owes
<1>6. \A u \in Users : u \notin Active' => (Foretold(u)' <=> Foretold(u))
  BY <1>1, <1>3, SameLists
<1>7. Stage(h)'
  BY <1>4 DEF Stage
<1>8. OneOwner'
  BY <1>2 DEF OneOwner
<1>. QED  BY <1>1, <1>2, <1>5, <1>6, <1>7, <1>8 DEF AllClear, Tidy, KeptBy, ToldBy

(***************************************************************************)
(* Invitation.                                                             *)
(***************************************************************************)
LEMMA AddTidy ==
    ASSUME Shape, NEW h \in Handlers, Tidy(h), AddTx(h)
    PROVE  Tidy(h)'
<1>. PICK t \in Users : t = proc[h].target
  BY DEF AddTx, At, Shape, ProcType, PC
<1>0. /\ proc[h].pc = "addTx" /\ role \in [Users -> Roles]
      /\ \A u \in Users : ~Owes(h, u)
  BY DEF AddTx, At, Shape, TypeOK, Owes
<1>1. CASE status # "active"
  <2>1. Return(h) /\ UNCHANGED <<tables, stream, shown, bounds>>
    BY <1>1 DEF AddTx, tables
  <2>2. proc'[h].pc = "idle"
    BY <2>1, ReturnRecord DEF Shape
  <2>3. Stage(h)'
    BY <2>2 DEF Stage
  <2>. QED  BY <1>0, <2>1, <2>3, QuietTidy DEF At
<1>2. CASE status = "active"
  <2>1. /\ proc'[h].pc = "joinedTo" /\ proc'[h].target = t
    BY <1>2, GoRecord DEF AddTx, Shape, PC
  <2>2. /\ \A u \in Users : role'[u] = IF u = t /\ role[t] = "none" THEN "member" ELSE role[u]
        /\ UNCHANGED <<stream, shown, bounds>>
    BY <1>0, <1>2 DEF AddTx
  <2>3. Owners' = Owners /\ Active' = Active \cup {t}
    BY <1>0, <2>2 DEF Owners, Active
  <2>4. Active # {} /\ OneOwner /\ OneOwner'
    BY <1>0, <2>3 DEF Tidy, Stage, OneOwner
  <2>5. Stage(h)'
    BY <1>0, <2>1, <2>2 DEF Stage
  <2>6. \A u \in Users : u # t => (Foretold(u)' <=> Foretold(u))
    BY <2>2, <2>3, SameLists
  <2>7. Owes(h, t)'
    BY <2>1 DEF Owes
  <2>8. ToldBy(h) => ToldBy(h)'
    BY <1>0, <2>6, <2>7 DEF ToldBy
  <2>9. KeptBy(h) => KeptBy(h)'
    BY <1>0, <2>3, <2>4 DEF KeptBy, At
  <2>. QED  BY <2>2, <2>4, <2>5, <2>8, <2>9 DEF Tidy, bounds
<1>. QED  BY <1>1, <1>2

LEMMA JoinedTidy ==
    ASSUME Shape, NEW h \in Handlers, Tidy(h), JoinedRecipients(h)
    PROVE  Tidy(h)'
<1>1. /\ proc[h].pc = "joinedTo" /\ proc[h].target \in Users
      /\ UNCHANGED <<tables, stream, shown, bounds>>
  BY DEF JoinedRecipients, At, Shape, ProcType, PC
<1>2. proc'[h].pc = "joined" /\ proc'[h].todo = Active
  <2>1. PICK us \in SUBSET Users : us = Active
    BY DEF Active
  <2>2. /\ "joined" \in PC
        /\ proc' = [proc EXCEPT ![h].pc = "joined", ![h].todo = us]
    BY <2>1 DEF JoinedRecipients, PC
  <2>3. proc'[h].pc = "joined"
    BY <2>2, RecipientsRecord DEF Shape
  <2>4. proc'[h].todo = us
    BY <2>2 DEF Shape, TypeOK, Handler
  <2>. QED  BY <2>1, <2>3, <2>4
<1>3. proc[h].target \in Active
  BY <1>1 DEF Tidy, Stage, Active
<1>4. Stage(h)'
  BY <1>2 DEF Stage
<1>5. \A u \in Users : Owes(h, u) => Owes(h, u)'
  BY <1>1, <1>2, <1>3 DEF Owes
<1>. QED  BY <1>1, <1>4, <1>5, QuietTidy DEF At

LEMMA EmitJoinedTidy ==
    ASSUME Shape, NEW h \in Handlers, Tidy(h), EmitJoined(h)
    PROVE  Tidy(h)'
<1>1. /\ proc[h].pc = "joined" /\ proc'[h].pc = "upsert"
      /\ Emit(proc[h].todo, "member.joined") /\ UNCHANGED <<role, shown, bounds>>
  BY GoRecord DEF EmitJoined, At, Shape, PC, tables
<1>2. Active' = Active /\ Owners' = Owners /\ OneOwner'
  BY <1>1, SameRoles DEF Tidy
<1>3. Stage(h)'
  BY <1>1 DEF Stage
<1>4. ASSUME NEW u \in Users, Foretold(u) \/ Owes(h, u) PROVE Foretold(u)'
  <2>1. u \notin proc[h].todo => Foretold(u)
    BY <1>1, <1>4 DEF Owes
  <2>2. "member.joined" \in Kinds
    BY DEF Kinds
  <2>. QED  BY <1>1, <2>1, <2>2, EmitTells DEF Shape
<1>. QED  BY <1>1, <1>2, <1>3, <1>4 DEF Tidy, KeptBy, ToldBy, bounds, At
(***************************************************************************)
(* Removal and leaving.                                                    *)
(***************************************************************************)
LEMMA CheckTargetTidy ==
    ASSUME Shape, NEW h \in Handlers, Tidy(h), CheckTarget(h)
    PROVE  Tidy(h)'
<1>1. /\ proc[h].pc = "target" /\ UNCHANGED <<tables, stream, shown, bounds>>
  BY DEF CheckTarget, At
<1>2. Stage(h)'
  <2>1. CASE Return(h)
    BY <2>1, ReturnRecord DEF Stage, Shape
  <2>2. CASE role[proc[h].target] = "owner" /\ Go(h, "count")
    <3>1. proc'[h].pc = "count" /\ proc'[h].target = proc[h].target
      BY <2>2, GoRecord DEF Shape, PC
    <3>. QED  BY <1>1, <2>2, <3>1 DEF Stage, tables
  <2>3. CASE role[proc[h].target] # "owner" /\ Go(h, "removeTx")
    <3>1. proc'[h].pc = "removeTx" /\ proc'[h].target = proc[h].target
      BY <2>3, GoRecord DEF Shape, PC
    <3>. QED  BY <1>1, <2>3, <3>1 DEF Stage, tables
  <2>. QED  BY <2>1, <2>2, <2>3 DEF CheckTarget, AfterRole
<1>. QED  BY <1>1, <1>2, QuietTidy DEF At, Owes

\* The owner is counted among the members, so that a count of one says that the owner is
\* alone, and none is impossible (conversation_service.go:249-262).
LEMMA CountTidy ==
    ASSUME Shape, NEW h \in Handlers, Tidy(h), CountMembers(h)
    PROVE  Tidy(h)'
<1>. PICK t \in Users : t = proc[h].target
  BY DEF CountMembers, At, Shape, ProcType, PC
<1>1. /\ proc[h].pc = "count" /\ UNCHANGED <<tables, stream, shown, bounds>>
  BY DEF CountMembers, At
<1>2. t \in Active /\ IsFiniteSet(Active)
  <2>1. IsFiniteSet(Active)
    BY UsersAreFinite, FS_Subset DEF Active
  <2>. QED  BY <1>1, <2>1 DEF Tidy, Stage, Active
<1>3. Cardinality(Active) # 0
  BY <1>2, FS_EmptySet
<1>4. Cardinality(Active) = 1 => Active = {t}
  <2>. SUFFICES ASSUME Cardinality(Active) = 1 PROVE Active = {t}
    OBVIOUS
  <2>1. PICK x : Active = {x}
    BY <1>2, FS_Singleton
  <2>. QED  BY <1>2, <2>1
<1>5. Stage(h)'
  <2>1. CASE Return(h)
    BY <2>1, ReturnRecord DEF Stage, Shape
  <2>2. CASE Cardinality(Active) = 1 /\ Go(h, "dissolve")
    <3>1. proc'[h].pc = "dissolve" /\ proc'[h].target = t
      BY <2>2, GoRecord DEF Shape, PC
    <3>2. Active' = {t}
      BY <1>1, <1>4, <2>2, SameRoles DEF tables
    <3>. QED  BY <3>1, <3>2 DEF Stage
  <2>. QED  BY <1>3, <2>1, <2>2 DEF CountMembers
<1>. QED  BY <1>1, <1>5, QuietTidy DEF At, Owes

LEMMA DissolveTidy ==
    ASSUME Shape, NEW h \in Handlers, Tidy(h), Dissolve(h)
    PROVE  Tidy(h)'
<1>. PICK t \in Users : t = proc[h].target
  BY DEF Dissolve, At, Shape, ProcType, PC
<1>1. /\ proc[h].pc = "dissolve" /\ Active = {t} /\ \A u \in Users : ~Owes(h, u)
  BY DEF Dissolve, At, Tidy, Stage, Owes
<1>2. /\ proc'[h].pc = "removed" /\ proc'[h].target = t
  BY GoRecord DEF Dissolve, Shape, PC
<1>3. /\ role' = Nobody /\ Active' = {} /\ Owners' = {}
  BY DEF Dissolve, Nobody, Active, Owners
<1>4. ~purged' => ~purged /\ \A u \in Users : stream[u] = <<>>
  BY DEF Dissolve
<1>5. shown' = shown /\ crashes' = crashes /\ \A u \in Users : stream'[u] = <<>>
  BY DEF Dissolve
<1>6. Stage(h)'
  BY <1>2, <1>3 DEF Stage, Nobody
<1>7. ~purged' /\ ToldBy(h) => ToldBy(h)'
  <2>. SUFFICES ASSUME ~purged', ToldBy(h), NEW u \in Users PROVE Foretold(u)' \/ Owes(h, u)'
    BY DEF ToldBy
  <2>1. u \in shown <=> u = t
    BY <1>1, <1>4 DEF ToldBy, Foretold, Settles
  <2>2. CASE u = t
    BY <1>2, <2>2 DEF Owes
  <2>3. CASE u # t
    BY <1>3, <1>5, <2>1, <2>3 DEF Foretold, Settles
  <2>. QED  BY <2>2, <2>3
<1>. QED  BY <1>3, <1>4, <1>5, <1>6, <1>7 DEF Tidy, OneOwner, KeptBy

LEMMA RemoveTidy ==
    ASSUME Shape, NEW h \in Handlers, Tidy(h), RemoveTx(h)
    PROVE  Tidy(h)'
<1>. PICK t \in Users : t = proc[h].target
  BY DEF RemoveTx, At, Shape, ProcType, PC
<1>1. /\ proc[h].pc = "removeTx" /\ role[t] # "owner" /\ role \in [Users -> Roles]
      /\ \A u \in Users : ~Owes(h, u)
  BY DEF RemoveTx, At, Tidy, Stage, Owes, Shape, TypeOK
<1>2. /\ proc'[h].pc = "leftTo" /\ proc'[h].target = t
      /\ UNCHANGED <<stream, shown, bounds>>
  BY GoRecord DEF RemoveTx, Shape, PC
<1>3. \A u \in Users : role'[u] = IF u = t THEN "none" ELSE role[u]
  BY <1>1 DEF RemoveTx
<1>4. Owners' = Owners /\ Active' = Active \ {t}
  BY <1>1, <1>3 DEF Owners, Active
<1>5. Stage(h)'
  BY <1>2, <1>3 DEF Stage
<1>6. \A u \in Users : u # t => (Foretold(u)' <=> Foretold(u))
  BY <1>2, <1>4, SameLists
<1>7. Owes(h, t)'
  BY <1>2 DEF Owes
<1>8. ToldBy(h) => ToldBy(h)'
  BY <1>1, <1>6, <1>7 DEF ToldBy
<1>9. KeptBy(h) => KeptBy(h)'
  BY <1>1, <1>4 DEF KeptBy, At
<1>. QED  BY <1>2, <1>4, <1>5, <1>8, <1>9 DEF Tidy, OneOwner, bounds

LEMMA LeftTidy ==
    ASSUME Shape, NEW h \in Handlers, Tidy(h), LeftRecipients(h)
    PROVE  Tidy(h)'
<1>1. /\ proc[h].pc = "leftTo" /\ UNCHANGED <<tables, stream, shown, bounds>>
  BY DEF LeftRecipients, At
<1>2. proc'[h].pc = "left" /\ proc'[h].target = proc[h].target
  <2>1. PICK us \in SUBSET Users : us = Active
    BY DEF Active
  <2>2. /\ "left" \in PC
        /\ proc' = [proc EXCEPT ![h].pc = "left", ![h].todo = us]
    BY <2>1 DEF LeftRecipients, PC
  <2>. QED  BY <2>2, RecipientsRecord DEF Shape
<1>3. Stage(h)'
  BY <1>1, <1>2 DEF Tidy, Stage, tables
<1>4. \A u \in Users : Owes(h, u) => Owes(h, u)'
  BY <1>1, <1>2 DEF Owes
<1>. QED  BY <1>1, <1>3, <1>4, QuietTidy DEF At

LEMMA EmitLeftTidy ==
    ASSUME Shape, NEW h \in Handlers, Tidy(h), EmitLeft(h)
    PROVE  Tidy(h)'
<1>1. /\ proc[h].pc = "left" /\ proc'[h].pc = "removed" /\ proc'[h].target = proc[h].target
      /\ Emit(proc[h].todo \cup {proc[h].target}, "member.left")
      /\ UNCHANGED <<role, shown, bounds>>
  BY GoRecord DEF EmitLeft, At, Shape, PC, tables
<1>2. Active' = Active /\ Owners' = Owners /\ OneOwner'
  BY <1>1, SameRoles DEF Tidy
<1>3. Stage(h)'
  BY <1>1 DEF Tidy, Stage
<1>4. ASSUME NEW u \in Users, Foretold(u) \/ Owes(h, u) PROVE Foretold(u)'
  <2>1. u \notin proc[h].todo \cup {proc[h].target} => Foretold(u)
    BY <1>1, <1>4 DEF Owes
  <2>2. "member.left" \in Kinds
    BY DEF Kinds
  <2>. QED  BY <1>1, <2>1, <2>2, EmitTells DEF Shape
<1>. QED  BY <1>1, <1>2, <1>3, <1>4 DEF Tidy, KeptBy, ToldBy, bounds, At

LEMMA EmitRemovedTidy ==
    ASSUME Shape, NEW h \in Handlers, Tidy(h), EmitRemoved(h)
    PROVE  Tidy(h)'
<1>. PICK t \in Users : t = proc[h].target
  BY DEF EmitRemoved, At, Shape, ProcType, PC
<1>1. /\ proc[h].pc = "removed" /\ proc'[h].pc = "upsert" /\ t \notin Active
      /\ Emit({t}, "conversation.removed") /\ UNCHANGED <<role, shown, bounds>>
  BY GoRecord DEF EmitRemoved, At, Shape, PC, tables, Tidy, Stage, Active
<1>2. Active' = Active /\ Owners' = Owners /\ OneOwner'
  BY <1>1, SameRoles DEF Tidy
<1>3. Stage(h)'
  BY <1>1 DEF Stage
<1>4. ASSUME NEW u \in Users, Foretold(u) \/ Owes(h, u) PROVE Foretold(u)'
  <2>1. u # t => Foretold(u)
    BY <1>1, <1>4 DEF Owes
  <2>2. "conversation.removed" \in Kinds
    BY DEF Kinds
  <2>. QED  BY <1>1, <2>1, <2>2, EmitTells DEF Shape
<1>. QED  BY <1>1, <1>2, <1>3, <1>4 DEF Tidy, KeptBy, ToldBy, bounds, At

(***************************************************************************)
(* emitConversationUpsert.                                                 *)
(***************************************************************************)
LEMMA SummariseTidy ==
    ASSUME Shape, NEW h \in Handlers, Tidy(h), NEW v \in Users, Summarise(h, v)
    PROVE  Tidy(h)'
<1>1. /\ proc[h].pc = "upsert" /\ UNCHANGED <<tables, stream, shown, bounds>>
  BY DEF Summarise, At
<1>2. /\ proc'[h].pc = IF v \in Active THEN "append" ELSE "upsert"
      /\ proc'[h].todo = proc[h].todo \ {v} /\ proc'[h].to = v
  BY SummariseRecord DEF Shape
<1>3. Active' = Active /\ role' = role
  BY <1>1, SameRoles DEF tables
<1>4. Stage(h)'
  BY <1>2, <1>3 DEF Stage, Active
<1>5. \A u \in Users : Owes(h, u) => Owes(h, u)'
  BY <1>1, <1>2, <1>3 DEF Owes
<1>. QED  BY <1>1, <1>4, <1>5, QuietTidy DEF At

LEMMA AppendTidy ==
    ASSUME Shape, NEW h \in Handlers, Tidy(h), AppendUpdated(h)
    PROVE  Tidy(h)'
<1>. PICK v \in Users : v = proc[h].to
  BY DEF AppendUpdated, At, Shape, ProcType
<1>1. /\ proc[h].pc = "append" /\ proc'[h].pc = "upsert" /\ proc'[h].todo = proc[h].todo
      /\ Emit({v}, "conversation.updated") /\ UNCHANGED <<role, shown, bounds>>
      /\ v \in Active
  BY GoRecord DEF AppendUpdated, At, Shape, PC, tables, Tidy, Stage, Active
<1>2. Active' = Active /\ Owners' = Owners /\ OneOwner'
  BY <1>1, SameRoles DEF Tidy
<1>3. Stage(h)'
  BY <1>1 DEF Stage
<1>4. ASSUME NEW u \in Users, Foretold(u) \/ Owes(h, u) PROVE Foretold(u)' \/ Owes(h, u)'
  <2>1. CASE u = v
    <3>1. "conversation.updated" \in Kinds
      BY DEF Kinds
    <3>. QED  BY <1>1, <2>1, <3>1, EmitTells DEF Shape
  <2>2. CASE u # v /\ Foretold(u)
    <3>1. "conversation.updated" \in Kinds
      BY DEF Kinds
    <3>. QED  BY <1>1, <2>2, <3>1, EmitTells DEF Shape
  <2>3. CASE u # v /\ Owes(h, u)
    BY <1>1, <1>2, <2>3 DEF Owes
  <2>. QED  BY <1>4, <2>1, <2>2, <2>3
<1>. QED  BY <1>1, <1>2, <1>3, <1>4 DEF Tidy, KeptBy, ToldBy, bounds, At

LEMMA FinishTidy ==
    ASSUME Shape, NEW h \in Handlers, Tidy(h), FinishUpsert(h)
    PROVE  Tidy(h)'
<1>1. /\ proc[h].pc = "upsert" /\ proc[h].todo = {} /\ proc'[h].pc = "idle"
      /\ UNCHANGED <<tables, stream, shown, bounds>>
  BY ReturnRecord DEF FinishUpsert, At, Shape
<1>2. Stage(h)'
  BY <1>1 DEF Stage
<1>3. \A u \in Users : ~Owes(h, u)
  BY <1>1 DEF Owes
<1>. QED  BY <1>1, <1>2, <1>3, QuietTidy DEF At

(***************************************************************************)
(* Transfer.                                                               *)
(***************************************************************************)
LEMMA CheckHeirTidy ==
    ASSUME Shape, NEW h \in Handlers, Tidy(h), CheckHeir(h)
    PROVE  Tidy(h)'
<1>1. /\ proc[h].pc = "heir" /\ UNCHANGED <<tables, stream, shown, bounds>>
  BY DEF CheckHeir, At
<1>2. Stage(h)'
  <2>1. CASE Return(h)
    BY <2>1, ReturnRecord DEF Stage, Shape
  <2>2. CASE role[proc[h].target] # "none" /\ Go(h, "demote")
    <3>1. /\ proc'[h].pc = "demote" /\ proc'[h].target = proc[h].target
          /\ proc'[h].actor = proc[h].actor
      BY <2>2, GoRecord DEF Shape, PC
    <3>. QED  BY <1>1, <2>2, <3>1 DEF Tidy, Stage, tables
  <2>. QED  BY <2>1, <2>2 DEF CheckHeir
<1>. QED  BY <1>1, <1>2, QuietTidy DEF At, Owes

\* The old owner goes first: for a moment there is none, and there are never two.
LEMMA DemoteTidy ==
    ASSUME Shape, NEW h \in Handlers, Tidy(h), Demote(h)
    PROVE  Tidy(h)'
<1>. PICK a \in Users, t \in Users : a = proc[h].actor /\ t = proc[h].target
  BY DEF Demote, At, Shape, ProcType, PC
<1>1. /\ proc[h].pc = "demote" /\ role[a] = "owner" /\ a # t /\ role[t] # "none"
      /\ OneOwner /\ role \in [Users -> Roles] /\ \A u \in Users : ~Owes(h, u)
  BY DEF Demote, At, Tidy, Stage, Owes, Shape, TypeOK
<1>2. /\ proc'[h].pc = "promote" /\ proc'[h].target = t
      /\ UNCHANGED <<stream, shown, bounds>>
  BY GoRecord DEF Demote, Shape, PC
<1>3. \A u \in Users : role'[u] = IF u = a THEN "admin" ELSE role[u]
  BY <1>1 DEF Demote, SetRole
<1>4. Active' = Active /\ Owners' = {}
  BY <1>1, <1>3 DEF Active, Owners, OneOwner
<1>5. Stage(h)'
  BY <1>1, <1>2, <1>3, <1>4 DEF Stage
<1>6. \A u \in Users : Foretold(u)' <=> Foretold(u)
  BY <1>2, <1>4, SameLists
<1>7. KeptBy(h)' /\ OneOwner'
  BY <1>2, <1>4 DEF KeptBy, At, OneOwner
<1>. QED  BY <1>1, <1>2, <1>5, <1>6, <1>7 DEF Tidy, ToldBy, bounds

LEMMA PromoteTidy ==
    ASSUME Shape, NEW h \in Handlers, Tidy(h), Promote(h)
    PROVE  Tidy(h)'
<1>. PICK t \in Users : t = proc[h].target
  BY DEF Promote, At, Shape, ProcType, PC
<1>1. /\ proc[h].pc = "promote" /\ Owners = {} /\ role[t] # "none"
      /\ role \in [Users -> Roles] /\ \A u \in Users : ~Owes(h, u)
  BY DEF Promote, At, Tidy, Stage, Owes, Shape, TypeOK
<1>2. /\ proc'[h].pc = "idle" /\ UNCHANGED <<stream, shown, bounds>>
  BY ReturnRecord DEF Promote, Shape
<1>3. \A u \in Users : role'[u] = IF u = t THEN "owner" ELSE role[u]
  BY <1>1 DEF Promote, SetRole
<1>4. Active' = Active /\ Owners' = {t}
  BY <1>1, <1>3 DEF Active, Owners
<1>5. Stage(h)'
  BY <1>2 DEF Stage
<1>6. \A u \in Users : Foretold(u)' <=> Foretold(u)
  BY <1>2, <1>4, SameLists
<1>7. KeptBy(h)' /\ OneOwner'
  BY <1>4 DEF KeptBy, OneOwner
<1>. QED  BY <1>1, <1>2, <1>5, <1>6, <1>7 DEF Tidy, ToldBy, bounds

LEMMA ProceedTidy ==
    ASSUME Shape, NEW h \in Handlers, Tidy(h), Proceed(h)
    PROVE  Tidy(h)'
BY AddTidy, JoinedTidy, EmitJoinedTidy, CheckTargetTidy, CountTidy, DissolveTidy, RemoveTidy,
   LeftTidy, EmitLeftTidy, EmitRemovedTidy, SummariseTidy, AppendTidy, FinishTidy,
   CheckHeirTidy, DemoteTidy, PromoteTidy DEF Proceed

-----------------------------------------------------------------------------
(***************************************************************************)
(* All handlers.                                                           *)
(***************************************************************************)
\* Without an overlap one handler is at work at most, and it is tidy; the rest owe nothing.
SoleHandler == \A g, h \in Handlers : ~At(g, "idle") /\ ~At(h, "idle") => g = h

Calm ==
    ~overlap => /\ SoleHandler
                /\ \A h \in Handlers : ~At(h, "idle") => Tidy(h)
                /\ Quiescent => AllClear

GroupInv == Shape /\ Calm

\* A handler that has just finished leaves all clear.
LEMMA IdleTidy ==
    ASSUME NEW h \in Handlers, Tidy(h), At(h, "idle")
    PROVE  AllClear
BY DEF Tidy, AllClear, KeptBy, ToldBy, Owes, At

\* The step of the one handler at work.
LEMMA StepCalm ==
    ASSUME NEW h \in Handlers, Tidy(h)',
           \A g \in Handlers \ {h} : proc'[g].pc = "idle"
    PROVE  Calm'
<1>1. SoleHandler'
  BY DEF SoleHandler, At
<1>2. \A g \in Handlers : ~At(g, "idle")' => Tidy(g)'
  BY DEF At
<1>3. Quiescent' => AllClear'
  <2>1. Quiescent' => At(h, "idle")'
    BY DEF Quiescent
  <2>. QED  BY <2>1, IdleTidy, PTL
<1>. QED  BY <1>1, <1>2, <1>3 DEF Calm

LEMMA InitCalm == Init => Calm
<1>. SUFFICES ASSUME Init PROVE Calm
  OBVIOUS
<1>1. \A h \in Handlers : At(h, "idle")
  BY IdleRecord DEF Init, At
<1>2. OneOwner /\ (Active = {} \/ Owners # {})
  <2>1. CASE status = "absent" /\ role = Nobody
    BY <2>1 DEF Nobody, OneOwner, Owners, Active
  <2>2. CASE status = "active" /\ \E a \in Users, S \in SUBSET Users : role = Group(a, S)
    BY <2>2, GroupRoles DEF OneOwner, Owners
  <2>. QED  BY <2>1, <2>2 DEF Init
<1>3. \A u \in Users : Foretold(u)
  BY DEF Init, Foretold, Settles
<1>. QED  BY <1>1, <1>2, <1>3 DEF Calm, SoleHandler, Quiescent, AllClear
\* A request that is admitted while another is under way overlaps it, and nothing more is
\* claimed.
LEMMA RequestCalm ==
    ASSUME GroupInv, NEW h \in Handlers, Request(h)
    PROVE  Calm'
<1>. SUFFICES ASSUME ~overlap' PROVE Calm'
  BY DEF Calm
<1>1. Admit
  BY DEF Request, Create, Leave, AddMembers, RemoveMember, Transfer
<1>2. ~overlap /\ Quiescent
  BY <1>1 DEF Admit, Quiescent, GroupInv, Shape, TypeOK
<1>3. AllClear
  BY <1>2 DEF GroupInv, Calm
<1>4. \A g \in Handlers \ {h} : proc'[g] = proc[g]
  BY DEF Request, Create, Leave, AddMembers, RemoveMember, Transfer, Start, GroupInv, Shape, TypeOK
<1>5. Tidy(h)'
  BY <1>3, CreateTidy, StartTidy DEF Request, GroupInv
<1>. QED  BY <1>2, <1>4, <1>5, StepCalm DEF Quiescent, At

LEMMA ProceedCalm ==
    ASSUME GroupInv, NEW h \in Handlers, Proceed(h)
    PROVE  Calm'
<1>. SUFFICES ASSUME ~overlap' PROVE Calm'
  BY DEF Calm
<1>1. /\ overlap' = overlap
      /\ ~At(h, "idle")
  BY DEF Proceed, AddTx, JoinedRecipients, EmitJoined, CheckTarget, CountMembers, Dissolve,
         RemoveTx, LeftRecipients, EmitLeft, EmitRemoved, Summarise, AppendUpdated, FinishUpsert,
         CheckHeir, Demote, Promote, bounds, At
<1>2. \A g \in Handlers \ {h} : proc'[g] = proc[g]
  BY DEF Proceed, AddTx, JoinedRecipients, EmitJoined, CheckTarget, CountMembers, Dissolve,
         RemoveTx, LeftRecipients, EmitLeft, EmitRemoved, Summarise, AppendUpdated, FinishUpsert,
         CheckHeir, Demote, Promote, Go, Return, GroupInv, Shape, TypeOK
<1>3. Tidy(h) /\ SoleHandler
  BY <1>1 DEF GroupInv, Calm
<1>4. Tidy(h)'
  BY <1>3, ProceedTidy DEF GroupInv
<1>5. \A g \in Handlers \ {h} : proc'[g].pc = "idle"
  BY <1>1, <1>2, <1>3 DEF SoleHandler, At
<1>. QED  BY <1>4, <1>5, StepCalm

LEMMA ReplayCalm ==
    ASSUME GroupInv, NEW v \in Users, Replay(v)
    PROVE  Calm'
<1>1. UNCHANGED <<tables, proc, bounds>>
  BY DEF Replay
<1>2. Active' = Active /\ Owners' = Owners /\ role' = role /\ (OneOwner' <=> OneOwner)
  BY <1>1, SameRoles DEF tables
<1>3. \A u \in Users : Foretold(u)' <=> Foretold(u)
  BY ReplayTells DEF GroupInv, Shape
<1>4. \A h \in Handlers : /\ At(h, "idle")' <=> At(h, "idle")
                          /\ Stage(h)' <=> Stage(h)
                          /\ KeptBy(h)' <=> KeptBy(h)
                          /\ \A u \in Users : Owes(h, u)' <=> Owes(h, u)
  BY <1>1, <1>2 DEF At, Stage, KeptBy, Owes
<1>5. \A h \in Handlers : Tidy(h) => Tidy(h)'
  BY <1>1, <1>2, <1>3, <1>4 DEF Tidy, ToldBy, bounds
<1>6. AllClear => AllClear'
  BY <1>1, <1>2, <1>3 DEF AllClear, bounds
<1>7. (Quiescent' => Quiescent) /\ (SoleHandler => SoleHandler') /\ overlap' = overlap
  BY <1>1, <1>4 DEF Quiescent, SoleHandler, bounds
<1>. QED  BY <1>4, <1>5, <1>6, <1>7 DEF GroupInv, Calm

LEMMA CrashCalm == GroupInv /\ Crash => Calm'
<1>. SUFFICES ASSUME GroupInv, Crash PROVE Calm'
  OBVIOUS
<1>1. (\A h \in Handlers : At(h, "idle")') /\ crashes' # 0 /\ overlap' = overlap
  BY IdleRecord DEF Crash, At, GroupInv, Shape, TypeOK
<1>2. ~overlap => OneOwner
  <2>1. PICK h \in Handlers : ~At(h, "idle")
    BY DEF Crash
  <2>. QED  BY <2>1 DEF GroupInv, Calm, Tidy
<1>3. ~overlap => OneOwner'
  BY <1>2, SameRoles DEF Crash, tables
<1>. QED  BY <1>1, <1>3 DEF Calm, SoleHandler, AllClear

LEMMA GroupInvariant == Spec => []GroupInv
<1>1. Init => GroupInv
  BY InitShape, InitCalm DEF GroupInv
<1>2. GroupInv /\ [Next]_vars => GroupInv'
  <2>. SUFFICES ASSUME GroupInv, [Next]_vars PROVE GroupInv'
    OBVIOUS
  <2>1. Shape'
    BY NextShape DEF GroupInv
  <2>2. ASSUME NEW h \in Handlers, Request(h) \/ Proceed(h) PROVE Calm'
    BY <2>2, RequestCalm, ProceedCalm
  <2>3. ASSUME NEW u \in Users, Replay(u) PROVE Calm'
    BY <2>3, ReplayCalm
  <2>4. CASE Crash
    BY <2>1, <2>4, CrashCalm DEF GroupInv
  <2>5. CASE UNCHANGED vars
    <3>1. Calm'
      BY <2>5 DEF vars, GroupInv, Calm, SoleHandler, Tidy, OneOwner, Stage, KeptBy, ToldBy,
                  Foretold, Owes, AllClear, Quiescent, At, Active, Owners
    <3>. QED  BY <2>1, <3>1 DEF GroupInv
  <2>. QED  BY <2>1, <2>2, <2>3, <2>4, <2>5 DEF Next, GroupInv
<1>. QED  BY <1>1, <1>2, PTL DEF Spec

\* For any users and handlers: with requests one at a time the group never has two owners,
\* not between the updates of a transfer nor after a crash there, and whatever overlaps or
\* crashes, a group that was dissolved has no member row again
\* (conversation_service.go:319-344, repository.go:543-568).
THEOREM GroupIsWellFormed == Spec => []WellFormed
<1>1. GroupInv => WellFormed
  <2>. SUFFICES ASSUME GroupInv PROVE WellFormed
    OBVIOUS
  <2>1. ~overlap => OneOwner
    <3>1. CASE Quiescent
      BY <3>1 DEF GroupInv, Calm, AllClear
    <3>2. CASE ~Quiescent
      BY <3>2 DEF Quiescent, GroupInv, Calm, Tidy
    <3>. QED  BY <3>1, <3>2
  <2>. QED  BY <2>1 DEF GroupInv, Shape, Gone, OneOwner, WellFormed
<1>. QED  BY <1>1, GroupInvariant, PTL

\* With requests one at a time and none cut short, a group with members has an owner when
\* no request is under way (conversation_service.go:249-263,290-304).
THEOREM GroupKeepsItsOwner == Spec => []OwnerKept
<1>1. GroupInv => OwnerKept
  BY DEF GroupInv, Calm, AllClear, OwnerKept
<1>. QED  BY <1>1, GroupInvariant, PTL

\* With requests one at a time and none cut short, once every client has replayed its
\* records those that list the group are those of its members, however late they replay and
\* through removals, rejoining and dissolution, if that did not delete records unread
\* (conversation_service.go:198-316, chat-store.tsx:689-713).
THEOREM ListsConverge == Spec => []ListConverges
<1>1. GroupInv => ListConverges
  <2>. SUFFICES ASSUME GroupInv, Settled PROVE shown = Active
    BY DEF ListConverges
  <2>1. \A u \in Users : Foretold(u) /\ stream[u] = <<>>
    BY DEF Settled, GroupInv, Calm, AllClear
  <2>2. shown \subseteq Users /\ Active \subseteq Users
    BY DEF GroupInv, Shape, TypeOK, Active
  <2>. QED  BY <2>1, <2>2 DEF Foretold, Settles
<1>. QED  BY <1>1, GroupInvariant, PTL
=============================================================================
