---------------------------- MODULE Contacts_proofs ----------------------------
(***************************************************************************)
(* Friend requests and the contacts panels, for any users, handlers and    *)
(* requests.                                                               *)
(*                                                                         *)
(* CoreInv is the service's part: what a handler holds of its request, and *)
(* what of it is still so when requests come one at a time.  What the      *)
(* panels show rests on FriendsInv and ListInv: a list is current, or the  *)
(* record or the load that will make it so is on its way; an answer that   *)
(* is not stale is current, too, or the record that corrects it will still *)
(* come.  IdleInv adds that whoever asks has nobody's request against him. *)
(***************************************************************************)
EXTENDS Contacts, SequenceTheorems, FiniteSetTheorems, TLAPS

-----------------------------------------------------------------------------
(***************************************************************************)
(* The service.                                                            *)
(***************************************************************************)
Row == [from : Users, to : Users, status : Status]

Telling(h) == proc[h].pc \in {"tellFrom", "tellTo"}
Deciding(h) == proc[h].pc \in {"accept", "reject"}

\* What a handler holds of its request.
Holds(h) ==
    proc[h].pc # "idle" =>
        /\ proc[h].from \in Users /\ proc[h].to \in Users /\ proc[h].from # proc[h].to
        /\ Telling(h) \/ Deciding(h) =>
               /\ proc[h].id \in DOMAIN rows
               /\ rows[proc[h].id].from = proc[h].from /\ rows[proc[h].id].to = proc[h].to
        /\ ~Telling(h) => proc[h].as = "pending"

CoreType ==
    /\ rows \in Seq(Row) /\ Len(rows) <= MaxRows
    /\ friendships \in SUBSET (Users \X Users)
    /\ proc \in [Handlers -> Handler]
    /\ requests \in Nat
    /\ overlap \in BOOLEAN

Sole == \A h, g \in Handlers : ~At(h, "idle") /\ ~At(g, "idle") => h = g

Single == \A a, b \in Users : \A i, j \in Pending(a, b) : i = j

\* What still holds of what a handler read, when it is the only one.
Stage(h) ==
    /\ At(h, "insert") => Pending(proc[h].from, proc[h].to) = {}
    /\ Deciding(h) => rows[proc[h].id].status = "pending"
    /\ Telling(h) => rows[proc[h].id].status = proc[h].as

CoreInv ==
    /\ CoreType
    /\ \A i \in DOMAIN rows : rows[i].from # rows[i].to
    /\ \A h \in Handlers : Holds(h)
    /\ FriendshipIsMutual
    /\ AcceptedAreFriends
    /\ ~overlap => Sole /\ Single /\ \A h \in Handlers : Stage(h)


LEMMA PendingIs ==
    ASSUME rows \in Seq(Row), NEW a, NEW b, NEW i
    PROVE  i \in Pending(a, b) <=> /\ i \in DOMAIN rows
                                   /\ rows[i].from = a /\ rows[i].to = b
                                   /\ rows[i].status = "pending"
<1>1. ASSUME i \in DOMAIN rows PROVE rows[i] \in Row
    BY <1>1
<1> QED BY <1>1 DEF Pending, Row

LEMMA PendingIsNext ==
    ASSUME rows' \in Seq(Row), NEW a, NEW b, NEW i
    PROVE  i \in Pending(a, b)' <=> /\ i \in DOMAIN rows'
                                    /\ rows'[i].from = a /\ rows'[i].to = b
                                    /\ rows'[i].status = "pending"
<1>1. ASSUME i \in DOMAIN rows' PROVE rows'[i] \in Row
    BY <1>1
<1> QED BY <1>1 DEF Pending, Row

\* A decision changes one status.
LEMMA StatusSet ==
    ASSUME rows \in Seq(Row), NEW k \in DOMAIN rows, NEW s \in Status,
           rows' = [rows EXCEPT ![k].status = s]
    PROVE  /\ rows' \in Seq(Row) /\ Len(rows') = Len(rows) /\ DOMAIN rows' = DOMAIN rows
           /\ \A i \in DOMAIN rows :
                  /\ rows'[i].from = rows[i].from /\ rows'[i].to = rows[i].to
                  /\ rows'[i].status = IF i = k THEN s ELSE rows[i].status
<1> DEFINE r == [rows[k] EXCEPT !.status = s]
<1>1. /\ k \in 1 .. Len(rows) /\ DOMAIN rows = 1 .. Len(rows)
      /\ \A i \in DOMAIN rows : rows[i] \in Row
    OBVIOUS
<1>2. r \in Row /\ r.from = rows[k].from /\ r.to = rows[k].to /\ r.status = s
    BY <1>1 DEF Row
<1>3. rows' = [rows EXCEPT ![k] = r]
    OBVIOUS
<1> HIDE DEF r
<1>4. rows' \in Seq(Row) /\ Len(rows') = Len(rows)
    BY <1>1, <1>2, <1>3, ExceptSeq
<1>5. \A i \in DOMAIN rows : rows'[i] = IF i = k THEN r ELSE rows[i]
    BY <1>1, <1>3
<1> QED BY <1>1, <1>2, <1>4, <1>5

\* A handler's record after each kind of step.
LEMMA GoRecord ==
    ASSUME CoreType, NEW h \in Handlers, NEW l \in PC, Go(h, l)
    PROVE  /\ proc' \in [Handlers -> Handler]
           /\ \A g \in Handlers \ {h} : proc'[g] = proc[g]
           /\ proc'[h].pc = l /\ proc'[h].from = proc[h].from /\ proc'[h].to = proc[h].to
           /\ proc'[h].id = proc[h].id /\ proc'[h].as = proc[h].as
BY DEF CoreType, Go, Handler

LEMMA ReturnRecord ==
    ASSUME CoreType, NEW h \in Handlers, Return(h)
    PROVE  /\ proc' \in [Handlers -> Handler]
           /\ \A g \in Handlers \ {h} : proc'[g] = proc[g]
           /\ proc'[h].pc = "idle" /\ proc'[h] = Idle
<1>1. Idle \in Handler /\ Idle.pc = "idle"
    BY BoundsAreNaturals DEF Idle, Handler, PC, Status
<1> QED BY <1>1 DEF CoreType, Return

Kept == \A i \in DOMAIN rows :
    rows[i].status # "pending" /\ ~overlap => rows'[i].status = rows[i].status

\* A step of a handler that leaves the tables alone.
LEMMA ProcMoves ==
    ASSUME CoreInv, NEW h \in Handlers, rows' = rows, friendships' = friendships,
           requests' \in Nat, overlap' \in BOOLEAN, proc' \in [Handlers -> Handler],
           \A g \in Handlers \ {h} : proc'[g] = proc[g],
           Holds(h)',
           ~overlap' => /\ ~overlap /\ Stage(h)'
                        /\ proc'[h].pc # "idle" => \A g \in Handlers \ {h} : At(g, "idle")
    PROVE  CoreInv' /\ Kept
<1>1. CoreType'
    BY DEF CoreInv, CoreType
<1>2. \A g \in Handlers : Holds(g)'
    BY DEF CoreInv, Holds, Telling, Deciding
<1>3. FriendshipIsMutual' /\ AcceptedAreFriends'
    BY DEF CoreInv, FriendshipIsMutual, AcceptedAreFriends, Friends
<1>4. ASSUME ~overlap' PROVE (Sole /\ Single /\ \A g \in Handlers : Stage(g))'
    <2>1. Sole'
        BY <1>4 DEF CoreInv, Sole, At
    <2>2. Single'
        BY <1>4 DEF CoreInv, Single, Pending
    <2>3. ASSUME NEW g \in Handlers \ {h} PROVE Stage(g)'
        BY <1>4, <2>3 DEF CoreInv, Stage, At, Pending, Deciding, Telling
    <2> QED BY <1>4, <2>1, <2>2, <2>3
<1> QED BY <1>1, <1>2, <1>3, <1>4 DEF CoreInv, Kept

\* With requests one at a time, who is not idle is alone.
LEMMA Alone ==
    ASSUME CoreInv, ~overlap, NEW h \in Handlers, ~At(h, "idle")
    PROVE  \A g \in Handlers \ {h} : At(g, "idle")
BY DEF CoreInv, Sole

\* A request is admitted.
LEMMA AdmitMeans ==
    ASSUME CoreInv, NEW h \in Handlers, At(h, "idle"), Admit
    PROVE  /\ requests' \in Nat /\ overlap' \in BOOLEAN
           /\ ~overlap' => ~overlap /\ \A g \in Handlers : At(g, "idle")
<1>1. requests' \in Nat
    BY DEF Admit, CoreInv, CoreType
<1>2. overlap' \in BOOLEAN /\ (~overlap' => ~overlap /\ \A g \in Handlers : At(g, "idle"))
    BY DEF Admit
<1> QED BY <1>1, <1>2

LEMMA CreateKeeps ==
    ASSUME CoreInv, NEW h \in Handlers, NEW a \in Users, NEW b \in Users, CreateFriendRequest(h, a, b)
    PROVE  CoreInv' /\ Kept
<1> DEFINE r == [pc |-> "pendingCheck", from |-> a, to |-> b, id |-> 0, as |-> "pending"]
<1>1. /\ r \in Handler /\ r.pc = "pendingCheck" /\ r.from = a /\ r.to = b /\ r.as = "pending"
    BY BoundsAreNaturals DEF Handler, PC, Status
<1>2. /\ proc' = [proc EXCEPT ![h] = r] /\ a # b /\ At(h, "idle") /\ Admit
      /\ rows' = rows /\ friendships' = friendships
    BY DEF CreateFriendRequest
<1> HIDE DEF r
<1>3. /\ proc' \in [Handlers -> Handler] /\ proc'[h] = r
      /\ \A g \in Handlers \ {h} : proc'[g] = proc[g]
    BY <1>1, <1>2 DEF CoreInv, CoreType
<1>4. /\ proc'[h].pc = "pendingCheck" /\ proc'[h].from \in Users /\ proc'[h].to \in Users
      /\ proc'[h].from # proc'[h].to /\ proc'[h].as = "pending"
    BY <1>1, <1>2, <1>3
<1>5. Holds(h)'
    BY <1>4 DEF Holds, Telling, Deciding
<1>6. Stage(h)'
    BY <1>4 DEF Stage, Telling, Deciding, At
<1> QED BY <1>2, <1>3, <1>5, <1>6, AdmitMeans, ProcMoves

LEMMA DecideKeeps ==
    ASSUME CoreInv, NEW h \in Handlers, NEW i \in DOMAIN rows, NEW l \in {"accept", "reject"},
           Decide(h, i, l)
    PROVE  CoreInv' /\ Kept
<1> DEFINE r == [pc |-> l, from |-> rows[i].from, to |-> rows[i].to, id |-> i, as |-> "pending"]
<1>1. rows[i] \in Row /\ i \in 0 .. MaxRows /\ rows[i].from # rows[i].to
    BY BoundsAreNaturals DEF CoreInv, CoreType
<1>2. /\ r \in Handler /\ r.pc = l /\ r.from = rows[i].from /\ r.to = rows[i].to /\ r.id = i
      /\ r.as = "pending" /\ r.from \in Users /\ r.to \in Users
    BY <1>1 DEF Handler, PC, Status, Row
<1>3. /\ proc' = [proc EXCEPT ![h] = r] /\ At(h, "idle") /\ Admit /\ rows[i].status = "pending"
      /\ rows' = rows /\ friendships' = friendships
    BY DEF Decide
<1> HIDE DEF r
<1>4. /\ proc' \in [Handlers -> Handler] /\ proc'[h] = r
      /\ \A g \in Handlers \ {h} : proc'[g] = proc[g]
    BY <1>2, <1>3 DEF CoreInv, CoreType
<1>5. /\ proc'[h].pc = l /\ proc'[h].from \in Users /\ proc'[h].to \in Users
      /\ proc'[h].from = rows[i].from /\ proc'[h].to = rows[i].to /\ proc'[h].id = i
      /\ proc'[h].from # proc'[h].to /\ proc'[h].as = "pending"
    BY <1>1, <1>2, <1>3, <1>4
<1>6. Holds(h)'
    BY <1>3, <1>5 DEF Holds, Telling, Deciding
<1>7. Stage(h)'
    BY <1>3, <1>5 DEF Stage, Telling, Deciding, At
<1> QED BY <1>3, <1>4, <1>6, <1>7, AdmitMeans, ProcMoves

LEMMA CheckPendingKeeps ==
    ASSUME CoreInv, NEW h \in Handlers, CheckPending(h)
    PROVE  CoreInv' /\ Kept
<1>1. /\ At(h, "pendingCheck") /\ rows' = rows /\ friendships' = friendships
      /\ requests' = requests /\ overlap' = overlap
    BY DEF CheckPending, bounds
<1>2. requests' \in Nat /\ overlap' \in BOOLEAN
    BY <1>1 DEF CoreInv, CoreType
<1>3. ~overlap => \A g \in Handlers \ {h} : At(g, "idle")
    BY <1>1, Alone DEF At
<1>4. CASE Pending(proc[h].from, proc[h].to) = {}
    <2>1. /\ proc' \in [Handlers -> Handler] /\ \A g \in Handlers \ {h} : proc'[g] = proc[g]
          /\ proc'[h].pc = "insert" /\ proc'[h].from = proc[h].from /\ proc'[h].to = proc[h].to
          /\ proc'[h].as = proc[h].as
        BY <1>4, GoRecord DEF CheckPending, CoreInv, PC
    <2>2. Holds(h)' /\ Stage(h)'
        BY <1>1, <1>4, <2>1 DEF CoreInv, Holds, Stage, Telling, Deciding, At, Pending
    <2> QED BY <1>1, <1>2, <1>3, <2>1, <2>2, ProcMoves
<1>5. CASE Pending(proc[h].from, proc[h].to) # {}
    <2>1. /\ proc' \in [Handlers -> Handler] /\ \A g \in Handlers \ {h} : proc'[g] = proc[g]
          /\ proc'[h].pc = "idle"
        BY <1>5, ReturnRecord DEF CheckPending, CoreInv
    <2>2. Holds(h)' /\ Stage(h)'
        BY <2>1 DEF Holds, Stage, Telling, Deciding, At
    <2> QED BY <1>1, <1>2, <1>3, <2>1, <2>2, ProcMoves
<1> QED BY <1>4, <1>5

LEMMA TellFromKeeps ==
    ASSUME CoreInv, NEW h \in Handlers, TellFrom(h)
    PROVE  CoreInv' /\ Kept
<1>1. /\ At(h, "tellFrom") /\ rows' = rows /\ friendships' = friendships
      /\ requests' = requests /\ overlap' = overlap /\ Go(h, "tellTo")
    BY DEF TellFrom, bounds
<1>2. requests' \in Nat /\ overlap' \in BOOLEAN
    BY <1>1 DEF CoreInv, CoreType
<1>3. ~overlap => \A g \in Handlers \ {h} : At(g, "idle")
    BY <1>1, Alone DEF At
<1>4. /\ proc' \in [Handlers -> Handler] /\ \A g \in Handlers \ {h} : proc'[g] = proc[g]
      /\ proc'[h].pc = "tellTo" /\ proc'[h].from = proc[h].from /\ proc'[h].to = proc[h].to
      /\ proc'[h].id = proc[h].id /\ proc'[h].as = proc[h].as
    BY <1>1, GoRecord DEF CoreInv, PC
<1>5. Holds(h)'
    BY <1>1, <1>4 DEF CoreInv, Holds, Telling, Deciding, At
<1>6. ~overlap => Stage(h)'
    BY <1>1, <1>4 DEF CoreInv, Stage, Telling, Deciding, At
<1> QED BY <1>1, <1>2, <1>3, <1>4, <1>5, <1>6, ProcMoves

LEMMA TellToKeeps ==
    ASSUME CoreInv, NEW h \in Handlers, TellTo(h)
    PROVE  CoreInv' /\ Kept
<1>1. /\ rows' = rows /\ friendships' = friendships
      /\ requests' = requests /\ overlap' = overlap /\ Return(h)
    BY DEF TellTo, bounds
<1>2. requests' \in Nat /\ overlap' \in BOOLEAN
    BY <1>1 DEF CoreInv, CoreType
<1>3. /\ proc' \in [Handlers -> Handler] /\ \A g \in Handlers \ {h} : proc'[g] = proc[g]
      /\ proc'[h].pc = "idle"
    BY <1>1, ReturnRecord DEF CoreInv
<1>4. Holds(h)' /\ Stage(h)'
    BY <1>3 DEF Holds, Stage, Telling, Deciding, At
<1> QED BY <1>1, <1>2, <1>3, <1>4, ProcMoves

LEMMA InsertKeeps ==
    ASSUME CoreInv, NEW h \in Handlers, InsertRequest(h)
    PROVE  CoreInv' /\ Kept
<1> DEFINE a == proc[h].from
           b == proc[h].to
           n == Len(rows) + 1
           r == [from |-> a, to |-> b, status |-> "pending"]
<1>1. /\ At(h, "insert") /\ Len(rows) < MaxRows /\ rows' = Append(rows, r)
      /\ proc' = [proc EXCEPT ![h].pc = "tellFrom", ![h].id = n]
      /\ friendships' = friendships /\ requests' = requests /\ overlap' = overlap
    BY DEF InsertRequest, bounds
<1>2. a \in Users /\ b \in Users /\ a # b /\ proc[h].as = "pending" /\ rows \in Seq(Row)
    BY <1>1 DEF CoreInv, CoreType, Holds, Telling, At
<1>3. r \in Row /\ r.from = a /\ r.to = b /\ r.status = "pending"
    BY <1>2 DEF Row, Status
<1> HIDE DEF r
<1>4. /\ rows' \in Seq(Row) /\ Len(rows') = n /\ DOMAIN rows' = 1 .. n /\ DOMAIN rows = 1 .. n - 1
      /\ n \in Nat \ {0} /\ n <= MaxRows
      /\ \A i \in 1 .. n - 1 : rows'[i] = rows[i]
      /\ rows'[n] = r
    BY <1>1, <1>2, <1>3, AppendProperties, LenProperties, BoundsAreNaturals
<1>5. /\ proc' \in [Handlers -> Handler] /\ \A g \in Handlers \ {h} : proc'[g] = proc[g]
      /\ proc'[h].pc = "tellFrom" /\ proc'[h].id = n /\ proc'[h].from = a /\ proc'[h].to = b
      /\ proc'[h].as = "pending"
    <2>1. proc[h] \in Handler /\ n \in 0 .. MaxRows /\ "tellFrom" \in PC
        BY <1>4 DEF CoreInv, CoreType, PC
    <2> QED BY <1>1, <1>2, <2>1 DEF CoreInv, CoreType, Handler
<1> HIDE DEF a, b, n
<1>6. CoreType'
    BY <1>1, <1>4, <1>5 DEF CoreInv, CoreType
<1>7. ASSUME NEW g \in Handlers PROVE Holds(g)'
    <2>1. CASE g = h
        <3>1. n \in DOMAIN rows' /\ rows'[n].from = a /\ rows'[n].to = b
            BY <1>3, <1>4
        <3> QED BY <1>2, <1>5, <2>1, <3>1 DEF Holds, Telling, Deciding
    <2>2. CASE g # h
        BY <1>4, <1>5, <2>2 DEF CoreInv, Holds, Telling, Deciding
    <2> QED BY <2>1, <2>2
<1>8. \A i \in DOMAIN rows' : rows'[i].from # rows'[i].to
    BY <1>2, <1>3, <1>4 DEF CoreInv
<1>9. FriendshipIsMutual' /\ AcceptedAreFriends'
    BY <1>1, <1>3, <1>4 DEF CoreInv, FriendshipIsMutual, AcceptedAreFriends, Friends
<1>10. ASSUME ~overlap' PROVE (Sole /\ Single /\ \A g \in Handlers : Stage(g))'
    <2>1. /\ \A g \in Handlers \ {h} : At(g, "idle")
          /\ Pending(a, b) = {} /\ Single
        BY <1>1, <1>10, Alone DEF CoreInv, Stage, At, a, b
    <2>2. Sole'
        BY <1>5, <2>1 DEF Sole, At
    <2>3. ASSUME NEW g \in Handlers PROVE Stage(g)'
        <3>1. CASE g = h
            BY <1>3, <1>4, <1>5, <3>1 DEF Stage, At, Deciding, Telling
        <3>2. CASE g # h
            BY <1>5, <2>1, <3>2 DEF Stage, At, Deciding, Telling
        <3> QED BY <3>1, <3>2
    <2>4. ASSUME NEW c \in Users, NEW d \in Users, NEW i \in Pending(c, d)', NEW j \in Pending(c, d)'
          PROVE  i = j
        <3>1. ASSUME NEW k \in Pending(c, d)' PROVE (k = n /\ c = a /\ d = b) \/ k \in Pending(c, d)
            BY <1>2, <1>3, <1>4, <3>1, PendingIs, PendingIsNext
        <3> QED BY <2>1, <2>4, <3>1 DEF Single
    <2> QED BY <2>2, <2>3, <2>4 DEF Single
<1>11. Kept
    BY <1>4 DEF Kept
<1> QED BY <1>6, <1>7, <1>8, <1>9, <1>10, <1>11 DEF CoreInv

\* A decision of a handler: its own status becomes the row's, and it goes on to tell.
LEMMA StatusMoves ==
    ASSUME CoreInv, NEW h \in Handlers, NEW s \in {"accepted", "rejected"}, Deciding(h),
           rows' = [rows EXCEPT ![proc[h].id].status = s],
           proc' = [proc EXCEPT ![h].pc = "tellFrom", ![h].as = s],
           friendships' = friendships \cup (IF s = "accepted" THEN Pair(proc[h]) ELSE {}),
           requests' = requests, overlap' = overlap
    PROVE  CoreInv' /\ Kept
<1> DEFINE k == proc[h].id
<1>1. /\ proc[h].from \in Users /\ proc[h].to \in Users /\ proc[h].from # proc[h].to
      /\ k \in DOMAIN rows /\ rows[k].from = proc[h].from /\ rows[k].to = proc[h].to
      /\ rows \in Seq(Row) /\ Len(rows) <= MaxRows /\ s \in Status
    BY DEF CoreInv, CoreType, Holds, Deciding, Status
<1>2. /\ rows' \in Seq(Row) /\ Len(rows') = Len(rows) /\ DOMAIN rows' = DOMAIN rows
      /\ \A i \in DOMAIN rows :
             /\ rows'[i].from = rows[i].from /\ rows'[i].to = rows[i].to
             /\ rows'[i].status = IF i = k THEN s ELSE rows[i].status
    BY <1>1, StatusSet
<1>3. /\ proc' \in [Handlers -> Handler] /\ \A g \in Handlers \ {h} : proc'[g] = proc[g]
      /\ proc'[h].pc = "tellFrom" /\ proc'[h].id = k /\ proc'[h].as = s
      /\ proc'[h].from = proc[h].from /\ proc'[h].to = proc[h].to
    <2>1. proc[h] \in Handler /\ "tellFrom" \in PC
        BY DEF CoreInv, CoreType, PC
    <2> QED BY <1>1, <2>1 DEF CoreInv, CoreType, Handler
<1> HIDE DEF k
<1>4. /\ friendships' \in SUBSET (Users \X Users)
      /\ FriendshipIsMutual'
      /\ friendships \subseteq friendships'
      /\ s = "accepted" => <<proc[h].from, proc[h].to>> \in friendships'
    BY <1>1 DEF CoreInv, CoreType, FriendshipIsMutual, Friends, Pair
<1>5. CoreType'
    BY <1>1, <1>2, <1>3, <1>4 DEF CoreInv, CoreType
<1>6. ASSUME NEW g \in Handlers PROVE Holds(g)'
    <2>1. CASE g = h
        BY <1>1, <1>2, <1>3, <2>1 DEF Holds, Telling, Deciding, k
    <2>2. CASE g # h
        BY <1>2, <1>3, <2>2 DEF CoreInv, Holds, Telling, Deciding
    <2> QED BY <2>1, <2>2
<1>7. \A i \in DOMAIN rows' : rows'[i].from # rows'[i].to
    BY <1>2 DEF CoreInv
<1>8. ASSUME NEW i \in DOMAIN rows', rows'[i].status = "accepted"
      PROVE  <<rows'[i].from, rows'[i].to>> \in friendships'
    <2>1. CASE i = k
        BY <1>1, <1>2, <1>4, <1>8, <2>1
    <2>2. CASE i # k
        BY <1>2, <1>4, <1>8, <2>2 DEF CoreInv, AcceptedAreFriends, Friends
    <2> QED BY <2>1, <2>2
<1>12. AcceptedAreFriends'
    BY <1>8 DEF AcceptedAreFriends, Friends
<1>9. ASSUME ~overlap PROVE rows[k].status = "pending" /\ \A g \in Handlers \ {h} : At(g, "idle")
    BY <1>9, Alone DEF CoreInv, Stage, Deciding, At, k
<1>10. ASSUME ~overlap' PROVE (Sole /\ Single /\ \A g \in Handlers : Stage(g))'
    <2>1. Sole'
        BY <1>3, <1>9, <1>10 DEF Sole, At
    <2>2. ASSUME NEW g \in Handlers PROVE Stage(g)'
        <3>1. CASE g = h
            BY <1>1, <1>2, <1>3, <3>1 DEF Stage, At, Deciding, Telling
        <3>2. CASE g # h
            BY <1>3, <1>9, <1>10, <3>2 DEF Stage, At, Deciding, Telling
        <3> QED BY <3>1, <3>2
    <2>3. ASSUME NEW c \in Users, NEW d \in Users, NEW i \in Pending(c, d)' PROVE i \in Pending(c, d)
        BY <1>1, <1>2, <2>3, PendingIs, PendingIsNext
    <2> QED BY <1>10, <2>1, <2>2, <2>3 DEF Single, CoreInv
<1>11. Kept
    BY <1>2, <1>9 DEF Kept
<1> QED BY <1>4, <1>5, <1>6, <1>7, <1>10, <1>11, <1>12 DEF CoreInv

LEMMA AcceptKeeps ==
    ASSUME CoreInv, NEW h \in Handlers, AcceptTx(h)
    PROVE  CoreInv' /\ Kept
<1>1. At(h, "accept") /\ requests' = requests /\ overlap' = overlap
    BY DEF AcceptTx, bounds
<1>2. CASE Pair(proc[h]) \cap friendships = {}
    BY <1>1, <1>2, StatusMoves DEF AcceptTx, Deciding, At
<1>3. CASE Pair(proc[h]) \cap friendships # {}
    <2>1. Return(h) /\ rows' = rows /\ friendships' = friendships
        BY <1>3 DEF AcceptTx
    <2>2. /\ proc' \in [Handlers -> Handler] /\ \A g \in Handlers \ {h} : proc'[g] = proc[g]
          /\ proc'[h].pc = "idle" /\ requests' \in Nat /\ overlap' \in BOOLEAN
        BY <1>1, <2>1, ReturnRecord DEF CoreInv, CoreType
    <2>3. Holds(h)' /\ Stage(h)'
        BY <2>2 DEF Holds, Stage, Telling, Deciding, At
    <2> QED BY <1>1, <2>1, <2>2, <2>3, ProcMoves
<1> QED BY <1>2, <1>3

LEMMA RejectKeeps ==
    ASSUME CoreInv, NEW h \in Handlers, RejectTx(h)
    PROVE  CoreInv' /\ Kept
BY StatusMoves DEF RejectTx, bounds, Deciding, At

\* The part of a panel's step that is the service's.
LEMMA CoreStep ==
    ASSUME CoreInv, [ContactsNext]_allVars
    PROVE  CoreInv' /\ Kept
<1>1. ASSUME UNCHANGED <<rows, friendships, proc, overlap>>, requests' \in Nat PROVE CoreInv' /\ Kept
    BY <1>1 DEF CoreInv, CoreType, Holds, Telling, Deciding, FriendshipIsMutual, AcceptedAreFriends,
       Friends, Sole, Single, Stage, Pending, At, Kept
<1>2. ASSUME NEW h \in Handlers, HandlerStep(h) PROVE CoreInv' /\ Kept
    BY <1>2, CheckPendingKeeps, InsertKeeps, AcceptKeeps, RejectKeeps, TellFromKeeps, TellToKeeps
       DEF HandlerStep
<1>3. ASSUME NEW u \in Users, NEW h \in Handlers, NEW b \in Users, SendFriendRequest(u, h, b)
      PROVE  CoreInv' /\ Kept
    BY <1>3, CreateKeeps DEF SendFriendRequest
<1>4. ASSUME NEW u \in Users, NEW h \in Handlers, NEW i \in DOMAIN rows, HandleDecision(u, h, i)
      PROVE  CoreInv' /\ Kept
    BY <1>4, DecideKeeps DEF HandleDecision, ApproveFriendRequest, RejectFriendRequest
<1>5. requests \in Nat
    BY DEF CoreInv, CoreType
<1>6. ASSUME NEW u \in Users, NEW i, DecisionRefused(u, i) PROVE CoreInv' /\ Kept
    BY <1>1, <1>5, <1>6 DEF DecisionRefused
<1>7. ASSUME NEW l, ServeList(l) \/ SetList(l) \/ ListLost(l) PROVE CoreInv' /\ Kept
    BY <1>1, <1>5, <1>7 DEF ServeList, SetList, ListLost, vars, bounds
<1>8. ASSUME NEW u \in Users, Open(u) PROVE CoreInv' /\ Kept
    BY <1>1, <1>5, <1>8 DEF Open
<1>9. CASE UNCHANGED allVars
    BY <1>1, <1>5, <1>9 DEF allVars, vars, bounds
<1> QED BY <1>2, <1>3, <1>4, <1>6, <1>7, <1>8, <1>9 DEF ContactsNext, Serve

-----------------------------------------------------------------------------
(***************************************************************************)
(* The panels.                                                             *)
(***************************************************************************)
Causes == {"send", "open", "decide"} \X (0..MaxRows)

LoadRecord == [user : Users, list : Lists, for : Causes, pc : {"asked", "served"},
               answer : SUBSET (Users \cup (Ids \X Status)), stale : BOOLEAN]

\* The panel that waits for a handler; a decision is its addressee's.
Called(h) ==
    /\ proc[h].pc # "idle" => caller[h] \in Users
    /\ Deciding(h) \/ (Telling(h) /\ proc[h].as = "accepted") => caller[h] = proc[h].to

PanelType ==
    /\ view \in [Users -> [Ids -> Status \cup {"unseen"}]]
    /\ friends \in [Users -> SUBSET Users]
    /\ caller \in [Handlers -> Users \cup {None}]
    /\ sending \in [Users -> BOOLEAN]
    /\ loadingId \in [Users -> 0..MaxRows]
    /\ loads \subseteq LoadRecord
    /\ overtaken \in [Users -> SUBSET Lists]
    /\ misled \in BOOLEAN

PanelInv == PanelType /\ \A h \in Handlers : Called(h)

\* A list of friends that is not stale is the list of now.
FriendsRead == \A l \in loads :
    l.list = "friends" /\ l.pc = "served" =>
        /\ l.answer \subseteq Users
        /\ ~l.stale => l.answer = {b \in Users : Friends(l.user, b)}

\* The new friend is shown to the one who approved, or will be.
FriendComes(i) ==
    \/ "friends" \in overtaken[rows[i].to]
    \/ rows[i].from \in friends[rows[i].to]
    \/ \E h \in Handlers : Telling(h) /\ proc[h].id = i /\ proc[h].as = "accepted"
    \/ \E l \in loads : l.user = rows[i].to /\ l.list = "friends"

FriendsInv == FriendsRead /\ \A i \in DOMAIN rows : rows[i].status = "accepted" => FriendComes(i)

\* The record of the status of request i is still to reach user u.
ToTell(u, i) == \E h \in Handlers :
    /\ proc[h].id = i
    /\ \/ At(h, "tellFrom") /\ u \in {proc[h].from, proc[h].to}
       \/ At(h, "tellTo") /\ u = proc[h].to

\* Nothing shows a status before the row has it.
Past == \A u \in Users, i \in Ids :
    view[u][i] # "unseen" => i \in DOMAIN rows /\ view[u][i] \in {"pending", rows[i].status}

ReadPast == \A l \in loads :
    l.list = "requests" /\ l.pc = "served" =>
        \A i \in Ids, s \in Status : <<i, s>> \in l.answer =>
            i \in DOMAIN rows /\ s \in {"pending", rows[i].status}

\* The answer says of each request what it is, or the record of it will.
ReadNow == \A l \in loads :
    l.list = "requests" /\ l.pc = "served" /\ ~l.stale =>
        \A i \in DOMAIN rows : l.user \in Parties(i) =>
            \/ \A s \in Status : <<i, s>> \in l.answer <=> s = rows[i].status
            \/ ToTell(l.user, i) /\ view[l.user][i] # rows[i].status

ShownNow == \A i \in DOMAIN rows, u \in Users :
    u \in Parties(i) /\ "requests" \notin overtaken[u] => view[u][i] = rows[i].status \/ ToTell(u, i)

ListInv == Past /\ ReadPast /\ ReadNow /\ ShownNow

NoneIdle == \A a, b \in Users : Pending(a, b) # {} => (Pending(b, a) = {} /\ ~Friends(a, b))

\* A request on its way to be created has none against it.
Asking(h) == proc[h].pc \in {"pendingCheck", "insert"} =>
                 /\ Pending(proc[h].to, proc[h].from) = {}
                 /\ ~Friends(proc[h].from, proc[h].to)

IdleInv == (\A u \in Users : overtaken[u] = {}) /\ NoneIdle /\ \A h \in Handlers : Asking(h)

ContactsInv ==
    /\ CoreInv
    /\ PanelInv
    /\ FriendsInv
    /\ ~overlap => ListInv /\ (~misled => IdleInv)

\* A served answer was served before and nothing has outdated it since, or is new.
Carried(l) == \E m \in loads :
    /\ m.pc = "served" /\ m.user = l.user /\ m.list = l.list /\ m.answer = l.answer
    /\ ~l.stale => /\ ~m.stale
                   /\ l.list = "friends" => friendships' = friendships
                   /\ l.list = "requests" => view'[l.user] = view[l.user]

Carry == \A l \in loads' :
    l.pc = "served" => \/ Carried(l)
                       \/ l.answer = Answer(l) /\ rows' = rows /\ friendships' = friendships

\* A handler's record of a new status, and what a client then shows.
LEMMA TellView ==
    ASSUME PanelType, NEW u \in Users, NEW i \in Ids, NEW s \in Status, Tell(u, i, s)
    PROVE  /\ view' \in [Users -> [Ids -> Status \cup {"unseen"}]]
           /\ view'[u][i] = s
           /\ \A v \in Users, j \in Ids : v # u \/ j # i => view'[v][j] = view[v][j]
<1> DEFINE row == [view[u] EXCEPT ![i] = s]
<1>1. /\ row \in [Ids -> Status \cup {"unseen"}] /\ row[i] = s
      /\ \A j \in Ids : j # i => row[j] = view[u][j]
    BY DEF PanelType
<1>2. view' = [view EXCEPT ![u] = row]
    BY DEF Tell
<1> HIDE DEF row
<1>3. view' \in [Users -> [Ids -> Status \cup {"unseen"}]] /\ view'[u] = row
      /\ \A v \in Users : v # u => view'[v] = view[v]
    BY <1>1, <1>2 DEF PanelType
<1> QED BY <1>1, <1>3

LEMMA LoadTyped ==
    ASSUME NEW u \in Users, NEW list \in Lists, NEW for \in Causes
    PROVE  /\ Load(u, list, for) \in LoadRecord
           /\ Load(u, list, for).user = u /\ Load(u, list, for).list = list
           /\ Load(u, list, for).pc = "asked"
BY DEF Load, LoadRecord

\* A load that is answered, and one that counts for another call.
LEMMA LoadServed ==
    ASSUME CoreType, NEW l \in LoadRecord, NEW m, m = [l EXCEPT !.pc = "served", !.answer = Answer(l)]
    PROVE  /\ m \in LoadRecord /\ m.user = l.user /\ m.list = l.list /\ m.pc = "served"
           /\ m.answer = Answer(m)
<1>1. Answer(l) \in SUBSET (Users \cup (Ids \X Status))
    <2>1. ASSUME NEW i \in DOMAIN rows PROVE i \in Ids /\ rows[i].status \in Status
        <3>1. rows[i] \in Row /\ i \in 1..Len(rows) /\ Len(rows) <= MaxRows
            BY DEF CoreType
        <3>2. rows[i].status \in Status
            BY <3>1 DEF Row
        <3> QED BY <3>1, <3>2, BoundsAreNaturals DEF Ids
    <2> QED BY <2>1 DEF Answer
<1>2. m \in LoadRecord /\ m.user = l.user /\ m.list = l.list /\ m.pc = "served" /\ m.answer = Answer(l)
    BY <1>1 DEF LoadRecord
<1>3. Answer(m) = Answer(l)
    BY <1>2 DEF Answer
<1> QED BY <1>2, <1>3

LEMMA LoadDetached ==
    ASSUME NEW l \in LoadRecord, NEW m, m = [l EXCEPT !.for = <<"open", 0>>]
    PROVE  /\ m \in LoadRecord /\ m.user = l.user /\ m.list = l.list
           /\ m.pc = l.pc /\ m.answer = l.answer /\ m.stale = l.stale
<1>1. <<"open", 0>> \in Causes
    BY BoundsAreNaturals DEF Causes
<1> QED BY <1>1 DEF LoadRecord

\* The loads after a step of a handler.
LEMMA OutdateLoads ==
    ASSUME PanelType
    PROVE  /\ Outdate(loads) \subseteq LoadRecord
           /\ \A l \in Outdate(loads) : l.pc = "served" => Carried(l)
           /\ \A m \in loads : \E l \in Outdate(loads) : l.user = m.user /\ l.list = m.list
<1> DEFINE B(l) == /\ l.pc = "served"
                   /\ \/ l.list = "friends" /\ friendships' # friendships
                      \/ l.list = "requests" /\ view'[l.user] # view[l.user]
           O(l) == [l EXCEPT !.stale = @ \/ B(l)]
<1>1. Outdate(loads) = {O(l) : l \in loads}
    BY DEF Outdate
<1>2. ASSUME NEW l \in loads
      PROVE  /\ O(l) \in LoadRecord /\ O(l).user = l.user /\ O(l).list = l.list
             /\ O(l).pc = l.pc /\ O(l).answer = l.answer
             /\ ~O(l).stale => ~l.stale /\ ~B(l)
    <2>1. l \in LoadRecord /\ B(l) \in BOOLEAN
        BY DEF PanelType
    <2> HIDE DEF B
    <2> DEFINE m == O(l)
    <2>2. m = [l EXCEPT !.stale = @ \/ B(l)]
        OBVIOUS
    <2> HIDE DEF m
    <2>3. /\ m \in LoadRecord /\ m.user = l.user /\ m.list = l.list
          /\ m.pc = l.pc /\ m.answer = l.answer
          /\ ~m.stale => ~l.stale /\ ~B(l)
        BY <2>1, <2>2 DEF LoadRecord
    <2> QED BY <2>3 DEF m
<1> HIDE DEF O
<1>3. ASSUME NEW l \in Outdate(loads), l.pc = "served" PROVE Carried(l)
    <2>1. PICK m \in loads : l = O(m)
        BY <1>1
    <2> QED BY <1>2, <1>3, <2>1 DEF Carried
<1> QED BY <1>1, <1>2, <1>3

LEMMA SettleTyped ==
    ASSUME PanelType, NEW u \in Users, NEW for, Settle(u, for)
    PROVE  sending' \in [Users -> BOOLEAN] /\ loadingId' \in [Users -> 0..MaxRows]
<1>1. sending' \in [Users -> BOOLEAN]
    BY DEF PanelType, Settle
<1>2. loadingId' \in [Users -> 0..MaxRows]
    BY BoundsAreNaturals DEF PanelType, Settle
<1> QED BY <1>1, <1>2

\* What a step of a handler does to the panels.
LEMMA ServePanel ==
    ASSUME CoreInv, PanelInv, NEW h \in Handlers, Serve(h)
    PROVE  /\ loads' \subseteq LoadRecord
           /\ \A l \in loads' : l.pc = "served" => Carried(l)
           /\ \A m \in loads : \E l \in loads' : l.user = m.user /\ l.list = m.list
           /\ At(h, "tellTo") /\ proc[h].as = "accepted" =>
                  \E l \in loads' : l.user = proc[h].to /\ l.list = "friends"
<1> USE DEF PanelInv
<1> DEFINE O == Outdate(loads)
<1>1. /\ O \subseteq LoadRecord
      /\ \A l \in O : l.pc = "served" => Carried(l)
      /\ \A m \in loads : \E l \in O : l.user = m.user /\ l.list = m.list
    BY OutdateLoads
<1> HIDE DEF O
<1>2. CASE proc'[h] # Idle
    <2>1. ~At(h, "tellTo")
        BY <1>2 DEF Serve, HandlerStep, CheckPending, InsertRequest, AcceptTx, RejectTx, TellFrom, TellTo,
           At, Return, CoreInv, CoreType
    <2>2. loads' = O
        BY <1>2 DEF Serve, O
    <2> QED BY <1>1, <2>1, <2>2
<1>3. CASE proc'[h] = Idle /\ At(h, "tellTo")
    <2>1. loads' = O \cup Reloads(h)
        BY <1>3 DEF Serve, O
    <2>2. caller[h] \in Users /\ (proc[h].as = "accepted" => caller[h] = proc[h].to)
        BY <1>3 DEF Called, At, Telling
    <2>3. For(h) \in Causes
        BY BoundsAreNaturals DEF For, Causes, CoreInv, CoreType, Handler
    <2>4. \A l \in Reloads(h) : \E list \in Lists : l = Load(caller[h], list, For(h))
        BY DEF Reloads, Lists
    <2>5. Reloads(h) \subseteq LoadRecord /\ \A l \in Reloads(h) : l.pc = "asked"
        BY <2>2, <2>3, <2>4, LoadTyped
    <2>6. ASSUME proc[h].as = "accepted" PROVE Load(proc[h].to, "friends", For(h)) \in Reloads(h)
        BY <2>2, <2>6 DEF Reloads, Lists
    <2>7. proc[h].as = "accepted" => \E l \in Reloads(h) : l.user = proc[h].to /\ l.list = "friends"
        BY <2>2, <2>3, <2>6, LoadTyped DEF Lists
    <2> QED BY <1>1, <2>1, <2>5, <2>7
<1>4. CASE proc'[h] = Idle /\ ~At(h, "tellTo")
    <2>1. loads' = O
        BY <1>4 DEF Serve, O
    <2> QED BY <1>1, <1>4, <2>1
<1> QED BY <1>2, <1>3, <1>4

\* A click: nothing but an idle handler and the buttons changes.
Clicked ==
    /\ UNCHANGED <<rows, friendships, view, friends, loads, overtaken>>
    /\ \E h \in Handlers :
           /\ At(h, "idle") /\ ~Telling(h)'
           /\ \A g \in Handlers \ {h} : proc'[g] = proc[g]

LEMMA SendKeepsPanel ==
    ASSUME CoreInv, PanelInv, NEW u \in Users, NEW h \in Handlers, NEW b \in Users,
           SendFriendRequest(u, h, b)
    PROVE  PanelInv' /\ Clicked
<1>1. /\ proc'[h].pc = "pendingCheck" /\ \A g \in Handlers \ {h} : proc'[g] = proc[g]
      /\ At(h, "idle") /\ UNCHANGED <<rows, friendships, view>>
    BY DEF SendFriendRequest, CreateFriendRequest, CoreInv, CoreType
<1>2. PanelType'
    <2>1. misled' \in BOOLEAN
        BY DEF SendFriendRequest
    <2> QED BY <1>1, <2>1 DEF SendFriendRequest, Call, PanelInv, PanelType
<1>3. caller'[h] = u /\ \A g \in Handlers \ {h} : caller'[g] = caller[g]
    BY DEF SendFriendRequest, Call, PanelInv, PanelType
<1>4. \A g \in Handlers : Called(g)'
    BY <1>1, <1>3 DEF Called, Deciding, Telling, PanelInv
<1> QED BY <1>1, <1>2, <1>4 DEF PanelInv, Clicked, Telling, SendFriendRequest

LEMMA DecisionKeepsPanel ==
    ASSUME CoreInv, PanelInv, NEW u \in Users, NEW h \in Handlers, NEW i \in DOMAIN rows,
           HandleDecision(u, h, i)
    PROVE  PanelInv' /\ Clicked
<1>1. PICK l \in {"accept", "reject"} : Decide(h, i, l)
    BY DEF HandleDecision, ApproveFriendRequest, RejectFriendRequest
<1>2. /\ proc'[h].pc = l /\ proc'[h].to = rows[i].to /\ \A g \in Handlers \ {h} : proc'[g] = proc[g]
      /\ At(h, "idle") /\ UNCHANGED <<rows, friendships, view>> /\ rows[i].to = u
    BY <1>1 DEF Decide, HandleDecision, Decidable, CoreInv, CoreType
<1>3. i \in 0..MaxRows
    BY BoundsAreNaturals DEF CoreInv, CoreType
<1>4. PanelType'
    BY <1>2, <1>3 DEF HandleDecision, Call, PanelInv, PanelType, astray
<1>5. caller'[h] = u /\ \A g \in Handlers \ {h} : caller'[g] = caller[g]
    BY DEF HandleDecision, Call, PanelInv, PanelType
<1>6. \A g \in Handlers : Called(g)'
    BY <1>2, <1>5 DEF Called, Deciding, Telling, PanelInv
<1> QED BY <1>2, <1>4, <1>6 DEF PanelInv, Clicked, Telling, HandleDecision, astray

\* How a step of a handler moves it.
LEMMA HandlerMoves ==
    ASSUME CoreInv, NEW h \in Handlers, HandlerStep(h)
    PROVE  /\ \A g \in Handlers \ {h} : proc'[g] = proc[g]
           /\ proc'[h] # Idle =>
                  /\ proc'[h].to = proc[h].to /\ proc[h].pc # "idle" /\ ~Deciding(h)'
                  /\ Telling(h)' /\ proc'[h].as = "accepted" =>
                         Deciding(h) \/ (Telling(h) /\ proc[h].as = "accepted")
<1>1. proc[h] \in Handler /\ proc \in [Handlers -> Handler]
    BY DEF CoreInv, CoreType
<1>2. CASE CheckPending(h)
    BY <1>1, <1>2 DEF CheckPending, Go, Return, At, Deciding, Telling, Handler
<1>3. CASE InsertRequest(h)
    BY <1>1, <1>3 DEF InsertRequest, At, Deciding, Telling, Handler, CoreInv, Holds
<1>4. CASE AcceptTx(h)
    BY <1>1, <1>4 DEF AcceptTx, Return, At, Deciding, Telling, Handler
<1>5. CASE RejectTx(h)
    BY <1>1, <1>5 DEF RejectTx, At, Deciding, Telling, Handler
<1>6. CASE TellFrom(h)
    BY <1>1, <1>6 DEF TellFrom, Go, At, Deciding, Telling, Handler
<1>7. CASE TellTo(h)
    BY <1>1, <1>7 DEF TellTo, Return, At, Deciding, Telling, Handler
<1> QED BY <1>2, <1>3, <1>4, <1>5, <1>6, <1>7 DEF HandlerStep

LEMMA ServeKeepsPanel ==
    ASSUME CoreInv, PanelInv, NEW h \in Handlers, Serve(h)
    PROVE  PanelInv' /\ Carry
<1>1. /\ loads' \subseteq LoadRecord
      /\ \A l \in loads' : l.pc = "served" => Carried(l)
    BY ServePanel
<1>2. HandlerStep(h)
    BY DEF Serve
<1>3. view' \in [Users -> [Ids -> Status \cup {"unseen"}]]
    <2>1. CASE TellFrom(h)
        <3>1. proc[h].from \in Users /\ proc[h].id \in Ids /\ proc[h].as \in Status
            BY <2>1, BoundsAreNaturals DEF TellFrom, At, CoreInv, CoreType, Holds, Telling, Handler, Ids
        <3> QED BY <2>1, <3>1, TellView DEF TellFrom, PanelInv
    <2>2. CASE TellTo(h)
        <3>1. proc[h].to \in Users /\ proc[h].id \in Ids /\ proc[h].as \in Status
            BY <2>2, BoundsAreNaturals DEF TellTo, At, CoreInv, CoreType, Holds, Telling, Handler, Ids
        <3> QED BY <2>2, <3>1, TellView DEF TellTo, PanelInv
    <2>3. CASE view' = view
        BY <2>3 DEF PanelInv, PanelType
    <2> QED BY <1>2, <2>1, <2>2, <2>3 DEF HandlerStep, CheckPending, InsertRequest, AcceptTx, RejectTx
<1>4. friends' = friends /\ overtaken' = overtaken /\ misled' = misled
    BY DEF Serve, astray
<1>5. /\ sending' \in [Users -> BOOLEAN] /\ loadingId' \in [Users -> 0..MaxRows]
      /\ caller' \in [Handlers -> Users \cup {None}]
      /\ \A g \in Handlers \ {h} : caller'[g] = caller[g]
      /\ proc'[h] # Idle => caller'[h] = caller[h]
    <2>1. CASE proc'[h] # Idle
        BY <2>1 DEF Serve, PanelInv, PanelType
    <2>2. CASE proc'[h] = Idle
        <3>1. /\ caller' \in [Handlers -> Users \cup {None}]
              /\ \A g \in Handlers \ {h} : caller'[g] = caller[g]
            BY <2>2 DEF Serve, PanelInv, PanelType
        <3>2. CASE At(h, "tellTo")
            BY <2>2, <3>1, <3>2 DEF Serve, PanelInv, PanelType
        <3>3. CASE ~At(h, "tellTo")
            <4>1. proc[h].pc # "idle"
                BY <1>2 DEF HandlerStep, CheckPending, InsertRequest, AcceptTx, RejectTx, TellFrom, TellTo, At
            <4>2. caller[h] \in Users
                BY <4>1 DEF PanelInv, Called
            <4>3. \E for : Settle(caller[h], for)
                BY <2>2, <3>3 DEF Serve
            <4> QED BY <2>2, <3>1, <4>2, <4>3, SettleTyped DEF PanelInv
        <3> QED BY <3>2, <3>3
    <2> QED BY <2>1, <2>2
<1>6. PanelType'
    BY <1>1, <1>3, <1>4, <1>5 DEF PanelInv, PanelType
<1>7. ASSUME NEW g \in Handlers PROVE Called(g)'
    <2>1. CASE g # h
        BY <1>2, <1>5, <2>1, HandlerMoves DEF PanelInv, Called, Deciding, Telling
    <2>2. CASE g = h /\ proc'[h] = Idle
        BY <2>2 DEF Called, Deciding, Telling, Idle
    <2>3. CASE g = h /\ proc'[h] # Idle
        BY <1>2, <1>5, <2>3, HandlerMoves DEF PanelInv, Called
    <2> QED BY <2>1, <2>2, <2>3
<1> QED BY <1>1, <1>6, <1>7 DEF PanelInv, Carry

LEMMA ServeListKeepsPanel ==
    ASSUME CoreInv, PanelInv, NEW l \in loads, ServeList(l)
    PROVE  /\ PanelInv' /\ Carry
           /\ \A m \in loads : \E k \in loads' : k.user = m.user /\ k.list = m.list
<1> DEFINE n == [l EXCEPT !.pc = "served", !.answer = Answer(l)]
<1>1. l \in LoadRecord
    BY DEF PanelInv, PanelType
<1>2. /\ n \in LoadRecord /\ n.user = l.user /\ n.list = l.list
      /\ n.answer = Answer(n)
    BY <1>1, LoadServed DEF CoreInv
<1>3. loads' = (loads \ {l}) \cup {n}
    BY DEF ServeList
<1> HIDE DEF n
<1>4. PanelType'
    BY <1>2, <1>3 DEF ServeList, PanelInv, PanelType, vars, astray
<1>5. \A h \in Handlers : Called(h)'
    BY DEF ServeList, PanelInv, Called, Telling, Deciding, vars
<1>6. ASSUME NEW k \in loads', k.pc = "served"
      PROVE  Carried(k) \/ (k.answer = Answer(k) /\ rows' = rows /\ friendships' = friendships)
    BY <1>2, <1>3, <1>6 DEF Carried, ServeList, vars
<1> QED BY <1>2, <1>3, <1>4, <1>5, <1>6 DEF PanelInv, Carry

\* A list that is set: nothing of the service changes.
Same == rows' = rows /\ friendships' = friendships /\ proc' = proc

\* What setFriendRequests shows.
Pick(l, i) == IF \E s \in Status : <<i, s>> \in l.answer
                THEN CHOOSE s \in Status : <<i, s>> \in l.answer ELSE "unseen"

LEMMA SetListMeans ==
    ASSUME CoreInv, PanelInv, FriendsRead, NEW l \in loads, SetList(l)
    PROVE  /\ PanelInv' /\ Carry /\ Same
           /\ \A m \in loads \ {l} : \E k \in loads' : k.user = m.user /\ k.list = m.list
           /\ l.list = "friends" => /\ view' = view /\ friends'[l.user] = l.answer
                                    /\ \A u \in Users \ {l.user} : friends'[u] = friends[u]
           /\ l.list = "requests" => /\ friends' = friends
                                     /\ \A i \in Ids : view'[l.user][i] = Pick(l, i)
                                     /\ \A u \in Users \ {l.user} : view'[u] = view[u]
           /\ \A u \in Users, list \in Lists :
                  list \notin overtaken'[u] =>
                      IF u = l.user /\ list = l.list THEN ~l.stale ELSE list \notin overtaken[u]
           /\ ~misled' => ~misled /\ ~l.stale
           /\ l.pc = "served" /\ l.user \in Users /\ l.list \in Lists
<1>1. /\ l \in LoadRecord /\ l.user \in Users /\ l.list \in Lists /\ l.pc = "served"
      /\ l.stale \in BOOLEAN
    BY DEF PanelInv, PanelType, LoadRecord, SetList
<1>2. Same
    BY DEF SetList, Same
<1>3. ASSUME l.list = "friends"
      PROVE  /\ view' = view /\ friends'[l.user] = l.answer
             /\ \A u \in Users \ {l.user} : friends'[u] = friends[u]
             /\ friends' \in [Users -> SUBSET Users]
    <2>1. friends' = [friends EXCEPT ![l.user] = l.answer] /\ view' = view
        BY <1>3 DEF SetList
    <2>2. l.answer \subseteq Users
        BY <1>1, <1>3 DEF FriendsRead
    <2> QED BY <1>1, <2>1, <2>2 DEF PanelInv, PanelType
<1>4. ASSUME l.list = "requests"
      PROVE  /\ friends' = friends
             /\ \A i \in Ids : view'[l.user][i] = Pick(l, i)
             /\ \A u \in Users \ {l.user} : view'[u] = view[u]
             /\ view' \in [Users -> [Ids -> Status \cup {"unseen"}]]
    <2> DEFINE row == [i \in Ids |-> Pick(l, i)]
    <2>1. friends' = friends /\ view' = [view EXCEPT ![l.user] = row]
        BY <1>4 DEF SetList, Pick
    <2>2. row \in [Ids -> Status \cup {"unseen"}] /\ \A i \in Ids : row[i] = Pick(l, i)
        BY DEF Pick
    <2> HIDE DEF row
    <2>3. /\ view' \in [Users -> [Ids -> Status \cup {"unseen"}]] /\ view'[l.user] = row
          /\ \A u \in Users \ {l.user} : view'[u] = view[u]
        BY <1>1, <2>1, <2>2 DEF PanelInv, PanelType
    <2> QED BY <2>1, <2>2, <2>3
<1>5. l.list = "friends" \/ l.list = "requests"
    BY <1>1 DEF Lists
<1>6. /\ view' \in [Users -> [Ids -> Status \cup {"unseen"}]]
      /\ friends' \in [Users -> SUBSET Users]
    BY <1>3, <1>4, <1>5 DEF PanelInv, PanelType
<1>7. /\ overtaken' \in [Users -> SUBSET Lists]
      /\ \A u \in Users, list \in Lists :
             list \notin overtaken'[u] =>
                 IF u = l.user /\ list = l.list THEN ~l.stale ELSE list \notin overtaken[u]
    <2> DEFINE o == IF l.stale THEN overtaken[l.user] \cup {l.list} ELSE overtaken[l.user] \ {l.list}
    <2>1. overtaken' = [overtaken EXCEPT ![l.user] = o]
        BY DEF SetList
    <2>2. o \in SUBSET Lists
        BY <1>1 DEF PanelInv, PanelType
    <2>3. \A list \in Lists : list \notin o => IF list = l.list THEN ~l.stale ELSE list \notin overtaken[l.user]
        BY <1>1
    <2> HIDE DEF o
    <2> QED BY <1>1, <2>1, <2>2, <2>3 DEF PanelInv, PanelType
<1>8. misled' \in BOOLEAN /\ (~misled' => ~misled /\ ~l.stale)
    BY DEF SetList
<1>9. sending' \in [Users -> BOOLEAN] /\ loadingId' \in [Users -> 0..MaxRows]
    <2>1. CASE SameCall(l) = {}
        BY <1>1, <2>1, SettleTyped DEF SetList, PanelInv
    <2>2. CASE SameCall(l) # {}
        BY <2>2 DEF SetList, PanelInv, PanelType
    <2> QED BY <2>1, <2>2
<1> DEFINE B(m) == m.pc = "served" /\ m.user = l.user /\ m.list = l.list
           O(m) == [m EXCEPT !.stale = @ \/ B(m)]
<1>10. loads' = {O(m) : m \in loads \ {l}}
    BY DEF SetList, Others
<1>11. ASSUME NEW m \in loads \ {l}
       PROVE  /\ O(m) \in LoadRecord /\ O(m).user = m.user /\ O(m).list = m.list
              /\ O(m).pc = m.pc /\ O(m).answer = m.answer
              /\ ~O(m).stale => ~m.stale /\ ~B(m)
    <2>1. m \in LoadRecord /\ B(m) \in BOOLEAN
        BY DEF PanelInv, PanelType
    <2> HIDE DEF B
    <2> DEFINE n == O(m)
    <2>2. n = [m EXCEPT !.stale = @ \/ B(m)]
        OBVIOUS
    <2> HIDE DEF n
    <2>3. /\ n \in LoadRecord /\ n.user = m.user /\ n.list = m.list
          /\ n.pc = m.pc /\ n.answer = m.answer
          /\ ~n.stale => ~m.stale /\ ~B(m)
        BY <2>1, <2>2 DEF LoadRecord
    <2> QED BY <2>3 DEF n
<1> HIDE DEF O
<1>12. loads' \subseteq LoadRecord
    BY <1>10, <1>11
<1>13. \A m \in loads \ {l} : \E k \in loads' : k.user = m.user /\ k.list = m.list
    BY <1>10, <1>11
<1>14. ASSUME NEW k \in loads', k.pc = "served" PROVE Carried(k)
    <2>1. PICK m \in loads \ {l} : k = O(m)
        BY <1>10
    <2>2. k.user \in Users /\ k.list \in Lists
        BY <1>12 DEF LoadRecord
    <2>3. /\ m.pc = "served" /\ m.user = k.user /\ m.list = k.list /\ m.answer = k.answer
          /\ ~k.stale => ~m.stale /\ ~(m.user = l.user /\ m.list = l.list)
        BY <1>11, <1>14, <2>1
    <2>4. ~k.stale /\ k.list = "requests" => view'[k.user] = view[k.user]
        BY <1>3, <1>4, <1>5, <2>2, <2>3
    <2> QED BY <1>2, <2>3, <2>4 DEF Carried, Same
<1>15. PanelType'
    <2>1. caller' = caller
        BY DEF SetList
    <2> QED BY <1>6, <1>7, <1>8, <1>9, <1>12, <2>1 DEF PanelInv, PanelType
<1>16. \A h \in Handlers : Called(h)'
    BY <1>2 DEF SetList, PanelInv, Called, Telling, Deciding, Same
<1> QED BY <1>1, <1>2, <1>3, <1>4, <1>7, <1>8, <1>13, <1>14, <1>15, <1>16 DEF PanelInv, Carry

LEMMA ListLostMeans ==
    ASSUME CoreInv, PanelInv, NEW l \in loads, ListLost(l)
    PROVE  /\ PanelInv' /\ Carry /\ Same /\ view' = view /\ friends' = friends /\ misled' = TRUE
           /\ \A m \in loads \ {l} : \E k \in loads' : k.user = m.user /\ k.list = m.list
           /\ \A u \in Users : overtaken[u] \subseteq overtaken'[u]
           /\ l.user \in Users /\ l.list \in overtaken'[l.user]
<1>1. l \in LoadRecord /\ l.user \in Users /\ l.list \in Lists
    BY DEF PanelInv, PanelType, LoadRecord
<1>2. Same /\ view' = view /\ friends' = friends /\ misled' = TRUE /\ caller' = caller
    BY DEF ListLost, Same
<1>3. /\ overtaken' \in [Users -> SUBSET Lists] /\ \A u \in Users : overtaken[u] \subseteq overtaken'[u]
      /\ l.list \in overtaken'[l.user]
    BY <1>1 DEF ListLost, PanelInv, PanelType
<1>4. sending' \in [Users -> BOOLEAN] /\ loadingId' \in [Users -> 0..MaxRows]
    BY <1>1, SettleTyped DEF ListLost, PanelInv
<1> DEFINE D(m) == [m EXCEPT !.for = <<"open", 0>>]
           S == SameCall(l)
<1>5. /\ loads' = ((loads \ {l}) \ S) \cup {D(m) : m \in S}
      /\ S \subseteq loads
    BY DEF ListLost, Others, SameCall
<1>6. ASSUME NEW m \in loads
      PROVE  /\ D(m) \in LoadRecord /\ D(m).user = m.user /\ D(m).list = m.list
             /\ D(m).pc = m.pc /\ D(m).answer = m.answer /\ D(m).stale = m.stale
    BY LoadDetached DEF PanelInv, PanelType
<1> HIDE DEF D, S
<1>7. loads' \subseteq LoadRecord
    BY <1>5, <1>6 DEF PanelInv, PanelType
<1>8. \A m \in loads \ {l} : \E k \in loads' : k.user = m.user /\ k.list = m.list
    BY <1>5, <1>6
<1>9. ASSUME NEW k \in loads', k.pc = "served" PROVE Carried(k)
    <2>1. PICK m \in loads : /\ k.user = m.user /\ k.list = m.list /\ k.pc = m.pc
                             /\ k.answer = m.answer /\ k.stale = m.stale
        BY <1>5, <1>6
    <2> QED BY <1>2, <1>9, <2>1 DEF Carried, Same
<1>10. PanelType'
    BY <1>2, <1>3, <1>4, <1>7 DEF PanelInv, PanelType
<1>11. \A h \in Handlers : Called(h)'
    BY <1>2 DEF PanelInv, Called, Telling, Deciding, Same
<1> QED BY <1>1, <1>2, <1>3, <1>8, <1>9, <1>10, <1>11 DEF PanelInv, Carry

LEMMA OpenKeepsPanel ==
    ASSUME CoreInv, PanelInv, NEW u \in Users, Open(u)
    PROVE  PanelInv' /\ Carry /\ Same /\ loads \subseteq loads'
<1> DEFINE N == {Load(u, list, <<"open", 0>>) : list \in Lists}
<1>1. loads' = loads \cup N
    BY DEF Open
<1>2. <<"open", 0>> \in Causes
    BY BoundsAreNaturals DEF Causes
<1>3. N \subseteq LoadRecord /\ \A l \in N : l.pc = "asked"
    BY <1>2, LoadTyped
<1> HIDE DEF N
<1>4. PanelType'
    BY <1>1, <1>3 DEF Open, PanelInv, PanelType, astray
<1>5. \A h \in Handlers : Called(h)'
    BY DEF Open, PanelInv, Called, Telling, Deciding
<1>6. ASSUME NEW l \in loads', l.pc = "served" PROVE Carried(l)
    BY <1>1, <1>3, <1>6 DEF Carried, Open
<1> QED BY <1>1, <1>4, <1>5, <1>6 DEF PanelInv, Carry, Same, Open

-----------------------------------------------------------------------------
(***************************************************************************)
(* What the panels show of the requests.                                   *)
(***************************************************************************)
\* Requests change only where records will tell of it, clients show only what rows
\* say, and no record is dropped.
Informs ==
    /\ \A i \in DOMAIN rows :
           /\ i \in DOMAIN rows' /\ rows'[i].from = rows[i].from /\ rows'[i].to = rows[i].to
           /\ \/ rows'[i].status = rows[i].status
              \/ rows[i].status = "pending" /\ \A u \in Parties(i) : ToTell(u, i)'
    /\ \A i \in DOMAIN rows' \ DOMAIN rows :
           rows'[i].status = "pending" /\ \A u \in Parties(i)' : ToTell(u, i)'
    /\ \A u \in Users, i \in Ids :
           view'[u][i] = view[u][i] \/ (i \in DOMAIN rows' /\ view'[u][i] = rows'[i].status)
    /\ \A u \in Users, i \in DOMAIN rows :
           ToTell(u, i) => ToTell(u, i)' \/ view'[u][i] = rows'[i].status

\* What every step of a handler does to the requests.
RowsMove(h) ==
    /\ \A i \in DOMAIN rows :
           i \in DOMAIN rows' /\ rows'[i].from = rows[i].from /\ rows'[i].to = rows[i].to
    /\ \A i \in DOMAIN rows' : rows'[i].status = "accepted" =>
           \/ i \in DOMAIN rows /\ rows[i].status = "accepted"
           \/ Telling(h)' /\ proc'[h].id = i /\ proc'[h].as = "accepted"
    /\ At(h, "tellFrom") => /\ Telling(h)' /\ proc'[h].id = proc[h].id
                            /\ proc'[h].as = proc[h].as

\* A step that leaves the requests, the clients and the records to tell as they are.
LEMMA NothingTold ==
    ASSUME rows' = rows, view' = view, NEW h \in Handlers, ~Telling(h),
           \A g \in Handlers \ {h} : proc'[g] = proc[g]
    PROVE  Informs
<1>1. ASSUME NEW u, NEW i, ToTell(u, i) PROVE ToTell(u, i)'
    BY <1>1 DEF ToTell, At, Telling
<1> QED BY <1>1 DEF Informs

LEMMA CheckInforms ==
    ASSUME CoreInv, NEW h \in Handlers, CheckPending(h)
    PROVE  RowsMove(h) /\ Informs
<1>1. rows' = rows /\ view' = view /\ ~Telling(h) /\ ~At(h, "tellFrom")
    BY DEF CheckPending, Telling, At
<1>2. \A g \in Handlers \ {h} : proc'[g] = proc[g]
    BY DEF CheckPending, Go, Return, CoreInv, CoreType
<1> QED BY <1>1, <1>2, NothingTold DEF RowsMove

LEMMA InsertInforms ==
    ASSUME CoreInv, NEW h \in Handlers, InsertRequest(h)
    PROVE  RowsMove(h) /\ Informs
<1> DEFINE r == [from |-> proc[h].from, to |-> proc[h].to, status |-> "pending"]
<1>1. rows' = Append(rows, r) /\ view' = view /\ At(h, "insert")
    BY DEF InsertRequest
<1>2. rows \in Seq(Row) /\ r \in Row /\ r.from = proc[h].from /\ r.to = proc[h].to /\ r.status = "pending"
    BY <1>1 DEF CoreInv, CoreType, Holds, At, Row, Status
<1> HIDE DEF r
<1>0. PICK n \in Nat : n = Len(rows) + 1
    BY <1>2, LenProperties
<1>3. /\ DOMAIN rows' = 1 .. n /\ DOMAIN rows = 1 .. n - 1 /\ n \in Nat \ {0}
      /\ \A i \in 1 .. n - 1 : rows'[i] = rows[i]
      /\ rows'[n] = r
    BY <1>0, <1>1, <1>2, AppendProperties, LenProperties
<1>4. /\ proc'[h].pc = "tellFrom" /\ proc'[h].id = n /\ proc'[h].from = proc[h].from
      /\ proc'[h].to = proc[h].to
      /\ \A g \in Handlers \ {h} : proc'[g] = proc[g]
    BY <1>0 DEF InsertRequest, CoreInv, CoreType, Handler
<1>5. RowsMove(h)
    BY <1>1, <1>2, <1>3 DEF RowsMove, At
<1>6. ASSUME NEW u, NEW i, ToTell(u, i) PROVE ToTell(u, i)'
    BY <1>1, <1>4, <1>6 DEF ToTell, At
<1>7. ASSUME NEW u \in {proc[h].from, proc[h].to} PROVE ToTell(u, n)'
    BY <1>4 DEF ToTell, At
<1>8. \A i \in DOMAIN rows' \ DOMAIN rows :
          rows'[i].status = "pending" /\ \A u \in Parties(i)' : ToTell(u, i)'
    <2>1. \A i \in DOMAIN rows' \ DOMAIN rows : i = n
        BY <1>3
    <2>2. Parties(n)' = {proc[h].from, proc[h].to} /\ rows'[n].status = "pending"
        BY <1>2, <1>3 DEF Parties
    <2> QED BY <1>7, <2>1, <2>2
<1> QED BY <1>1, <1>3, <1>5, <1>6, <1>8 DEF Informs

LEMMA DecisionInforms ==
    ASSUME CoreInv, NEW h \in Handlers, NEW s \in {"accepted", "rejected"}, Deciding(h),
           rows' = [rows EXCEPT ![proc[h].id].status = s],
           proc' = [proc EXCEPT ![h].pc = "tellFrom", ![h].as = s], view' = view
    PROVE  RowsMove(h) /\ (~overlap => Informs)
<1>0. PICK k : k = proc[h].id
    OBVIOUS
<1>1. /\ k \in DOMAIN rows /\ rows[k].from = proc[h].from /\ rows[k].to = proc[h].to
      /\ rows \in Seq(Row) /\ s \in Status
    BY <1>0 DEF CoreInv, CoreType, Holds, Deciding, Status
<1>2. /\ DOMAIN rows' = DOMAIN rows
      /\ \A i \in DOMAIN rows :
             /\ rows'[i].from = rows[i].from /\ rows'[i].to = rows[i].to
             /\ rows'[i].status = IF i = k THEN s ELSE rows[i].status
    BY <1>0, <1>1, StatusSet
<1>3. /\ proc'[h].pc = "tellFrom" /\ proc'[h].id = k /\ proc'[h].as = s
      /\ proc'[h].from = proc[h].from /\ proc'[h].to = proc[h].to
      /\ \A g \in Handlers \ {h} : proc'[g] = proc[g]
    BY <1>0 DEF CoreInv, CoreType, Handler
<1>4. ~At(h, "tellFrom") /\ ~Telling(h)
    BY DEF Deciding, At, Telling
<1>5. RowsMove(h)
    BY <1>2, <1>3, <1>4 DEF RowsMove, Telling
<1>6. ASSUME NEW u, NEW i, ToTell(u, i) PROVE ToTell(u, i)'
    BY <1>3, <1>4, <1>6 DEF ToTell, At, Telling
<1>7. ASSUME NEW u \in Parties(k) PROVE ToTell(u, k)'
    BY <1>1, <1>3 DEF ToTell, At, Parties
<1>8. ASSUME ~overlap PROVE rows[k].status = "pending"
    BY <1>0, <1>8 DEF CoreInv, Stage
<1> QED BY <1>2, <1>5, <1>6, <1>7, <1>8 DEF Informs

LEMMA TellFromInforms ==
    ASSUME CoreInv, PanelInv, NEW h \in Handlers, TellFrom(h)
    PROVE  RowsMove(h) /\ (~overlap => Informs)
<1> DEFINE k == proc[h].id
           a == proc[h].from
<1>1. /\ At(h, "tellFrom") /\ rows' = rows /\ Tell(a, k, proc[h].as) /\ Go(h, "tellTo")
    BY DEF TellFrom
<1>2. /\ a \in Users /\ k \in Ids /\ k \in DOMAIN rows /\ proc[h].as \in Status
      /\ a # proc[h].to
    BY <1>1, BoundsAreNaturals DEF At, CoreInv, CoreType, Holds, Telling, Handler, Ids
<1>3. /\ view'[a][k] = proc[h].as
      /\ \A v \in Users, j \in Ids : v # a \/ j # k => view'[v][j] = view[v][j]
    BY <1>1, <1>2, TellView DEF PanelInv
<1>4. /\ proc'[h].pc = "tellTo" /\ proc'[h].id = k /\ proc'[h].as = proc[h].as
      /\ proc'[h].to = proc[h].to /\ \A g \in Handlers \ {h} : proc'[g] = proc[g]
    BY <1>1, GoRecord DEF CoreInv, PC
<1>5. RowsMove(h)
    BY <1>1, <1>4 DEF RowsMove, Telling
<1>6. ASSUME ~overlap PROVE rows[k].status = proc[h].as
    BY <1>1, <1>6 DEF CoreInv, Stage, Telling, At
<1> HIDE DEF a, k
<1>7. ASSUME ~overlap, NEW u, NEW i, ToTell(u, i) PROVE ToTell(u, i)' \/ view'[u][i] = rows'[i].status
    <2>1. PICK g \in Handlers : /\ proc[g].id = i
                                /\ \/ At(g, "tellFrom") /\ u \in {proc[g].from, proc[g].to}
                                   \/ At(g, "tellTo") /\ u = proc[g].to
        BY <1>7 DEF ToTell
    <2>2. CASE g # h
        BY <1>4, <2>1, <2>2 DEF ToTell, At
    <2>3. CASE g = h /\ u = proc[h].to
        BY <1>4, <2>1, <2>3 DEF ToTell, At, k
    <2>4. CASE g = h /\ u = a
        BY <1>1, <1>3, <1>6, <1>7, <2>1, <2>4 DEF k
    <2> QED BY <1>1, <2>1, <2>2, <2>3, <2>4 DEF At, a
<1>8. ASSUME ~overlap, NEW u \in Users, NEW i \in Ids
      PROVE  view'[u][i] = view[u][i] \/ (i \in DOMAIN rows' /\ view'[u][i] = rows'[i].status)
    BY <1>1, <1>2, <1>3, <1>6, <1>8
<1> QED BY <1>1, <1>5, <1>7, <1>8 DEF Informs

LEMMA TellToInforms ==
    ASSUME CoreInv, PanelInv, NEW h \in Handlers, TellTo(h)
    PROVE  RowsMove(h) /\ (~overlap => Informs)
<1> DEFINE k == proc[h].id
           b == proc[h].to
<1>1. /\ At(h, "tellTo") /\ rows' = rows /\ Tell(b, k, proc[h].as) /\ Return(h)
    BY DEF TellTo
<1>2. b \in Users /\ k \in Ids /\ k \in DOMAIN rows /\ proc[h].as \in Status
    BY <1>1, BoundsAreNaturals DEF At, CoreInv, CoreType, Holds, Telling, Handler, Ids
<1>3. /\ view'[b][k] = proc[h].as
      /\ \A v \in Users, j \in Ids : v # b \/ j # k => view'[v][j] = view[v][j]
    BY <1>1, <1>2, TellView DEF PanelInv
<1>4. \A g \in Handlers \ {h} : proc'[g] = proc[g]
    BY <1>1, ReturnRecord DEF CoreInv
<1>5. RowsMove(h)
    BY <1>1 DEF RowsMove, At
<1>6. ASSUME ~overlap PROVE rows[k].status = proc[h].as
    BY <1>1, <1>6 DEF CoreInv, Stage, Telling, At
<1> HIDE DEF b, k
<1>7. ASSUME ~overlap, NEW u, NEW i, ToTell(u, i) PROVE ToTell(u, i)' \/ view'[u][i] = rows'[i].status
    <2>1. PICK g \in Handlers : /\ proc[g].id = i
                                /\ \/ At(g, "tellFrom") /\ u \in {proc[g].from, proc[g].to}
                                   \/ At(g, "tellTo") /\ u = proc[g].to
        BY <1>7 DEF ToTell
    <2>2. CASE g # h
        BY <1>4, <2>1, <2>2 DEF ToTell, At
    <2>3. CASE g = h
        BY <1>1, <1>3, <1>6, <1>7, <2>1, <2>3 DEF k, b, At
    <2> QED BY <2>2, <2>3
<1>8. ASSUME ~overlap, NEW u \in Users, NEW i \in Ids
      PROVE  view'[u][i] = view[u][i] \/ (i \in DOMAIN rows' /\ view'[u][i] = rows'[i].status)
    BY <1>1, <1>2, <1>3, <1>6, <1>8
<1> QED BY <1>1, <1>5, <1>7, <1>8 DEF Informs

LEMMA HandlerInforms ==
    ASSUME CoreInv, PanelInv, NEW h \in Handlers, HandlerStep(h)
    PROVE  RowsMove(h) /\ (~overlap => Informs)
<1>1. CASE AcceptTx(h)
    <2>1. CASE Pair(proc[h]) \cap friendships = {}
        BY <1>1, <2>1, DecisionInforms DEF AcceptTx, Deciding, At
    <2>2. CASE Pair(proc[h]) \cap friendships # {}
        <3>1. rows' = rows /\ view' = view /\ ~Telling(h) /\ ~At(h, "tellFrom")
            BY <1>1, <2>2 DEF AcceptTx, Telling, At
        <3>2. \A g \in Handlers \ {h} : proc'[g] = proc[g]
            BY <1>1, <2>2 DEF AcceptTx, Return, CoreInv, CoreType
        <3> QED BY <3>1, <3>2, NothingTold DEF RowsMove
    <2> QED BY <2>1, <2>2
<1>2. CASE RejectTx(h)
    BY <1>2, DecisionInforms DEF RejectTx, Deciding, At
<1> QED BY <1>1, <1>2, CheckInforms, InsertInforms, TellFromInforms, TellToInforms DEF HandlerStep

LEMMA RowTyped ==
    ASSUME CoreInv, NEW i \in DOMAIN rows
    PROVE  /\ rows[i].from \in Users /\ rows[i].to \in Users /\ rows[i].status \in Status
           /\ i \in Ids
<1>1. rows[i] \in Row /\ i \in 1..Len(rows) /\ Len(rows) <= MaxRows
    BY DEF CoreInv, CoreType
<1>2. rows[i].from \in Users /\ rows[i].to \in Users /\ rows[i].status \in Status
    BY <1>1 DEF Row
<1> QED BY <1>1, <1>2, BoundsAreNaturals DEF Ids

\* Answers that are not outdated stay true.
LEMMA FriendsReadStays ==
    ASSUME PanelType', Carry, FriendsRead
    PROVE  FriendsRead'
<1> SUFFICES ASSUME NEW l \in loads', l.list = "friends", l.pc = "served"
             PROVE  /\ l.answer \subseteq Users
                    /\ ~l.stale => l.answer = {b \in Users : Friends(l.user, b)'}
    BY DEF FriendsRead
<1>1. CASE Carried(l)
    <2>1. PICK m \in loads :
             /\ m.pc = "served" /\ m.user = l.user /\ m.list = l.list /\ m.answer = l.answer
             /\ ~l.stale => ~m.stale /\ friendships' = friendships
        BY <1>1 DEF Carried
    <2> QED BY <2>1 DEF FriendsRead, Friends
<1>2. CASE l.answer = Answer(l) /\ friendships' = friendships
    BY <1>2 DEF Answer, Friends
<1> QED BY <1>1, <1>2 DEF Carry

\* The new friend still comes, if the list of the one who approved is not set.
LEMMA FriendStillComes ==
    ASSUME NEW i \in DOMAIN rows, FriendComes(i),
           rows'[i].from = rows[i].from, rows'[i].to = rows[i].to,
           "friends" \in overtaken[rows[i].to] => "friends" \in overtaken'[rows[i].to],
           rows[i].from \in friends[rows[i].to] => rows[i].from \in friends'[rows[i].to],
           \A h \in Handlers : Telling(h) /\ proc[h].id = i /\ proc[h].as = "accepted" =>
               \/ Telling(h)' /\ proc'[h].id = i /\ proc'[h].as = "accepted"
               \/ \E k \in loads' : k.user = rows[i].to /\ k.list = "friends",
           \A m \in loads : m.list = "friends" => \/ \E k \in loads' : k.user = m.user /\ k.list = m.list
                                                 \/ m.user # rows[i].to
    PROVE  FriendComes(i)'
BY DEF FriendComes

LEMMA FriendsStep ==
    ASSUME CoreInv, PanelInv, FriendsInv, ContactsNext, PanelInv', CoreInv'
    PROVE  FriendsInv'
<1> DEFINE Comes == \A i \in DOMAIN rows' : rows'[i].status = "accepted" => FriendComes(i)'
<1>1. ASSUME Carry, Comes PROVE FriendsInv'
    BY <1>1, FriendsReadStays DEF FriendsInv, PanelInv
<1>2. ASSUME Clicked PROVE FriendsInv'
    <2>1. Carry
        BY <1>2 DEF Clicked, Carry, Carried
    <2>2. \A h \in Handlers : Telling(h) => proc'[h] = proc[h]
        BY <1>2 DEF Clicked, Telling, At
    <2>3. Comes
        BY <1>2, <2>2, FriendStillComes DEF Clicked, FriendsInv, Telling
    <2> QED BY <1>1, <2>1, <2>3
<1>3. ASSUME Same, Carry, friends' = friends, \A u \in Users : overtaken[u] \subseteq overtaken'[u],
             \A m \in loads : \/ \E k \in loads' : k.user = m.user /\ k.list = m.list
                              \/ m.list \in overtaken'[m.user]
      PROVE  FriendsInv'
    <2>1. ASSUME NEW i \in DOMAIN rows, rows[i].status = "accepted" PROVE FriendComes(i)'
        <3>1. rows[i].to \in Users /\ FriendComes(i)
            BY <2>1, RowTyped DEF FriendsInv
        <3>2. CASE "friends" \in overtaken'[rows[i].to]
            BY <1>3, <3>2 DEF FriendComes, Same
        <3>3. CASE "friends" \notin overtaken'[rows[i].to]
            BY <1>3, <2>1, <3>1, <3>3, FriendStillComes DEF Same, Telling
        <3> QED BY <3>2, <3>3
    <2> QED BY <1>1, <1>3, <2>1 DEF Same
<1>4. ASSUME NEW h \in Handlers, Serve(h) PROVE FriendsInv'
    <2>1. Carry /\ HandlerStep(h) /\ RowsMove(h)
        BY <1>4, ServeKeepsPanel, HandlerInforms DEF Serve
    <2>2. /\ \A m \in loads : \E k \in loads' : k.user = m.user /\ k.list = m.list
          /\ At(h, "tellTo") /\ proc[h].as = "accepted" =>
                 \E k \in loads' : k.user = proc[h].to /\ k.list = "friends"
        BY <1>4, ServePanel
    <2>3. friends' = friends /\ overtaken' = overtaken /\ \A g \in Handlers \ {h} : proc'[g] = proc[g]
        BY <1>4, <2>1, HandlerMoves DEF Serve, astray
    <2>4. ASSUME NEW i \in DOMAIN rows', rows'[i].status = "accepted" PROVE FriendComes(i)'
        <3>1. CASE Telling(h)' /\ proc'[h].id = i /\ proc'[h].as = "accepted"
            BY <3>1 DEF FriendComes
        <3>2. CASE i \in DOMAIN rows /\ rows[i].status = "accepted"
            <4>1. FriendComes(i) /\ rows'[i].from = rows[i].from /\ rows'[i].to = rows[i].to
                BY <2>1, <3>2 DEF FriendsInv, RowsMove
            <4>2. ASSUME NEW g \in Handlers, Telling(g), proc[g].id = i, proc[g].as = "accepted"
                  PROVE  \/ Telling(g)' /\ proc'[g].id = i /\ proc'[g].as = "accepted"
                         \/ \E k \in loads' : k.user = rows[i].to /\ k.list = "friends"
                <5>1. CASE g # h
                    BY <2>3, <4>2, <5>1 DEF Telling
                <5>2. CASE g = h /\ At(h, "tellFrom")
                    BY <2>1, <4>2, <5>2 DEF RowsMove
                <5>3. CASE g = h /\ At(h, "tellTo")
                    BY <2>2, <4>2, <5>3 DEF CoreInv, Holds, Telling
                <5> QED BY <4>2, <5>1, <5>2, <5>3 DEF Telling, At
            <4> QED BY <2>2, <2>3, <3>2, <4>1, <4>2, FriendStillComes
        <3> QED BY <2>1, <2>4, <3>1, <3>2 DEF RowsMove
    <2> QED BY <1>1, <2>1, <2>4
<1>5. ASSUME NEW l \in loads, SetList(l) PROVE FriendsInv'
    <2> DEFINE Rest == \A m \in loads \ {l} : \E k \in loads' : k.user = m.user /\ k.list = m.list
    <2>0. FriendsRead
        BY DEF FriendsInv
    <2>1. /\ Carry /\ Same /\ Rest
          /\ l.list = "friends" => /\ friends'[l.user] = l.answer
                                   /\ \A u \in Users \ {l.user} : friends'[u] = friends[u]
          /\ l.list = "requests" => friends' = friends
          /\ \A u \in Users, list \in Lists :
                 list \notin overtaken'[u] =>
                     IF u = l.user /\ list = l.list THEN ~l.stale ELSE list \notin overtaken[u]
          /\ l.pc = "served" /\ l.user \in Users /\ l.list \in Lists
        BY <1>5, <2>0, SetListMeans
    <2>2. ASSUME NEW i \in DOMAIN rows, rows[i].status = "accepted" PROVE FriendComes(i)'
        <3> DEFINE b == rows[i].to
        <3>1. /\ b \in Users /\ rows[i].from \in Users /\ FriendComes(i)
              /\ Friends(b, rows[i].from)
            BY <2>2, RowTyped DEF CoreInv, FriendsInv, AcceptedAreFriends, FriendshipIsMutual
        <3>2. CASE "friends" \in overtaken'[b]
            BY <2>1, <3>2 DEF FriendComes, Same
        <3>3. CASE "friends" \notin overtaken'[b] /\ l.list = "friends" /\ l.user = b
            <4>1. ~l.stale
                BY <2>1, <3>1, <3>3 DEF Lists
            <4>2. rows[i].from \in l.answer
                BY <2>0, <2>1, <3>1, <3>3, <4>1 DEF FriendsRead
            <4> QED BY <2>1, <3>3, <4>2 DEF FriendComes, Same
        <3>4. CASE "friends" \notin overtaken'[b] /\ ~(l.list = "friends" /\ l.user = b)
            <4>1. "friends" \notin overtaken[b] /\ friends'[b] = friends[b]
                BY <2>1, <3>1, <3>4 DEF Lists
            <4> QED BY <2>1, <2>2, <3>1, <3>4, <4>1, FriendStillComes DEF Same, Telling
        <3> QED BY <3>2, <3>3, <3>4
    <2> QED BY <1>1, <2>1, <2>2 DEF Same
<1>6. ASSUME NEW l \in loads, ListLost(l) PROVE FriendsInv'
    BY <1>3, <1>6, ListLostMeans
<1>7. ASSUME NEW l \in loads, ServeList(l) PROVE FriendsInv'
    BY <1>3, <1>7, ServeListKeepsPanel DEF ServeList, Same, vars, astray
<1>8. ASSUME NEW u \in Users, Open(u) PROVE FriendsInv'
    BY <1>3, <1>8, OpenKeepsPanel DEF Open, astray
<1>9. ASSUME NEW u \in Users, NEW i \in DOMAIN rows, DecisionRefused(u, i) PROVE FriendsInv'
    BY <1>3, <1>9 DEF DecisionRefused, Same, astray, Carry, Carried
<1> QED BY <1>2, <1>4, <1>5, <1>6, <1>7, <1>8, <1>9, SendKeepsPanel, DecisionKeepsPanel DEF ContactsNext

LEMMA AnswerIs ==
    ASSUME NEW l, l.list = "requests", l.answer = Answer(l), NEW i, NEW s
    PROVE  <<i, s>> \in l.answer <=> i \in DOMAIN rows /\ l.user \in Parties(i) /\ s = rows[i].status
BY DEF Answer

\* With requests one at a time, a step that informs keeps what the clients show.
LEMMA InformedStay ==
    ASSUME CoreInv, CoreInv', PanelInv, PanelInv', ListInv, Carry, Informs,
           \A u \in Users : "requests" \in overtaken[u] => "requests" \in overtaken'[u]
    PROVE  ListInv'
<1>1. \A l \in loads' : l.user \in Users
    BY DEF PanelInv, PanelType, LoadRecord
<1>2. ASSUME NEW i \in DOMAIN rows'
      PROVE  rows'[i].status \in Status /\ i \in Ids
    <2>1. rows'[i] \in Row /\ i \in 1..Len(rows') /\ Len(rows') <= MaxRows
        BY DEF CoreInv, CoreType
    <2>2. rows'[i].status \in Status
        BY <2>1 DEF Row
    <2> QED BY <2>1, <2>2, BoundsAreNaturals DEF Ids
<1>3. Past'
    <2> SUFFICES ASSUME NEW u \in Users, NEW i \in Ids, view'[u][i] # "unseen"
                 PROVE  i \in DOMAIN rows' /\ view'[u][i] \in {"pending", rows'[i].status}
        BY DEF Past
    <2>1. CASE view'[u][i] = view[u][i]
        <3>1. i \in DOMAIN rows /\ view[u][i] \in {"pending", rows[i].status}
            BY <2>1 DEF ListInv, Past
        <3> QED BY <2>1, <3>1 DEF Informs
    <2>2. CASE i \in DOMAIN rows' /\ view'[u][i] = rows'[i].status
        BY <2>2
    <2> QED BY <2>1, <2>2 DEF Informs
<1>4. ReadPast'
    <2> SUFFICES ASSUME NEW l \in loads', l.list = "requests", l.pc = "served",
                        NEW i \in Ids, NEW s \in Status, <<i, s>> \in l.answer
                 PROVE  i \in DOMAIN rows' /\ s \in {"pending", rows'[i].status}
        BY DEF ReadPast
    <2>1. CASE Carried(l)
        <3>1. i \in DOMAIN rows /\ s \in {"pending", rows[i].status}
            BY <2>1 DEF Carried, ListInv, ReadPast
        <3> QED BY <3>1 DEF Informs
    <2>2. CASE l.answer = Answer(l) /\ rows' = rows
        BY <2>2, AnswerIs
    <2> QED BY <2>1, <2>2 DEF Carry
<1>5. ReadNow'
    <2> SUFFICES ASSUME NEW l \in loads', l.list = "requests", l.pc = "served", ~l.stale,
                        NEW i \in DOMAIN rows', l.user \in Parties(i)'
                 PROVE  \/ \A s \in Status : <<i, s>> \in l.answer <=> s = rows'[i].status
                        \/ ToTell(l.user, i)' /\ view'[l.user][i] # rows'[i].status
        BY DEF ReadNow
    <2>0. PICK u \in Users : u = l.user
        BY <1>1
    <2>1. CASE Carried(l)
        <3>1. PICK m \in loads :
                 /\ m.pc = "served" /\ m.user = u /\ m.list = "requests" /\ m.answer = l.answer
                 /\ ~m.stale /\ view'[u] = view[u]
            BY <2>0, <2>1 DEF Carried
        <3>2. CASE i \notin DOMAIN rows
            <4>1. view[u][i] = "unseen"
                BY <1>2, <3>2 DEF ListInv, Past
            <4>2. ToTell(u, i)' /\ rows'[i].status = "pending"
                BY <2>0, <3>2 DEF Informs
            <4> QED BY <2>0, <3>1, <4>1, <4>2
        <3>3. CASE i \in DOMAIN rows /\ rows'[i].status # rows[i].status
            <4>1. rows[i].status = "pending" /\ ToTell(u, i)'
                BY <2>0, <3>3 DEF Informs, Parties
            <4>2. view[u][i] \in {"pending", "unseen"}
                BY <1>2, <4>1 DEF ListInv, Past
            <4>3. rows'[i].status \notin {"pending", "unseen"}
                BY <1>2, <3>3, <4>1 DEF Status
            <4> QED BY <2>0, <3>1, <4>1, <4>2, <4>3
        <3>4. CASE i \in DOMAIN rows /\ rows'[i].status = rows[i].status
            <4>1. u \in Parties(i)
                BY <2>0, <3>4 DEF Informs, Parties
            <4>2. \/ \A s \in Status : <<i, s>> \in m.answer <=> s = rows[i].status
                  \/ ToTell(u, i) /\ view[u][i] # rows[i].status
                BY <3>1, <3>4, <4>1 DEF ListInv, ReadNow
            <4>3. ToTell(u, i) => ToTell(u, i)' \/ view'[u][i] = rows'[i].status
                BY <3>4 DEF Informs
            <4> QED BY <2>0, <3>1, <3>4, <4>2, <4>3
        <3> QED BY <3>2, <3>3, <3>4
    <2>2. CASE l.answer = Answer(l) /\ rows' = rows
        BY <2>2, AnswerIs DEF Parties
    <2> QED BY <2>1, <2>2 DEF Carry
<1>6. ShownNow'
    <2> SUFFICES ASSUME NEW i \in DOMAIN rows', NEW u \in Users, u \in Parties(i)',
                        "requests" \notin overtaken'[u]
                 PROVE  view'[u][i] = rows'[i].status \/ ToTell(u, i)'
        BY DEF ShownNow
    <2>1. CASE i \notin DOMAIN rows
        BY <2>1 DEF Informs
    <2>2. CASE i \in DOMAIN rows /\ rows'[i].status # rows[i].status
        BY <2>2 DEF Informs, Parties
    <2>3. CASE i \in DOMAIN rows /\ rows'[i].status = rows[i].status
        <3>1. u \in Parties(i)
            BY <2>3 DEF Informs, Parties
        <3>2. view[u][i] = rows[i].status \/ ToTell(u, i)
            BY <2>3, <3>1 DEF ListInv, ShownNow
        <3> QED BY <1>2, <2>3, <3>2 DEF Informs
    <2> QED BY <2>1, <2>2, <2>3
<1> QED BY <1>3, <1>4, <1>5, <1>6 DEF ListInv

\* A list of requests that is set is the list of now, or stale.
LEMMA SetListStays ==
    ASSUME CoreInv, PanelInv, FriendsInv, ListInv, PanelInv', NEW l \in loads, SetList(l)
    PROVE  ListInv'
<1>0. FriendsRead
    BY DEF FriendsInv
<1>1. /\ Carry /\ Same
      /\ l.list = "friends" => view' = view
      /\ l.list = "requests" => /\ \A i \in Ids : view'[l.user][i] = Pick(l, i)
                                /\ \A u \in Users \ {l.user} : view'[u] = view[u]
      /\ \A u \in Users, list \in Lists :
             list \notin overtaken'[u] =>
                 IF u = l.user /\ list = l.list THEN ~l.stale ELSE list \notin overtaken[u]
      /\ l.pc = "served" /\ l.user \in Users /\ l.list \in Lists
    BY <1>0, SetListMeans
<1>2. ASSUME NEW u, NEW i PROVE ToTell(u, i)' <=> ToTell(u, i)
    BY <1>1 DEF Same, ToTell, At
<1>3. Past'
    <2> SUFFICES ASSUME NEW u \in Users, NEW i \in Ids, view'[u][i] # "unseen"
                 PROVE  i \in DOMAIN rows /\ view'[u][i] \in {"pending", rows[i].status}
        BY <1>1 DEF Past, Same
    <2>1. CASE l.list = "requests" /\ u = l.user
        <3>1. view'[u][i] = Pick(l, i)
            BY <1>1, <2>1
        <3>2. \E s \in Status : <<i, s>> \in l.answer
            BY <3>1 DEF Pick
        <3>3. view'[u][i] \in Status /\ <<i, view'[u][i]>> \in l.answer
            BY <3>1, <3>2 DEF Pick
        <3> QED BY <1>1, <2>1, <3>3 DEF ListInv, ReadPast
    <2>2. CASE ~(l.list = "requests" /\ u = l.user)
        BY <1>1, <2>2 DEF ListInv, Past, Lists
    <2> QED BY <2>1, <2>2
<1>4. ASSUME NEW k \in loads', k.pc = "served", k.list = "requests"
      PROVE  \/ \E m \in loads :
                   /\ m.pc = "served" /\ m.user = k.user /\ m.list = "requests" /\ m.answer = k.answer
                   /\ ~k.stale => ~m.stale /\ view'[k.user] = view[k.user]
             \/ k.answer = Answer(k)
    BY <1>1, <1>4 DEF Carry, Carried
<1>5. ReadPast'
    <2> SUFFICES ASSUME NEW k \in loads', k.list = "requests", k.pc = "served",
                        NEW i \in Ids, NEW s \in Status, <<i, s>> \in k.answer
                 PROVE  i \in DOMAIN rows /\ s \in {"pending", rows[i].status}
        BY <1>1 DEF ReadPast, Same
    <2>1. CASE k.answer = Answer(k)
        BY <2>1, AnswerIs
    <2>2. CASE k.answer # Answer(k)
        BY <1>4, <2>2 DEF ListInv, ReadPast
    <2> QED BY <2>1, <2>2
<1>6. ReadNow'
    <2> SUFFICES ASSUME NEW k \in loads', k.list = "requests", k.pc = "served", ~k.stale,
                        NEW i \in DOMAIN rows, k.user \in Parties(i)
                 PROVE  \/ \A s \in Status : <<i, s>> \in k.answer <=> s = rows[i].status
                        \/ ToTell(k.user, i)' /\ view'[k.user][i] # rows[i].status
        BY <1>1 DEF ReadNow, Same, Parties
    <2>1. CASE k.answer = Answer(k)
        BY <2>1, AnswerIs
    <2>2. CASE k.answer # Answer(k)
        <3>1. PICK m \in loads :
                   /\ m.pc = "served" /\ m.user = k.user /\ m.list = "requests" /\ m.answer = k.answer
                   /\ ~m.stale /\ view'[k.user] = view[k.user]
            BY <1>4, <2>2
        <3>2. \/ \A s \in Status : <<i, s>> \in m.answer <=> s = rows[i].status
              \/ ToTell(k.user, i) /\ view[k.user][i] # rows[i].status
            BY <3>1 DEF ListInv, ReadNow
        <3> QED BY <1>2, <3>1, <3>2
    <2> QED BY <2>1, <2>2
<1>7. ShownNow'
    <2> SUFFICES ASSUME NEW i \in DOMAIN rows, NEW u \in Users, u \in Parties(i),
                        "requests" \notin overtaken'[u]
                 PROVE  view'[u][i] = rows[i].status \/ ToTell(u, i)'
        BY <1>1 DEF ShownNow, Same, Parties
    <2>1. CASE l.list = "requests" /\ u = l.user
        <3>1. ~l.stale
            BY <1>1, <2>1 DEF Lists
        <3>2. \/ \A s \in Status : <<i, s>> \in l.answer <=> s = rows[i].status
              \/ ToTell(u, i)
            BY <1>1, <2>1, <3>1 DEF ListInv, ReadNow
        <3>3. ASSUME \A s \in Status : <<i, s>> \in l.answer <=> s = rows[i].status
              PROVE  view'[u][i] = rows[i].status
            <4>1. rows[i].status \in Status /\ i \in Ids
                BY RowTyped
            <4>2. Pick(l, i) \in Status /\ <<i, Pick(l, i)>> \in l.answer
                BY <3>3, <4>1 DEF Pick
            <4> QED BY <1>1, <2>1, <3>3, <4>1, <4>2
        <3> QED BY <1>2, <3>2, <3>3
    <2>2. CASE ~(l.list = "requests" /\ u = l.user)
        <3>1. view'[u] = view[u] /\ "requests" \notin overtaken[u]
            BY <1>1, <2>2 DEF Lists
        <3> QED BY <1>2, <3>1 DEF ListInv, ShownNow
    <2> QED BY <2>1, <2>2
<1> QED BY <1>3, <1>5, <1>6, <1>7 DEF ListInv

LEMMA ListStep ==
    ASSUME CoreInv, PanelInv, FriendsInv, ~overlap => ListInv, ContactsNext, CoreInv', PanelInv', ~overlap'
    PROVE  ListInv'
<1>1. ASSUME Carry, Informs, ~overlap, overtaken' = overtaken PROVE ListInv'
    BY <1>1, InformedStay
<1>2. ASSUME rows' = rows, view' = view, \A h \in Handlers : Telling(h) => proc'[h] = proc[h]
      PROVE  Informs
    <2>1. ASSUME NEW u, NEW i, ToTell(u, i) PROVE ToTell(u, i)'
        BY <1>2, <2>1 DEF ToTell, At, Telling
    <2> QED BY <1>2, <2>1 DEF Informs
<1>3. ASSUME Clicked, ~overlap PROVE ListInv'
    <2>1. Carry
        BY <1>3 DEF Clicked, Carry, Carried
    <2>2. \A h \in Handlers : Telling(h) => proc'[h] = proc[h]
        BY <1>3 DEF Clicked, Telling, At
    <2> QED BY <1>1, <1>2, <1>3, <2>1, <2>2 DEF Clicked
<1>4. ASSUME NEW u \in Users, NEW h \in Handlers, NEW b \in Users, SendFriendRequest(u, h, b)
      PROVE  ListInv'
    <2>1. ~overlap
        BY <1>4 DEF SendFriendRequest, CreateFriendRequest, Admit
    <2> QED BY <1>3, <1>4, <2>1, SendKeepsPanel
<1>5. ASSUME NEW u \in Users, NEW h \in Handlers, NEW i \in DOMAIN rows, HandleDecision(u, h, i)
      PROVE  ListInv'
    <2>1. ~overlap
        BY <1>5 DEF HandleDecision, ApproveFriendRequest, RejectFriendRequest, Decide, Admit
    <2> QED BY <1>3, <1>5, <2>1, DecisionKeepsPanel
<1>6. ASSUME NEW h \in Handlers, Serve(h) PROVE ListInv'
    <2>1. HandlerStep(h) /\ overtaken' = overtaken
        BY <1>6 DEF Serve, astray
    <2>2. overlap' = overlap
        BY <2>1 DEF HandlerStep, CheckPending, InsertRequest, AcceptTx, RejectTx, TellFrom, TellTo, bounds
    <2> QED BY <1>1, <1>6, <2>1, <2>2, ServeKeepsPanel, HandlerInforms
<1>7. ASSUME NEW l \in loads, SetList(l) PROVE ListInv'
    <2>1. ~overlap
        BY <1>7 DEF SetList, bounds
    <2> QED BY <1>7, <2>1, SetListStays
<1>8. ASSUME NEW l \in loads, ListLost(l) PROVE ListInv'
    <2>1. /\ Carry /\ Same /\ view' = view /\ \A u \in Users : overtaken[u] \subseteq overtaken'[u]
        BY <1>8, ListLostMeans
    <2>2. ~overlap
        BY <1>8 DEF ListLost
    <2>3. Informs
        BY <1>2, <2>1 DEF Same
    <2> QED BY <2>1, <2>2, <2>3, InformedStay
<1>9. ASSUME NEW l \in loads, ServeList(l) PROVE ListInv'
    BY <1>1, <1>2, <1>9, ServeListKeepsPanel DEF ServeList, vars, bounds, astray
<1>10. ASSUME NEW u \in Users, Open(u) PROVE ListInv'
    BY <1>1, <1>2, <1>10, OpenKeepsPanel DEF Open, astray
<1>11. ASSUME NEW u \in Users, NEW i \in DOMAIN rows, DecisionRefused(u, i) PROVE ListInv'
    <2>1. Carry
        BY <1>11 DEF DecisionRefused, Carry, Carried
    <2> QED BY <1>1, <1>2, <1>11, <2>1 DEF DecisionRefused, astray
<1> QED BY <1>4, <1>5, <1>6, <1>7, <1>8, <1>9, <1>10, <1>11 DEF ContactsNext

-----------------------------------------------------------------------------
(***************************************************************************)
(* Requests against each other.                                            *)
(***************************************************************************)
\* Nothing of the requests, the friends and the askers changes.
LEMMA IdleStays ==
    ASSUME IdleInv, rows' = rows, friendships' = friendships, overtaken' = overtaken,
           NEW h \in Handlers, proc'[h].pc \in {"pendingCheck", "insert"} => Asking(h)',
           \A g \in Handlers \ {h} : proc'[g] = proc[g]
    PROVE  IdleInv'
<1>1. NoneIdle'
    BY DEF IdleInv, NoneIdle, Pending, Friends
<1>2. \A g \in Handlers : Asking(g)'
    BY DEF IdleInv, Asking, Pending, Friends
<1> QED BY <1>1, <1>2 DEF IdleInv

\* The dialog offers nobody with a request the panel shows, and with nothing to tell it
\* shows them all.
LEMMA SendStays ==
    ASSUME CoreInv, PanelInv, ListInv, IdleInv, NEW u \in Users, NEW h \in Handlers, NEW b \in Users,
           SendFriendRequest(u, h, b), ~overlap', ~misled'
    PROVE  IdleInv'
<1>1. /\ \A g \in Handlers : At(g, "idle")
      /\ ~Friends(u, b) /\ rows' = rows /\ friendships' = friendships /\ overtaken' = overtaken
      /\ b \in Available(u)
    BY DEF SendFriendRequest, CreateFriendRequest, Admit
<1>2. /\ proc'[h].pc = "pendingCheck" /\ proc'[h].from = u /\ proc'[h].to = b
      /\ \A g \in Handlers \ {h} : proc'[g] = proc[g]
    BY DEF SendFriendRequest, CreateFriendRequest, CoreInv, CoreType
<1>3. Pending(b, u) = {}
    <2> SUFFICES ASSUME NEW i \in Pending(b, u) PROVE FALSE
        OBVIOUS
    <2>1. /\ i \in DOMAIN rows /\ rows[i].from = b /\ rows[i].to = u /\ rows[i].status = "pending"
        BY PendingIs DEF CoreInv, CoreType
    <2>2. ~ToTell(u, i)
        BY <1>1 DEF ToTell, At
    <2>3. view[u][i] = "pending"
        BY <2>1, <2>2 DEF ListInv, ShownNow, IdleInv, Parties
    <2> QED BY <1>1, <2>1, <2>3 DEF Available, Shown, Parties
<1>4. Asking(h)'
    BY <1>1, <1>2, <1>3 DEF Asking, Pending, Friends
<1> QED BY <1>1, <1>2, <1>4, IdleStays

LEMMA InsertStays ==
    ASSUME CoreInv, CoreInv', IdleInv, NEW h \in Handlers, InsertRequest(h), ~overlap, overtaken' = overtaken
    PROVE  IdleInv'
<1>0. PICK a \in Users, b \in Users : a = proc[h].from /\ b = proc[h].to /\ a # b
    BY DEF InsertRequest, At, CoreInv, Holds
<1> DEFINE r == [from |-> a, to |-> b, status |-> "pending"]
<1>1. /\ rows' = Append(rows, r) /\ friendships' = friendships /\ At(h, "insert")
      /\ r.from = a /\ r.to = b /\ rows \in Seq(Row) /\ rows' \in Seq(Row)
    BY <1>0 DEF InsertRequest, CoreInv, CoreType
<1>2. r \in Row
    BY <1>0 DEF Row, Status
<1> HIDE DEF r
<1>3. /\ DOMAIN rows' = 1 .. Len(rows) + 1 /\ DOMAIN rows = 1 .. Len(rows) /\ Len(rows) \in Nat
      /\ \A i \in 1 .. Len(rows) : rows'[i] = rows[i]
      /\ rows'[Len(rows) + 1] = r
    BY <1>1, <1>2, AppendProperties, LenProperties
<1>4. ASSUME NEW c \in Users, NEW d \in Users, c # a \/ d # b PROVE Pending(c, d)' = Pending(c, d)
    <2>1. ASSUME NEW i \in Pending(c, d)' PROVE i \in Pending(c, d)
        BY <1>1, <1>3, <1>4, PendingIs, PendingIsNext
    <2>2. ASSUME NEW i \in Pending(c, d) PROVE i \in Pending(c, d)'
        BY <1>1, <1>3, PendingIs, PendingIsNext
    <2> QED BY <2>1, <2>2
<1>5. Pending(b, a) = {} /\ ~Friends(a, b)
    BY <1>0, <1>1 DEF IdleInv, Asking, At
<1>6. NoneIdle'
    BY <1>0, <1>1, <1>4, <1>5 DEF NoneIdle, IdleInv, Friends
<1>7. /\ \A g \in Handlers \ {h} : At(g, "idle") /\ proc'[g] = proc[g]
      /\ proc'[h].pc = "tellFrom"
    BY <1>1, Alone DEF InsertRequest, CoreInv, CoreType, At
<1>8. \A g \in Handlers : Asking(g)'
    BY <1>7 DEF Asking, At
<1> QED BY <1>6, <1>8 DEF IdleInv

LEMMA DecisionStays ==
    ASSUME CoreInv, CoreInv', IdleInv, NEW h \in Handlers, NEW s \in {"accepted", "rejected"}, Deciding(h),
           rows' = [rows EXCEPT ![proc[h].id].status = s],
           proc' = [proc EXCEPT ![h].pc = "tellFrom", ![h].as = s],
           friendships' = friendships \cup (IF s = "accepted" THEN Pair(proc[h]) ELSE {}),
           ~overlap, overtaken' = overtaken
    PROVE  IdleInv'
<1>0. PICK a \in Users, b \in Users, k \in DOMAIN rows :
         /\ a = proc[h].from /\ b = proc[h].to /\ k = proc[h].id
         /\ rows[k].from = a /\ rows[k].to = b /\ rows[k].status = "pending"
    BY DEF Deciding, CoreInv, Holds, Stage
<1>1. /\ DOMAIN rows' = DOMAIN rows /\ rows' \in Seq(Row) /\ rows \in Seq(Row)
      /\ \A i \in DOMAIN rows :
             /\ rows'[i].from = rows[i].from /\ rows'[i].to = rows[i].to
             /\ rows'[i].status = IF i = k THEN s ELSE rows[i].status
    BY <1>0, StatusSet DEF CoreInv, CoreType, Status
<1>2. ASSUME NEW c \in Users, NEW d \in Users
      PROVE  Pending(c, d)' = Pending(c, d) \ {k}
    <2>1. ASSUME NEW i \in Pending(c, d)' PROVE i \in Pending(c, d) \ {k}
        BY <1>1, PendingIs, PendingIsNext
    <2>2. ASSUME NEW i \in Pending(c, d) \ {k} PROVE i \in Pending(c, d)'
        BY <1>1, PendingIs, PendingIsNext
    <2> QED BY <2>1, <2>2
<1>3. k \in Pending(a, b) /\ \A i \in Pending(a, b) : i = k
    BY <1>0, <1>1, PendingIs DEF CoreInv, Single
<1>4. Pending(a, b)' = {} /\ Pending(b, a)' = {}
    BY <1>2, <1>3 DEF IdleInv, NoneIdle
<1>5. ASSUME NEW c \in Users, NEW d \in Users, Friends(c, d)', ~Friends(c, d)
      PROVE  (c = a /\ d = b) \/ (c = b /\ d = a)
    BY <1>0, <1>5 DEF Friends, Pair
<1>6. NoneIdle'
    BY <1>2, <1>4, <1>5 DEF NoneIdle, IdleInv
<1>7. /\ \A g \in Handlers \ {h} : At(g, "idle") /\ proc'[g] = proc[g]
      /\ proc'[h].pc = "tellFrom"
    BY Alone DEF Deciding, CoreInv, CoreType, At
<1>8. \A g \in Handlers : Asking(g)'
    BY <1>7 DEF Asking, At
<1> QED BY <1>6, <1>8 DEF IdleInv

LEMMA HandlerStays ==
    ASSUME CoreInv, CoreInv', IdleInv, NEW h \in Handlers, HandlerStep(h), ~overlap, overtaken' = overtaken
    PROVE  IdleInv'
<1>0. \A g \in Handlers \ {h} : proc'[g] = proc[g]
    BY HandlerMoves
<1>1. CASE InsertRequest(h)
    BY <1>1, InsertStays
<1>2. CASE RejectTx(h)
    BY <1>2, DecisionStays DEF RejectTx, Deciding, At
<1>3. CASE AcceptTx(h) /\ Pair(proc[h]) \cap friendships = {}
    BY <1>3, DecisionStays DEF AcceptTx, Deciding, At
<1>4. CASE AcceptTx(h) /\ Pair(proc[h]) \cap friendships # {}
    <2>1. rows' = rows /\ friendships' = friendships /\ Return(h)
        BY <1>4 DEF AcceptTx
    <2>2. proc'[h].pc = "idle"
        BY <2>1, ReturnRecord DEF CoreInv
    <2> QED BY <1>0, <2>1, <2>2, IdleStays
<1>5. CASE TellFrom(h)
    <2>1. rows' = rows /\ friendships' = friendships /\ proc'[h].pc = "tellTo"
        BY <1>5, GoRecord DEF TellFrom, CoreInv, PC
    <2> QED BY <1>0, <2>1, IdleStays
<1>6. CASE TellTo(h)
    <2>1. rows' = rows /\ friendships' = friendships /\ proc'[h].pc = "idle"
        BY <1>6, ReturnRecord DEF TellTo, CoreInv
    <2> QED BY <1>0, <2>1, IdleStays
<1>7. CASE CheckPending(h)
    <2>1. rows' = rows /\ friendships' = friendships /\ At(h, "pendingCheck")
        BY <1>7 DEF CheckPending
    <2>2. proc'[h].pc = "idle" \/ (proc'[h].from = proc[h].from /\ proc'[h].to = proc[h].to)
        BY <1>7, GoRecord, ReturnRecord DEF CheckPending, CoreInv, PC
    <2>3. proc'[h].pc \in {"pendingCheck", "insert"} => Asking(h)'
        BY <2>1, <2>2 DEF IdleInv, Asking, At, Pending, Friends
    <2> QED BY <1>0, <2>1, <2>3, IdleStays
<1> QED BY <1>1, <1>2, <1>3, <1>4, <1>5, <1>6, <1>7 DEF HandlerStep

LEMMA IdleStep ==
    ASSUME CoreInv, PanelInv, FriendsInv, ~overlap => ListInv /\ (~misled => IdleInv),
           ContactsNext, CoreInv', ~overlap', ~misled'
    PROVE  IdleInv'
<1>1. ASSUME IdleInv, Same, overtaken' = overtaken PROVE IdleInv'
    <2>1. NoneIdle'
        BY <1>1 DEF IdleInv, NoneIdle, Pending, Friends, Same
    <2>2. \A g \in Handlers : Asking(g)'
        BY <1>1 DEF IdleInv, Asking, Pending, Friends, Same
    <2> QED BY <1>1, <2>1, <2>2 DEF IdleInv
<1>2. ASSUME NEW u \in Users, NEW h \in Handlers, NEW b \in Users, SendFriendRequest(u, h, b)
      PROVE  IdleInv'
    <2>1. ~overlap /\ ~misled
        BY <1>2 DEF SendFriendRequest, CreateFriendRequest, Admit
    <2> QED BY <1>2, <2>1, SendStays
<1>3. ASSUME NEW u \in Users, NEW h \in Handlers, NEW i \in DOMAIN rows, HandleDecision(u, h, i)
      PROVE  IdleInv'
    <2>1. ~overlap /\ ~misled /\ overtaken' = overtaken
        BY <1>3 DEF HandleDecision, ApproveFriendRequest, RejectFriendRequest, Decide, Admit, astray
    <2>2. /\ rows' = rows /\ friendships' = friendships /\ proc'[h].pc \in {"accept", "reject"}
          /\ \A g \in Handlers \ {h} : proc'[g] = proc[g]
        BY <1>3 DEF HandleDecision, ApproveFriendRequest, RejectFriendRequest, Decide, CoreInv, CoreType
    <2> QED BY <2>1, <2>2, IdleStays
<1>4. ASSUME NEW h \in Handlers, Serve(h) PROVE IdleInv'
    <2>1. HandlerStep(h) /\ overtaken' = overtaken /\ ~misled
        BY <1>4 DEF Serve, astray
    <2>2. ~overlap
        BY <2>1 DEF HandlerStep, CheckPending, InsertRequest, AcceptTx, RejectTx, TellFrom, TellTo, bounds
    <2> QED BY <2>1, <2>2, HandlerStays
<1>5. ASSUME NEW l \in loads, SetList(l) PROVE IdleInv'
    <2>1. ~overlap /\ ~misled /\ ~l.stale /\ Same
        BY <1>5 DEF SetList, bounds, Same
    <2>2. IdleInv /\ overtaken \in [Users -> SUBSET Lists]
        BY <2>1 DEF PanelInv, PanelType
    <2>3. overtaken' = [overtaken EXCEPT ![l.user] = overtaken[l.user] \ {l.list}]
        BY <1>5, <2>1 DEF SetList
    <2>4. \A u \in Users : overtaken'[u] = {}
        BY <2>2, <2>3 DEF IdleInv
    <2>5. NoneIdle'
        BY <2>1, <2>2 DEF IdleInv, NoneIdle, Pending, Friends, Same
    <2>6. \A g \in Handlers : Asking(g)'
        BY <2>1, <2>2 DEF IdleInv, Asking, Pending, Friends, Same
    <2> QED BY <2>4, <2>5, <2>6 DEF IdleInv
<1>6. ASSUME NEW l \in loads, ListLost(l) PROVE IdleInv'
    BY <1>6 DEF ListLost
<1>7. ASSUME NEW l \in loads, ServeList(l) PROVE IdleInv'
    BY <1>1, <1>7 DEF ServeList, vars, bounds, astray, Same
<1>8. ASSUME NEW u \in Users, Open(u) PROVE IdleInv'
    BY <1>1, <1>8 DEF Open, astray, Same
<1>9. ASSUME NEW u \in Users, NEW i \in DOMAIN rows, DecisionRefused(u, i) PROVE IdleInv'
    BY <1>1, <1>9 DEF DecisionRefused, astray, Same
<1> QED BY <1>2, <1>3, <1>4, <1>5, <1>6, <1>7, <1>8, <1>9 DEF ContactsNext

-----------------------------------------------------------------------------
LEMMA ContactsStart == ContactsInit => ContactsInv
<1> SUFFICES ASSUME ContactsInit PROVE ContactsInv
    OBVIOUS
<1> USE DEF ContactsInit, Init
<1>9. Idle \in Handler /\ Idle.pc = "idle"
    BY BoundsAreNaturals DEF Idle, Handler, PC, Status
<1>0. proc \in [Handlers -> Handler] /\ \A h \in Handlers : proc[h] = Idle /\ proc[h].pc = "idle"
    BY <1>9
<1>1. DOMAIN rows = {} /\ rows \in Seq(Row) /\ Len(rows) = 0
    OBVIOUS
<1>2. CoreType
    <2>1. Len(rows) <= MaxRows /\ requests \in Nat
        BY <1>1, BoundsAreNaturals
    <2>2. friendships \in SUBSET (Users \X Users) /\ overlap \in BOOLEAN
        OBVIOUS
    <2> HIDE DEF ContactsInit, Init
    <2> QED BY <1>0, <1>1, <2>1, <2>2 DEF CoreType
<1>3. \A a, b \in Users : Pending(a, b) = {}
    BY <1>1 DEF Pending
<1>4. CoreInv
    BY <1>0, <1>1, <1>2, <1>3 DEF CoreInv, Holds, FriendshipIsMutual, AcceptedAreFriends, Friends,
       Sole, Single, Stage, At, Deciding, Telling
<1>5. PanelInv
    <2>1. view \in [Users -> [Ids -> Status \cup {"unseen"}]]
        OBVIOUS
    <2>2. 0 \in 0..MaxRows
        BY BoundsAreNaturals
    <2>3. PanelType
        BY <2>1, <2>2 DEF PanelType
    <2> QED BY <1>0, <2>3 DEF PanelInv, Called, Deciding, Telling
<1>6. FriendsInv
    BY <1>1 DEF FriendsInv, FriendsRead
<1>7. ListInv
    BY <1>1 DEF ListInv, Past, ReadPast, ReadNow, ShownNow
<1>8. IdleInv
    BY <1>0, <1>3 DEF IdleInv, NoneIdle, Asking
<1> QED BY <1>4, <1>5, <1>6, <1>7, <1>8 DEF ContactsInv

LEMMA ContactsStep == ContactsInv /\ [ContactsNext]_allVars => ContactsInv'
<1> SUFFICES ASSUME ContactsInv, [ContactsNext]_allVars PROVE ContactsInv'
    OBVIOUS
<1>1. CoreInv'
    BY CoreStep DEF ContactsInv
<1>2. CASE ContactsNext
    <2>1. PanelInv'
        <3>1. FriendsRead
            BY DEF ContactsInv, FriendsInv
        <3>2. ASSUME NEW u \in Users, NEW i \in DOMAIN rows, DecisionRefused(u, i) PROVE PanelInv'
            BY <3>2, BoundsAreNaturals DEF ContactsInv, PanelInv, PanelType, Called, Telling, Deciding,
               DecisionRefused, astray
        <3> QED BY <1>2, <3>1, <3>2, SendKeepsPanel, DecisionKeepsPanel, ServeKeepsPanel,
                   ServeListKeepsPanel, SetListMeans, ListLostMeans, OpenKeepsPanel
                DEF ContactsNext, ContactsInv
    <2> QED BY <1>1, <1>2, <2>1, FriendsStep, ListStep, IdleStep DEF ContactsInv
<1>3. CASE UNCHANGED allVars
    <2> USE <1>3 DEF allVars, vars, bounds, panel, astray
    <2>1. PanelInv' /\ FriendsInv'
        BY DEF ContactsInv, PanelInv, PanelType, Called, Telling, Deciding, FriendsInv, FriendsRead,
           FriendComes, Friends
    <2>2. ListInv' <=> ListInv
        BY DEF ListInv, Past, ReadPast, ReadNow, ShownNow, ToTell, At, Parties
    <2>3. IdleInv' <=> IdleInv
        BY DEF IdleInv, NoneIdle, Asking, Pending, Friends
    <2> QED BY <1>1, <2>1, <2>2, <2>3 DEF ContactsInv
<1> QED BY <1>2, <1>3

LEMMA ContactsInductive == ContactsSpec => []ContactsInv
BY ContactsStart, ContactsStep, PTL DEF ContactsSpec

\* Whatever requests, approvals and rejections overlap, friendship is mutual and an
\* approved request has made its parties friends; handled one at a time, one pending
\* request at most leads from one user to another (friend_service.go:19-62, :85-160,
\* repository.go).
THEOREM FriendshipsHold == ContactsSpec => []WellFormed
<1>1. ContactsInv => WellFormed
    <2> SUFFICES ASSUME ContactsInv PROVE WellFormed
        OBVIOUS
    <2>1. CoreInv /\ PanelInv
        BY DEF ContactsInv
    <2>2. OnePending
        <3> SUFFICES ASSUME ~overlap, NEW a \in Users, NEW b \in Users
                     PROVE  Cardinality(Pending(a, b)) <= 1
            BY DEF OnePending
        <3>1. CASE Pending(a, b) = {}
            BY <3>1, FS_EmptySet
        <3>2. ASSUME NEW i \in Pending(a, b) PROVE Cardinality(Pending(a, b)) <= 1
            <4>1. Pending(a, b) = {i}
                BY <2>1 DEF CoreInv, Single
            <4> QED BY <4>1, FS_Singleton
        <3> QED BY <3>1, <3>2
    <2>3. FriendsWellFormed
        BY <2>1, <2>2 DEF FriendsWellFormed, CoreInv, CoreType, Row, PanelInv, PanelType
    <2> QED BY <2>1, <2>3 DEF WellFormed, PanelInv, PanelType
<1> QED BY ContactsInductive, <1>1, PTL

\* With requests one at a time a decided request keeps its decision
\* (friend_service.go:96-98, :139-141).
THEOREM DecisionsStand == ContactsSpec => DecidedOnce
<1> DEFINE Stands == \A i \in DOMAIN rows :
               rows[i].status # "pending" /\ ~overlap => rows'[i].status = rows[i].status
<1>1. ContactsInv /\ [ContactsNext]_allVars => [Stands]_vars
    BY CoreStep DEF ContactsInv, Kept
<1> QED BY ContactsInductive, <1>1, PTL DEF ContactsSpec, DecidedOnce

\* With calls one at a time, and unless a load was overtaken, every panel ends up with
\* the stored status of its user's requests, and the one who approved with the new
\* friend, however late the records and the lists arrive (chat-store.tsx:508-543).
THEOREM PanelsConverge == ContactsSpec => []ListsConverge
<1>1. ContactsInv => ListsConverge
    <2> SUFFICES ASSUME ContactsInv, Quiescent, loads = {}, ~overlap, NEW i \in DOMAIN rows
                 PROVE  /\ \A u \in Parties(i) : "requests" \notin overtaken[u] => view[u][i] = rows[i].status
                        /\ rows[i].status = "accepted" /\ "friends" \notin overtaken[rows[i].to] =>
                              rows[i].from \in friends[rows[i].to]
        BY DEF ListsConverge
    <2>1. \A u : ~ToTell(u, i)
        BY DEF ToTell, Quiescent, At
    <2>2. \A u \in Parties(i) : u \in Users
        BY RowTyped DEF ContactsInv, Parties
    <2>3. \A u \in Parties(i) : "requests" \notin overtaken[u] => view[u][i] = rows[i].status
        BY <2>1, <2>2 DEF ContactsInv, ListInv, ShownNow
    <2>4. rows[i].status = "accepted" /\ "friends" \notin overtaken[rows[i].to] =>
              rows[i].from \in friends[rows[i].to]
        BY DEF ContactsInv, FriendsInv, FriendComes, Quiescent, At, Telling
    <2> QED BY <2>3, <2>4
<1> QED BY ContactsInductive, <1>1, PTL

\* Users who act one after the other, on lists that no load was overtaken in, never
\* leave a pending request between friends, nor one in each direction, although the
\* service looks in one direction only (friend_service.go:29-31,
\* contacts-panel.tsx:638-661).
THEOREM NoneAgainstAnother == ContactsSpec => []NoIdleRequest
<1>1. ContactsInv => NoIdleRequest
    BY DEF ContactsInv, IdleInv, NoneIdle, NoIdleRequest
<1> QED BY ContactsInductive, <1>1, PTL
=============================================================================
