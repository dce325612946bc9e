------------------------- MODULE StreamAndWindow_proofs -------------------------
(***************************************************************************)
(* From a user's stream to what the window shows.  SyncStream, for any     *)
(* changes, any number of replay loops, any page size: a replay leaves     *)
(* nothing out below its cursor, and applies what it finds in order.       *)
(* ChatStore, whose records come so, for any conversations, messages and   *)
(* calls under way: one row for a message, nothing shown as sent or marked *)
(* as read without cause, and in the end the conversation as it is.        *)
(***************************************************************************)
EXTENDS SyncStream, ChatStore, FiniteSetTheorems, SequenceTheorems, TLAPS

-----------------------------------------------------------------------------
(***************************************************************************)
(* The highest of a bounded set of numbers.                                *)
(***************************************************************************)

\* A bounded set that is not empty has a greatest member: the sets of the members
\* above one of them are finite, and the least of those sets is empty.
LEMMA BoundedHasGreatest ==
    ASSUME NEW S \in SUBSET Nat, S # {}, NEW b \in Nat, \A m \in S : m <= b
    PROVE  \E n \in S : \A m \in S : m <= n
<1> DEFINE Above(n) == {m \in S : m > n}
           T == {Above(n) : n \in S}
<1>1. IsFiniteSet(S)
    BY FS_BoundedSetOfNaturals
<1>2. T \subseteq FiniteSubsetsOf(S)
    BY <1>1, FS_Subset DEF FiniteSubsetsOf
<1>3. T # {}
    OBVIOUS
<1>4. PICK A \in T : \A B \in T : <<B, A>> \notin StrictSubsetOrdering(S)
    <2> HIDE DEF T
    <2> QED BY <1>2, <1>3, FS_StrictSubsetOrderingWellFounded, WFMin
<1>5. PICK n \in S : A = Above(n)
    BY <1>4
<1>6. ASSUME NEW m \in S, m > n PROVE FALSE
    <2> HIDE DEF T
    <2>0. m \in Nat /\ n \in Nat /\ S \subseteq Nat
        OBVIOUS
    <2>1. Above(m) \subseteq Above(n) /\ m \in Above(n) /\ m \notin Above(m)
        <3>1. \A x \in S : x > m => x > n
            BY <2>0, <1>6
        <3>2. m > n /\ ~(m > m)
            BY <2>0, <1>6
        <3> QED BY <3>1, <3>2
    <2>2. Above(m) \in T /\ Above(m) \in SUBSET S /\ Above(n) \in SUBSET S
        BY DEF T
    <2>3. Above(m) # Above(n)
        BY <2>1
    <2>4. <<Above(m), Above(n)>> \in StrictSubsetOrdering(S)
        <3> HIDE DEF Above
        <3> QED BY <2>1, <2>2, <2>3 DEF StrictSubsetOrdering
    <2> QED BY <2>2, <2>4, <1>4, <1>5
<1> QED BY <1>6

\* Highest is a member, and no member and no floor is above it.
LEMMA HighestIsHighest ==
    ASSUME NEW S \in SUBSET Nat, NEW floor \in Nat, NEW b \in Nat, \A m \in S : m <= b
    PROVE  /\ Highest(S, floor) \in S \cup {floor}
           /\ floor <= Highest(S, floor)
           /\ \A m \in S : m <= Highest(S, floor)
           /\ Highest(S, floor) \in Nat
<1> DEFINE U == S \cup {floor}
           c == IF b > floor THEN b ELSE floor
<1>1. U \in SUBSET Nat /\ U # {} /\ c \in Nat /\ \A m \in U : m <= c
    OBVIOUS
<1> HIDE DEF c
<1>2. \E n \in U : \A m \in U : m <= n
    <2> HIDE DEF U
    <2> QED BY <1>1, BoundedHasGreatest
<1>3. Highest(S, floor) \in U /\ \A m \in U : m <= Highest(S, floor)
    BY <1>2 DEF Highest
<1> QED BY <1>1, <1>3

-----------------------------------------------------------------------------
(***************************************************************************)
(* Types and ids.                                                          *)
(***************************************************************************)
HasId(e) == stage[e] \in {"inserted", "visible", "notified"}

\* Ids are handed out once each, above those the stream held before.
Numbered ==
    /\ \A e \in Events : IF HasId(e) THEN id[e] > History /\ id[e] <= lastId ELSE id[e] = 0
    /\ \A e, f \in Events : HasId(e) /\ HasId(f) /\ id[e] = id[f] => e = f
    /\ History <= lastId

\* A page holds committed rows, beyond the cursor it was asked for.
Paged(l) ==
    /\ page[l] \subseteq Visible
    /\ loop[l] \in {"current", "apply"} => \A e \in page[l] : id[e] > from[l]

Shape == TypeOK /\ Numbered /\ \A l \in Loops : Paged(l)

LEMMA VisibleHasId ==
    ASSUME NEW e \in Visible PROVE e \in Events /\ HasId(e) /\ stage[e] # "inserted"
BY DEF Visible, HasId

\* The answer's next_cursor is the cursor it was asked for or the id of a row of
\* the page, and nothing of the page is above it.
LEMMA NextCursorOfPage ==
    ASSUME Shape, NEW l \in Loops
    PROVE  /\ NextCursor(l) \in Nat
           /\ NextCursor(l) = from[l] \/ \E e \in page[l] : NextCursor(l) = id[e]
           /\ from[l] <= NextCursor(l)
           /\ \A e \in page[l] : id[e] <= NextCursor(l)
<1> DEFINE S == {id[e] : e \in page[l]}
<1>1. S \in SUBSET Nat /\ from[l] \in Nat /\ lastId \in Nat
    BY DEF Shape, TypeOK
<1>2. \A m \in S : m <= lastId
    BY VisibleHasId DEF Shape, Paged, Numbered
<1>3. /\ NextCursor(l) \in S \cup {from[l]}
      /\ from[l] <= NextCursor(l)
      /\ \A m \in S : m <= NextCursor(l)
      /\ NextCursor(l) \in Nat
    <2> HIDE DEF S
    <2>1. NextCursor(l) = Highest(S, from[l])
        BY DEF NextCursor, S
    <2> QED BY <2>1, <1>1, <1>2, HighestIsHighest
<1> QED BY <1>3

\* The current cursor is the highest id of a committed row, of the old ones too.
LEMMA CurrentIsCommitted ==
    ASSUME Shape
    PROVE  /\ CurrentSyncCursor \in Nat
           /\ CurrentSyncCursor = History \/ \E e \in Visible : CurrentSyncCursor = id[e]
           /\ History <= CurrentSyncCursor
<1> DEFINE S == {id[e] : e \in Visible}
<1>1. S \in SUBSET Nat /\ History \in Nat /\ lastId \in Nat
    BY HistoryIsNat DEF Shape, TypeOK, Visible
<1>2. \A m \in S : m <= lastId
    BY VisibleHasId DEF Shape, Numbered
<1>3. /\ CurrentSyncCursor \in S \cup {History}
      /\ History <= CurrentSyncCursor
      /\ CurrentSyncCursor \in Nat
    <2> HIDE DEF S
    <2>1. CurrentSyncCursor = Highest(S, History)
        BY DEF CurrentSyncCursor, S
    <2> QED BY <2>1, <1>1, <1>2, HighestIsHighest
<1> QED BY <1>3

\* What a call of replaySyncEvents may do: at most it starts one loop from the cursor.
LEMMA TriggerStarts ==
    ASSUME TypeOK, Trigger
    PROVE  /\ loop' \in [Loops -> {"off", "rows", "current", "apply"}]
           /\ from' \in [Loops -> Nat] /\ inFlight' \in BOOLEAN /\ pending' \in BOOLEAN
           /\ page' = page /\ current' = current
           /\ \/ loop' = loop /\ from' = from /\ inFlight' = inFlight
              \/ /\ boot = "ready" /\ ~inFlight /\ inFlight'
                 /\ \E l \in Loops :
                        /\ loop[l] = "off" /\ loop'[l] = "rows" /\ from'[l] = cursor
                        /\ \A m \in Loops \ {l} : loop'[m] = loop[m] /\ from'[m] = from[m]
BY DEF TypeOK, Trigger, Begin, loops

\* How a call of a loop ends: it calls again, from c, only when it may replay.
LEMMA FinishEnds ==
    ASSUME TypeOK, NEW l \in Loops, NEW c \in Nat, Finish(l, c)
    PROVE  /\ loop' \in [Loops -> {"off", "rows", "current", "apply"}]
           /\ from' \in [Loops -> Nat] /\ inFlight' \in BOOLEAN /\ pending' \in BOOLEAN
           /\ page' \in [Loops -> SUBSET Events] /\ current' \in [Loops -> Nat]
           /\ page'[l] = {}
           /\ \/ loop'[l] = "off" /\ ~inFlight'
              \/ loop'[l] = "rows" /\ from'[l] = c /\ boot = "ready" /\ inFlight'
           /\ \A m \in Loops \ {l} : loop'[m] = loop[m] /\ from'[m] = from[m] /\ page'[m] = page[m]
<1>1. CASE pending /\ boot = "ready"
    BY <1>1 DEF TypeOK, Finish
<1>2. CASE ~(pending /\ boot = "ready")
    <2>1. /\ loop' = [loop EXCEPT ![l] = "off"] /\ from' = [from EXCEPT ![l] = 0]
          /\ ~inFlight'
          /\ page' = [page EXCEPT ![l] = {}] /\ current' = [current EXCEPT ![l] = 0]
          /\ inFlight' \in BOOLEAN /\ pending' \in BOOLEAN
        BY <1>2 DEF Finish
    <2> QED BY <2>1 DEF TypeOK
<1> QED BY <1>1, <1>2

LEMMA InitShape == Init => Shape
<1> SUFFICES ASSUME Init PROVE Shape
    OBVIOUS
<1>1. TypeOK
    <2>1. applied = <<>> /\ applied \in Seq(SUBSET Nat)
        BY DEF Init
    <2>2. mishaps \in SUBSET {"overlap", "busyBoot", "httpError", "stray"} /\ known \in SUBSET Events
        BY DEF Init
    <2> QED BY <2>1, <2>2, HistoryIsNat DEF Init, TypeOK
<1> QED BY <1>1, HistoryIsNat DEF Init, Shape, Numbered, HasId, Paged, Visible

\* Every variable keeps its type.
LEMMA TypeStep ==
    ASSUME Shape, [Next]_vars
    PROVE  TypeOK'
<1> USE DEF server, link, boots, loops, state, Shape
<1>1. ASSUME NEW e \in Events, Change(e) PROVE TypeOK'
    <2>1. UNCHANGED <<id, lastId, link, boots, cursor, loops, state>>
          /\ stage' = [stage EXCEPT ![e] = "done"]
          /\ mishaps' \in SUBSET {"overlap", "busyBoot", "httpError", "stray"}
        BY <1>1 DEF TypeOK, Change, Writing
    <2> QED BY <2>1 DEF TypeOK
<1>2. ASSUME NEW e \in Events, InsertRow(e) PROVE TypeOK'
    <2>1. UNCHANGED <<link, boots, cursor, loops, state>>
          /\ stage' = [stage EXCEPT ![e] = "inserted"]
          /\ lastId' = lastId + 1 /\ id' = [id EXCEPT ![e] = lastId + 1]
          /\ mishaps' \in SUBSET {"overlap", "busyBoot", "httpError", "stray"}
        BY <1>2 DEF TypeOK, InsertRow, Writing
    <2> QED BY <2>1 DEF TypeOK
<1>3. ASSUME NEW e \in Events, CommitRow(e) PROVE TypeOK'
    <2>1. UNCHANGED <<id, lastId, link, boots, cursor, loops, state>>
          /\ stage' = [stage EXCEPT ![e] = "visible"]
          /\ mishaps' \in SUBSET {"overlap", "busyBoot", "httpError", "stray"}
        BY <1>3 DEF TypeOK, CommitRow, Writing
    <2> QED BY <2>1 DEF TypeOK
<1>4. ASSUME NEW e \in Events, Notify(e) PROVE TypeOK'
    BY <1>4 DEF TypeOK, Notify
<1>5. ASSUME NEW l \in Loops, ReadRows(l) PROVE TypeOK'
    BY <1>5 DEF TypeOK, ReadRows
<1>6. ASSUME NEW l \in Loops, ReadCurrent(l) PROVE TypeOK'
    BY <1>6, CurrentIsCommitted DEF TypeOK, ReadCurrent
<1>7. ASSUME NEW l \in Loops, ApplyPage(l) PROVE TypeOK'
    <2> DEFINE S == {id[e] : e \in page[l]}
    <2>1. S \in SUBSET Nat /\ known' \in SUBSET Events /\ applied' = Append(applied, S)
        BY <1>7 DEF TypeOK, ApplyPage
    <2>2. applied' \in Seq(SUBSET Nat)
        <3> HIDE DEF S
        <3> QED BY <2>1, AppendProperties DEF TypeOK
    <2>3. NewCursor(l) \in Nat /\ NextCursor(l) \in Nat
        BY NextCursorOfPage DEF NewCursor, TypeOK
    <2>4. /\ loop' \in [Loops -> {"off", "rows", "current", "apply"}]
          /\ from' \in [Loops -> Nat] /\ inFlight' \in BOOLEAN /\ pending' \in BOOLEAN
          /\ page' \in [Loops -> SUBSET Events] /\ current' \in [Loops -> Nat]
        <3>1. CASE HasMore(l) /\ page[l] # {}
            BY <1>7, <2>3, <3>1 DEF TypeOK, ApplyPage
        <3>2. CASE ~(HasMore(l) /\ page[l] # {})
            <4>1. Finish(l, NewCursor(l))
                BY <1>7, <3>2 DEF ApplyPage
            <4> QED BY <4>1, <2>3, FinishEnds
        <3> QED BY <3>1, <3>2
    <2>5. /\ UNCHANGED <<server, link, boots, mishaps>> /\ cursor' = NewCursor(l)
        BY <1>7 DEF ApplyPage
    <2> QED BY <2>1, <2>2, <2>3, <2>4, <2>5 DEF TypeOK
<1>8. ASSUME NEW l \in Loops, PageFails(l) PROVE TypeOK'
    <2>1. Finish(l, cursor) /\ cursor \in Nat
        BY <1>8 DEF PageFails, TypeOK
    <2>2. /\ loop' \in [Loops -> {"off", "rows", "current", "apply"}]
          /\ from' \in [Loops -> Nat] /\ inFlight' \in BOOLEAN /\ pending' \in BOOLEAN
          /\ page' \in [Loops -> SUBSET Events] /\ current' \in [Loops -> Nat]
        BY <2>1, FinishEnds
    <2>3. /\ UNCHANGED <<server, nudges, socket, boots, cursor, state>>
          /\ breaks' = breaks + 1 /\ mishaps' = mishaps \cup {"httpError"}
        BY <1>8 DEF PageFails
    <2> QED BY <2>2, <2>3 DEF TypeOK
<1>9. ASSUME Trigger,
             UNCHANGED <<server, breaks, boots, cursor, state, mishaps>>,
             nudges' \in Nat, socket' \in {"down", "open", "registered"}
      PROVE  TypeOK'
    <2>1. /\ loop' \in [Loops -> {"off", "rows", "current", "apply"}]
          /\ from' \in [Loops -> Nat] /\ inFlight' \in BOOLEAN /\ pending' \in BOOLEAN
          /\ page' = page /\ current' = current
        BY <1>9, TriggerStarts
    <2> QED BY <2>1, <1>9 DEF TypeOK
<1>10. CASE Open
    <2>1. nudges' \in Nat /\ socket' \in {"down", "open", "registered"}
        BY <1>10 DEF TypeOK, Open
    <2> QED BY <1>10, <2>1, <1>9 DEF Open
<1>11. CASE Deliver
    <2>1. nudges' \in Nat /\ socket' \in {"down", "open", "registered"}
        BY <1>11 DEF TypeOK, Deliver
    <2>2. CASE socket = "registered"
        BY <1>11, <2>1, <2>2, <1>9 DEF Deliver
    <2>3. CASE socket # "registered"
        BY <1>11, <2>1, <2>3 DEF Deliver, TypeOK
    <2> QED BY <2>2, <2>3
<1>12. CASE Register \/ Drop \/ Disconnect
    <2>1. CASE Register
        BY <2>1 DEF TypeOK, Register
    <2>2. CASE Drop
        BY <2>2 DEF TypeOK, Drop
    <2>3. CASE Disconnect
        BY <2>3 DEF TypeOK, Disconnect
    <2> QED BY <1>12, <2>1, <2>2, <2>3
<1>13. CASE LoadLists
    BY <1>13 DEF TypeOK, LoadLists
<1>14. CASE AskCursor
    BY <1>14, CurrentIsCommitted DEF TypeOK, AskCursor
<1>15. CASE BecomeReady
    BY <1>15 DEF TypeOK, BecomeReady
<1>16. CASE Relogin
    <2>1. applied' = <<>> /\ <<>> \in Seq(SUBSET Nat)
        BY <1>16 DEF Relogin
    <2>2. /\ mishaps' \in SUBSET {"overlap", "busyBoot", "httpError", "stray"}
          /\ breaks' \in Nat
        BY <1>16 DEF Relogin, TypeOK
    <2>3. /\ UNCHANGED <<stage, id, lastId, nudges, head, loop, from, page, current>>
          /\ socket' = "down" /\ boot' = "load" /\ cursor' = 0 /\ known' = {}
          /\ inFlight' = FALSE /\ pending' = FALSE
        BY <1>16 DEF Relogin
    <2> QED BY <2>1, <2>2, <2>3 DEF TypeOK
<1>17. CASE UNCHANGED vars
    BY <1>17 DEF TypeOK, vars
<1> QED
    BY <1>1, <1>2, <1>3, <1>4, <1>5, <1>6, <1>7, <1>8, <1>10, <1>11, <1>12, <1>13, <1>14,
       <1>15, <1>16, <1>17 DEF Next, Writer, Replay, Login

\* A row keeps its id and stays committed, and a new one gets an id above all.
LEMMA NumberedStep ==
    ASSUME Shape, [Next]_vars
    PROVE  /\ Numbered'
           /\ \A e \in Events : HasId(e) => HasId(e)' /\ id'[e] = id[e]
           /\ Visible \subseteq Visible'
           /\ lastId <= lastId'
           /\ \A e \in Events : HasId(e)' /\ ~HasId(e) => id'[e] > lastId
<1> DEFINE Goal ==
              /\ Numbered'
              /\ \A e \in Events : HasId(e) => HasId(e)' /\ id'[e] = id[e]
              /\ Visible \subseteq Visible'
              /\ lastId <= lastId'
              /\ \A e \in Events : HasId(e)' /\ ~HasId(e) => id'[e] > lastId
<1>1. ASSUME UNCHANGED server PROVE Goal
    BY <1>1 DEF server, Shape, TypeOK, Numbered, HasId, Visible
<1>2. ASSUME NEW e \in Events, Change(e) \/ CommitRow(e) \/ Notify(e) PROVE Goal
    <2>1. /\ id' = id /\ lastId' = lastId
          /\ \A f \in Events : HasId(f)' <=> HasId(f)
          /\ Visible \subseteq Visible'
        BY <1>2 DEF Shape, TypeOK, Change, CommitRow, Notify, HasId, Visible
    <2> QED BY <2>1 DEF Shape, TypeOK, Numbered
<1>3. ASSUME NEW e \in Events, InsertRow(e) PROVE Goal
    <2>1. /\ id' = [id EXCEPT ![e] = lastId + 1] /\ lastId' = lastId + 1
          /\ \A f \in Events : HasId(f)' <=> (f = e \/ HasId(f))
          /\ Visible \subseteq Visible' /\ ~HasId(e)
        BY <1>3 DEF Shape, TypeOK, InsertRow, HasId, Visible
    <2> QED BY <2>1, HistoryIsNat DEF Shape, TypeOK, Numbered
<1>4. CASE UNCHANGED server
    BY <1>1, <1>4
<1>5. ASSUME ~UNCHANGED server PROVE \E e \in Events : Writer(e)
    BY <1>5 DEF Next, vars, Replay, ReadRows, ReadCurrent, ApplyPage, PageFails, Open, Register,
       Deliver, Drop, Disconnect, Login, LoadLists, AskCursor, BecomeReady, Relogin
<1> QED BY <1>2, <1>3, <1>4, <1>5 DEF Writer

\* What the client's steps do to a loop: nothing, start it, read for it, or finish it.
LEMMA LoopSteps ==
    ASSUME Shape, [Next]_vars, NEW l \in Loops, ~UNCHANGED <<loop[l], from[l], page[l]>>
    PROVE  \/ /\ loop[l] = "off" /\ loop'[l] = "rows" /\ page'[l] = page[l]
              /\ from'[l] = cursor /\ boot = "ready" /\ ~inFlight
              /\ UNCHANGED <<server, boots, cursor, state, mishaps>>
           \/ ReadRows(l)
           \/ ReadCurrent(l)
           \/ ApplyPage(l)
           \/ PageFails(l)
<1>1. ASSUME Trigger, UNCHANGED <<server, boots, cursor, state, mishaps>>
      PROVE  /\ loop[l] = "off" /\ loop'[l] = "rows" /\ page'[l] = page[l]
             /\ from'[l] = cursor /\ boot = "ready" /\ ~inFlight
    BY <1>1, TriggerStarts DEF Shape
<1>2. CASE Open
    BY <1>1, <1>2 DEF Open
<1>3. CASE Deliver
    BY <1>1, <1>3 DEF Deliver, loops
<1>4. ASSUME NEW m \in Loops \ {l}, Replay(m) \/ PageFails(m) PROVE FALSE
    <2>1. ASSUME NEW c \in Nat, Finish(m, c) PROVE FALSE
        BY <2>1, FinishEnds DEF Shape
    <2>2. CASE ReadRows(m)
        BY <2>2 DEF ReadRows, Shape, TypeOK
    <2>3. CASE ReadCurrent(m)
        BY <2>3 DEF ReadCurrent, Shape, TypeOK
    <2>4. CASE ApplyPage(m)
        <3>1. NewCursor(m) \in Nat
            BY NextCursorOfPage DEF NewCursor, Shape, TypeOK
        <3>2. CASE HasMore(m) /\ page[m] # {}
            BY <2>4, <3>2 DEF ApplyPage, Shape, TypeOK
        <3>3. CASE ~(HasMore(m) /\ page[m] # {})
            BY <2>4, <3>1, <3>3, <2>1 DEF ApplyPage
        <3> QED BY <3>2, <3>3
    <2>5. CASE PageFails(m)
        BY <2>5, <2>1 DEF PageFails, Shape, TypeOK
    <2> QED BY <1>4, <2>2, <2>3, <2>4, <2>5 DEF Replay
<1>5. ASSUME UNCHANGED <<loop, from, page>> PROVE FALSE
    BY <1>5
<1> QED
    BY <1>2, <1>3, <1>4, <1>5 DEF Next, vars, loops, Writer, Change, InsertRow, CommitRow, Notify,
       Replay, Register, Drop, Disconnect, Login, LoadLists, AskCursor, BecomeReady, Relogin

LEMMA PagedStep ==
    ASSUME Shape, [Next]_vars, NEW l \in Loops
    PROVE  Paged(l)'
<1>1. ASSUME page'[l] \subseteq page[l], from'[l] = from[l] \/ loop'[l] = "rows",
             loop'[l] \in {"current", "apply"} => loop[l] \in {"current", "apply"}
      PROVE  Paged(l)'
    <2>1. page'[l] \subseteq Visible'
        BY <1>1, NumberedStep DEF Shape, Paged
    <2>2. ASSUME loop'[l] \in {"current", "apply"}, NEW e \in page'[l]
          PROVE  id'[e] > from'[l]
        <3>1. e \in page[l] /\ id[e] > from[l] /\ from'[l] = from[l]
            BY <1>1, <2>2 DEF Shape, Paged
        <3>2. id'[e] = id[e]
            BY <3>1, NumberedStep, VisibleHasId DEF Shape, Paged
        <3> QED BY <3>1, <3>2
    <2> QED BY <2>1, <2>2 DEF Paged
<1>2. CASE UNCHANGED <<loop[l], from[l], page[l]>>
    BY <1>1, <1>2
<1>3. CASE loop[l] = "off" /\ loop'[l] = "rows" /\ page'[l] = page[l]
    BY <1>1, <1>3
<1>4. CASE ReadRows(l)
    <2>1. page'[l] \subseteq After(from[l]) /\ from' = from
        BY <1>4 DEF ReadRows, IsPage, Shape, TypeOK
    <2>2. stage' = stage /\ id' = id
        BY <1>4 DEF ReadRows, server
    <2> QED BY <2>1, <2>2 DEF Paged, After, Visible
<1>5. CASE ReadCurrent(l)
    BY <1>1, <1>5 DEF ReadCurrent, Shape, TypeOK
<1>6. ASSUME NEW c \in Nat, Finish(l, c) PROVE Paged(l)'
    BY <1>6, FinishEnds DEF Shape, Paged
<1>7. CASE ApplyPage(l)
    <2>1. NewCursor(l) \in Nat
        BY NextCursorOfPage DEF NewCursor, Shape, TypeOK
    <2>2. CASE HasMore(l) /\ page[l] # {}
        BY <1>7, <2>2, <1>1 DEF ApplyPage, Shape, TypeOK
    <2>3. CASE ~(HasMore(l) /\ page[l] # {})
        BY <1>7, <2>1, <2>3, <1>6 DEF ApplyPage
    <2> QED BY <2>2, <2>3
<1>8. CASE PageFails(l)
    BY <1>6, <1>8 DEF PageFails, Shape, TypeOK
<1> QED BY <1>2, <1>3, <1>4, <1>5, <1>7, <1>8, LoopSteps

LEMMA ShapeStep == Shape /\ [Next]_vars => Shape'
BY TypeStep, NumberedStep, PagedStep DEF Shape

-----------------------------------------------------------------------------
(***************************************************************************)
(* Nothing below the cursor is missing, while no two appends overlap and   *)
(* nothing is written while the client boots.  Then a row that is not      *)
(* committed has the highest id of all; a value is settled once no such    *)
(* row can come in at or below it.                                         *)
(***************************************************************************)
Calm == mishaps \subseteq {"httpError", "stray"}

LastUncommitted == \A e, f \in Events : stage[e] = "inserted" => id[f] <= id[e]

Settled(c) == c <= lastId /\ \A e \in Events : stage[e] = "inserted" => c < id[e]

\* Cursors are positive, so that next_cursor is never skipped for current_cursor.
Mark(c) == c > 0 /\ Settled(c)

Shown(c) == \A e \in Events : HasId(e) /\ id[e] <= c => e \in known

AllShown == \A e \in Events : stage[e] # "none" => e \in known

AtBoot ==
    /\ boot \in {"cursor", "set"} => AllShown
    /\ boot = "set" => Mark(head)
    /\ boot = "ready" => Mark(cursor) /\ Shown(cursor)

\* A page skips no row between its cursor and its last row.
Whole(l) == \A e \in Events, f \in page[l] :
                 HasId(e) /\ from[l] < id[e] /\ id[e] <= id[f] => e \in page[l]

AtLoop(l) ==
    loop[l] # "off" => /\ Mark(from[l])
                       /\ boot # "load" => Shown(from[l])
                       /\ loop[l] # "rows" => Whole(l)

GapInv == Shape /\ (Calm => LastUncommitted /\ AtBoot /\ \A l \in Loops : AtLoop(l))

LEMMA MishapsStay ==
    ASSUME [Next]_vars PROVE mishaps \subseteq mishaps'
BY DEF Next, vars, Writer, Change, InsertRow, CommitRow, Notify, Writing, Replay, ReadRows, ReadCurrent,
   ApplyPage, PageFails, Open, Deliver, Register, Drop, Disconnect, Login, LoadLists, AskCursor,
   BecomeReady, Relogin

LEMMA CalmWas ==
    ASSUME [Next]_vars, Calm' PROVE Calm
BY MishapsStay DEF Calm

\* Only Change makes a change, only InsertRow leaves a row uncommitted.
LEMMA ChangesCome ==
    ASSUME Shape, [Next]_vars, Calm', NEW e \in Events
    PROVE  /\ stage'[e] = "inserted" => \/ stage[e] = "inserted"
                                        \/ stage[e] = "done" /\ \A f \in Events : stage[f] # "inserted"
           /\ stage'[e] # "none" /\ stage[e] = "none" => boot \notin {"cursor", "set"}
<1>0. DOMAIN stage = Events
    BY DEF Shape, TypeOK
<1>1. ASSUME NEW f \in Events, Writer(f)
      PROVE  /\ stage'[e] = "inserted" => \/ stage[e] = "inserted"
                                          \/ stage[e] = "done" /\ \A g \in Events : stage[g] # "inserted"
             /\ stage'[e] # "none" /\ stage[e] = "none" => boot \notin {"cursor", "set"}
    <2>1. CASE Change(f)
        <3>1. stage' = [stage EXCEPT ![f] = "done"] /\ (Booting => "busyBoot" \in mishaps')
            BY <2>1 DEF Change, Writing
        <3> QED BY <3>1 DEF Shape, TypeOK, Booting, Calm
    <2>2. CASE InsertRow(f)
        <3>1. /\ stage' = [stage EXCEPT ![f] = "inserted"] /\ stage[f] = "done"
              /\ (\E g \in Events : stage[g] = "inserted") => "overlap" \in mishaps'
            BY <2>2 DEF InsertRow, Writing
        <3>2. \A g \in Events : stage[g] # "inserted"
            BY <3>1 DEF Calm
        <3>3. stage'[e] = IF e = f THEN "inserted" ELSE stage[e]
            BY <3>1, <1>0
        <3> QED BY <3>1, <3>2, <3>3
    <2>3. CASE CommitRow(f)
        <3>1. stage' = [stage EXCEPT ![f] = "visible"] /\ stage[f] = "inserted"
            BY <2>3 DEF CommitRow
        <3>2. stage'[e] = IF e = f THEN "visible" ELSE stage[e]
            BY <3>1, <1>0
        <3> QED BY <3>1, <3>2
    <2>4. CASE Notify(f)
        <3>1. stage' = [stage EXCEPT ![f] = "notified"] /\ stage[f] = "visible"
            BY <2>4 DEF Notify
        <3>2. stage'[e] = IF e = f THEN "notified" ELSE stage[e]
            BY <3>1, <1>0
        <3> QED BY <3>1, <3>2
    <2> QED BY <1>1, <2>1, <2>2, <2>3, <2>4 DEF Writer
<1>2. CASE UNCHANGED stage
    BY <1>2
<1>3. ASSUME ~UNCHANGED stage PROVE \E f \in Events : Writer(f)
    BY <1>3 DEF Next, vars, server, Replay, ReadRows, ReadCurrent, ApplyPage, PageFails, Open, Register,
       Deliver, Drop, Disconnect, Login, LoadLists, AskCursor, BecomeReady, Relogin
<1> QED BY <1>1, <1>2, <1>3

LEMMA IdsComeByInsert ==
    ASSUME Shape, [Next]_vars, NEW e \in Events, ~HasId(e), HasId(e)'
    PROVE  InsertRow(e)
<1>1. ASSUME NEW f \in Events, Writer(f) PROVE InsertRow(e)
    <2>1. CASE Change(f)
        BY <2>1 DEF Change, Shape, TypeOK, HasId
    <2>2. CASE CommitRow(f)
        BY <2>2 DEF CommitRow, Shape, TypeOK, HasId
    <2>3. CASE Notify(f)
        BY <2>3 DEF Notify, Shape, TypeOK, HasId
    <2>4. CASE InsertRow(f)
        <3>1. stage' = [stage EXCEPT ![f] = "inserted"]
            BY <2>4 DEF InsertRow
        <3>2. e = f
            BY <3>1 DEF Shape, TypeOK, HasId
        <3> QED BY <2>4, <3>2
    <2> QED BY <1>1, <2>1, <2>2, <2>3, <2>4 DEF Writer
<1>2. ~UNCHANGED stage
    BY DEF HasId
<1>3. \E f \in Events : Writer(f)
    BY <1>2 DEF Next, vars, server, Replay, ReadRows, ReadCurrent, ApplyPage, PageFails, Open, Register,
       Deliver, Drop, Disconnect, Login, LoadLists, AskCursor, BecomeReady, Relogin
<1> QED BY <1>1, <1>3

LEMMA LastUncommittedStep ==
    ASSUME Shape, LastUncommitted, [Next]_vars, Calm'
    PROVE  LastUncommitted'
<1> SUFFICES ASSUME NEW e \in Events, NEW f \in Events, stage'[e] = "inserted"
             PROVE  id'[f] <= id'[e]
    BY DEF LastUncommitted
<1>1. Shape' /\ HasId(e)'
    BY ShapeStep DEF HasId
<1>2. id'[f] <= lastId' /\ id'[e] > History
    BY <1>1, HistoryIsNat DEF Shape, Numbered, TypeOK
<1>3. CASE stage[e] = "inserted"
    <2>1. id[f] <= id[e] /\ HasId(e) /\ id'[e] = id[e]
        BY <1>3, NumberedStep DEF LastUncommitted, HasId
    <2>2. CASE HasId(f)
        BY <2>1, <2>2, NumberedStep
    <2>3. CASE ~HasId(f)' 
        BY <1>1, <1>2, <2>3, HistoryIsNat DEF Shape, Numbered, TypeOK
    <2>4. CASE ~HasId(f) /\ HasId(f)'
        <3>1. InsertRow(f)
            BY <2>4, IdsComeByInsert
        <3>2. "overlap" \in mishaps'
            BY <3>1, <1>3 DEF InsertRow, Writing
        <3> QED BY <3>2 DEF Calm
    <2> QED BY <2>2, <2>3, <2>4
<1>4. CASE stage[e] # "inserted"
    <2>1. ~HasId(e)
        BY <1>4, ChangesCome DEF HasId
    <2>2. id'[e] > lastId
        BY <2>1, <1>1, NumberedStep
    <2>3. CASE HasId(f)
        <3>1. id'[f] = id[f] /\ id[f] <= lastId
            BY <2>3, NumberedStep DEF Shape, Numbered
        <3>2. id[f] \in Nat /\ lastId \in Nat /\ id'[e] \in Nat
            BY <1>1 DEF Shape, TypeOK
        <3> QED BY <3>1, <3>2, <2>2
    <2>4. CASE ~HasId(f)'
        BY <1>1, <1>2, <2>4, HistoryIsNat DEF Shape, Numbered, TypeOK
    <2>5. CASE ~HasId(f) /\ HasId(f)'
        <3>1. InsertRow(f)
            BY <2>5, IdsComeByInsert
        <3>2. stage' = [stage EXCEPT ![f] = "inserted"]
            BY <3>1 DEF InsertRow
        <3>3. e = f
            BY <3>2, <1>4 DEF Shape, TypeOK
        <3> QED BY <3>3, <1>1 DEF Shape, TypeOK
    <2> QED BY <2>3, <2>4, <2>5
<1> QED BY <1>3, <1>4

\* What is settled stays settled: a new id is above every id there is.
LEMMA MarkStays ==
    ASSUME Shape, [Next]_vars, Calm', NEW c \in Nat, Mark(c)
    PROVE  Mark(c)'
<1>1. Shape' /\ lastId <= lastId' /\ lastId \in Nat /\ lastId' \in Nat /\ c <= lastId
    BY ShapeStep, NumberedStep DEF Shape, TypeOK, Mark, Settled
<1>2. ASSUME NEW e \in Events, stage'[e] = "inserted" PROVE c < id'[e]
    <2>1. id'[e] \in Nat /\ HasId(e)'
        BY <1>1, <1>2 DEF Shape, TypeOK, HasId
    <2>2. CASE stage[e] = "inserted"
        BY <2>2, NumberedStep DEF Mark, Settled, HasId
    <2>3. CASE stage[e] # "inserted"
        <3>1. ~HasId(e)
            BY <2>3, <1>2, ChangesCome DEF HasId
        <3>2. id'[e] > lastId
            BY <3>1, <2>1, NumberedStep
        <3> QED BY <3>2, <2>1, <1>1
    <2> QED BY <2>2, <2>3
<1> QED BY <1>1, <1>2 DEF Mark, Settled

\* What is shown up to a settled value stays so, as long as the client forgets nothing.
LEMMA ShownStays ==
    ASSUME Shape, [Next]_vars, NEW c \in Nat, c <= lastId, NEW K, K \subseteq known',
           \A e \in Events : HasId(e) /\ id[e] <= c => e \in K
    PROVE  Shown(c)'
<1> SUFFICES ASSUME NEW e \in Events, HasId(e)', id'[e] <= c PROVE e \in K
    BY DEF Shown
<1>1. Shape' /\ id'[e] \in Nat /\ lastId \in Nat
    BY ShapeStep DEF Shape, TypeOK
<1>2. HasId(e)
    BY <1>1, NumberedStep
<1> QED BY <1>2, NumberedStep

\* The client forgets only when it logs out; loading its lists it learns all there is.
LEMMA KnownGrows ==
    ASSUME [Next]_vars
    PROVE  /\ boot # "load" /\ boot' # "load" => known \subseteq known'
           /\ boot = "load" /\ boot' # "load" =>
                  /\ boot' = "cursor" /\ UNCHANGED server
                  /\ known' = {e \in Events : stage[e] # "none"}
BY DEF Next, vars, link, boots, loops, state, Writer, Change, InsertRow, CommitRow, Notify, Replay,
   ReadRows, ReadCurrent, ApplyPage, PageFails, Open, Deliver, Register, Drop, Disconnect, Login,
   LoadLists, AskCursor, BecomeReady, Relogin

\* Whoever has all changes at one time has what every cursor of that time covers.
LEMMA AllIsShown ==
    ASSUME AllShown, NEW c PROVE Shown(c)
BY DEF AllShown, Shown, HasId

\* An id a query returned is settled, and every row up to it is committed.
LEMMA CommittedIsSettled ==
    ASSUME Shape, LastUncommitted, NEW e \in Visible
    PROVE  /\ Settled(id[e])
           /\ \A f \in Events : HasId(f) /\ id[f] <= id[e] => f \in Visible
<1>1. e \in Events /\ HasId(e) /\ stage[e] # "inserted" /\ id[e] \in Nat
    BY VisibleHasId DEF Shape, TypeOK
<1>2. ASSUME NEW f \in Events, stage[f] = "inserted" PROVE id[e] < id[f]
    <2>1. id[e] <= id[f] /\ id[f] # id[e] /\ id[f] \in Nat
        BY <1>1, <1>2 DEF LastUncommitted, HasId, Shape, Numbered, TypeOK
    <2> QED BY <2>1, <1>1
<1>3. id[e] <= lastId
    BY <1>1 DEF Shape, Numbered
<1>4. ASSUME NEW f \in Events, HasId(f), id[f] <= id[e] PROVE f \in Visible
    <2>1. stage[f] # "inserted"
        BY <1>1, <1>2, <1>4 DEF Shape, TypeOK
    <2> QED BY <2>1, <1>4 DEF HasId, Visible
<1> QED BY <1>2, <1>3, <1>4 DEF Settled

LEMMA CurrentIsMark ==
    ASSUME History > 0, Shape, LastUncommitted PROVE Mark(CurrentSyncCursor)
<1>1. CASE CurrentSyncCursor = History
    <2>1. Settled(History)
        BY HistoryIsNat DEF Shape, TypeOK, Numbered, HasId, Settled
    <2> QED BY <1>1, <2>1 DEF Mark
<1>2. ASSUME NEW e \in Visible, CurrentSyncCursor = id[e] PROVE Mark(CurrentSyncCursor)
    <2>1. Settled(CurrentSyncCursor)
        BY <1>2, CommittedIsSettled
    <2>2. CurrentSyncCursor > 0
        BY CurrentIsCommitted, HistoryIsNat
    <2> QED BY <2>1, <2>2 DEF Mark
<1> QED BY <1>1, <1>2, CurrentIsCommitted

\* The rows query leaves no committed row out below the last one it returns.
LEMMA RowsAreWhole ==
    ASSUME Shape, LastUncommitted, NEW l \in Loops, NEW S, IsPage(S, from[l]),
           NEW e \in Events, NEW f \in S, HasId(e), from[l] < id[e], id[e] <= id[f]
    PROVE  e \in S
<1>1. S \subseteq Visible
    BY DEF IsPage, After
<1>2. e \in Visible
    BY <1>1, CommittedIsSettled
<1>3. e \in After(from[l])
    BY <1>2 DEF After
<1>4. id[e] \in Nat /\ id[f] \in Nat
    BY <1>1 DEF Shape, TypeOK, Visible
<1>5. e \in S \/ id[f] < id[e]
    BY <1>3 DEF IsPage
<1> QED BY <1>4, <1>5

\* After an answer, the cursor is next_cursor, settled, and nothing up to it is missing.
LEMMA AnswerIsShown ==
    ASSUME Shape, LastUncommitted, NEW l \in Loops, AtLoop(l), ApplyPage(l)
    PROVE  /\ NewCursor(l) = NextCursor(l)
           /\ Mark(NextCursor(l))
           /\ boot # "load" => \A e \in Events : HasId(e) /\ id[e] <= NextCursor(l) => e \in known'
<1>1. Mark(from[l]) /\ Whole(l) /\ (boot # "load" => Shown(from[l])) /\ known' = known \cup page[l]
    BY DEF ApplyPage, AtLoop
<1>2. from[l] \in Nat /\ from[l] > 0 /\ id \in [Events -> Nat]
    BY <1>1 DEF Shape, TypeOK, Mark
<1>3. NextCursor(l) > 0 /\ NextCursor(l) \in Nat
    BY <1>2, NextCursorOfPage
<1>4. Mark(NextCursor(l))
    <2>1. ASSUME NEW f \in page[l], NextCursor(l) = id[f] PROVE Settled(NextCursor(l))
        BY <2>1, CommittedIsSettled DEF Shape, Paged
    <2> QED BY <2>1, <1>1, <1>3, NextCursorOfPage DEF Mark
<1>5. ASSUME boot # "load", NEW e \in Events, HasId(e), id[e] <= NextCursor(l) PROVE e \in known'
    <2>1. CASE id[e] <= from[l]
        BY <1>1, <1>5, <2>1 DEF Shown
    <2>2. CASE from[l] < id[e]
        <3>1. PICK f \in page[l] : NextCursor(l) = id[f]
            BY <1>2, <1>5, <2>2, NextCursorOfPage
        <3> QED BY <1>1, <1>5, <2>2, <3>1 DEF Whole
    <2> QED BY <1>2, <2>1, <2>2
<1> QED BY <1>3, <1>4, <1>5 DEF NewCursor

LEMMA AtBootStep ==
    ASSUME History > 0, Shape, LastUncommitted, AtBoot, \A l \in Loops : AtLoop(l),
           [Next]_vars, Calm'
    PROVE  AtBoot'
<1>1. Shape' /\ lastId \in Nat /\ cursor \in Nat /\ head \in Nat
    BY ShapeStep DEF Shape, TypeOK
<1>2. ASSUME boot' \in {"cursor", "set"} PROVE AllShown'
    <2>1. CASE boot = "load"
        BY <1>2, <2>1, KnownGrows DEF AllShown, server
    <2>2. CASE boot \in {"cursor", "set"}
        <3>1. known \subseteq known'
            BY <1>2, <2>2, KnownGrows
        <3> QED BY <2>2, <3>1, ChangesCome DEF AtBoot, AllShown
    <2>3. CASE boot = "ready"
        BY <1>2, <2>3 DEF Next, vars, link, boots, Writer, Change, InsertRow, CommitRow, Notify, Replay,
           ReadRows, ReadCurrent, ApplyPage, PageFails, Open, Deliver, Register, Drop, Disconnect,
           Login, LoadLists, AskCursor, BecomeReady, Relogin
    <2> QED BY <2>1, <2>2, <2>3 DEF Shape, TypeOK
<1>3. ASSUME boot' = "set" PROVE Mark(head)'
    <2>1. CASE boot = "set" /\ head' = head
        <3>1. PICK c \in Nat : c = head
            BY <1>1
        <3>2. Mark(c)'
            BY <2>1, <3>1, MarkStays DEF AtBoot
        <3> QED BY <2>1, <3>1, <3>2 DEF Mark, Settled
    <2>2. CASE AskCursor
        <3>1. head' = CurrentSyncCursor /\ stage' = stage /\ id' = id /\ lastId' = lastId
            BY <2>2 DEF AskCursor, server
        <3> QED BY <3>1, CurrentIsMark DEF Mark, Settled
    <2> QED
        BY <1>3, <2>1, <2>2 DEF Next, vars, link, boots, Writer, Change, InsertRow, CommitRow, Notify,
           Replay, ReadRows, ReadCurrent, ApplyPage, PageFails, Open, Deliver, Register, Drop,
           Disconnect, Login, LoadLists, BecomeReady, Relogin
<1>4. ASSUME boot' = "ready", boot = "ready", cursor' = cursor PROVE (Mark(cursor) /\ Shown(cursor))'
    <2>1. PICK c \in Nat : c = cursor
        BY <1>1
    <2>2. Mark(c) /\ Shown(c) /\ known \subseteq known'
        BY <1>4, <2>1, KnownGrows DEF AtBoot
    <2>3. c <= lastId
        BY <2>2 DEF Mark, Settled
    <2>4. Mark(c)' /\ Shown(c)'
        BY <2>2, <2>3, MarkStays, ShownStays DEF Shown
    <2> QED BY <1>4, <2>1, <2>4 DEF Mark, Settled, Shown
<1>5. CASE BecomeReady
    <2>1. /\ cursor' = head /\ boot = "set"
          /\ stage' = stage /\ id' = id /\ lastId' = lastId /\ known' = known
        BY <1>5 DEF BecomeReady, server, state
    <2>2. Mark(head) /\ Shown(head)
        BY <2>1, AllIsShown DEF AtBoot
    <2>3. (Mark(cursor) /\ Shown(cursor))'
        BY <2>1, <2>2 DEF Mark, Settled, Shown, HasId
    <2> QED BY <1>2, <1>3, <2>3 DEF AtBoot
<1>6. ASSUME NEW l \in Loops, ApplyPage(l), boot' = "ready" PROVE (Mark(cursor) /\ Shown(cursor))'
    <2>1. boot = "ready" /\ stage' = stage /\ id' = id /\ lastId' = lastId /\ cursor' = NextCursor(l)
        BY <1>6, AnswerIsShown DEF ApplyPage, boots, server
    <2> QED BY <1>6, <2>1, AnswerIsShown DEF Mark, Settled, Shown, HasId
<1>7. CASE boot' = "ready" /\ ~BecomeReady /\ (\A l \in Loops : ~ApplyPage(l))
    <2>1. boot = "ready" /\ cursor' = cursor
        BY <1>7 DEF Next, vars, link, boots, Writer, Change, InsertRow, CommitRow, Notify, Replay,
           ReadRows, ReadCurrent, PageFails, Open, Deliver, Register, Drop, Disconnect, Login,
           LoadLists, AskCursor, Relogin
    <2> QED BY <1>2, <1>3, <1>4, <1>7, <2>1 DEF AtBoot
<1> QED BY <1>2, <1>3, <1>5, <1>6, <1>7 DEF AtBoot

LEMMA AtLoopStep ==
    ASSUME Shape, LastUncommitted, AtBoot, NEW l \in Loops, AtLoop(l), [Next]_vars, Calm'
    PROVE  AtLoop(l)'
<1> SUFFICES ASSUME loop'[l] # "off" PROVE AtLoop(l)'
    BY DEF AtLoop
<1>1. Shape' /\ lastId \in Nat /\ cursor \in Nat /\ from[l] \in Nat /\ id \in [Events -> Nat]
    BY ShapeStep DEF Shape, TypeOK
\* A loop that goes on asks from a cursor that is settled and shown.
<1>2. ASSUME NEW c \in Nat, from'[l] = c, loop'[l] = "rows", Mark(c), NEW K, K \subseteq known',
             boot' # "load" => \A e \in Events : HasId(e) /\ id[e] <= c => e \in K
      PROVE  AtLoop(l)'
    <2>1. Mark(c)'
        BY <1>2, MarkStays
    <2>2. boot' # "load" => Shown(c)'
        <3>1. c <= lastId
            BY <1>2 DEF Mark, Settled
        <3> QED BY <1>2, <3>1, ShownStays
    <2> QED BY <1>2, <2>1, <2>2 DEF AtLoop, Mark, Settled, Shown
\* A loop that waits keeps what it has.
<1>3. ASSUME loop[l] # "off", from'[l] = from[l] PROVE (Mark(from[l]) /\ (boot # "load" => Shown(from[l])))'
    <2>1. PICK c \in Nat : c = from[l]
        BY <1>1
    <2>2. Mark(c) /\ (boot # "load" => Shown(c))
        BY <1>3, <2>1 DEF AtLoop
    <2>3. Mark(c)' /\ c <= lastId
        BY <2>2, MarkStays DEF Mark, Settled
    <2>4. ASSUME boot' # "load" PROVE Shown(c)'
        <3>1. CASE boot # "load"
            <4>1. known \subseteq known' /\ Shown(c)
                BY <2>2, <2>4, <3>1, KnownGrows
            <4> QED BY <4>1, <2>3, ShownStays DEF Shown
        <3>2. CASE boot = "load"
            BY <2>4, <3>2, KnownGrows DEF Shown, HasId, server
        <3> QED BY <3>1, <3>2
    <2> QED BY <1>3, <2>1, <2>3, <2>4 DEF Mark, Settled, Shown
<1>4. CASE UNCHANGED <<loop[l], from[l], page[l]>>
    <2>1. loop[l] # "off" /\ (loop'[l] # "rows" => Whole(l))
        BY <1>4 DEF AtLoop
    <2>2. ASSUME loop'[l] # "rows", NEW e \in Events, NEW f \in page'[l],
                 HasId(e)', from'[l] < id'[e], id'[e] <= id'[f]
          PROVE  e \in page'[l]
        <3>1. f \in page[l] /\ f \in Events /\ HasId(f)
            BY <1>4, <2>2, VisibleHasId DEF Shape, Paged
        <3>2. id'[f] = id[f] /\ id[f] <= lastId /\ id'[e] \in Nat
            BY <1>1, <3>1, NumberedStep DEF Shape, Numbered, TypeOK
        <3>3. HasId(e)
            BY <1>1, <2>2, <3>1, <3>2, NumberedStep
        <3>4. id'[e] = id[e]
            BY <3>3, NumberedStep
        <3> QED BY <1>4, <2>1, <2>2, <3>1, <3>2, <3>3, <3>4 DEF Whole
    <2> QED BY <1>3, <1>4, <2>1, <2>2 DEF AtLoop, Whole
<1>5. ASSUME from'[l] = cursor, loop'[l] = "rows", boot = "ready", known' = known
      PROVE  AtLoop(l)'
    <2>1. Mark(cursor) /\ Shown(cursor)
        BY <1>5 DEF AtBoot
    <2> QED BY <1>1, <1>2, <1>5, <2>1 DEF Shown
<1>6. CASE ReadRows(l)
    <2>1. /\ loop[l] = "rows" /\ from' = from /\ stage' = stage /\ id' = id
          /\ IsPage(page'[l], from[l])
        BY <1>6 DEF ReadRows, server, Shape, TypeOK
    <2>2. Whole(l)'
        BY <2>1, RowsAreWhole DEF Whole, HasId
    <2> QED BY <1>3, <2>1, <2>2 DEF AtLoop
<1>7. CASE ReadCurrent(l)
    <2>1. /\ loop[l] = "current" /\ from' = from /\ stage' = stage /\ id' = id /\ page' = page
        BY <1>7 DEF ReadCurrent, server
    <2>2. Whole(l)'
        BY <2>1 DEF Whole, HasId, AtLoop
    <2> QED BY <1>3, <2>1, <2>2 DEF AtLoop
<1>8. CASE ApplyPage(l)
    <2>1. /\ NewCursor(l) = NextCursor(l) /\ Mark(NextCursor(l)) /\ NextCursor(l) \in Nat
          /\ boot # "load" => \A e \in Events : HasId(e) /\ id[e] <= NextCursor(l) => e \in known'
          /\ boot' = boot
        BY <1>8, AnswerIsShown, NextCursorOfPage DEF ApplyPage, boots
    <2>2. loop'[l] = "rows" /\ from'[l] = NextCursor(l)
        <3>1. CASE HasMore(l) /\ page[l] # {}
            BY <1>8, <3>1 DEF ApplyPage, Shape, TypeOK
        <3>2. CASE ~(HasMore(l) /\ page[l] # {})
            <4>1. Finish(l, NextCursor(l))
                BY <1>8, <2>1, <3>2 DEF ApplyPage
            <4> QED BY <2>1, <4>1, FinishEnds DEF Shape
        <3> QED BY <3>1, <3>2
    <2> QED BY <1>2, <2>1, <2>2
<1>9. CASE PageFails(l)
    <2>1. Finish(l, cursor) /\ known' = known
        BY <1>9 DEF PageFails, state
    <2> QED BY <1>1, <1>5, <2>1, FinishEnds DEF Shape
<1> QED BY <1>4, <1>5, <1>6, <1>7, <1>8, <1>9, LoopSteps DEF state

\* The cursor is a watermark (chat-store.tsx:744-783, repository.go:865-882): when no
\* two appends overlap and nothing is written while the client boots, whatever lies at
\* or below it is in the client's state, for any number of rows, page size, loops,
\* logouts and failing requests; given that the stream already holds a row, since the
\* cursor of an empty stream is not one.
THEOREM NothingIsSkipped == ASSUME History > 0 PROVE Spec => []NoGap
<1>1. Init => GapInv
    BY InitShape DEF Init, GapInv, LastUncommitted, AtBoot, AtLoop
<1>2. GapInv /\ [Next]_vars => GapInv'
    <2> SUFFICES ASSUME GapInv, [Next]_vars PROVE GapInv'
        OBVIOUS
    <2>1. Shape /\ Shape'
        BY ShapeStep DEF GapInv
    <2>2. ASSUME Calm' PROVE LastUncommitted' /\ AtBoot' /\ \A l \in Loops : AtLoop(l)'
        <3>1. LastUncommitted /\ AtBoot /\ \A l \in Loops : AtLoop(l)
            BY <2>2, CalmWas DEF GapInv
        <3> QED BY <2>1, <2>2, <3>1, LastUncommittedStep, AtBootStep, AtLoopStep
    <2> QED BY <2>1, <2>2 DEF GapInv
<1>3. GapInv => NoGap
    BY DEF GapInv, Calm, AtBoot, Shown, NoGap, Shape, Numbered
<1> QED BY <1>1, <1>2, <1>3, PTL DEF Spec

-----------------------------------------------------------------------------
(***************************************************************************)
(* The order of what replays apply, while no replay from before a logout   *)
(* runs: one loop at a time, asking from the cursor, which no applied id   *)
(* exceeds.                                                                *)
(***************************************************************************)
Sole ==
    /\ \A l, m \in Loops : loop[l] # "off" /\ loop[m] # "off" => l = m
    /\ \A l \in Loops : loop[l] # "off" => inFlight /\ boot = "ready" /\ from[l] = cursor

AppliedBelow ==
    /\ boot # "ready" => applied = <<>>
    /\ \A i \in DOMAIN applied : \A m \in applied[i] : m <= cursor

Increasing ==
    \A i, j \in DOMAIN applied : i < j => \A m \in applied[i], n \in applied[j] : m < n

Ordered == Sole /\ AppliedBelow /\ Increasing

OrderInv == Shape /\ ("stray" \notin mishaps => Ordered)

\* A page goes after all that was applied, and under the new cursor.
LEMMA PageGoesLast ==
    ASSUME Shape, Ordered, NEW l \in Loops, ApplyPage(l)
    PROVE  /\ NewCursor(l) \in Nat
           /\ boot = "ready"
           /\ page[l] # {} => NewCursor(l) = NextCursor(l)
           /\ AppliedBelow' /\ Increasing'
<1> DEFINE S == {id[e] : e \in page[l]}
           n == Len(applied)
<1>1. /\ loop[l] = "apply" /\ applied' = Append(applied, S)
      /\ cursor' = NewCursor(l) /\ boot' = boot
    BY DEF ApplyPage, boots
<1>2. boot = "ready" /\ from[l] = cursor
    BY <1>1 DEF Ordered, Sole
<1>3. /\ S \in SUBSET Nat /\ cursor \in Nat /\ current[l] \in Nat /\ applied \in Seq(SUBSET Nat)
      /\ id \in [Events -> Nat] /\ page[l] \subseteq Events
    BY DEF Shape, TypeOK
<1>4. \A m \in S : m > cursor /\ m <= NextCursor(l)
    BY <1>1, <1>2, NextCursorOfPage DEF Shape, Paged
<1>5. /\ NextCursor(l) \in Nat /\ cursor <= NextCursor(l)
      /\ NextCursor(l) <= NewCursor(l) /\ NewCursor(l) \in Nat
    BY <1>2, <1>3, NextCursorOfPage DEF NewCursor
<1>6. page[l] # {} => NewCursor(l) = NextCursor(l)
    <2> SUFFICES ASSUME NEW e \in page[l] PROVE NextCursor(l) # 0
        BY DEF NewCursor
    <2>1. id[e] > cursor /\ id[e] <= NextCursor(l)
        BY <1>4
    <2>2. id[e] \in Nat
        BY <1>3
    <2> HIDE DEF S
    <2> QED BY <2>1, <2>2, <1>3, <1>5
<1>7. /\ n \in Nat /\ DOMAIN applied = 1 .. n /\ DOMAIN applied' = 1 .. n + 1
      /\ \A i \in 1 .. n : applied'[i] = applied[i] /\ applied[i] \in SUBSET Nat
      /\ applied'[n + 1] = S
    <2> HIDE DEF S
    <2> QED BY <1>1, <1>3, AppendProperties, LenProperties, ElementOfSeq
<1> HIDE DEF S, n
<1>8. \A i \in 1 .. n : \A m \in applied[i] : m <= cursor /\ m \in Nat
    BY <1>7 DEF Ordered, AppliedBelow
<1>9. \A m \in S : m \in Nat /\ cursor < m /\ m <= NewCursor(l)
    BY <1>3, <1>4, <1>5
<1>10. AppliedBelow'
    <2>1. ASSUME NEW i \in 1 .. n + 1, NEW m \in applied'[i] PROVE m <= NewCursor(l)
        <3>1. CASE i \in 1 .. n
            BY <3>1, <2>1, <1>3, <1>5, <1>7, <1>8
        <3>2. CASE i = n + 1
            <4>1. m \in S
                BY <3>2, <2>1, <1>7
            <4> QED BY <4>1, <1>9
        <3> QED BY <3>1, <3>2, <1>7
    <2> QED BY <2>1, <1>1, <1>2, <1>7 DEF AppliedBelow
<1>11. Increasing'
    <2>1. ASSUME NEW i \in 1 .. n + 1, NEW j \in 1 .. n + 1, i < j,
                 NEW m \in applied'[i], NEW k \in applied'[j]
          PROVE  m < k
        <3>1. i \in 1 .. n /\ m \in applied[i]
            BY <2>1, <1>7
        <3>2. CASE j \in 1 .. n
            BY <3>1, <3>2, <2>1, <1>7 DEF Ordered, Increasing
        <3>3. CASE j = n + 1
            <4>1. k \in S
                BY <3>3, <2>1, <1>7
            <4>2. m <= cursor /\ m \in Nat
                BY <3>1, <1>8
            <4> QED BY <4>1, <4>2, <1>3, <1>9
        <3> QED BY <3>2, <3>3, <1>7
    <2> QED BY <2>1, <1>7 DEF Increasing
<1> QED BY <1>2, <1>5, <1>6, <1>10, <1>11

LEMMA OrderedStep ==
    ASSUME Shape, Ordered, [Next]_vars, "stray" \notin mishaps'
    PROVE  Ordered'
<1> USE DEF Ordered
<1>0. cursor \in Nat
    BY DEF Shape, TypeOK
<1>1. ASSUME UNCHANGED <<loop, from, inFlight, boot, cursor, applied>> PROVE Ordered'
    BY <1>1 DEF Sole, AppliedBelow, Increasing
<1>2. ASSUME Trigger, UNCHANGED <<boot, cursor, applied>> PROVE Ordered'
    <2>1. CASE UNCHANGED <<loop, from, inFlight>>
        BY <1>1, <1>2, <2>1
    <2>2. ASSUME boot = "ready", ~inFlight, inFlight',
                 NEW l \in Loops, from'[l] = cursor,
                 \A m \in Loops \ {l} : loop'[m] = loop[m] /\ from'[m] = from[m]
          PROVE  Ordered'
        <3>1. \A m \in Loops : loop[m] = "off"
            BY <2>2 DEF Sole
        <3>2. Sole'
            BY <1>2, <2>2, <3>1 DEF Sole
        <3> QED BY <1>2, <3>2 DEF AppliedBelow, Increasing
    <2> QED BY <1>2, <2>1, <2>2, TriggerStarts DEF Shape
<1>3. CASE Open
    BY <1>2, <1>3 DEF Open, boots, state
<1>4. CASE Deliver
    BY <1>1, <1>2, <1>4 DEF Deliver, boots, state, loops
<1>5. ASSUME NEW l \in Loops, NEW k \in {"current", "apply"}, loop[l] # "off",
             loop' = [loop EXCEPT ![l] = k], UNCHANGED <<from, inFlight, boot, cursor, applied>>
      PROVE  Ordered'
    <2>1. \A m \in Loops : loop'[m] # "off" => loop[m] # "off"
        BY <1>5 DEF Shape, TypeOK
    <2>2. Sole'
        BY <1>5, <2>1 DEF Sole
    <2> QED BY <1>5, <2>2 DEF AppliedBelow, Increasing
<1>6. ASSUME NEW l \in Loops, ReadRows(l) \/ ReadCurrent(l) PROVE Ordered'
    BY <1>5, <1>6 DEF ReadRows, ReadCurrent, boots, state
<1>7. ASSUME NEW l \in Loops, loop[l] # "off", NEW c \in Nat, Finish(l, c), cursor' = c, boot' = boot
      PROVE  Sole'
    <2>1. \A m \in Loops \ {l} : loop'[m] = "off"
        BY <1>7, FinishEnds DEF Sole, Shape
    <2>2. loop'[l] # "off" => from'[l] = c /\ boot = "ready" /\ inFlight'
        BY <1>7, FinishEnds DEF Shape
    <2> QED BY <1>7, <2>1, <2>2 DEF Sole
<1>8. ASSUME NEW l \in Loops, ApplyPage(l) PROVE Ordered'
    <2>1. loop[l] # "off" /\ cursor' = NewCursor(l) /\ boot' = boot
        BY <1>8 DEF ApplyPage, boots
    <2>2. CASE HasMore(l) /\ page[l] # {}
        <3>1. /\ loop' = [loop EXCEPT ![l] = "rows"] /\ from' = [from EXCEPT ![l] = NextCursor(l)]
              /\ inFlight' = inFlight
            BY <1>8, <2>2 DEF ApplyPage
        <3>2. from'[l] = cursor' /\ \A m \in Loops \ {l} : loop'[m] = "off"
            BY <1>8, <2>1, <2>2, <3>1, PageGoesLast DEF Sole, Shape, TypeOK
        <3>3. Sole'
            BY <2>1, <3>1, <3>2 DEF Sole
        <3> QED BY <1>8, <3>3, PageGoesLast
    <2>3. CASE ~(HasMore(l) /\ page[l] # {})
        <3>1. Finish(l, NewCursor(l))
            BY <1>8, <2>3 DEF ApplyPage
        <3> QED BY <1>7, <1>8, <2>1, <3>1, PageGoesLast
    <2> QED BY <2>2, <2>3
<1>9. ASSUME NEW l \in Loops, PageFails(l) PROVE Ordered'
    <2>1. /\ loop[l] # "off" /\ Finish(l, cursor)
          /\ cursor' = cursor /\ boot' = boot /\ applied' = applied
        BY <1>9 DEF PageFails, boots, state
    <2>2. Sole'
        BY <1>0, <1>7, <2>1
    <2> QED BY <2>1, <2>2 DEF AppliedBelow, Increasing
<1>10. ASSUME boot # "ready", UNCHANGED <<loop, applied>> PROVE Ordered'
    <2>1. applied' = <<>> /\ \A l \in Loops : loop'[l] = "off"
        BY <1>10 DEF Sole, AppliedBelow
    <2> QED BY <2>1 DEF Sole, AppliedBelow, Increasing
<1>11. CASE Login
    BY <1>10, <1>11 DEF Login, LoadLists, AskCursor, BecomeReady, loops, state
<1>12. CASE Relogin
    <2>1. applied' = <<>> /\ loop' = loop /\ \A l \in Loops : loop[l] = "off"
        BY <1>12 DEF Relogin
    <2> QED BY <2>1 DEF Sole, AppliedBelow, Increasing
<1>13. CASE Register \/ Drop \/ Disconnect \/ \E e \in Events : Writer(e)
    BY <1>1, <1>13 DEF Register, Drop, Disconnect, Writer, Change, InsertRow, CommitRow, Notify,
       boots, loops, state
<1>14. CASE UNCHANGED vars
    BY <1>1, <1>14 DEF vars, boots, loops, state
<1> QED
    BY <1>3, <1>4, <1>6, <1>8, <1>9, <1>11, <1>12, <1>13, <1>14 DEF Next, Replay

\* Replays are applied in order (chat-store.tsx:744-783): however triggers, pages,
\* failures, reconnects and logouts overlap, overlapping appends among them, the ids
\* that pages apply increase strictly, unless a replay from before a logout still runs.
THEOREM ReplayIsOrdered == Spec => []AppliedInOrder
<1>1. Init => OrderInv
    BY InitShape DEF Init, OrderInv, Ordered, Sole, AppliedBelow, Increasing
<1>2. OrderInv /\ [Next]_vars => OrderInv'
    <2> SUFFICES ASSUME OrderInv, [Next]_vars PROVE OrderInv'
        OBVIOUS
    <2>1. Shape /\ Shape'
        BY ShapeStep DEF OrderInv
    <2>2. ASSUME "stray" \notin mishaps' PROVE Ordered'
        BY <2>1, <2>2, MishapsStay, OrderedStep DEF OrderInv
    <2> QED BY <2>1, <2>2 DEF OrderInv
<1>3. OrderInv => AppliedInOrder
    BY DEF OrderInv, Ordered, Increasing, AppliedInOrder, Shape
<1> QED BY <1>1, <1>2, <1>3, PTL DEF Spec

-----------------------------------------------------------------------------
(***************************************************************************)
(* The window that the records reach (ChatStore).                          *)
(***************************************************************************)
WindowRow == [msg : Messages, id : {"local", "stored"}, seq : Nat, status : Status,
              recalled : BOOLEAN]

\* A list of messages: one row each, and an end to it.
RowList(rs) ==
    /\ rs \subseteq WindowRow
    /\ \E b \in Nat : \A r \in rs : r.seq <= b
    /\ \A r, q \in rs : r.msg = q.msg => r = q

\* What the calls, records and lists are made of.
MemberList == [read : Nat, third : BOOLEAN]

LoadCall == [conv : Convs, paged : BOOLEAN, rows : SUBSET WindowRow,
             members : MemberList \cup {None}, live : BOOLEAN, stale : BOOLEAN]

ReloadCall == [conv : Convs, when : {"whenShown", "always", "open"},
               members : MemberList \cup {None}, stale : BOOLEAN]

MemberCall == [conv : Convs, add : BOOLEAN, served : BOOLEAN]

Record == [type : {"accepted", "persisted", "delivered", "read", "recalled", "members"},
           conv : Convs, msg : Messages \cup {None}, seq : Nat]

SendCall == [pc : {"none", "asked", "answer", "done", "failed"}, conv : Convs \cup {None}]

\* Types, of the service and what it sends, of the page, and of the calls under way.
ServiceTypes ==
    /\ log \in [Convs -> Seq(Messages)]
    /\ recalled \subseteq Messages
    /\ myRead \in [Convs -> Nat] /\ theirRead \in [Convs -> Nat]
    /\ events \in Seq(Record)

PageTypes ==
    /\ cur \in Convs \cup {None}
    /\ RowList(rows)
    /\ members \in MemberList
    /\ sending \in [Mine -> SendCall]
    /\ \A k \in Mine : sending[k].pc # "none" => sending[k].conv \in Convs
    /\ torn \in BOOLEAN /\ collided \in BOOLEAN

CallTypes ==
    /\ loads \subseteq LoadCall /\ \A l \in loads : RowList(l.rows)
    /\ calls \subseteq MemberCall
    /\ reloads \subseteq ReloadCall
    /\ marks \subseteq [conv : Convs, seq : Nat]

WindowTypes == ServiceTypes /\ PageTypes /\ CallTypes

\* A message has one place in one log; what was answered or recalled has one.

LogTrue ==
    /\ \A c, d \in Convs : \A i \in DOMAIN log[c], j \in DOMAIN log[d] :
          log[c][i] = log[d][j] => c = d /\ i = j
    /\ \A k \in Mine : sending[k].pc \in {"answer", "done"} => \E c \in Convs : Stored(c, k)
    /\ \A k \in Mine : sending[k].pc = "none" => \A c \in Convs : ~Stored(c, k)
    /\ \A m \in recalled : \E c \in Convs : Stored(c, m)

\* A record is of a message at its place.
RecordsTrue ==
    \A p \in DOMAIN events : LET e == events[p] IN
       e.type # "members" => /\ e.seq \in DOMAIN log[e.conv]
                             /\ log[e.conv][e.seq] = e.msg
                             /\ e.type = "recalled" => e.msg \in recalled

\* A record of this type, of a conversation and the number in it, is on its way.
Comes(type, c, n) == \E p \in DOMAIN events :
    events[p].type = type /\ events[p].conv = c /\ events[p].seq = n

ReadComes(c) == \E p \in DOMAIN events : events[p].type = "read" /\ events[p].conv = c
MembersCome(c) == \E p \in DOMAIN events : events[p].type = "members" /\ events[p].conv = c

\* Numbers rise, a recall follows its message, and the last read position is the highest.
RecordsOrdered ==
    /\ \A p, q \in DOMAIN events :
          p < q /\ events[p].type = "persisted" /\ events[q].type = "persisted"
            /\ events[p].conv = events[q].conv => events[p].seq < events[q].seq
    /\ \A p \in DOMAIN events :
          events[p].type = "persisted" /\ events[p].msg \in recalled =>
             \E q \in DOMAIN events : /\ p < q /\ events[q].type = "recalled"
                                      /\ events[q].conv = events[p].conv
                                      /\ events[q].seq = events[p].seq
    /\ \A p \in DOMAIN events :
          events[p].type = "read" =>
             \/ events[p].seq = theirRead[events[p].conv]
             \/ \E q \in DOMAIN events : /\ p < q /\ events[q].type = "read"
                                         /\ events[q].conv = events[p].conv

\* A page is a beginning of the log.
PagesTrue ==
    \A l \in loads :
       /\ l.live => l.conv = cur
       /\ \A r \in l.rows : /\ r.id = "stored"
                            /\ r.seq \in DOMAIN log[l.conv] /\ log[l.conv][r.seq] = r.msg
                            /\ \A i \in 1..r.seq : \E q \in l.rows : q.msg = log[l.conv][i]

\* A row the service numbered is of a stored message, and so is one shown as sent.
ShownTrue ==
    /\ \A r \in rows : r.id = "stored" => \E c \in Convs : Stored(c, r.msg)
    /\ ShownSentIsStored

\* Rows are seen; a position of this user passes only what was shown, or was heard of.
MarkedTrue ==
    /\ \A r \in rows : r.msg \in seen
    /\ \A c \in Convs : myRead[c] <= Len(log[c])
    /\ \A k \in marks : k.seq <= Len(log[k.conv])
    /\ \A c \in Convs : \A i \in DOMAIN log[c] :
          (i <= myRead[c] \/ \E k \in marks : k.conv = c /\ i <= k.seq) =>
             (log[c][i] \in Theirs => log[c][i] \in seen \/ ~Comes("persisted", c, i))

\* A recall the row does not show comes.
RecallTold(c, r, i) == r.recalled = (r.msg \in recalled) \/ Comes("recalled", c, i)

\* Every message of the conversation has a numbered row, or its record comes.
Covers(c, rs) ==
    \A i \in DOMAIN log[c] : \/ Comes("persisted", c, i)
                             \/ \E r \in rs : r.msg = log[c][i] /\ r.id = "stored"

\* The members are the service's, or a record of them comes, or a load of those in rs.
MembersTold(c, ms, rs) ==
    /\ ms.read = theirRead[c] \/ ReadComes(c)
    /\ \/ ms.third = (c \in third)
       \/ MembersCome(c)
       \/ \E r \in rs : r.conv = c /\ r.when # "open"

\* A load of the conversation on screen that is not old is owed what its page lacks.
LoadsTold ==
    \A l \in loads : l.conv = cur /\ ~l.stale =>
       /\ l.paged => /\ Covers(cur, l.rows)
                     /\ \A r \in l.rows : RecallTold(cur, r, r.seq)
       /\ l.members # None => MembersTold(cur, l.members, reloads)

\* The window is of the current conversation, and nothing was lost.
Fresh == cur # None /\ ~torn /\ \A l \in loads : l.conv # cur

\* The row's number is the service's, not a guess that a lost answer left.
Final(m) == m \in Theirs \/ sending[m].pc = "done"

\* A numbered row is of a message of the conversation, at its place.
NumberedTold ==
    \A r \in rows : r.id = "stored" =>
       \E i \in DOMAIN log[cur] : /\ log[cur][i] = r.msg
                                  /\ Final(r.msg) => r.seq = i /\ RecallTold(cur, r, i)

\* The row is of a send that is under way or failed.
Underway(r) ==
    /\ r.msg \in Mine
    /\ \/ sending[r.msg].pc \in {"asked", "answer"}
       \/ sending[r.msg].pc = "failed" /\ (r.status = "failed" \/ collided)

\* The loads of the members that are not known to be old, but this.
OthersThan(b) == {s \in reloads : s # b /\ ~s.stale}

\* The window is owed what it lacks, and so is each load of its members that has its answer.
WindowTold ==
    Fresh =>
       /\ Covers(cur, rows)
       /\ NumberedTold
       /\ \A r \in rows : (\E i \in DOMAIN log[cur] : log[cur][i] = r.msg) \/ Underway(r)
       /\ MembersTold(cur, members, reloads)
       /\ \A b \in reloads : b.conv = cur /\ b.members # None /\ ~b.stale =>
             MembersTold(cur, b.members, OthersThan(b))

-----------------------------------------------------------------------------
(***************************************************************************)
(* Lists of rows, the log and the queue of records.                        *)
(***************************************************************************)
\* LastSeq is the highest number of the rows, and 0 of no rows.
LEMMA LastSeqIsLast ==
    ASSUME NEW rs, RowList(rs)
    PROVE  /\ LastSeq(rs) \in Nat
           /\ \A r \in rs : r.seq <= LastSeq(rs)
           /\ rs # {} => \E r \in rs : r.seq = LastSeq(rs)
<1> DEFINE S == {r.seq : r \in rs}
<1>1. CASE rs = {}
    BY <1>1 DEF LastSeq
<1>2. CASE rs # {}
    <2>1. S \in SUBSET Nat /\ S # {}
        BY <1>2 DEF RowList, WindowRow
    <2>2. PICK b \in Nat : \A m \in S : m <= b
        BY DEF RowList
    <2>3. \E n \in S : \A m \in S : m <= n
        <3> HIDE DEF S
        <3> QED BY <2>1, <2>2, BoundedHasGreatest
    <2>4. \E n \in S : \A r \in rs : r.seq <= n
        BY <2>3
    <2>5. LastSeq(rs) \in S /\ \A r \in rs : r.seq <= LastSeq(rs)
        BY <2>4, <1>2 DEF LastSeq
    <2> QED BY <2>1, <2>5
<1> QED BY <1>1, <1>2

\* replaceMessage leaves one row for a message.
LEMMA ReplaceKeepsList ==
    ASSUME NEW rs, RowList(rs), NEW next \in WindowRow
    PROVE  RowList(ReplaceMessage(rs, next))
<1>1. PICK b \in Nat : \A r \in rs : r.seq <= b
    BY DEF RowList
<1>2. next.seq \in Nat /\ \A r \in rs : r.seq \in Nat
    BY DEF WindowRow, RowList
<1>3. \A r \in ReplaceMessage(rs, next) : r.seq <= b + next.seq
    BY <1>1, <1>2 DEF ReplaceMessage
<1>4. b + next.seq \in Nat
    BY <1>2
<1> QED BY <1>3, <1>4 DEF RowList, ReplaceMessage

\* Neither does a change of the rows one by one that keeps their names and numbers.
LEMMA RetouchKeepsList ==
    ASSUME NEW rs, RowList(rs), NEW f \in [rs -> WindowRow],
           \A r \in rs : f[r].msg = r.msg /\ f[r].seq = r.seq
    PROVE  RowList({f[r] : r \in rs})
BY DEF RowList

\* Number is the place of a stored message.
LEMMA NumberIsPlace ==
    ASSUME NEW c \in Convs, NEW m, Stored(c, m)
    PROVE  Number(c, m) \in DOMAIN log[c] /\ log[c][Number(c, m)] = m
BY DEF Stored, Number

\* A page has one row for a message, at its place.
LEMMA PageIsList ==
    ASSUME NEW c \in Convs, ServiceTypes
    PROVE  /\ RowList(Page(c))
           /\ \A r \in Page(c) : /\ r.id = "stored" /\ r.seq \in DOMAIN log[c]
                                 /\ log[c][r.seq] = r.msg
                                 /\ r.recalled = (r.msg \in recalled)
           /\ \A i \in DOMAIN log[c] : \E r \in Page(c) : r.msg = log[c][i] /\ r.id = "stored"
<1>0. log[c] \in Seq(Messages) /\ Len(log[c]) \in Nat /\ DOMAIN log[c] = 1..Len(log[c])
    BY DEF ServiceTypes
<1>1. ASSUME NEW i \in DOMAIN log[c]
      PROVE  LET r == Row(c, log[c][i]) IN
             /\ r \in WindowRow /\ r.msg = log[c][i] /\ r.id = "stored"
             /\ r.seq \in DOMAIN log[c] /\ log[c][r.seq] = r.msg
             /\ r.recalled = (r.msg \in recalled)
    <2>1. Stored(c, log[c][i])
        BY DEF Stored
    <2>2. Number(c, log[c][i]) \in DOMAIN log[c] /\ log[c][Number(c, log[c][i])] = log[c][i]
        BY <2>1, NumberIsPlace
    <2>3. log[c][i] \in Messages /\ Number(c, log[c][i]) \in Nat
        BY <1>0, <2>2
    <2> QED BY <2>2, <2>3 DEF Row, WindowRow, Status
<1>2. \A r \in Page(c) : \E i \in DOMAIN log[c] : r = Row(c, log[c][i])
    BY DEF Page
<1>3. \A r \in Page(c) : /\ r \in WindowRow /\ r = Row(c, r.msg)
                         /\ r.id = "stored" /\ r.seq \in DOMAIN log[c]
                         /\ log[c][r.seq] = r.msg /\ r.recalled = (r.msg \in recalled)
    <2> TAKE r \in Page(c)
    <2>1. PICK i \in DOMAIN log[c] : r = Row(c, log[c][i])
        BY <1>2
    <2>2. r.msg = log[c][i]
        BY <1>1, <2>1
    <2> QED BY <1>1, <2>1, <2>2
<1>4. \A r \in Page(c) : r.seq <= Len(log[c])
    BY <1>0, <1>3
<1>5. \A i \in DOMAIN log[c] : Row(c, log[c][i]) \in Page(c)
    BY DEF Page
<1>6. RowList(Page(c))
    <2>1. \A r, q \in Page(c) : r.msg = q.msg => r = q
        BY <1>3
    <2> QED BY <1>0, <1>3, <1>4, <2>1 DEF RowList
<1> QED BY <1>1, <1>3, <1>5, <1>6

\* Records that are put in the queue come after those that are there.
LEMMA QueueGrows ==
    ASSUME NEW T, NEW q \in Seq(T), NEW es \in Seq(T)
    PROVE  /\ q \o es \in Seq(T)
           /\ \A p \in DOMAIN q : p \in DOMAIN (q \o es) /\ (q \o es)[p] = q[p]
           /\ \A p \in DOMAIN (q \o es) :
                 p \notin DOMAIN q => /\ \A o \in DOMAIN q : o < p
                                      /\ p - Len(q) \in DOMAIN es
                                      /\ (q \o es)[p] = es[p - Len(q)]
           /\ \A p \in DOMAIN es : /\ Len(q) + p \in DOMAIN (q \o es)
                                   /\ (q \o es)[Len(q) + p] = es[p]
                                   /\ \A o \in DOMAIN q : o < Len(q) + p
OBVIOUS

\* The first record is taken, and the others move up.
LEMMA QueueMoves ==
    ASSUME NEW T, NEW q \in Seq(T), q # <<>>
    PROVE  /\ Tail(q) \in Seq(T) /\ Head(q) \in T /\ Head(q) = q[1] /\ 1 \in DOMAIN q
           /\ \A p \in DOMAIN Tail(q) : /\ p \in Nat /\ p + 1 \in DOMAIN q
                                        /\ Tail(q)[p] = q[p + 1]
           /\ \A p \in DOMAIN q : /\ p \in Nat
                                  /\ p # 1 => 1 < p /\ p - 1 \in DOMAIN Tail(q) /\ Tail(q)[p - 1] = q[p]
<1>1. Len(q) \in Nat /\ Len(q) # 0 /\ DOMAIN q = 1..Len(q)
    OBVIOUS
<1>2. Tail(q) \in Seq(T) /\ Head(q) = q[1] /\ Len(Tail(q)) = Len(q) - 1
    OBVIOUS
<1>3. \A i \in 1..(Len(q) - 1) : Tail(q)[i] = q[i + 1]
    OBVIOUS
<1> QED BY <1>1, <1>2, <1>3

-----------------------------------------------------------------------------
(***************************************************************************)
(* What applyIncomingEvent makes of the rows.                              *)
(***************************************************************************)
\* The row was there, as it is but for its status and its recall.
SameRow(q, r) == q.msg = r.msg /\ q.id = r.id /\ q.seq = r.seq

\* Why its status may have changed.
Retold(e, r) ==
    \/ e.type \in {"accepted", "delivered"} /\ r.msg = e.msg
    \/ e.type = "read" /\ r \in Covered(e)
    \/ e.type = "recalled" /\ r.msg = e.msg /\ r.id = "stored" /\ r.status # "failed"

\* The record recalls the row.
RecalledBy(e, r) == e.type = "recalled" /\ r.msg = e.msg /\ r.id = "stored"

\* The row q is what the record e makes of r.
Touched(e, q, r) ==
    /\ q \in WindowRow /\ SameRow(q, r)
    /\ q.status = r.status \/ Retold(e, r)
    /\ IF RecalledBy(e, r) THEN q.recalled ELSE q.recalled = r.recalled

\* The rows after a record are those before it, touched one by one; or the message
\* came, with no row of it the service had numbered.
LEMMA AppliedRows ==
    ASSUME RowList(rows), NEW e \in Record, e.type = "persisted" => e.msg \in Messages
    PROVE  /\ RowList(Applied(e))
           /\ \A q \in Applied(e) :
                 \/ \E r \in rows : Touched(e, q, r)
                 \/ /\ e.type = "persisted" /\ q = Carried(e)
                    /\ \A r \in rows : r.msg = e.msg => r.id # "stored"
           /\ \A r \in rows : \E q \in Applied(e) : q.msg = r.msg /\ (r.id = "stored" => q.id = "stored")
           /\ e.type = "persisted" => \E q \in Applied(e) : q.msg = e.msg /\ q.id = "stored"
<1>0. rows \subseteq WindowRow /\ \A r \in rows : r.seq \in Nat /\ r.recalled \in BOOLEAN
    BY DEF RowList, WindowRow
<1> DEFINE Goal == \E f \in [rows -> WindowRow] : /\ Applied(e) = {f[r] : r \in rows}
                                                  /\ \A r \in rows : Touched(e, f[r], r)
<1>1. CASE e.type # "persisted" /\ Goal
    <2>1. PICK f \in [rows -> WindowRow] : /\ Applied(e) = {f[r] : r \in rows}
                                           /\ \A r \in rows : Touched(e, f[r], r)
        BY <1>1
    <2>2. \A r \in rows : f[r].msg = r.msg /\ f[r].id = r.id /\ f[r].seq = r.seq
        BY <2>1 DEF Touched, SameRow
    <2>3. RowList(Applied(e))
        BY <2>1, <2>2, RetouchKeepsList
    <2> QED BY <1>1, <2>1, <2>2, <2>3
<1>2. CASE e.type = "accepted"
    <2> DEFINE f == [r \in rows |-> IF r.msg = e.msg /\ r.status = "sending" THEN [r EXCEPT !.status = "sent"] ELSE r]
    <2>1. f \in [rows -> WindowRow] /\ \A r \in rows : Touched(e, f[r], r)
        BY <1>0, <1>2 DEF Touched, SameRow, Retold, RecalledBy, WindowRow, Status
    <2>2. Applied(e) = {f[r] : r \in rows}
        BY <1>2 DEF Applied, Accepted
    <2> HIDE DEF f
    <2>3. Goal
        BY <2>1, <2>2
    <2> QED BY <1>1, <1>2, <2>3
<1>3. CASE e.type = "delivered"
    <2> DEFINE f == [r \in rows |-> IF r.msg = e.msg THEN [r EXCEPT !.status = "delivered"] ELSE r]
    <2>1. f \in [rows -> WindowRow] /\ \A r \in rows : Touched(e, f[r], r)
        BY <1>0, <1>3 DEF Touched, SameRow, Retold, RecalledBy, WindowRow, Status
    <2>2. Applied(e) = {f[r] : r \in rows}
        BY <1>3 DEF Applied, Delivered
    <2> HIDE DEF f
    <2>3. Goal
        BY <2>1, <2>2
    <2> QED BY <1>1, <1>3, <2>3
<1>4. CASE e.type = "read"
    <2> DEFINE f == [r \in rows |-> IF r \in Covered(e) THEN [r EXCEPT !.status = "read"] ELSE r]
    <2>1. f \in [rows -> WindowRow] /\ \A r \in rows : Touched(e, f[r], r)
        BY <1>0, <1>4 DEF Touched, SameRow, Retold, RecalledBy, WindowRow, Status
    <2>2. Applied(e) = {f[r] : r \in rows}
        BY <1>4 DEF Applied, Read
    <2> HIDE DEF f
    <2>3. Goal
        BY <2>1, <2>2
    <2> QED BY <1>1, <1>4, <2>3
<1>5. CASE e.type = "recalled"
    <2> DEFINE f == [r \in rows |-> IF r.msg = e.msg /\ r.id = "stored"
                                     THEN [r EXCEPT !.recalled = TRUE,
                                                    !.status = IF @ = "failed" THEN @ ELSE "read"]
                                     ELSE r]
    <2>1. ASSUME NEW r \in rows PROVE f[r] \in WindowRow /\ Touched(e, f[r], r)
        <3>1. CASE r.msg = e.msg /\ r.id = "stored"
            BY <1>0, <1>5, <3>1 DEF Touched, SameRow, Retold, RecalledBy, WindowRow, Status
        <3>2. CASE ~(r.msg = e.msg /\ r.id = "stored")
            BY <1>0, <1>5, <3>2 DEF Touched, SameRow, Retold, RecalledBy
        <3> QED BY <3>1, <3>2
    <2>2. Applied(e) = {f[r] : r \in rows}
        BY <1>5 DEF Applied, Recalled
    <2>3. f \in [rows -> WindowRow]
        BY <2>1
    <2> HIDE DEF f
    <2>4. \E g \in [rows -> WindowRow] : /\ Applied(e) = {g[r] : r \in rows}
                                         /\ \A r \in rows : Touched(e, g[r], r)
        BY <2>1, <2>2, <2>3
    <2> QED BY <1>1, <1>5, <2>4
<1>6. CASE e.type = "members"
    <2>1. Applied(e) = rows
        BY <1>6 DEF Applied
    <2>2. \A r \in rows : Touched(e, r, r)
        BY <1>0, <1>6 DEF Touched, SameRow, RecalledBy
    <2> QED BY <1>6, <2>1, <2>2
<1>7. CASE e.type = "persisted"
    <2>1. Applied(e) = Persisted(e)
        BY <1>7 DEF Applied
    <2>2. \A r \in rows : Touched(e, r, r)
        BY <1>0, <1>7 DEF Touched, SameRow, RecalledBy
    <2>3. CASE \E r \in rows : r.msg = e.msg /\ r.id = "stored"
        <3>1. Applied(e) = rows
            BY <2>1, <2>3 DEF Persisted
        <3> QED BY <2>2, <2>3, <3>1
    <2>4. CASE \A r \in rows : r.msg = e.msg => r.id # "stored"
        <3>1. Applied(e) = ReplaceMessage(rows, Carried(e))
            BY <2>1, <2>4 DEF Persisted
        <3>2. Carried(e) \in WindowRow /\ Carried(e).msg = e.msg /\ Carried(e).id = "stored"
            BY <1>7 DEF Carried, WindowRow, Status, Record
        <3>3. RowList(Applied(e))
            BY <3>1, <3>2, ReplaceKeepsList
        <3> HIDE DEF Goal
        <3>4. \A q \in Applied(e) : q \in rows \/ q = Carried(e)
            BY <3>1 DEF ReplaceMessage
        <3>5. Carried(e) \in Applied(e) /\ \A r \in rows : r.msg # e.msg => r \in Applied(e)
            BY <3>1, <3>2 DEF ReplaceMessage
        <3> QED BY <1>7, <2>2, <2>4, <3>2, <3>3, <3>4, <3>5
    <2> QED BY <2>3, <2>4
<1> QED BY <1>2, <1>3, <1>4, <1>5, <1>6, <1>7 DEF Record

-----------------------------------------------------------------------------
(***************************************************************************)
(* Types.                                                                  *)
(***************************************************************************)
LEMMA InitTypes == WindowInit => WindowTypes
<1> SUFFICES ASSUME WindowInit PROVE WindowTypes
    OBVIOUS
<1>1. ServiceTypes
    BY DEF WindowInit, ServiceTypes
<1>2. RowList({})
    BY DEF RowList
<1>3. PageTypes
    BY <1>2 DEF WindowInit, PageTypes, MemberList, SendCall, NotSent
<1>4. CallTypes
    BY DEF WindowInit, CallTypes
<1> QED BY <1>1, <1>3, <1>4 DEF WindowTypes

\* Answers that became old are of their type.
LEMMA OutdatedTypes ==
    ASSUME CallTypes, NEW c
    PROVE  /\ Outdate(c) \subseteq LoadCall /\ \A l \in Outdate(c) : RowList(l.rows)
           /\ OutdateMembers(c) \subseteq ReloadCall
<1>1. \A l \in loads : l \in LoadCall /\ RowList(l.rows)
    BY DEF CallTypes
<1>2. \A l \in Outdate(c) : \E k \in loads : l.rows = k.rows /\ l \in LoadCall
    BY <1>1 DEF Outdate, LoadCall
<1>3. \A r \in OutdateMembers(c) : r \in ReloadCall
    BY DEF OutdateMembers, ReloadCall, CallTypes
<1> QED BY <1>1, <1>2, <1>3

LEMMA HydrateTypes ==
    ASSUME CallTypes, NEW c \in Convs, Hydrate(c)
    PROVE  cur' \in Convs /\ loads' \subseteq LoadCall /\ \A l \in loads' : RowList(l.rows)
<1>1. \A l \in loads : l \in LoadCall /\ RowList(l.rows)
    BY DEF CallTypes
<1>2. RowList({})
    BY DEF RowList
<1> DEFINE new == [conv |-> c, paged |-> FALSE, rows |-> {}, members |-> None, live |-> TRUE,
                   stale |-> FALSE]
<1>3. new \in LoadCall /\ RowList(new.rows)
    BY <1>2 DEF LoadCall
<1>4. \A l \in loads' : l = new \/ \E k \in loads : l.rows = k.rows /\ l \in LoadCall
    BY <1>1 DEF Hydrate, LoadCall
<1> HIDE DEF new
<1> QED BY <1>1, <1>3, <1>4 DEF Hydrate

-----------------------------------------------------------------------------
(***************************************************************************)
(* What a step does to the service and the queue: nothing, or one of five  *)
(* moves.                                                                  *)
(***************************************************************************)
Still == UNCHANGED <<log, recalled, theirRead, third, events>>

\* The records of a message that was stored: of them one tells that it was.
NewsOf(es, c, m, n) ==
    /\ es \in Seq(Record)
    /\ \A p \in DOMAIN es : /\ es[p].type \in {"accepted", "persisted", "delivered"}
                            /\ es[p].conv = c /\ es[p].msg = m /\ es[p].seq = n
    /\ \E p \in DOMAIN es : /\ es[p].type = "persisted"
                            /\ \A q \in DOMAIN es : es[q].type = "persisted" => q = p

\* The service stores a message, moves a read position, recalls a message, or changes the
\* members; or the client takes the first record.
Stores(c, m) ==
    /\ \A d \in Convs : ~Stored(d, m)
    /\ m \in Mine => sending[m].pc = "asked"
    /\ log' = [log EXCEPT ![c] = Append(@, m)]
    /\ \E es : NewsOf(es, c, m, Len(log[c]) + 1) /\ events' = events \o es
    /\ UNCHANGED <<recalled, theirRead, third>>

Reads(c) ==
    /\ Len(log[c]) \in DOMAIN log[c]
    /\ theirRead' = [theirRead EXCEPT ![c] = Len(log[c])]
    /\ events' = events \o <<Event("read", c, log[c][Len(log[c])], Len(log[c]))>>
    /\ UNCHANGED <<log, recalled, third>>

Recalls(c, m) ==
    /\ Stored(c, m)
    /\ recalled' = recalled \cup {m}
    /\ events' = events \o <<Event("recalled", c, m, Number(c, m))>>
    /\ UNCHANGED <<log, theirRead, third>>

ThirdMoves(c) ==
    /\ events' = events \o <<Event("members", c, None, 0)>>
    /\ \A d \in Convs : d # c => (d \in third' <=> d \in third)
    /\ UNCHANGED <<log, recalled, theirRead>>

Takes ==
    /\ ApplyIncomingEvent
    /\ events # <<>>
    /\ events' = Tail(events)
    /\ UNCHANGED <<log, recalled, theirRead, third>>

ServiceMove ==
    \/ Still
    \/ \E c \in Convs, m \in Messages : Stores(c, m)
    \/ \E c \in Convs : Reads(c) \/ ThirdMoves(c)
    \/ \E c \in Convs, m \in Messages : Recalls(c, m)
    \/ Takes

LEMMA StoreMoves ==
    ASSUME WindowTypes, NEW k \in Mine, NEW online \in BOOLEAN, Store(k, online)
    PROVE  Still \/ Stores(sending[k].conv, k)
<1> DEFINE c == sending[k].conv
           n == Len(log[c]) + 1
           two == <<Event("accepted", c, k, n), Event("persisted", c, k, n)>>
           end == IF online THEN <<Event("delivered", c, k, n)>> ELSE <<>>
<1>1. c \in Convs /\ k \in Messages
    BY DEF Store, WindowTypes, PageTypes, Messages
<1>2. n \in Nat
    BY <1>1 DEF WindowTypes, ServiceTypes
<1>3. NewsOf(two \o end, c, k, n)
    <2> HIDE DEF c, n
    <2>1. /\ Event("accepted", c, k, n) \in Record /\ Event("persisted", c, k, n) \in Record
          /\ Event("delivered", c, k, n) \in Record
        BY <1>1, <1>2 DEF Event, Record
    <2>2. two \in Seq(Record) /\ end \in Seq(Record) /\ Len(two) = 2
          /\ two[1] = Event("accepted", c, k, n) /\ two[2] = Event("persisted", c, k, n)
        BY <2>1
    <2>3. end = <<>> \/ (Len(end) = 1 /\ end[1] = Event("delivered", c, k, n))
        OBVIOUS
    <2> DEFINE es == two \o end
    <2>4. es \in Seq(Record) /\ Len(es) = 2 + Len(end) /\ DOMAIN es = 1..(2 + Len(end))
        BY <2>2, ConcatProperties
    <2>5. es[1] = two[1] /\ es[2] = two[2] /\ (Len(end) = 1 => es[3] = end[1])
        <3>1. \A i \in 1..(2 + Len(end)) : es[i] = IF i <= 2 THEN two[i] ELSE end[i - 2]
            BY <2>2, ConcatProperties
        <3>2. Len(end) \in Nat
            BY <2>2
        <3> HIDE DEF es, two, end
        <3>3. 1 \in 1..(2 + Len(end)) /\ 2 \in 1..(2 + Len(end)) /\ (Len(end) = 1 => 3 \in 1..(2 + Len(end)))
            BY <3>2
        <3> QED BY <3>1, <3>3
    <2>6. DOMAIN es = {1, 2} \/ (DOMAIN es = {1, 2, 3} /\ es[3] = Event("delivered", c, k, n))
        <3> HIDE DEF es, two
        <3> QED BY <2>3, <2>4, <2>5
    <2> HIDE DEF es
    <2>7. \A p \in DOMAIN es : /\ es[p].type \in {"accepted", "persisted", "delivered"}
                               /\ es[p].conv = c /\ es[p].msg = k /\ es[p].seq = n
                               /\ es[p].type = "persisted" => p = 2
        BY <2>2, <2>5, <2>6 DEF Event
    <2>8. 2 \in DOMAIN es /\ es[2].type = "persisted"
        BY <2>2, <2>5, <2>6 DEF Event
    <2>9. NewsOf(es, c, k, n)
        <3>1. es \in Seq(Record)
            BY <2>4
        <3>2. \E p \in DOMAIN es : /\ es[p].type = "persisted"
                                   /\ \A q \in DOMAIN es : es[q].type = "persisted" => q = p
            BY <2>7, <2>8
        <3>3. \A p \in DOMAIN es : /\ es[p].type \in {"accepted", "persisted", "delivered"}
                                   /\ es[p].conv = c /\ es[p].msg = k /\ es[p].seq = n
            BY <2>7
        <3> HIDE DEF two, end
        <3> QED BY <3>1, <3>2, <3>3 DEF NewsOf
    <2> QED BY <2>9 DEF es
<1>4. CASE \E d \in Convs : Stored(d, k)
    BY <1>4 DEF Store, Still
<1>5. CASE \A d \in Convs : ~Stored(d, k)
    <2>1. events' = events \o (two \o end)
        BY <1>5 DEF Store, Emit
    <2>2. /\ sending[k].pc = "asked" /\ log' = [log EXCEPT ![c] = Append(@, k)]
          /\ UNCHANGED <<recalled, theirRead, third>>
        BY <1>5 DEF Store
    <2> HIDE DEF two, end
    <2>3. \E es : NewsOf(es, c, k, Len(log[c]) + 1) /\ events' = events \o es
        BY <1>3, <2>1
    <2> QED BY <1>5, <2>2, <2>3 DEF Stores
<1> QED BY <1>4, <1>5

\* Every step of the window is such a move.
LEMMA StepMoves ==
    ASSUME WindowTypes, WindowNext
    PROVE  ServiceMove
<1>0. ServiceTypes /\ PageTypes /\ CallTypes
    BY DEF WindowTypes
<1>1. \A c \in Convs : log[c] \in Seq(Messages) /\ Len(log[c]) \in Nat
    BY <1>0 DEF ServiceTypes
<1>2. ASSUME NEW k \in marks, MarkAsRead(k) PROVE Still
    BY <1>2 DEF MarkAsRead, Still
<1>3. ASSUME NEW k \in Mine, NEW online \in BOOLEAN, Store(k, online) PROVE ServiceMove
    <2>1. sending[k].conv \in Convs /\ k \in Messages
        BY <1>0, <1>3 DEF Store, PageTypes, Messages
    <2> QED BY <1>3, <2>1, StoreMoves DEF ServiceMove
<1>4. ASSUME NEW c \in Convs, NEW in \in BOOLEAN, SetThird(c, in), UNCHANGED <<log, recalled, theirRead>>
      PROVE  ThirdMoves(c)
    <2>1. \A d \in Convs : d # c => (d \in third' <=> d \in third)
        BY <1>4 DEF SetThird
    <2> QED BY <1>4, <2>1 DEF SetThird, Emit, ThirdMoves
<1>5. ASSUME NEW k \in calls, ServeMember(k) PROVE ServiceMove
    <2>1. k.conv \in Convs /\ k.add \in BOOLEAN
        BY <1>0 DEF CallTypes, MemberCall
    <2>2. UNCHANGED <<third, events>> \/ SetThird(k.conv, k.add)
        BY <1>5 DEF ServeMember
    <2>3. UNCHANGED <<log, recalled, theirRead>>
        BY <1>5 DEF ServeMember
    <2> QED BY <1>4, <2>1, <2>2, <2>3 DEF ServiceMove, Still
<1>6. ASSUME NEW c \in Convs, TheyChangeMembers(c) PROVE ThirdMoves(c)
    BY <1>4, <1>6 DEF TheyChangeMembers
<1>7. ASSUME NEW m \in Theirs, NEW c \in Convs, TheySend(m, c) PROVE Stores(c, m)
    <2> DEFINE n == Len(log[c]) + 1
               es == <<Event("persisted", c, m, n)>>
    <2>1. m \in Messages /\ m \notin Mine /\ n \in Nat
        BY <1>1, MessagesAreApart DEF Messages
    <2>2. Event("persisted", c, m, n) \in Record
        BY <2>1 DEF Event, Record
    <2>3. es \in Seq(Record) /\ DOMAIN es = {1} /\ es[1] = Event("persisted", c, m, n)
        BY <2>2
    <2> HIDE DEF es
    <2>4. NewsOf(es, c, m, n)
        BY <2>3 DEF NewsOf, Event
    <2>5. events' = events \o es
        BY <1>7 DEF TheySend, Emit, es
    <2> QED BY <1>7, <2>1, <2>4, <2>5 DEF TheySend, Stores
<1>8. ASSUME NEW c \in Convs, TheyRead(c) PROVE Reads(c)
    <2>1. Len(log[c]) \in DOMAIN log[c]
        BY <1>0, <1>1, <1>8 DEF TheyRead, ServiceTypes
    <2> QED BY <1>8, <2>1 DEF TheyRead, Emit, Reads
<1>9. ASSUME NEW m \in Messages, NEW c \in Convs, RecallMessage(c, m) PROVE Recalls(c, m)
    BY <1>9 DEF RecallMessage, Emit, Recalls
<1>10. CASE ApplyIncomingEvent
    BY <1>10 DEF ApplyIncomingEvent, service, Takes, ServiceMove
<1>11. ASSUME NEW c \in Convs, SetCurrentConversation(c) \/ StartDirectChat(c) PROVE Still
    BY <1>11 DEF SetCurrentConversation, StartDirectChat, Still, service
<1>12. ASSUME NEW l \in loads, ServeMessages(l) \/ ServeMembers(l) \/ LoadMessages(l) \/ LoadFails(l)
       PROVE  Still
    BY <1>12 DEF ServeMessages, ServeMembers, LoadMessages, LoadFails, Still, service
<1>13. ASSUME NEW k \in Mine, SendMessage(k) \/ RetryMessage(k) \/ Sent(k) \/ SendFails(k)
       PROVE  Still
    BY <1>13 DEF SendMessage, RetryMessage, Sent, SendFails, Still, service
<1>14. ASSUME NEW add \in BOOLEAN, HandleMember(add) PROVE Still
    BY <1>14 DEF HandleMember, Still, service
<1>15. ASSUME NEW k \in calls, MemberAnswered(k) PROVE Still
    BY <1>15 DEF MemberAnswered, Still, service
<1>17. ASSUME NEW r \in reloads, ServeMembersAgain(r) \/ SetMembers(r) \/ Opened(r) PROVE Still
    BY <1>17 DEF ServeMembersAgain, SetMembers, Opened, Still, service
<1>18. CASE MembersFail
    BY <1>18 DEF MembersFail, Still, service, ServiceMove
<1> QED
    <2> USE DEF ServiceMove
    <2>1. Theirs \subseteq Messages
        BY DEF Messages
    <2> QED BY <1>2, <1>3, <1>5, <1>6, <1>7, <1>8, <1>9, <1>10, <1>11, <1>12, <1>13, <1>14, <1>15,
           <1>17, <1>18, <2>1 DEF WindowNext

\* A log only grows, at its end, and by a message no log has.
LEMMA LogGrows ==
    ASSUME ServiceTypes, ServiceMove, NEW c \in Convs
    PROVE  /\ log'[c] \in Seq(Messages) /\ Len(log[c]) <= Len(log'[c])
           /\ \A i \in DOMAIN log[c] : i \in DOMAIN log'[c] /\ log'[c][i] = log[c][i]
           /\ \A i \in DOMAIN log'[c] :
                 \/ i \in DOMAIN log[c]
                 \/ /\ \A j \in DOMAIN log[c] : j < i
                    /\ \E m \in Messages : Stores(c, m) /\ i = Len(log[c]) + 1 /\ log'[c][i] = m
<1>0. log \in [Convs -> Seq(Messages)] /\ log[c] \in Seq(Messages) /\ Len(log[c]) \in Nat
    BY DEF ServiceTypes
<1>1. CASE log' = log
    BY <1>0, <1>1
<1>2. ASSUME NEW d \in Convs, NEW m \in Messages, Stores(d, m)
      PROVE  /\ d # c => log'[c] = log[c]
             /\ d = c => log'[c] = Append(log[c], m)
    BY <1>0, <1>2 DEF Stores
<1>3. ASSUME NEW d \in Convs, NEW m \in Messages, Stores(d, m), d = c
      PROVE  /\ log'[c] \in Seq(Messages) /\ Len(log[c]) <= Len(log'[c])
             /\ \A i \in DOMAIN log[c] : i \in DOMAIN log'[c] /\ log'[c][i] = log[c][i]
             /\ \A i \in DOMAIN log'[c] :
                   \/ i \in DOMAIN log[c]
                   \/ /\ \A j \in DOMAIN log[c] : j < i
                      /\ i = Len(log[c]) + 1 /\ log'[c][i] = m
    <2> DEFINE s == log[c]
    <2>1. log'[c] = Append(s, m) /\ s \in Seq(Messages)
        BY <1>0, <1>2, <1>3
    <2> HIDE DEF s
    <2>2. /\ Append(s, m) \in Seq(Messages) /\ Len(Append(s, m)) = Len(s) + 1
          /\ \A i \in 1..Len(s) : Append(s, m)[i] = s[i]
          /\ Append(s, m)[Len(s) + 1] = m
        BY <2>1, AppendProperties
    <2>3. Len(s) \in Nat /\ DOMAIN s = 1..Len(s) /\ DOMAIN Append(s, m) = 1..(Len(s) + 1)
        BY <2>1, <2>2
    <2>4. /\ Append(s, m) \in Seq(Messages) /\ Len(s) <= Len(Append(s, m))
          /\ \A i \in DOMAIN s : i \in DOMAIN Append(s, m) /\ Append(s, m)[i] = s[i]
          /\ \A i \in DOMAIN Append(s, m) :
                \/ i \in DOMAIN s
                \/ /\ \A j \in DOMAIN s : j < i
                   /\ i = Len(s) + 1 /\ Append(s, m)[i] = m
        BY <2>2, <2>3
    <2> QED BY <2>1, <2>4 DEF s
<1>4. \/ log' = log
      \/ \E d \in Convs, m \in Messages : Stores(d, m)
    BY DEF ServiceMove, Still, Reads, ThirdMoves, Recalls, Takes
<1> QED BY <1>0, <1>1, <1>2, <1>3, <1>4

\* What is stored stays so.
LEMMA StoredStays ==
    ASSUME ServiceTypes, ServiceMove, NEW c \in Convs, NEW m, Stored(c, m)
    PROVE  Stored(c, m)'
BY LogGrows DEF Stored

\* What a log has that it did not have was stored in this step.
LEMMA StoredCame ==
    ASSUME ServiceTypes, ServiceMove, NEW c \in Convs, NEW m, Stored(c, m)', ~Stored(c, m)
    PROVE  Stores(c, m)
<1>1. PICK i \in DOMAIN log'[c] : log'[c][i] = m
    BY DEF Stored
<1>2. i \notin DOMAIN log[c]
    BY <1>1, LogGrows DEF Stored
<1> QED BY <1>1, <1>2, LogGrows

\* The records that are there stay, in order, until they are taken from the front.
LEMMA QueueStays ==
    ASSUME ServiceTypes, ServiceMove, ~Takes
    PROVE  /\ events' \in Seq(Record)
           /\ \A p \in DOMAIN events : p \in DOMAIN events' /\ events'[p] = events[p]
<1>0. events \in Seq(Record)
    BY DEF ServiceTypes
<1>1. ASSUME NEW es \in Seq(Record), events' = events \o es
      PROVE  /\ events' \in Seq(Record)
             /\ \A p \in DOMAIN events : p \in DOMAIN events' /\ events'[p] = events[p]
    <2>1. /\ events \o es \in Seq(Record)
          /\ \A p \in DOMAIN events : p \in DOMAIN (events \o es) /\ (events \o es)[p] = events[p]
        BY <1>0, QueueGrows
    <2> QED BY <1>1, <2>1
<1>2. ASSUME NEW e \in Record, events' = events \o <<e>>
      PROVE  \E es \in Seq(Record) : events' = events \o es
    <2>1. <<e>> \in Seq(Record)
        OBVIOUS
    <2> QED BY <1>2, <2>1
<1>3. ASSUME NEW c \in Convs PROVE Len(log[c]) \in Nat /\ log[c] \in Seq(Messages)
    BY DEF ServiceTypes
<1>4. CASE Still
    BY <1>0, <1>4 DEF Still
<1>5. ASSUME NEW c \in Convs, NEW m \in Messages, Stores(c, m)
      PROVE  \E es \in Seq(Record) : events' = events \o es
    BY <1>5 DEF Stores, NewsOf
<1>6. ASSUME NEW c \in Convs, Reads(c) PROVE \E es \in Seq(Record) : events' = events \o es
    <2>1. Event("read", c, log[c][Len(log[c])], Len(log[c])) \in Record
        BY <1>3, <1>6 DEF Reads, Event, Record
    <2> QED BY <1>2, <1>6, <2>1 DEF Reads
<1>7. ASSUME NEW c \in Convs, ThirdMoves(c) PROVE \E es \in Seq(Record) : events' = events \o es
    <2>1. Event("members", c, None, 0) \in Record
        BY DEF Event, Record
    <2> QED BY <1>2, <1>7, <2>1 DEF ThirdMoves
<1>8. ASSUME NEW c \in Convs, NEW m \in Messages, Recalls(c, m)
      PROVE  \E es \in Seq(Record) : events' = events \o es
    <2>1. Number(c, m) \in Nat
        BY <1>3, <1>8, NumberIsPlace DEF Recalls
    <2>2. Event("recalled", c, m, Number(c, m)) \in Record
        BY <2>1 DEF Event, Record
    <2> QED BY <1>2, <1>8, <2>2 DEF Recalls
<1> QED BY <1>1, <1>4, <1>5, <1>6, <1>7, <1>8 DEF ServiceMove

\* A record after such a step was there before, or is of this step.
LEMMA QueueCame ==
    ASSUME ServiceTypes, ServiceMove, NEW p \in DOMAIN events'
    PROVE  LET e == events'[p] IN
           \/ /\ ~Takes /\ p \in DOMAIN events /\ events[p] = e
           \/ Takes /\ p \in Nat /\ p + 1 \in DOMAIN events /\ events[p + 1] = e
           \/ /\ ~Takes /\ \A q \in DOMAIN events : q < p
              /\ \/ \E m \in Messages : /\ Stores(e.conv, m) /\ e.msg = m
                                        /\ e.seq = Len(log[e.conv]) + 1
                                        /\ e.type \in {"accepted", "persisted", "delivered"}
                 \/ Reads(e.conv) /\ e.type = "read" /\ e.seq = Len(log[e.conv]) /\ e.msg = log[e.conv][e.seq]
                 \/ ThirdMoves(e.conv) /\ e.type = "members"
                 \/ \E m \in Messages : /\ Recalls(e.conv, m) /\ e.type = "recalled" /\ e.msg = m
                                        /\ e.seq = Number(e.conv, m)
<1>0. events \in Seq(Record) /\ Len(events) \in Nat
    BY DEF ServiceTypes
<1> DEFINE e == events'[p]
           new == p - Len(events)
<1>1. ASSUME Takes PROVE p \in Nat /\ p + 1 \in DOMAIN events /\ events[p + 1] = e
    BY <1>0, <1>1, QueueMoves DEF Takes
<1>2. ASSUME NEW es \in Seq(Record), events' = events \o es
      PROVE  \/ p \in DOMAIN events /\ events[p] = e
             \/ (\A q \in DOMAIN events : q < p) /\ new \in DOMAIN es /\ e = es[new]
    BY <1>0, <1>2, QueueGrows
<1>3. ASSUME NEW x \in Record, events' = events \o <<x>>
      PROVE  \/ p \in DOMAIN events /\ events[p] = e
             \/ (\A q \in DOMAIN events : q < p) /\ e = x
    <2>1. <<x>> \in Seq(Record) /\ DOMAIN <<x>> = {1} /\ <<x>>[1] = x
        OBVIOUS
    <2> HIDE DEF e, new
    <2>2. \/ p \in DOMAIN events /\ events[p] = e
          \/ (\A q \in DOMAIN events : q < p) /\ new \in DOMAIN <<x>> /\ e = <<x>>[new]
        BY <1>2, <1>3, <2>1
    <2> QED BY <2>1, <2>2
<1>4. ASSUME NEW c \in Convs PROVE Len(log[c]) \in Nat /\ log[c] \in Seq(Messages)
    BY DEF ServiceTypes
<1>5. CASE Still
    BY <1>1, <1>5 DEF Still
<1>6. ASSUME NEW c \in Convs, NEW m \in Messages, Stores(c, m)
      PROVE  \/ p \in DOMAIN events /\ events[p] = e
             \/ /\ \A q \in DOMAIN events : q < p
                /\ e.type \in {"accepted", "persisted", "delivered"}
                /\ e.conv = c /\ e.msg = m /\ e.seq = Len(log[c]) + 1
    <2>1. PICK es : NewsOf(es, c, m, Len(log[c]) + 1) /\ events' = events \o es
        BY <1>6 DEF Stores
    <2> HIDE DEF e, new
    <2> QED BY <1>2, <2>1 DEF NewsOf
<1>7. ASSUME NEW c \in Convs, Reads(c)
      PROVE  \/ p \in DOMAIN events /\ events[p] = e
             \/ /\ \A q \in DOMAIN events : q < p
                /\ e = Event("read", c, log[c][Len(log[c])], Len(log[c]))
    <2>1. Event("read", c, log[c][Len(log[c])], Len(log[c])) \in Record
        BY <1>4, <1>7 DEF Reads, Event, Record
    <2> HIDE DEF e, new
    <2> QED BY <1>3, <1>7, <2>1 DEF Reads
<1>8. ASSUME NEW c \in Convs, ThirdMoves(c)
      PROVE  \/ p \in DOMAIN events /\ events[p] = e
             \/ (\A q \in DOMAIN events : q < p) /\ e = Event("members", c, None, 0)
    <2>1. Event("members", c, None, 0) \in Record
        BY DEF Event, Record
    <2> HIDE DEF e, new
    <2> QED BY <1>3, <1>8, <2>1 DEF ThirdMoves
<1>9. ASSUME NEW c \in Convs, NEW m \in Messages, Recalls(c, m)
      PROVE  \/ p \in DOMAIN events /\ events[p] = e
             \/ (\A q \in DOMAIN events : q < p) /\ e = Event("recalled", c, m, Number(c, m))
    <2>1. Number(c, m) \in Nat
        BY <1>4, <1>9, NumberIsPlace DEF Recalls
    <2>2. Event("recalled", c, m, Number(c, m)) \in Record
        BY <2>1 DEF Event, Record
    <2> HIDE DEF e, new
    <2> QED BY <1>3, <1>9, <2>2 DEF Recalls
<1>10. CASE Takes
    BY <1>1, <1>10
<1>11. CASE ~Takes /\ ~Still
    <2> HIDE DEF e, new
    <2>1. \/ \E c \in Convs, m \in Messages : Stores(c, m)
          \/ \E c \in Convs : Reads(c) \/ ThirdMoves(c)
          \/ \E c \in Convs, m \in Messages : Recalls(c, m)
        BY <1>11 DEF ServiceMove
    <2>2. CASE p \in DOMAIN events /\ events[p] = e
        BY <1>11, <2>2 DEF e
    <2>3. ASSUME NEW c \in Convs, NEW m \in Messages, Stores(c, m), ~(p \in DOMAIN events /\ events[p] = e)
          PROVE  /\ \A q \in DOMAIN events : q < p
                 /\ Stores(e.conv, m) /\ e.msg = m /\ e.seq = Len(log[e.conv]) + 1
                 /\ e.type \in {"accepted", "persisted", "delivered"}
        BY <1>6, <2>3
    <2>4. ASSUME NEW c \in Convs, Reads(c), ~(p \in DOMAIN events /\ events[p] = e)
          PROVE  /\ \A q \in DOMAIN events : q < p
                 /\ Reads(e.conv) /\ e.type = "read" /\ e.seq = Len(log[e.conv]) /\ e.msg = log[e.conv][e.seq]
        <3>1. e = Event("read", c, log[c][Len(log[c])], Len(log[c])) /\ \A q \in DOMAIN events : q < p
            BY <1>7, <2>4
        <3>2. e.conv = c /\ e.type = "read" /\ e.seq = Len(log[c]) /\ e.msg = log[c][Len(log[c])]
            BY <3>1 DEF Event
        <3> QED BY <2>4, <3>1, <3>2
    <2>5. ASSUME NEW c \in Convs, ThirdMoves(c), ~(p \in DOMAIN events /\ events[p] = e)
          PROVE  /\ \A q \in DOMAIN events : q < p
                 /\ ThirdMoves(e.conv) /\ e.type = "members"
        <3>1. e = Event("members", c, None, 0) /\ \A q \in DOMAIN events : q < p
            BY <1>8, <2>5
        <3>2. e.conv = c /\ e.type = "members"
            BY <3>1 DEF Event
        <3> QED BY <2>5, <3>1, <3>2
    <2>6. ASSUME NEW c \in Convs, NEW m \in Messages, Recalls(c, m), ~(p \in DOMAIN events /\ events[p] = e)
          PROVE  /\ \A q \in DOMAIN events : q < p
                 /\ Recalls(e.conv, m) /\ e.type = "recalled" /\ e.msg = m /\ e.seq = Number(e.conv, m)
        <3>1. e = Event("recalled", c, m, Number(c, m)) /\ \A q \in DOMAIN events : q < p
            BY <1>9, <2>6
        <3>2. e.conv = c /\ e.type = "recalled" /\ e.msg = m /\ e.seq = Number(c, m)
            BY <3>1 DEF Event
        <3> QED BY <2>6, <3>1, <3>2
    <2>7. CASE ~(p \in DOMAIN events /\ events[p] = e)
        BY <1>11, <2>1, <2>3, <2>4, <2>5, <2>6, <2>7 DEF e
    <2> QED BY <2>2, <2>7
<1>12. CASE Still /\ ~Takes
    BY <1>12 DEF Still
<1> QED BY <1>10, <1>11, <1>12

-----------------------------------------------------------------------------
(***************************************************************************)
(* The logs and the records are true.                                      *)
(***************************************************************************)
LEMMA ReadPositionsStep ==
    ASSUME WindowTypes, WindowNext
    PROVE  \/ myRead' = myRead
           \/ \E k \in marks : /\ MarkAsRead(k)
                               /\ myRead' = [myRead EXCEPT ![k.conv] = IF @ < k.seq THEN k.seq ELSE @]
<1> USE DEF service
<1>1. ASSUME NEW c \in Convs, SetCurrentConversation(c) \/ TheyRead(c) \/ TheyChangeMembers(c) \/ StartDirectChat(c)
      PROVE  myRead' = myRead
    BY <1>1 DEF SetCurrentConversation, TheyRead, TheyChangeMembers, StartDirectChat
<1>2. ASSUME NEW l \in loads, ServeMessages(l) \/ ServeMembers(l) \/ LoadMessages(l) \/ LoadFails(l)
      PROVE  myRead' = myRead
    BY <1>2 DEF ServeMessages, ServeMembers, LoadMessages, LoadFails
<1>3. ASSUME NEW k \in marks, MarkAsRead(k)
      PROVE  myRead' = [myRead EXCEPT ![k.conv] = IF @ < k.seq THEN k.seq ELSE @]
    BY <1>3 DEF MarkAsRead
<1>4. ASSUME NEW k \in Mine, SendMessage(k) \/ RetryMessage(k) \/ Sent(k) \/ SendFails(k)
      PROVE  myRead' = myRead
    BY <1>4 DEF SendMessage, RetryMessage, Sent, SendFails
<1>5. ASSUME NEW k \in Mine, NEW online \in BOOLEAN, Store(k, online) PROVE myRead' = myRead
    BY <1>5 DEF Store
<1>6. ASSUME NEW add \in BOOLEAN, HandleMember(add) PROVE myRead' = myRead
    BY <1>6 DEF HandleMember
<1>7. ASSUME NEW k \in calls, ServeMember(k) \/ MemberAnswered(k) PROVE myRead' = myRead
    BY <1>7 DEF ServeMember, MemberAnswered
<1>8. ASSUME NEW r \in reloads, ServeMembersAgain(r) \/ SetMembers(r) \/ Opened(r) PROVE myRead' = myRead
    BY <1>8 DEF ServeMembersAgain, SetMembers, Opened
<1>9. CASE MembersFail
    BY <1>9 DEF MembersFail
<1>10. ASSUME NEW m \in Theirs, NEW c \in Convs, TheySend(m, c) PROVE myRead' = myRead
    BY <1>10 DEF TheySend
<1>11. ASSUME NEW m \in Messages, NEW c \in Convs, RecallMessage(c, m) PROVE myRead' = myRead
    BY <1>11 DEF RecallMessage
<1>12. CASE ApplyIncomingEvent
    BY <1>12 DEF ApplyIncomingEvent
<1> QED BY <1>1, <1>2, <1>3, <1>4, <1>5, <1>6, <1>7, <1>8, <1>9, <1>10, <1>11, <1>12 DEF WindowNext

\* Types are kept: of the service, of the sends, of the rows, of the calls.
LEMMA ServiceStep ==
    ASSUME WindowTypes, WindowNext
    PROVE  ServiceTypes'
<1>0. ServiceTypes /\ CallTypes /\ ServiceMove
    BY StepMoves DEF WindowTypes
<1>1. events' \in Seq(Record)
    <2>1. CASE Takes
        BY <1>0, <2>1, QueueMoves DEF Takes, ServiceTypes
    <2>2. CASE ~Takes
        BY <1>0, <2>2, QueueStays DEF WindowTypes
    <2> QED BY <2>1, <2>2
<1>2. \A c \in Convs : log[c] \in Seq(Messages) /\ Len(log[c]) \in Nat
    BY <1>0 DEF ServiceTypes
<1>3. log' \in [Convs -> Seq(Messages)]
    <2>1. DOMAIN log' = Convs /\ log' = [c \in Convs |-> log'[c]]
        BY <1>0 DEF ServiceTypes, ServiceMove, Still, Stores, Reads, ThirdMoves, Recalls, Takes
    <2>2. \A c \in Convs : log'[c] \in Seq(Messages)
        BY <1>0, LogGrows
    <2> QED BY <2>1, <2>2
<1>4. theirRead' \in [Convs -> Nat]
    BY <1>0, <1>2 DEF ServiceTypes, ServiceMove, Still, Stores, Reads, ThirdMoves, Recalls, Takes
<1>5. recalled' \subseteq Messages
    BY <1>0 DEF ServiceTypes, ServiceMove, Still, Stores, Reads, ThirdMoves, Recalls, Takes
<1>6. myRead' \in [Convs -> Nat]
    <2>1. \A k \in marks : k.conv \in Convs /\ k.seq \in Nat
        BY <1>0 DEF CallTypes
    <2> QED BY <1>0, <2>1, ReadPositionsStep DEF ServiceTypes
<1> QED BY <1>1, <1>3, <1>4, <1>5, <1>6 DEF ServiceTypes

\* What a step does to a sendMessage.
SendMove(k) ==
    \/ sending'[k] = sending[k]
    \/ /\ sending[k].pc = "none" /\ SendMessage(k)
       /\ sending'[k] = [pc |-> "asked", conv |-> cur]
    \/ /\ sending[k].pc = "failed" /\ RetryMessage(k)
       /\ sending'[k] = [pc |-> "asked", conv |-> cur]
    \/ /\ sending[k].pc = "asked" /\ \E online \in BOOLEAN : Store(k, online)
       /\ sending'[k] = [sending[k] EXCEPT !.pc = "answer"]
    \/ /\ sending[k].pc = "answer" /\ Sent(k)
       /\ sending'[k] = [sending[k] EXCEPT !.pc = "done"]
    \/ /\ sending[k].pc \in {"asked", "answer"} /\ SendFails(k)
       /\ sending'[k] = [sending[k] EXCEPT !.pc = "failed"]

LEMMA SendingStep ==
    ASSUME WindowTypes, WindowNext
    PROVE  /\ sending' \in [Mine -> SendCall]
           /\ \A k \in Mine : SendMove(k)
           /\ \A k \in Mine : sending'[k].pc # "none" => sending'[k].conv \in Convs
<1>0. /\ sending \in [Mine -> SendCall] /\ cur \in Convs \cup {None}
      /\ \A k \in Mine : sending[k].pc # "none" => sending[k].conv \in Convs
      /\ \A k \in Mine : sending[k] = [pc |-> sending[k].pc, conv |-> sending[k].conv]
    BY DEF WindowTypes, PageTypes, SendCall
<1> DEFINE Goal == /\ sending' \in [Mine -> SendCall]
                   /\ \A k \in Mine : SendMove(k)
                   /\ \A k \in Mine : sending'[k].pc # "none" => sending'[k].conv \in Convs
<1>a. CASE sending' = sending
    BY <1>0, <1>a DEF SendMove
<1>b. ASSUME NEW k \in Mine, NEW x \in SendCall, x.pc # "none" => x.conv \in Convs,
             sending' = [sending EXCEPT ![k] = x], SendMove(k)
      PROVE  Goal
    <2>1. sending' \in [Mine -> SendCall]
        BY <1>0, <1>b
    <2>2. \A j \in Mine : IF j = k THEN sending'[j] = x ELSE sending'[j] = sending[j]
        BY <1>0, <1>b
    <2>3. \A j \in Mine : SendMove(j)
        BY <1>b, <2>2 DEF SendMove
    <2> QED BY <1>0, <1>b, <2>1, <2>2, <2>3
<1>1. ASSUME NEW k \in Mine, SendMessage(k) \/ RetryMessage(k) PROVE Goal
    <2> DEFINE x == [pc |-> "asked", conv |-> cur]
    <2>1. x \in SendCall /\ x.conv \in Convs
        BY <1>0, <1>1 DEF SendMessage, RetryMessage, SendCall
    <2>2. sending' = [sending EXCEPT ![k] = x]
        BY <1>1 DEF SendMessage, RetryMessage
    <2>3. SendMove(k)
        BY <1>0, <1>1, <2>2 DEF SendMove, SendMessage, RetryMessage
    <2> HIDE DEF x, Goal
    <2> QED BY <1>b, <2>1, <2>2, <2>3
<1>2. ASSUME NEW k \in Mine, NEW online \in BOOLEAN, Store(k, online) PROVE Goal
    <2> DEFINE x == [sending[k] EXCEPT !.pc = "answer"]
    <2>1. x \in SendCall /\ x.conv \in Convs
        BY <1>0, <1>2 DEF Store, SendCall
    <2>2. sending' = [sending EXCEPT ![k] = x]
        BY <1>0, <1>2 DEF Store
    <2>3. SendMove(k)
        BY <1>0, <1>2, <2>2 DEF SendMove, Store
    <2> HIDE DEF x, Goal
    <2> QED BY <1>b, <2>1, <2>2, <2>3
<1>3. ASSUME NEW k \in Mine, Sent(k) PROVE Goal
    <2> DEFINE x == [sending[k] EXCEPT !.pc = "done"]
    <2>1. x \in SendCall /\ x.conv \in Convs
        BY <1>0, <1>3 DEF Sent, SendCall
    <2>2. sending' = [sending EXCEPT ![k] = x]
        BY <1>0, <1>3 DEF Sent
    <2>3. SendMove(k)
        BY <1>0, <1>3, <2>2 DEF SendMove, Sent
    <2> HIDE DEF x, Goal
    <2> QED BY <1>b, <2>1, <2>2, <2>3
<1>4. ASSUME NEW k \in Mine, SendFails(k) PROVE Goal
    <2> DEFINE x == [sending[k] EXCEPT !.pc = "failed"]
    <2>1. x \in SendCall /\ x.conv \in Convs
        BY <1>0, <1>4 DEF SendFails, SendCall
    <2>2. sending' = [sending EXCEPT ![k] = x]
        BY <1>0, <1>4 DEF SendFails
    <2>3. SendMove(k)
        BY <1>0, <1>4, <2>2 DEF SendMove, SendFails
    <2> HIDE DEF x, Goal
    <2> QED BY <1>b, <2>1, <2>2, <2>3
<1>5. ASSUME NEW c \in Convs, SetCurrentConversation(c) \/ TheyRead(c) \/ TheyChangeMembers(c) \/ StartDirectChat(c)
      PROVE  sending' = sending
    BY <1>5 DEF SetCurrentConversation, TheyRead, TheyChangeMembers, StartDirectChat
<1>6. ASSUME NEW l \in loads, ServeMessages(l) \/ ServeMembers(l) \/ LoadMessages(l) \/ LoadFails(l)
      PROVE  sending' = sending
    BY <1>6 DEF ServeMessages, ServeMembers, LoadMessages, LoadFails
<1>7. ASSUME NEW k \in marks, MarkAsRead(k) PROVE sending' = sending
    BY <1>7 DEF MarkAsRead
<1>8. ASSUME NEW add \in BOOLEAN, HandleMember(add) PROVE sending' = sending
    BY <1>8 DEF HandleMember
<1>9. ASSUME NEW k \in calls, ServeMember(k) \/ MemberAnswered(k) PROVE sending' = sending
    BY <1>9 DEF ServeMember, MemberAnswered
<1>10. ASSUME NEW r \in reloads, ServeMembersAgain(r) \/ SetMembers(r) \/ Opened(r) PROVE sending' = sending
    BY <1>10 DEF ServeMembersAgain, SetMembers, Opened
<1>11. CASE MembersFail
    BY <1>a, <1>11 DEF MembersFail
<1>12. ASSUME NEW m \in Theirs, NEW c \in Convs, TheySend(m, c) PROVE sending' = sending
    BY <1>12 DEF TheySend
<1>13. ASSUME NEW m \in Messages, NEW c \in Convs, RecallMessage(c, m) PROVE sending' = sending
    BY <1>13 DEF RecallMessage
<1>14. CASE ApplyIncomingEvent
    BY <1>a, <1>14 DEF ApplyIncomingEvent
<1> HIDE DEF Goal
<1>15. Goal
    BY <1>a, <1>1, <1>2, <1>3, <1>4, <1>5, <1>6, <1>7, <1>8, <1>9, <1>10, <1>11, <1>12, <1>13, <1>14
       DEF WindowNext, Goal
<1> QED BY <1>15 DEF Goal

\* Store leaves the message in a log.
LEMMA StoreStores ==
    ASSUME WindowTypes, ServiceMove, NEW k \in Mine, NEW online \in BOOLEAN, Store(k, online)
    PROVE  \E c \in Convs : Stored(c, k)'
<1>a. PICK c \in Convs : c = sending[k].conv
    BY DEF WindowTypes, PageTypes, Store
<1>0. ServiceTypes /\ log[c] \in Seq(Messages) /\ k \in Messages
    BY DEF WindowTypes, ServiceTypes, Messages
<1>1. CASE \E d \in Convs : Stored(d, k)
    BY <1>0, <1>1, StoredStays
<1>2. CASE ~\E d \in Convs : Stored(d, k)
    <2>1. log' = [log EXCEPT ![c] = Append(@, k)]
        BY <1>a, <1>2 DEF Store
    <2>2. log'[c] = Append(log[c], k)
        BY <1>0, <2>1 DEF ServiceTypes
    <2>3. Len(log[c]) + 1 \in DOMAIN log'[c] /\ log'[c][Len(log[c]) + 1] = k
        BY <1>0, <2>2
    <2>4. Stored(c, k)'
        BY <2>3 DEF Stored
    <2> QED BY <1>0, <2>4
<1> QED BY <1>1, <1>2

\* The invariant step by step: places, records and their order.
LEMMA LogStep ==
    ASSUME WindowTypes, LogTrue, WindowNext
    PROVE  LogTrue'
<1>0. ServiceTypes /\ ServiceMove /\ PageTypes
    BY StepMoves DEF WindowTypes
<1>1. ASSUME NEW c \in Convs, NEW d \in Convs, NEW i \in DOMAIN log'[c], NEW j \in DOMAIN log'[d],
             log'[c][i] = log'[d][j]
      PROVE  c = d /\ i = j
    <2>1. CASE i \in DOMAIN log[c] /\ j \in DOMAIN log[d]
        BY <1>0, <1>1, <2>1, LogGrows DEF LogTrue
    <2>2. ASSUME NEW e \in Convs, NEW x \in Convs, NEW a \in DOMAIN log'[e], NEW b \in DOMAIN log'[x],
                 a \notin DOMAIN log[e], b \in DOMAIN log[x], log'[e][a] = log'[x][b]
          PROVE  FALSE
        <3>1. \E m \in Messages : Stores(e, m) /\ log'[e][a] = m
            BY <1>0, <2>2, LogGrows
        <3>2. log'[x][b] = log[x][b]
            BY <1>0, <2>2, LogGrows
        <3> QED BY <2>2, <3>1, <3>2 DEF Stores, Stored
    <2>3. CASE i \notin DOMAIN log[c] /\ j \notin DOMAIN log[d]
        <3>1. PICK m \in Messages : Stores(c, m) /\ i = Len(log[c]) + 1 /\ log'[c][i] = m
            BY <1>0, <1>1, <2>3, LogGrows
        <3>2. j = Len(log[d]) + 1
            BY <1>0, <1>1, <2>3, LogGrows
        <3>3. c # d => log'[d] = log[d]
            BY <1>0, <3>1 DEF Stores, ServiceTypes
        <3> QED BY <1>1, <2>3, <3>1, <3>2, <3>3
    <2> QED BY <1>1, <2>1, <2>2, <2>3
<1>2. ASSUME NEW k \in Mine, sending'[k].pc \in {"answer", "done"} PROVE \E c \in Convs : Stored(c, k)'
    <2>1. CASE sending[k].pc \in {"answer", "done"}
        BY <1>0, <2>1, StoredStays DEF LogTrue
    <2>2. CASE sending[k].pc \notin {"answer", "done"}
        <3>1. \E online \in BOOLEAN : Store(k, online)
            BY <1>0, <1>2, <2>2, SendingStep DEF SendMove, PageTypes, SendCall
        <3> QED BY <1>0, <3>1, StoreStores
    <2> QED BY <2>1, <2>2
<1>3. ASSUME NEW k \in Mine, sending'[k].pc = "none", NEW c \in Convs, Stored(c, k)' PROVE FALSE
    <2>1. sending[k].pc = "none"
        BY <1>0, <1>3, SendingStep DEF SendMove, PageTypes, SendCall
    <2>2. ~Stored(c, k)
        BY <2>1 DEF LogTrue
    <2>3. Stores(c, k)
        BY <1>0, <1>3, <2>2, StoredCame
    <2> QED BY <2>1, <2>3 DEF Stores
<1>4. ASSUME NEW m \in recalled' PROVE \E c \in Convs : Stored(c, m)'
    <2>1. \E c \in Convs : Stored(c, m)
        BY <1>0, <1>4 DEF LogTrue, ServiceMove, Still, Stores, Reads, ThirdMoves, Recalls, Takes
    <2> QED BY <1>0, <2>1, StoredStays
<1> QED BY <1>1, <1>2, <1>3, <1>4 DEF LogTrue

LEMMA RecordsStep ==
    ASSUME WindowTypes, LogTrue, RecordsTrue, WindowNext
    PROVE  RecordsTrue'
<1>0. ServiceTypes /\ ServiceMove
    BY StepMoves DEF WindowTypes
<1> SUFFICES ASSUME NEW p \in DOMAIN events', events'[p].type # "members"
             PROVE  LET e == events'[p] IN
                    /\ e.seq \in DOMAIN log'[e.conv] /\ log'[e.conv][e.seq] = e.msg
                    /\ e.type = "recalled" => e.msg \in recalled'
    BY DEF RecordsTrue
<1> DEFINE e == events'[p]
<1>1. e \in Record /\ e.conv \in Convs
    <2>1. events' \in Seq(Record)
        BY ServiceStep DEF ServiceTypes
    <2>2. e \in Record
        BY <2>1
    <2> QED BY <2>2 DEF Record
<1>2. recalled \subseteq recalled'
    BY <1>0 DEF ServiceMove, Still, Stores, Reads, ThirdMoves, Recalls, Takes
<1> HIDE DEF e
<1>3. CASE \E q \in DOMAIN events : events[q] = e
    <2>1. /\ e.seq \in DOMAIN log[e.conv] /\ log[e.conv][e.seq] = e.msg
          /\ e.type = "recalled" => e.msg \in recalled
        BY <1>3 DEF RecordsTrue, e
    <2> QED BY <1>0, <1>1, <1>2, <2>1, LogGrows DEF e
<1>4. ASSUME NEW m \in Messages, Stores(e.conv, m), e.msg = m, e.seq = Len(log[e.conv]) + 1,
             e.type \in {"accepted", "persisted", "delivered"}
      PROVE  e.seq \in DOMAIN log'[e.conv] /\ log'[e.conv][e.seq] = e.msg
    <2>1. log[e.conv] \in Seq(Messages) /\ log'[e.conv] = Append(log[e.conv], m)
        BY <1>0, <1>1, <1>4 DEF ServiceTypes, Stores
    <2> QED BY <1>4, <2>1
<1>5. ASSUME Reads(e.conv), e.seq = Len(log[e.conv]), e.msg = log[e.conv][e.seq]
      PROVE  e.seq \in DOMAIN log'[e.conv] /\ log'[e.conv][e.seq] = e.msg
    BY <1>5 DEF Reads
<1>6. ASSUME NEW m \in Messages, Recalls(e.conv, m), e.msg = m, e.seq = Number(e.conv, m)
      PROVE  e.seq \in DOMAIN log'[e.conv] /\ log'[e.conv][e.seq] = e.msg /\ e.msg \in recalled'
    BY <1>1, <1>6, NumberIsPlace DEF Recalls
<1>7. \/ \E q \in DOMAIN events : events[q] = e
      \/ \E m \in Messages : /\ Stores(e.conv, m) /\ e.msg = m /\ e.seq = Len(log[e.conv]) + 1
                             /\ e.type \in {"accepted", "persisted", "delivered"}
      \/ Reads(e.conv) /\ e.type = "read" /\ e.seq = Len(log[e.conv]) /\ e.msg = log[e.conv][e.seq]
      \/ \E m \in Messages : /\ Recalls(e.conv, m) /\ e.type = "recalled" /\ e.msg = m
                             /\ e.seq = Number(e.conv, m)
    BY <1>0, QueueCame DEF e
<1> QED BY <1>3, <1>4, <1>5, <1>6, <1>7 DEF e

\* A record that is put alone comes after all others.
LEMMA LastRecord ==
    ASSUME ServiceTypes, NEW x \in Record, events' = events \o <<x>>
    PROVE  \E n \in DOMAIN events' : events'[n] = x /\ \A p \in DOMAIN events : p < n
<1>1. <<x>> \in Seq(Record) /\ 1 \in DOMAIN <<x>> /\ <<x>>[1] = x
    OBVIOUS
<1>2. Len(events) + 1 \in DOMAIN (events \o <<x>>) /\ (events \o <<x>>)[Len(events) + 1] = <<x>>[1]
      /\ \A p \in DOMAIN events : p < Len(events) + 1
    BY <1>1, QueueGrows DEF ServiceTypes
<1> QED BY <1>1, <1>2

\* One record tells that a message was stored.
LEMMA OnePersisted ==
    ASSUME ServiceTypes, NEW c \in Convs, NEW m \in Messages, Stores(c, m)
    PROVE  /\ \E p \in DOMAIN events' : /\ events'[p].type = "persisted" /\ events'[p].conv = c
                                        /\ events'[p].seq = Len(log[c]) + 1
           /\ \A p, q \in DOMAIN events' :
                 p \notin DOMAIN events /\ q \notin DOMAIN events
                   /\ events'[p].type = "persisted" /\ events'[q].type = "persisted" => p = q
<1>1. PICK es : NewsOf(es, c, m, Len(log[c]) + 1) /\ events' = events \o es
    BY DEF Stores
<1>2. es \in Seq(Record) /\ events \in Seq(Record) /\ Len(events) \in Nat
    BY <1>1 DEF NewsOf, ServiceTypes
<1>3. \A p \in DOMAIN events' :
         p \notin DOMAIN events => p - Len(events) \in DOMAIN es /\ events'[p] = es[p - Len(events)] /\ p \in Nat
    <2>1. events' \in Seq(Record)
        BY <1>1, <1>2
    <2>2. \A p \in DOMAIN events' : p \in Nat
        BY <2>1
    <2> QED BY <1>1, <1>2, <2>2, QueueGrows
<1>4. PICK o \in DOMAIN es : /\ es[o].type = "persisted"
                             /\ \A q \in DOMAIN es : es[q].type = "persisted" => q = o
    BY <1>1 DEF NewsOf
<1>5. Len(events) + o \in DOMAIN events' /\ events'[Len(events) + o] = es[o]
    BY <1>1, <1>2, QueueGrows
<1>6. es[o].conv = c /\ es[o].seq = Len(log[c]) + 1
    BY <1>1 DEF NewsOf
<1>7. ASSUME NEW p \in DOMAIN events', NEW q \in DOMAIN events', p \notin DOMAIN events, q \notin DOMAIN events,
             events'[p].type = "persisted", events'[q].type = "persisted"
      PROVE  p = q
    <2>1. p - Len(events) = o /\ q - Len(events) = o
        BY <1>3, <1>4, <1>7
    <2> QED BY <1>2, <1>3, <1>7, <2>1
<1> QED BY <1>4, <1>5, <1>6, <1>7

\* A record that is put behind the others keeps the order.
LEMMA OrderStep ==
    ASSUME WindowTypes, LogTrue, RecordsTrue, RecordsOrdered, WindowNext
    PROVE  RecordsOrdered'
<1>0. ServiceTypes /\ ServiceMove /\ events \in Seq(Record)
      /\ (\A c \in Convs : Len(log[c]) \in Nat /\ log[c] \in Seq(Messages))
    BY StepMoves DEF WindowTypes, ServiceTypes
<1>a. /\ \A p \in DOMAIN events' : p \in Nat /\ events'[p] \in Record /\ events'[p].conv \in Convs
      /\ \A p \in DOMAIN events : p \in Nat /\ events[p] \in Record /\ events[p].conv \in Convs
    <2>1. events' \in Seq(Record)
        BY ServiceStep DEF ServiceTypes
    <2>2. \A r \in Record : r.conv \in Convs
        BY DEF Record
    <2> QED BY <1>0, <2>1, <2>2
<1>b. ASSUME NEW p \in DOMAIN events', Takes PROVE p + 1 \in DOMAIN events /\ events[p + 1] = events'[p]
    BY <1>0, <1>b, QueueCame
<1>c. ASSUME NEW q \in DOMAIN events, Takes, NEW p \in DOMAIN events', p + 1 < q
      PROVE  q - 1 \in DOMAIN events' /\ events'[q - 1] = events[q] /\ p < q - 1
    <2>1. q # 1 /\ p \in Nat /\ q \in Nat
        BY <1>a, <1>c
    <2> QED BY <1>0, <1>c, <2>1, QueueMoves DEF Takes
<1>d. ASSUME NEW p \in DOMAIN events, ~Takes PROVE p \in DOMAIN events' /\ events'[p] = events[p]
    BY <1>0, <1>d, QueueStays
<1>1. ASSUME NEW p \in DOMAIN events', NEW q \in DOMAIN events', p < q,
             events'[p].type = "persisted", events'[q].type = "persisted", events'[p].conv = events'[q].conv
      PROVE  events'[p].seq < events'[q].seq
    <2>1. CASE Takes
        <3>1. p + 1 < q + 1
            BY <1>1, <1>a
        <3> QED BY <1>1, <1>b, <2>1, <3>1 DEF RecordsOrdered
    <2>2. CASE ~Takes /\ q \in DOMAIN events
        <3>1. p \in DOMAIN events /\ events[p] = events'[p]
            <4>1. ~(\A o \in DOMAIN events : o < p)
                BY <1>1, <1>a, <2>2
            <4> QED BY <1>0, <2>2, <4>1, QueueCame
        <3>2. events[q] = events'[q]
            BY <1>d, <2>2
        <3> QED BY <1>1, <2>2, <3>1, <3>2 DEF RecordsOrdered
    <2>3. CASE ~Takes /\ q \notin DOMAIN events
        <3> DEFINE c == events'[q].conv
        <3>1. \E m \in Messages : Stores(c, m) /\ events'[q].seq = Len(log[c]) + 1
            BY <1>0, <1>1, <2>3, QueueCame
        <3>2. p \in DOMAIN events
            BY <1>0, <1>1, <1>a, <2>3, <3>1, OnePersisted
        <3>3. events[p] = events'[p] /\ events[p].seq \in DOMAIN log[c]
            BY <1>d, <1>1, <2>3, <3>2 DEF RecordsTrue
        <3>4. c \in Convs
            BY <1>a
        <3> HIDE DEF c
        <3>5. events[p].seq \in 1..Len(log[c])
            BY <1>0, <3>3, <3>4
        <3> QED BY <1>0, <3>1, <3>3, <3>4, <3>5
    <2> QED BY <2>1, <2>2, <2>3
<1>2. ASSUME NEW p \in DOMAIN events', events'[p].type = "persisted", events'[p].msg \in recalled'
      PROVE  \E q \in DOMAIN events' : /\ p < q /\ events'[q].type = "recalled"
                                       /\ events'[q].conv = events'[p].conv
                                       /\ events'[q].seq = events'[p].seq
    <2>1. CASE Takes
        <3>1. events[p + 1].type = "persisted" /\ events[p + 1].msg \in recalled /\ p + 1 \in DOMAIN events
            BY <1>2, <1>b, <2>1 DEF Takes
        <3>2. PICK q \in DOMAIN events : /\ p + 1 < q /\ events[q].type = "recalled"
                                         /\ events[q].conv = events[p + 1].conv
                                         /\ events[q].seq = events[p + 1].seq
            BY <3>1 DEF RecordsOrdered
        <3>3. q - 1 \in DOMAIN events' /\ events'[q - 1] = events[q] /\ p < q - 1
            BY <1>c, <2>1, <3>2
        <3> QED BY <1>b, <2>1, <3>2, <3>3
    <2>2. CASE ~Takes /\ p \in DOMAIN events /\ events'[p].msg \in recalled
        <3>1. events[p] = events'[p]
            BY <1>d, <2>2
        <3>2. PICK q \in DOMAIN events : /\ p < q /\ events[q].type = "recalled"
                                         /\ events[q].conv = events[p].conv
                                         /\ events[q].seq = events[p].seq
            BY <1>2, <2>2, <3>1 DEF RecordsOrdered
        <3> QED BY <1>d, <2>2, <3>1, <3>2
    <2>3. CASE ~Takes /\ p \in DOMAIN events /\ events'[p].msg \notin recalled
        <3>1. PICK c \in Convs, m \in Messages : Recalls(c, m) /\ events'[p].msg = m
            BY <1>0, <1>2, <2>3 DEF ServiceMove, Still, Stores, Reads, ThirdMoves, Recalls, Takes
        <3>2. Number(c, m) \in DOMAIN log[c] /\ log[c][Number(c, m)] = m
            BY <3>1, NumberIsPlace DEF Recalls
        <3>3. events[p] = events'[p]
            BY <1>d, <2>3
        <3>4. events[p].seq \in DOMAIN log[events[p].conv] /\ log[events[p].conv][events[p].seq] = m
            BY <1>2, <2>3, <3>1, <3>3 DEF RecordsTrue
        <3>5. events[p].conv = c /\ events[p].seq = Number(c, m)
            BY <1>a, <2>3, <3>2, <3>4 DEF LogTrue
        <3>6. Event("recalled", c, m, Number(c, m)) \in Record
            BY <1>0, <3>2 DEF Event, Record
        <3>7. PICK n \in DOMAIN events' : /\ events'[n] = Event("recalled", c, m, Number(c, m))
                                          /\ \A o \in DOMAIN events : o < n
            BY <1>0, <3>1, <3>6, LastRecord DEF Recalls
        <3> QED BY <2>3, <3>3, <3>5, <3>7 DEF Event
    <2>4. CASE ~Takes /\ p \notin DOMAIN events
        <3>1. PICK m \in Messages : Stores(events'[p].conv, m) /\ events'[p].msg = m
            BY <1>0, <1>2, <2>4, QueueCame
        <3> QED BY <1>2, <3>1 DEF Stores, LogTrue
    <2> QED BY <2>1, <2>2, <2>3, <2>4
<1>3. ASSUME NEW p \in DOMAIN events', events'[p].type = "read"
      PROVE  \/ events'[p].seq = theirRead'[events'[p].conv]
             \/ \E q \in DOMAIN events' : /\ p < q /\ events'[q].type = "read"
                                          /\ events'[q].conv = events'[p].conv
    <2>1. CASE Takes
        <3>1. events[p + 1].type = "read" /\ p + 1 \in DOMAIN events /\ theirRead' = theirRead
            BY <1>3, <1>b, <2>1 DEF Takes
        <3>2. ASSUME NEW q \in DOMAIN events, p + 1 < q, events[q].type = "read",
                     events[q].conv = events[p + 1].conv
              PROVE  \E x \in DOMAIN events' : /\ p < x /\ events'[x].type = "read"
                                               /\ events'[x].conv = events'[p].conv
            <4>1. q - 1 \in DOMAIN events' /\ events'[q - 1] = events[q] /\ p < q - 1
                BY <1>c, <2>1, <3>2
            <4> QED BY <1>b, <2>1, <3>2, <4>1
        <3> QED BY <1>b, <2>1, <3>1, <3>2 DEF RecordsOrdered
    <2>2. CASE ~Takes /\ p \in DOMAIN events
        <3>1. events[p] = events'[p]
            BY <1>d, <2>2
        <3> DEFINE c == events'[p].conv
        <3>2. ASSUME theirRead'[c] # theirRead[c]
              PROVE  \E q \in DOMAIN events' : p < q /\ events'[q].type = "read" /\ events'[q].conv = c
            <4>1. PICK d \in Convs : Reads(d)
                BY <1>0, <3>2 DEF ServiceMove, Still, Stores, ThirdMoves, Recalls, Takes
            <4>2. d = c
                BY <1>0, <3>2, <4>1 DEF Reads, ServiceTypes
            <4>3. Event("read", d, log[d][Len(log[d])], Len(log[d])) \in Record
                BY <1>0, <4>1 DEF Reads, Event, Record
            <4>4. PICK n \in DOMAIN events' : /\ events'[n] = Event("read", d, log[d][Len(log[d])], Len(log[d]))
                                              /\ \A o \in DOMAIN events : o < n
                BY <1>0, <4>1, <4>3, LastRecord DEF Reads
            <4> QED BY <2>2, <4>2, <4>4 DEF Event
        <3>3. \/ events[p].seq = theirRead[c]
              \/ \E q \in DOMAIN events : p < q /\ events[q].type = "read" /\ events[q].conv = c
            BY <1>3, <2>2, <3>1 DEF RecordsOrdered
        <3> QED BY <1>d, <2>2, <3>1, <3>2, <3>3
    <2>3. CASE ~Takes /\ p \notin DOMAIN events
        <3>1. Reads(events'[p].conv) /\ events'[p].seq = Len(log[events'[p].conv])
            BY <1>0, <1>3, <2>3, QueueCame
        <3> QED BY <1>0, <1>a, <3>1 DEF Reads, ServiceTypes
    <2> QED BY <2>1, <2>2, <2>3
<1> QED BY <1>1, <1>2, <1>3 DEF RecordsOrdered

-----------------------------------------------------------------------------
(***************************************************************************)
(* The types of the window and of the calls under way.                     *)
(***************************************************************************)
\* What a step does to the rows.
RowsMove ==
    \/ rows' = rows /\ seen' = seen /\ collided' = collided
    \/ \E l \in loads : LoadMessages(l)
    \/ \E k \in Mine : SendMessage(k) \/ RetryMessage(k) \/ Sent(k) \/ SendFails(k)
    \/ ApplyIncomingEvent /\ Head(events).conv = cur

\* Only loads, sends and records of the conversation on screen change the rows.
LEMMA RowsStep ==
    ASSUME WindowNext
    PROVE  RowsMove
<1> USE DEF window, history, RowsMove
<1>1. ASSUME NEW c \in Convs, SetCurrentConversation(c) \/ TheyRead(c) \/ TheyChangeMembers(c) \/ StartDirectChat(c)
      PROVE  RowsMove
    BY <1>1 DEF SetCurrentConversation, TheyRead, TheyChangeMembers, StartDirectChat
<1>2. ASSUME NEW l \in loads, ServeMessages(l) \/ ServeMembers(l) \/ LoadMessages(l) \/ LoadFails(l)
      PROVE  RowsMove
    BY <1>2 DEF ServeMessages, ServeMembers, LoadFails
<1>3. ASSUME NEW k \in marks, MarkAsRead(k) PROVE RowsMove
    BY <1>3 DEF MarkAsRead
<1>4. ASSUME NEW k \in Mine, NEW online \in BOOLEAN, Store(k, online) PROVE RowsMove
    BY <1>4 DEF Store
<1>5. ASSUME NEW add \in BOOLEAN, HandleMember(add) PROVE RowsMove
    BY <1>5 DEF HandleMember
<1>6. ASSUME NEW k \in calls, ServeMember(k) \/ MemberAnswered(k) PROVE RowsMove
    BY <1>6 DEF ServeMember, MemberAnswered
<1>7. ASSUME NEW r \in reloads, ServeMembersAgain(r) \/ SetMembers(r) \/ Opened(r) PROVE RowsMove
    BY <1>7 DEF ServeMembersAgain, SetMembers, Opened
<1>8. CASE MembersFail
    BY <1>8 DEF MembersFail
<1>9. ASSUME NEW m \in Theirs, NEW c \in Convs, TheySend(m, c) PROVE RowsMove
    BY <1>9 DEF TheySend
<1>10. ASSUME NEW m \in Messages, NEW c \in Convs, RecallMessage(c, m) PROVE RowsMove
    BY <1>10 DEF RecallMessage
<1>11. CASE ApplyIncomingEvent
    BY <1>11 DEF ApplyIncomingEvent
<1> HIDE DEF RowsMove
<1>12. ASSUME NEW k \in Mine, SendMessage(k) \/ RetryMessage(k) \/ Sent(k) \/ SendFails(k) PROVE RowsMove
    BY <1>12 DEF RowsMove
<1> QED BY <1>1, <1>2, <1>3, <1>4, <1>5, <1>6, <1>7, <1>8, <1>9, <1>10, <1>11, <1>12 DEF WindowNext

\* The rows of a send: one is put, or those of the message fail.
LEMMA SendRows ==
    ASSUME WindowTypes, LogTrue, NEW k \in Mine
    PROVE  /\ SendMessage(k) \/ RetryMessage(k) \/ Sent(k) =>
                \E next \in WindowRow : rows' = ReplaceMessage(rows, next) /\ next.msg = k
           /\ SendMessage(k) => \E next \in WindowRow :
                 /\ rows' = ReplaceMessage(rows, next) /\ next.msg = k /\ next.id = "local"
                 /\ next.status = "sending"
           /\ RetryMessage(k) => \E next \in WindowRow, r \in rows :
                 /\ rows' = ReplaceMessage(rows, next) /\ next.msg = k /\ next.status = "sending"
                 /\ r.msg = k /\ next.id = r.id
           /\ Sent(k) => \E next \in WindowRow, c \in Convs :
                 /\ rows' = ReplaceMessage(rows, next) /\ next.msg = k /\ next.id = "stored"
                 /\ Stored(c, k) /\ next.seq = Number(c, k) /\ next.recalled = (k \in recalled)
                 /\ c # cur => torn'
<1>0. RowList(rows) /\ k \in Messages /\ cur \in Convs \cup {None} /\ ServiceTypes
    BY DEF WindowTypes, PageTypes, Messages
<1>1. Optimistic(k) \in WindowRow
    BY <1>0, LastSeqIsLast DEF Optimistic, WindowRow, Status
<1>2. Optimistic(k).msg = k /\ Optimistic(k).id = "local" /\ Optimistic(k).status = "sending"
    BY DEF Optimistic
<1>3. ASSUME SendMessage(k) PROVE rows' = ReplaceMessage(rows, Optimistic(k))
    BY <1>3 DEF SendMessage, Show
<1>4. ASSUME RetryMessage(k)
      PROVE  \E next \in WindowRow, r \in rows :
                 /\ rows' = ReplaceMessage(rows, next) /\ next.msg = k /\ next.status = "sending"
                 /\ r.msg = k /\ next.id = r.id
    <2>1. PICK r \in rows : r.msg = k /\ rows' = ReplaceMessage(rows, [Optimistic(k) EXCEPT !.id = r.id])
        BY <1>4 DEF RetryMessage, Show
    <2> DEFINE next == [Optimistic(k) EXCEPT !.id = r.id]
    <2>2. r \in WindowRow
        BY <1>0 DEF RowList
    <2>3. next \in WindowRow /\ next.msg = k /\ next.status = "sending" /\ next.id = r.id
        BY <1>1, <1>2, <2>2 DEF WindowRow, Optimistic
    <2>4. rows' = ReplaceMessage(rows, next)
        BY <2>1
    <2> HIDE DEF next
    <2> QED BY <2>1, <2>3, <2>4
<1>5. ASSUME Sent(k)
      PROVE  \E next \in WindowRow, c \in Convs :
                 /\ rows' = ReplaceMessage(rows, next) /\ next.msg = k /\ next.id = "stored"
                 /\ Stored(c, k) /\ next.seq = Number(c, k) /\ next.recalled = (k \in recalled)
                 /\ c # cur => torn'
    <2> DEFINE home == CHOOSE d \in Convs : Stored(d, k)
    <2>1. home \in Convs /\ Stored(home, k)
        BY <1>5 DEF Sent, LogTrue
    <2>2. rows' = ReplaceMessage(rows, Row(home, k)) /\ (home # cur => torn')
        BY <1>5 DEF Sent, Show
    <2> HIDE DEF home
    <2>3. Number(home, k) \in Nat
        BY <1>0, <2>1, NumberIsPlace DEF ServiceTypes
    <2>4. /\ Row(home, k) \in WindowRow /\ Row(home, k).msg = k /\ Row(home, k).id = "stored"
          /\ Row(home, k).seq = Number(home, k) /\ Row(home, k).recalled = (k \in recalled)
        BY <1>0, <2>3 DEF Row, WindowRow, Status
    <2> QED BY <2>1, <2>2, <2>4
<1> QED BY <1>1, <1>2, <1>3, <1>4, <1>5

\* A failed send touches the status of its own row alone.
LEMMA FailedRows ==
    ASSUME RowList(rows), NEW k \in Mine, SendFails(k)
    PROVE  /\ RowList(rows')
           /\ \A q \in rows' : \E r \in rows : IF r.msg = k THEN q = [r EXCEPT !.status = "failed"] ELSE q = r
           /\ \A r \in rows : \E q \in rows' : q.msg = r.msg /\ q.id = r.id
<1> DEFINE f == [r \in rows |-> IF r.msg = k THEN [r EXCEPT !.status = "failed"] ELSE r]
<1>1. rows' = {f[r] : r \in rows}
    BY DEF SendFails, Show
<1>2. \A r \in rows : f[r] \in WindowRow /\ f[r].msg = r.msg /\ f[r].seq = r.seq /\ f[r].id = r.id
    BY DEF RowList, WindowRow, Status
<1>3. f \in [rows -> WindowRow]
    BY <1>2
<1>4. \A r \in rows : IF r.msg = k THEN f[r] = [r EXCEPT !.status = "failed"] ELSE f[r] = r
    OBVIOUS
<1> HIDE DEF f
<1>5. RowList(rows')
    BY <1>1, <1>2, <1>3, RetouchKeepsList
<1>6. \A r \in rows : \E q \in rows' : q.msg = r.msg /\ q.id = r.id
    BY <1>1, <1>2
<1>7. \A q \in rows' : \E r \in rows : q = f[r]
    BY <1>1
<1>8. \A q \in rows' : \E r \in rows : IF r.msg = k THEN q = [r EXCEPT !.status = "failed"] ELSE q = r
    <2> TAKE q \in rows'
    <2>1. PICK r \in rows : q = f[r]
        BY <1>7
    <2>2. CASE r.msg = k
        <3>1. q = [r EXCEPT !.status = "failed"]
            BY <1>4, <2>1, <2>2
        <3> QED BY <2>2, <3>1
    <2>3. CASE r.msg # k
        <3>1. q = r
            BY <1>4, <2>1, <2>3
        <3> QED BY <2>3, <3>1
    <2> QED BY <2>2, <2>3
<1> QED BY <1>5, <1>6, <1>8

\* A record in the queue is of a message.
LEMMA HeadIsTrue ==
    ASSUME WindowTypes, RecordsTrue, ApplyIncomingEvent
    PROVE  LET e == Head(events) IN
           /\ e \in Record /\ e.conv \in Convs /\ events # <<>> /\ events' = Tail(events)
           /\ 1 \in DOMAIN events /\ events[1] = e
           /\ e.type # "members" => /\ e.seq \in DOMAIN log[e.conv] /\ log[e.conv][e.seq] = e.msg
                                    /\ e.msg \in Messages /\ Stored(e.conv, e.msg)
<1>0. events \in Seq(Record) /\ events # <<>> /\ events' = Tail(events) /\ log \in [Convs -> Seq(Messages)]
    BY DEF WindowTypes, ServiceTypes, ApplyIncomingEvent
<1>1. Head(events) \in Record /\ Head(events) = events[1] /\ 1 \in DOMAIN events
    BY <1>0, QueueMoves
<1>2. Head(events).conv \in Convs
    BY <1>1 DEF Record
<1> QED BY <1>0, <1>1, <1>2 DEF RecordsTrue, Stored

LEMMA RowListStep ==
    ASSUME WindowTypes, LogTrue, RecordsTrue, WindowNext
    PROVE  RowList(rows')
<1>0. RowList(rows) /\ CallTypes
    BY DEF WindowTypes, PageTypes
<1>1. CASE rows' = rows
    BY <1>0, <1>1
<1>2. ASSUME NEW l \in loads, LoadMessages(l) PROVE RowList(rows')
    BY <1>0, <1>2 DEF LoadMessages, Show, CallTypes
<1>3. ASSUME NEW k \in Mine, SendMessage(k) \/ RetryMessage(k) \/ Sent(k) PROVE RowList(rows')
    BY <1>0, <1>3, SendRows, ReplaceKeepsList
<1>4. ASSUME NEW k \in Mine, SendFails(k) PROVE RowList(rows')
    BY <1>0, <1>4, FailedRows
<1>5. ASSUME ApplyIncomingEvent, Head(events).conv = cur PROVE RowList(rows')
    <2>1. rows' = Applied(Head(events))
        BY <1>5 DEF ApplyIncomingEvent, Show
    <2> QED BY <1>0, <1>5, <2>1, HeadIsTrue, AppliedRows
<1> QED BY <1>1, <1>2, <1>3, <1>4, <1>5, RowsStep DEF RowsMove

LEMMA CallsStep ==
    ASSUME WindowTypes, LogTrue, RecordsTrue, WindowNext
    PROVE  /\ CallTypes'
           /\ cur' \in Convs \cup {None} /\ members' \in MemberList
           /\ torn' \in BOOLEAN /\ collided' \in BOOLEAN
<1>0. /\ CallTypes /\ ServiceTypes
      /\ cur \in Convs \cup {None} /\ members \in MemberList /\ torn \in BOOLEAN /\ collided \in BOOLEAN
    BY DEF WindowTypes, PageTypes
<1>a. \A c \in Convs : Members(c) \in MemberList
    BY <1>0 DEF Members, MemberList, ServiceTypes
<1>b. \A l \in loads : l \in LoadCall /\ RowList(l.rows) /\ l.conv \in Convs
    BY <1>0 DEF CallTypes, LoadCall
<1>c. \A r \in reloads : r \in ReloadCall /\ r.conv \in Convs
    BY <1>0 DEF CallTypes, ReloadCall
<1>d. \A c : /\ Outdate(c) \subseteq LoadCall /\ \A l \in Outdate(c) : RowList(l.rows)
             /\ OutdateMembers(c) \subseteq ReloadCall
    BY <1>0, OutdatedTypes
<1>e. \A c \in Convs : \A when \in {"whenShown", "always", "open"} : Reload(c, when) \in ReloadCall
    BY DEF Reload, ReloadCall
<1>f. \A c \in Convs : Hydrate(c) => /\ cur' \in Convs /\ loads' \subseteq LoadCall
                                     /\ \A l \in loads' : RowList(l.rows)
    BY <1>0, HydrateTypes
<1> DEFINE Goal == /\ CallTypes'
                   /\ cur' \in Convs \cup {None} /\ members' \in MemberList
                   /\ torn' \in BOOLEAN /\ collided' \in BOOLEAN
<1>g. ASSUME UNCHANGED <<loads, calls, reloads, marks, cur, members, torn, collided>> PROVE Goal
    BY <1>0, <1>g DEF CallTypes
<1>1. ASSUME NEW c \in Convs, SetCurrentConversation(c) PROVE Goal
    BY <1>0, <1>1, <1>f DEF SetCurrentConversation, CallTypes, group, history
<1>2. ASSUME NEW c \in Convs, StartDirectChat(c) PROVE Goal
    <2>1. reloads' \subseteq ReloadCall
        BY <1>0, <1>2, <1>e DEF StartDirectChat, CallTypes
    <2> QED BY <1>0, <1>2, <2>1 DEF StartDirectChat, CallTypes, window, history
<1>3. ASSUME NEW c \in Convs, TheyRead(c) \/ TheyChangeMembers(c) PROVE Goal
    BY <1>3, <1>g DEF TheyRead, TheyChangeMembers, window, group, history
<1>4. ASSUME NEW l \in loads, ServeMessages(l) PROVE Goal
    <2> DEFINE x == [l EXCEPT !.paged = TRUE, !.rows = Page(l.conv)]
    <2>1. RowList(Page(l.conv))
        BY <1>0, <1>b, PageIsList
    <2>2. x \in LoadCall /\ x.rows = Page(l.conv)
        BY <1>b, <2>1 DEF LoadCall, RowList
    <2>3. loads' = (loads \ {l}) \cup {x}
        BY <1>4 DEF ServeMessages
    <2> HIDE DEF x
    <2>4. loads' \subseteq LoadCall /\ \A y \in loads' : RowList(y.rows)
        BY <1>b, <2>1, <2>2, <2>3
    <2> QED BY <1>0, <1>4, <2>4 DEF ServeMessages, CallTypes, window, group, history
<1>5. ASSUME NEW l \in loads, ServeMembers(l) PROVE Goal
    <2> DEFINE x == [l EXCEPT !.members = Members(l.conv)]
    <2>2. x \in LoadCall /\ x.rows = l.rows
        BY <1>a, <1>b DEF LoadCall
    <2>3. loads' = (loads \ {l}) \cup {x}
        BY <1>5 DEF ServeMembers
    <2> HIDE DEF x
    <2>4. loads' \subseteq LoadCall /\ \A y \in loads' : RowList(y.rows)
        BY <1>b, <2>2, <2>3
    <2> QED BY <1>0, <1>5, <2>4 DEF ServeMembers, CallTypes, window, group, history
<1>6. ASSUME NEW l \in loads, LoadMessages(l) PROVE Goal
    <2>1. loads' \subseteq LoadCall /\ (\A y \in loads' : RowList(y.rows)) /\ reloads' \subseteq ReloadCall
        BY <1>6, <1>d DEF LoadMessages
    <2>2. marks' \subseteq [conv : Convs, seq : Nat]
        BY <1>0, <1>6, <1>b, LastSeqIsLast DEF LoadMessages, MarksAfter, CallTypes
    <2>3. members' \in MemberList
        BY <1>b, <1>6 DEF LoadMessages, LoadCall
    <2> QED BY <1>0, <1>6, <2>1, <2>2, <2>3 DEF LoadMessages, CallTypes
<1>7. ASSUME NEW l \in loads, LoadFails(l) PROVE Goal
    BY <1>0, <1>7 DEF LoadFails, CallTypes, window, group
<1>8. ASSUME NEW k \in marks, MarkAsRead(k) PROVE Goal
    BY <1>0, <1>8 DEF MarkAsRead, CallTypes, window, group, history
<1>9. ASSUME NEW k \in Mine, SendMessage(k) \/ RetryMessage(k) \/ Sent(k) \/ SendFails(k) PROVE Goal
    <2>1. loads' \subseteq LoadCall /\ \A y \in loads' : RowList(y.rows)
        BY <1>b, <1>9, <1>d DEF SendMessage, RetryMessage, Sent, SendFails
    <2>2. UNCHANGED <<calls, reloads, marks, cur, members, collided>>
        BY <1>9 DEF SendMessage, RetryMessage, Sent, SendFails, group
    <2>3. torn' \in BOOLEAN
        BY <1>0, <1>9 DEF SendMessage, RetryMessage, Sent, SendFails
    <2> QED BY <1>0, <2>1, <2>2, <2>3 DEF CallTypes
<1>10. ASSUME NEW k \in Mine, NEW online \in BOOLEAN, Store(k, online) PROVE Goal
    BY <1>10, <1>g DEF Store, window, group, history
<1>11. ASSUME NEW add \in BOOLEAN, HandleMember(add) PROVE Goal
    <2>1. [conv |-> cur, add |-> add, served |-> FALSE] \in MemberCall
        BY <1>0, <1>11 DEF HandleMember, MemberCall
    <2> QED BY <1>0, <1>11, <2>1 DEF HandleMember, CallTypes, window, history
<1>12. ASSUME NEW k \in calls, ServeMember(k) PROVE Goal
    <2>1. calls' \subseteq MemberCall
        <3>1. k \in MemberCall /\ [k EXCEPT !.served = TRUE] \in MemberCall
            BY <1>0 DEF CallTypes, MemberCall
        <3>2. calls' = calls \ {k} \/ calls' = (calls \ {k}) \cup {[k EXCEPT !.served = TRUE]}
            BY <1>12 DEF ServeMember
        <3> QED BY <1>0, <3>1, <3>2 DEF CallTypes
    <2> QED BY <1>0, <1>12, <2>1 DEF ServeMember, CallTypes, window, history
<1>13. ASSUME NEW k \in calls, MemberAnswered(k) PROVE Goal
    <2>1. k.conv \in Convs
        BY <1>0 DEF CallTypes, MemberCall
    <2>2. reloads' \subseteq ReloadCall
        BY <1>0, <1>13, <1>e, <2>1 DEF MemberAnswered, CallTypes
    <2> QED BY <1>0, <1>13, <2>2 DEF MemberAnswered, CallTypes, window, history
<1>14. ASSUME NEW r \in reloads, ServeMembersAgain(r) PROVE Goal
    <2>1. [r EXCEPT !.members = Members(r.conv)] \in ReloadCall
        BY <1>a, <1>c DEF ReloadCall
    <2> QED BY <1>0, <1>14, <2>1 DEF ServeMembersAgain, CallTypes, window, history
<1>15. ASSUME NEW r \in reloads, SetMembers(r) PROVE Goal
    <2>1. r.members # None => r.members \in MemberList
        BY <1>c DEF ReloadCall
    <2>2. loads' \subseteq LoadCall /\ (\A y \in loads' : RowList(y.rows)) /\ reloads' \subseteq ReloadCall
        BY <1>0, <1>b, <1>15, <1>d DEF SetMembers, CallTypes
    <2>3. members' \in MemberList /\ torn' \in BOOLEAN
        BY <1>0, <1>15, <2>1 DEF SetMembers
    <2> QED BY <1>0, <1>15, <2>2, <2>3 DEF SetMembers, CallTypes
<1>16. ASSUME NEW r \in reloads, Opened(r) PROVE Goal
    <2>1. members' \in MemberList
        BY <1>c, <1>16 DEF Opened, ReloadCall
    <2>2. reloads' \subseteq ReloadCall
        BY <1>16, <1>d DEF Opened
    <2>3. torn' \in BOOLEAN /\ cur' \in Convs \cup {None}
        BY <1>0, <1>c, <1>16, <1>f DEF Opened
    <2>4. loads' \subseteq LoadCall /\ \A y \in loads' : RowList(y.rows)
        BY <1>c, <1>16, <1>d, <1>f DEF Opened
    <2> QED BY <1>0, <1>16, <2>1, <2>2, <2>3, <2>4 DEF Opened, CallTypes
<1>17. ASSUME MembersFail PROVE Goal
    <2>1. loads' \subseteq LoadCall /\ (\A y \in loads' : RowList(y.rows)) /\ reloads' \subseteq reloads
          /\ calls' \subseteq calls
        BY <1>b, <1>0, <1>17, <1>d DEF MembersFail, CallTypes
    <2>2. torn' \in BOOLEAN
        BY <1>0, <1>17 DEF MembersFail
    <2> QED BY <1>0, <1>17, <2>1, <2>2 DEF MembersFail, CallTypes, window
<1>18. ASSUME NEW m \in Theirs, NEW c \in Convs, TheySend(m, c) PROVE Goal
    BY <1>18, <1>g DEF TheySend, window, group, history
<1>19. ASSUME NEW m \in Messages, NEW c \in Convs, RecallMessage(c, m) PROVE Goal
    BY <1>19, <1>g DEF RecallMessage, window, group, history
<1>20. ASSUME ApplyIncomingEvent PROVE Goal
    <2> DEFINE e == Head(events)
    <2>0. e \in Record /\ e.conv \in Convs /\ e.seq \in Nat
        <3>1. e \in Record
            BY <1>20, HeadIsTrue
        <3> HIDE DEF e
        <3> QED BY <3>1 DEF Record
    <2>1. CASE e.conv = cur
        <3>1. marks' \subseteq [conv : Convs, seq : Nat]
            <4>1. marks' = marks \/ marks' = marks \cup {[conv |-> e.conv, seq |-> e.seq]}
                BY <1>20, <2>1 DEF ApplyIncomingEvent
            <4> HIDE DEF e
            <4> QED BY <1>0, <2>0, <4>1 DEF CallTypes
        <3>2. loads' \subseteq LoadCall /\ \A y \in loads' : RowList(y.rows)
            <4>1. loads' = loads \/ loads' = Outdate(e.conv)
                BY <1>20, <2>1 DEF ApplyIncomingEvent
            <4> HIDE DEF e
            <4> QED BY <1>b, <1>d, <4>1
        <3>3. reloads' \subseteq ReloadCall
            <4>1. \/ reloads' = reloads \/ reloads' = OutdateMembers(e.conv)
                  \/ reloads' = reloads \cup {Reload(e.conv, "whenShown")}
                BY <1>20, <2>0, <2>1 DEF ApplyIncomingEvent, Record
            <4> HIDE DEF e
            <4> QED BY <1>c, <1>d, <1>e, <2>0, <4>1
        <3>4. members' \in MemberList
            <4>1. members' = members \/ members' = [members EXCEPT !.read = e.seq]
                BY <1>20, <2>1 DEF ApplyIncomingEvent
            <4> HIDE DEF e
            <4> QED BY <1>0, <2>0, <4>1 DEF MemberList
        <3>5. collided' \in BOOLEAN
            BY <1>0, <1>20, <2>1 DEF ApplyIncomingEvent
        <3>6. UNCHANGED <<cur, torn, calls>>
            BY <1>20 DEF ApplyIncomingEvent
        <3> QED BY <1>0, <3>1, <3>2, <3>3, <3>4, <3>5, <3>6 DEF CallTypes
    <2>2. CASE e.conv # cur
        BY <1>20, <1>g, <2>2 DEF ApplyIncomingEvent
    <2> QED BY <2>1, <2>2
<1> HIDE DEF Goal
<1>21. Goal
    <2>1. ASSUME \/ \E c \in Convs : SetCurrentConversation(c) \/ TheyRead(c)
                 \/ \E l \in loads : 
                       ServeMessages(l) \/ ServeMembers(l) \/ LoadMessages(l) \/ LoadFails(l)
                 \/ \E k \in marks : MarkAsRead(k)
                 \/ \E k \in Mine : SendMessage(k) \/ RetryMessage(k) \/ Sent(k) \/ SendFails(k)
                 \/ \E k \in Mine, online \in BOOLEAN : Store(k, online)
          PROVE  Goal
        BY <1>1, <1>3, <1>4, <1>5, <1>6, <1>7, <1>8, <1>9, <1>10, <2>1
    <2>2. ASSUME \/ \E add \in BOOLEAN : HandleMember(add)
                 \/ \E k \in calls : ServeMember(k) \/ MemberAnswered(k)
                 \/ \E c \in Convs : TheyChangeMembers(c) \/ StartDirectChat(c)
                 \/ \E r \in reloads : ServeMembersAgain(r) \/ SetMembers(r) \/ Opened(r)
          PROVE  Goal
        BY <1>2, <1>3, <1>11, <1>12, <1>13, <1>14, <1>15, <1>16, <2>2
    <2>3. ASSUME \/ MembersFail
                 \/ \E m \in Theirs, c \in Convs : TheySend(m, c)
                 \/ \E m \in Messages, c \in Convs : RecallMessage(c, m)
                 \/ ApplyIncomingEvent
          PROVE  Goal
        BY <1>17, <1>18, <1>19, <1>20, <2>3
    <2> QED BY ZenonT(60), <2>1, <2>2, <2>3 DEF WindowNext
<1> QED BY <1>21 DEF Goal

LEMMA TypesStep ==
    ASSUME WindowTypes, LogTrue, RecordsTrue, WindowNext
    PROVE  WindowTypes'
BY ServiceStep, SendingStep, RowListStep, CallsStep DEF WindowTypes, PageTypes

-----------------------------------------------------------------------------
(***************************************************************************)
(* The loads under way, and what is shown as sent.                         *)
(***************************************************************************)
\* A load that goes on as it was, or has become old.
SameLoad(y, l) ==
    /\ y.conv = l.conv /\ y.paged = l.paged /\ y.rows = l.rows /\ y.members = l.members
    /\ l.stale => y.stale
    /\ y.live => l.live

\* What it was answered, if anything, is known to be old.
Idle(y) == y.stale \/ (~y.paged /\ y.members = None)

\* A load after a step: as before, old or not asked yet, new, or answered in one half.
LoadMove(y) ==
    \/ cur' = cur /\ \E l \in loads : SameLoad(y, l)
    \/ ~y.live /\ Idle(y) /\ \E l \in loads : SameLoad(y, l)
    \/ y.conv = cur' /\ ~y.paged /\ y.rows = {} /\ y.members = None
    \/ cur' = cur /\ \E l \in loads :
          /\ y.conv = l.conv /\ y.paged /\ y.rows = Page(l.conv) /\ y.members = l.members
          /\ y.stale = l.stale /\ y.live = l.live
    \/ cur' = cur /\ \E l \in loads :
          /\ y.conv = l.conv /\ y.paged = l.paged /\ y.rows = l.rows /\ y.members = Members(l.conv)
          /\ y.stale = l.stale /\ y.live = l.live

\* A load made old is the same load; of that conversation it has nothing fetched that counts.
LEMMA OutdatedIsSame ==
    ASSUME CallTypes, NEW c, NEW y \in Outdate(c)
    PROVE  (\E l \in loads : SameLoad(y, l)) /\ (y.conv = c => Idle(y))
<1>1. PICK l \in loads : y = [l EXCEPT !.stale = @ \/ (l.conv = c /\ (l.paged \/ l.members # None))]
    BY DEF Outdate
<1>2. /\ y.conv = l.conv /\ y.paged = l.paged /\ y.rows = l.rows /\ y.members = l.members /\ y.live = l.live
      /\ y.stale = (l.stale \/ (l.conv = c /\ (l.paged \/ l.members # None)))
    BY <1>1 DEF CallTypes, LoadCall
<1> QED BY <1>2 DEF SameLoad, Idle

LEMMA HydratedLoads ==
    ASSUME CallTypes, NEW c, Hydrate(c), NEW y \in loads'
    PROVE  LoadMove(y)
<1> DEFINE new == [conv |-> c, paged |-> FALSE, rows |-> {}, members |-> None, live |-> TRUE,
                   stale |-> FALSE]
<1>1. CASE y = new
    <2>1. y.conv = c /\ ~y.paged /\ y.rows = {} /\ y.members = None
        BY <1>1
    <2> QED BY <2>1 DEF Hydrate, LoadMove
<1>2. CASE y # new
    <2>1. PICK l \in loads : y = [l EXCEPT !.live = FALSE, !.stale = @ \/ l.paged \/ l.members # None]
        BY <1>2 DEF Hydrate
    <2>2. /\ y.conv = l.conv /\ y.paged = l.paged /\ y.rows = l.rows /\ y.members = l.members /\ ~y.live
          /\ y.stale = (l.stale \/ l.paged \/ l.members # None)
        BY <2>1 DEF CallTypes, LoadCall
    <2> QED BY <2>2 DEF SameLoad, Idle, LoadMove
<1> QED BY <1>1, <1>2

\* Every load after a step comes from one of these.
LEMMA LoadsStep ==
    ASSUME WindowTypes, WindowNext, NEW y \in loads'
    PROVE  LoadMove(y)
<1>0. CallTypes
    BY DEF WindowTypes
<1>a. ASSUME y \in loads, cur' = cur PROVE LoadMove(y)
    BY <1>a DEF LoadMove, SameLoad
<1>b. ASSUME NEW c, y \in Outdate(c), cur' = cur PROVE LoadMove(y)
    BY <1>0, <1>b, OutdatedIsSame DEF LoadMove
<1>1. ASSUME NEW c \in Convs, SetCurrentConversation(c) PROVE LoadMove(y)
    BY <1>0, <1>1, HydratedLoads DEF SetCurrentConversation
<1>2. ASSUME NEW c \in Convs, TheyRead(c) \/ TheyChangeMembers(c) \/ StartDirectChat(c) PROVE LoadMove(y)
    BY <1>a, <1>2 DEF TheyRead, TheyChangeMembers, StartDirectChat, window
<1>3. ASSUME NEW l \in loads, ServeMessages(l) PROVE LoadMove(y)
    <2>1. l \in LoadCall /\ cur' = cur
        BY <1>0, <1>3 DEF CallTypes, ServeMessages, window
    <2>2. y \in loads \/ y = [l EXCEPT !.paged = TRUE, !.rows = Page(l.conv)]
        BY <1>3 DEF ServeMessages
    <2>3. ASSUME y = [l EXCEPT !.paged = TRUE, !.rows = Page(l.conv)]
          PROVE  /\ y.conv = l.conv /\ y.paged /\ y.rows = Page(l.conv) /\ y.members = l.members
                 /\ y.stale = l.stale /\ y.live = l.live
        BY <2>1, <2>3 DEF LoadCall
    <2> QED BY <1>a, <2>1, <2>2, <2>3 DEF LoadMove
<1>4. ASSUME NEW l \in loads, ServeMembers(l) PROVE LoadMove(y)
    <2>1. l \in LoadCall /\ cur' = cur
        BY <1>0, <1>4 DEF CallTypes, ServeMembers, window
    <2>2. y \in loads \/ y = [l EXCEPT !.members = Members(l.conv)]
        BY <1>4 DEF ServeMembers
    <2>3. ASSUME y = [l EXCEPT !.members = Members(l.conv)]
          PROVE  /\ y.conv = l.conv /\ y.paged = l.paged /\ y.rows = l.rows /\ y.members = Members(l.conv)
                 /\ y.stale = l.stale /\ y.live = l.live
        BY <2>1, <2>3 DEF LoadCall
    <2> QED BY <1>a, <2>1, <2>2, <2>3 DEF LoadMove
<1>5. ASSUME NEW l \in loads, LoadMessages(l) \/ LoadFails(l) PROVE LoadMove(y)
    BY <1>a, <1>b, <1>5 DEF LoadMessages, LoadFails, window
<1>6. ASSUME NEW k \in marks, MarkAsRead(k) PROVE LoadMove(y)
    BY <1>a, <1>6 DEF MarkAsRead, window
<1>7. ASSUME NEW k \in Mine, SendMessage(k) \/ RetryMessage(k) \/ Sent(k) \/ SendFails(k) PROVE LoadMove(y)
    BY <1>a, <1>b, <1>7 DEF SendMessage, RetryMessage, Sent, SendFails
<1>8. ASSUME NEW k \in Mine, NEW online \in BOOLEAN, Store(k, online) PROVE LoadMove(y)
    BY <1>a, <1>8 DEF Store, window
<1>9. ASSUME NEW add \in BOOLEAN, HandleMember(add) PROVE LoadMove(y)
    BY <1>a, <1>9 DEF HandleMember, window
<1>10. ASSUME NEW k \in calls, ServeMember(k) \/ MemberAnswered(k) PROVE LoadMove(y)
    BY <1>a, <1>10 DEF ServeMember, MemberAnswered, window
<1>11. ASSUME NEW r \in reloads, ServeMembersAgain(r) PROVE LoadMove(y)
    BY <1>a, <1>11 DEF ServeMembersAgain, window
<1>12. ASSUME NEW r \in reloads, SetMembers(r) PROVE LoadMove(y)
    BY <1>a, <1>b, <1>12 DEF SetMembers
<1>13. ASSUME NEW r \in reloads, Opened(r) PROVE LoadMove(y)
    BY <1>0, <1>b, <1>13, HydratedLoads DEF Opened
<1>14. ASSUME MembersFail PROVE LoadMove(y)
    BY <1>a, <1>b, <1>14 DEF MembersFail, window
<1>15. ASSUME NEW m \in Theirs, NEW c \in Convs, TheySend(m, c) PROVE LoadMove(y)
    BY <1>a, <1>15 DEF TheySend, window
<1>16. ASSUME NEW m \in Messages, NEW c \in Convs, RecallMessage(c, m) PROVE LoadMove(y)
    BY <1>a, <1>16 DEF RecallMessage, window
<1>17. ASSUME ApplyIncomingEvent PROVE LoadMove(y)
    BY <1>a, <1>b, <1>17 DEF ApplyIncomingEvent
<1> QED BY <1>1, <1>2, <1>3, <1>4, <1>5, <1>6, <1>7, <1>8, <1>9, <1>10, <1>11, <1>12, <1>13, <1>14, <1>15,
           <1>16, <1>17 DEF WindowNext

\* Pages stay beginnings of the log.
LEMMA PagesStep ==
    ASSUME WindowTypes, PagesTrue, WindowNext
    PROVE  PagesTrue'
<1>0. ServiceTypes /\ ServiceMove /\ CallTypes
    BY StepMoves DEF WindowTypes
<1> SUFFICES ASSUME NEW y \in loads'
             PROVE  /\ y.live => y.conv = cur'
                    /\ \A r \in y.rows : /\ r.id = "stored"
                                         /\ r.seq \in DOMAIN log'[y.conv] /\ log'[y.conv][r.seq] = r.msg
                                         /\ \A i \in 1..r.seq : \E q \in y.rows : q.msg = log'[y.conv][i]
    BY DEF PagesTrue
<1>1. LoadMove(y)
    BY LoadsStep
<1> DEFINE Right(c, rs) == \A r \in rs : /\ r.id = "stored"
                                         /\ r.seq \in DOMAIN log[c] /\ log[c][r.seq] = r.msg
                                         /\ \A i \in 1..r.seq : \E q \in rs : q.msg = log[c][i]
<1>2. ASSUME NEW l \in loads
      PROVE  /\ Right(l.conv, l.rows) /\ Right(l.conv, Page(l.conv)) /\ l.conv \in Convs
             /\ l.live => l.conv = cur
    <2>1. l.conv \in Convs
        BY <1>0 DEF CallTypes, LoadCall
    <2>2. log[l.conv] \in Seq(Messages)
        BY <1>0, <2>1 DEF ServiceTypes
    <2>3. \A n \in DOMAIN log[l.conv] : \A i \in 1..n : i \in DOMAIN log[l.conv]
        BY <2>2
    <2>4. Right(l.conv, Page(l.conv))
        BY <1>0, <2>1, <2>3, PageIsList
    <2> QED BY <2>1, <2>4 DEF PagesTrue
<1>3. ASSUME NEW c \in Convs, NEW rs, Right(c, rs)
      PROVE  \A r \in rs : /\ r.id = "stored"
                           /\ r.seq \in DOMAIN log'[c] /\ log'[c][r.seq] = r.msg
                           /\ \A i \in 1..r.seq : \E q \in rs : q.msg = log'[c][i]
    <2>1. log[c] \in Seq(Messages)
        BY <1>0 DEF ServiceTypes
    <2>2. \A n \in DOMAIN log[c] : \A i \in 1..n : i \in DOMAIN log[c]
        BY <2>1
    <2>3. \A i \in DOMAIN log[c] : i \in DOMAIN log'[c] /\ log'[c][i] = log[c][i]
        BY <1>0, LogGrows
    <2> QED BY <1>3, <2>2, <2>3
<1>4. y.live => y.conv = cur'
    BY <1>1, <1>2 DEF LoadMove, SameLoad
<1>5. \/ y.rows = {}
      \/ \E l \in loads : y.conv = l.conv /\ (y.rows = l.rows \/ y.rows = Page(l.conv))
    BY <1>1 DEF LoadMove, SameLoad
<1> HIDE DEF Right
<1> QED BY <1>2, <1>3, <1>4, <1>5

\* What is shown as sent stays stored.
LEMMA ShownStep ==
    ASSUME WindowTypes, LogTrue, RecordsTrue, PagesTrue, ShownTrue, WindowNext
    PROVE  ShownTrue'
<1>0. ServiceTypes /\ ServiceMove /\ PageTypes /\ CallTypes
    BY StepMoves DEF WindowTypes
<1> DEFINE Known(m) == \E c \in Convs : Stored(c, m)
           Told == {"sent", "delivered", "read"}
<1>1. SUFFICES ASSUME NEW q \in rows',
                      q.id = "stored" \/ (~collided' /\ q.status \in Told)
               PROVE  Known(q.msg)
    <2>1. \A m : Known(m) => \E c \in Convs : Stored(c, m)'
        BY <1>0, StoredStays
    <2> QED BY <1>1, <2>1 DEF ShownTrue, ShownSentIsStored
<1>2. ASSUME NEW r \in rows, r.id = "stored" \/ (~collided /\ r.status \in Told) PROVE Known(r.msg)
    BY <1>2 DEF ShownTrue, ShownSentIsStored
<1> HIDE DEF Known
<1>3. CASE q \in rows /\ (~collided' => ~collided)
    BY <1>1, <1>2, <1>3
<1>4. ASSUME NEW l \in loads, LoadMessages(l) PROVE Known(q.msg)
    <2>1. l.conv \in Convs /\ q \in l.rows
        BY <1>0, <1>4 DEF CallTypes, LoadCall, LoadMessages, Show
    <2>2. Stored(l.conv, q.msg)
        BY <2>1 DEF PagesTrue, Stored
    <2> QED BY <2>1, <2>2 DEF Known
<1>5. ASSUME NEW k \in Mine, SendMessage(k) \/ RetryMessage(k) \/ Sent(k) PROVE Known(q.msg)
    <2>0. collided' = collided
        BY <1>5 DEF SendMessage, RetryMessage, Sent
    <2>1. CASE q \in rows
        BY <1>3, <2>0, <2>1
    <2>2. CASE q \notin rows
        <3>1. ASSUME NEW next, rows' = ReplaceMessage(rows, next) PROVE q = next
            BY <2>2, <3>1 DEF ReplaceMessage
        <3>2. CASE SendMessage(k)
            BY <1>1, <3>1, <3>2, SendRows
        <3>3. CASE RetryMessage(k)
            <4>1. PICK r \in rows : r.msg = k /\ q.id = r.id /\ q.msg = k /\ q.status = "sending"
                BY <3>1, <3>3, SendRows
            <4> QED BY <1>1, <1>2, <4>1
        <3>4. CASE Sent(k)
            BY <3>1, <3>4, SendRows DEF Known
        <3> QED BY <1>5, <3>2, <3>3, <3>4
    <2> QED BY <2>1, <2>2
<1>6. ASSUME NEW k \in Mine, SendFails(k) PROVE Known(q.msg)
    <2>0. collided' = collided
        BY <1>6 DEF SendFails
    <2>1. PICK r \in rows : IF r.msg = k THEN q = [r EXCEPT !.status = "failed"] ELSE q = r
        BY <1>0, <1>6, FailedRows DEF PageTypes
    <2>2. CASE r.msg = k
        <3>1. r \in WindowRow
            BY <1>0 DEF PageTypes, RowList
        <3>2. q.msg = r.msg /\ q.id = r.id /\ q.status = "failed"
            BY <2>1, <2>2, <3>1 DEF WindowRow
        <3> QED BY <1>1, <1>2, <3>2
    <2>3. CASE r.msg # k
        BY <1>3, <2>0, <2>1, <2>3
    <2> QED BY <2>2, <2>3
<1>7. ASSUME ApplyIncomingEvent, Head(events).conv = cur PROVE Known(q.msg)
    <2> DEFINE e == Head(events)
    <2>1. /\ e \in Record /\ e.conv \in Convs
          /\ e.type # "members" => e.msg \in Messages /\ Stored(e.conv, e.msg)
        BY <1>7, HeadIsTrue
    <2>2. /\ rows' = Applied(e)
          /\ collided' = (collided \/ (e.type = "read" /\ \E r \in Covered(e) : r.id = "local"))
        BY <1>7 DEF ApplyIncomingEvent, Show
    <2> HIDE DEF e
    <2>3. CASE e.type = "persisted" /\ q = Carried(e)
        BY <2>1, <2>3 DEF Carried, Known
    <2>4. ASSUME NEW r \in rows, Touched(e, q, r) PROVE Known(q.msg)
        <3>0. r.id \in {"local", "stored"}
            BY <1>0 DEF PageTypes, RowList, WindowRow
        <3>1. q.msg = r.msg /\ q.id = r.id
            BY <2>4 DEF Touched, SameRow
        <3>2. CASE q.id = "stored"
            BY <1>2, <3>1, <3>2
        <3>3. CASE ~collided' /\ q.status \in Told /\ q.id = "local"
            <4>1. CASE q.status = r.status
                BY <1>2, <2>2, <3>1, <3>3, <4>1
            <4>2. CASE Retold(e, r)
                BY <2>1, <2>2, <3>1, <3>3, <4>2 DEF Retold, Known
            <4> QED BY <2>4, <4>1, <4>2 DEF Touched
        <3> QED BY <1>1, <3>0, <3>1, <3>2, <3>3
    <2>5. \/ \E r \in rows : Touched(e, q, r)
          \/ e.type = "persisted" /\ q = Carried(e)
        BY <1>0, <2>1, <2>2, AppliedRows DEF PageTypes
    <2> QED BY <2>3, <2>4, <2>5
<1> QED BY <1>3, <1>4, <1>5, <1>6, <1>7, RowsStep DEF RowsMove

-----------------------------------------------------------------------------
(***************************************************************************)
(* What is marked as read was shown, or heard of.                          *)
(***************************************************************************)
\* A record stays in the queue until it is the first and is taken.
LEMMA RecordStays ==
    ASSUME ServiceTypes, ServiceMove, NEW p \in DOMAIN events
    PROVE  \/ \E q \in DOMAIN events' : events'[q] = events[p]
           \/ Takes /\ p = 1 /\ events[p] = Head(events)
<1>1. CASE Takes
    <2>1. events \in Seq(Record) /\ events # <<>> /\ events' = Tail(events)
        BY <1>1 DEF Takes, ServiceTypes
    <2>2. Head(events) = events[1]
        BY <2>1, QueueMoves
    <2>3. p # 1 => p - 1 \in DOMAIN events' /\ events'[p - 1] = events[p]
        BY <2>1, QueueMoves
    <2> QED BY <1>1, <2>2, <2>3
<1>2. CASE ~Takes
    BY <1>2, QueueStays
<1> QED BY <1>1, <1>2

\* A record keeps coming until it is taken.
LEMMA ComesStays ==
    ASSUME ServiceTypes, ServiceMove, NEW type, NEW c, NEW n, Comes(type, c, n)
    PROVE  \/ Comes(type, c, n)'
           \/ /\ Takes /\ Head(events).type = type /\ Head(events).conv = c /\ Head(events).seq = n
<1>1. PICK p \in DOMAIN events : events[p].type = type /\ events[p].conv = c /\ events[p].seq = n
    BY DEF Comes
<1>2. CASE \E q \in DOMAIN events' : events'[q] = events[p]
    BY <1>1, <1>2 DEF Comes
<1>3. CASE Takes /\ events[p] = Head(events)
    BY <1>1, <1>3
<1> QED BY <1>2, <1>3, RecordStays

\* The record of a message that was stored before did come before.
LEMMA ComesWas ==
    ASSUME ServiceTypes, ServiceMove, NEW c \in Convs, NEW i \in DOMAIN log[c], Comes("persisted", c, i)'
    PROVE  Comes("persisted", c, i)
<1>1. PICK p \in DOMAIN events' : /\ events'[p].type = "persisted" /\ events'[p].conv = c
                                  /\ events'[p].seq = i
    BY DEF Comes
<1>2. log[c] \in Seq(Messages) /\ i # Len(log[c]) + 1
    BY DEF ServiceTypes
<1>3. \E q \in DOMAIN events : events[q] = events'[p]
    BY <1>1, <1>2, QueueCame
<1> QED BY <1>1, <1>3 DEF Comes

\* Where a position to be marked comes from.
MarkMove(k) ==
    \/ k \in marks
    \/ \E l \in loads : /\ LoadMessages(l) /\ l.rows # {}
                        /\ k = [conv |-> l.conv, seq |-> LastSeq(l.rows)]
    \/ /\ ApplyIncomingEvent /\ Head(events).conv = cur /\ Head(events).type = "persisted"
       /\ k = [conv |-> Head(events).conv, seq |-> Head(events).seq]

\* Every position to be marked comes from one of these.
LEMMA MarksStep ==
    ASSUME WindowNext, NEW k \in marks'
    PROVE  MarkMove(k)
<1>a. ASSUME marks' \subseteq marks PROVE MarkMove(k)
    BY <1>a DEF MarkMove
<1>1. ASSUME NEW c \in Convs, SetCurrentConversation(c) \/ TheyRead(c) \/ TheyChangeMembers(c) \/ StartDirectChat(c)
      PROVE  MarkMove(k)
    BY <1>a, <1>1 DEF SetCurrentConversation, TheyRead, TheyChangeMembers, StartDirectChat
<1>2. ASSUME NEW l \in loads, ServeMessages(l) \/ ServeMembers(l) \/ LoadFails(l) PROVE MarkMove(k)
    BY <1>a, <1>2 DEF ServeMessages, ServeMembers, LoadFails
<1>3. ASSUME NEW l \in loads, LoadMessages(l) PROVE MarkMove(k)
    BY <1>3 DEF LoadMessages, MarksAfter, MarkMove
<1>4. ASSUME NEW j \in marks, MarkAsRead(j) PROVE MarkMove(k)
    BY <1>a, <1>4 DEF MarkAsRead
<1>5. ASSUME NEW j \in Mine, SendMessage(j) \/ RetryMessage(j) \/ Sent(j) \/ SendFails(j) PROVE MarkMove(k)
    BY <1>a, <1>5 DEF SendMessage, RetryMessage, Sent, SendFails
<1>6. ASSUME NEW j \in Mine, NEW online \in BOOLEAN, Store(j, online) PROVE MarkMove(k)
    BY <1>a, <1>6 DEF Store
<1>7. ASSUME NEW add \in BOOLEAN, HandleMember(add) PROVE MarkMove(k)
    BY <1>a, <1>7 DEF HandleMember
<1>8. ASSUME NEW j \in calls, ServeMember(j) \/ MemberAnswered(j) PROVE MarkMove(k)
    BY <1>a, <1>8 DEF ServeMember, MemberAnswered
<1>9. ASSUME NEW r \in reloads, ServeMembersAgain(r) \/ SetMembers(r) \/ Opened(r) PROVE MarkMove(k)
    BY <1>a, <1>9 DEF ServeMembersAgain, SetMembers, Opened
<1>10. ASSUME MembersFail PROVE MarkMove(k)
    BY <1>a, <1>10 DEF MembersFail
<1>11. ASSUME NEW m \in Theirs, NEW c \in Convs, TheySend(m, c) PROVE MarkMove(k)
    BY <1>a, <1>11 DEF TheySend
<1>12. ASSUME NEW m \in Messages, NEW c \in Convs, RecallMessage(c, m) PROVE MarkMove(k)
    BY <1>a, <1>12 DEF RecallMessage
<1>13. ASSUME ApplyIncomingEvent PROVE MarkMove(k)
    <2>1. \/ k \in marks
          \/ /\ Head(events).conv = cur /\ Head(events).type = "persisted"
             /\ k = [conv |-> Head(events).conv, seq |-> Head(events).seq]
        BY <1>13 DEF ApplyIncomingEvent
    <2> QED BY <1>13, <2>1 DEF MarkMove
<1> QED BY <1>1, <1>2, <1>3, <1>4, <1>5, <1>6, <1>7, <1>8, <1>9, <1>10, <1>11, <1>12, <1>13 DEF WindowNext

\* What the rows of a step are is seen, and what was seen stays so.
LEMMA SeenStep ==
    ASSUME WindowNext, \A r \in rows : r.msg \in seen
    PROVE  seen \subseteq seen' /\ \A r \in rows' : r.msg \in seen'
<1>1. (rows' = rows /\ seen' = seen) \/ seen' = seen \cup {r.msg : r \in rows'}
    BY RowsStep DEF RowsMove, LoadMessages, SendMessage, RetryMessage, Sent, SendFails, ApplyIncomingEvent, Show
<1> QED BY <1>1

\* Positions pass only what was shown, or is not coming.
LEMMA MarkedStep ==
    ASSUME WindowTypes, LogTrue, RecordsTrue, RecordsOrdered, PagesTrue, MarkedTrue, WindowNext
    PROVE  MarkedTrue'
<1>0. ServiceTypes /\ ServiceMove /\ CallTypes
    BY StepMoves DEF WindowTypes
<1>1. seen \subseteq seen' /\ \A r \in rows' : r.msg \in seen'
    BY SeenStep DEF MarkedTrue
<1>2. \A c \in Convs : log[c] \in Seq(Messages) /\ Len(log[c]) \in Nat
                       /\ Len(log'[c]) \in Nat /\ Len(log[c]) <= Len(log'[c])
    <2>1. ServiceTypes'
        BY ServiceStep
    <2> QED BY <1>0, <2>1, LogGrows DEF ServiceTypes
<1>3. /\ \A k \in marks : k.conv \in Convs /\ k.seq \in Nat /\ k.seq <= Len(log[k.conv])
      /\ \A l \in loads : l.conv \in Convs /\ RowList(l.rows)
      /\ \A c \in Convs : myRead[c] \in Nat /\ myRead[c] <= Len(log[c])
    BY <1>0 DEF CallTypes, LoadCall, MarkedTrue, ServiceTypes
<1>4. ASSUME NEW c \in Convs
      PROVE  /\ myRead'[c] \in Nat /\ myRead'[c] <= Len(log[c])
             /\ \/ myRead'[c] = myRead[c]
                \/ \E k \in marks : k.conv = c /\ k.seq = myRead'[c]
    <2>1. CASE myRead' = myRead
        BY <1>3, <2>1
    <2>2. ASSUME NEW k \in marks, myRead' = [myRead EXCEPT ![k.conv] = IF @ < k.seq THEN k.seq ELSE @]
          PROVE  myRead'[c] = myRead[c] \/ (k.conv = c /\ k.seq = myRead'[c])
        BY <1>0, <2>2 DEF ServiceTypes
    <2> QED BY <1>3, <2>1, <2>2, ReadPositionsStep
<1>5. ASSUME NEW l \in loads, l.rows # {}
      PROVE  \E r \in l.rows : LastSeq(l.rows) = r.seq
    BY <1>3, <1>5, LastSeqIsLast
<1>6. ASSUME NEW k \in marks'
      PROVE  k.conv \in Convs /\ k.seq \in Nat /\ k.seq <= Len(log[k.conv])
    <2>1. CASE k \in marks
        BY <1>3, <2>1
    <2>2. ASSUME NEW l \in loads, l.rows # {}, k = [conv |-> l.conv, seq |-> LastSeq(l.rows)]
          PROVE  k.conv \in Convs /\ k.seq \in Nat /\ k.seq <= Len(log[k.conv])
        <3>1. PICK r \in l.rows : k.seq = r.seq /\ k.conv = l.conv
            BY <1>5, <2>2
        <3>2. k.seq \in DOMAIN log[l.conv]
            BY <3>1 DEF PagesTrue
        <3> QED BY <1>2, <1>3, <3>1, <3>2
    <2>3. ASSUME ApplyIncomingEvent, Head(events).type = "persisted",
                 k = [conv |-> Head(events).conv, seq |-> Head(events).seq]
          PROVE  k.conv \in Convs /\ k.seq \in Nat /\ k.seq <= Len(log[k.conv])
        <3>1. k.conv \in Convs /\ k.seq \in DOMAIN log[k.conv]
            BY <2>3, HeadIsTrue
        <3> QED BY <1>2, <3>1
    <2> QED BY <2>1, <2>2, <2>3, MarksStep DEF MarkMove
<1>7. ASSUME NEW c \in Convs, NEW i \in DOMAIN log'[c], log'[c][i] \in Theirs, Comes("persisted", c, i)',
             i <= myRead'[c] \/ \E k \in marks' : k.conv = c /\ i <= k.seq
      PROVE  log'[c][i] \in seen'
    <2>0. i \in Nat
        <3>1. log'[c] \in Seq(Messages)
            BY <1>0, LogGrows
        <3> QED BY <3>1
    <2>1. i \in DOMAIN log[c]
        <3>1. i <= Len(log[c])
            BY <1>2, <1>4, <1>6, <1>7, <2>0
        <3>2. i \in DOMAIN log[c] \/ i = Len(log[c]) + 1
            BY <1>0, LogGrows
        <3> QED BY <1>2, <2>0, <3>1, <3>2
    <2>2. log'[c][i] = log[c][i] /\ Comes("persisted", c, i)
        BY <1>0, <1>7, <2>1, LogGrows, ComesWas
    <2>3. CASE i <= myRead[c] \/ \E k \in marks : k.conv = c /\ i <= k.seq
        BY <1>1, <1>7, <2>1, <2>2, <2>3 DEF MarkedTrue
    <2>4. CASE i <= myRead'[c]
        BY <1>4, <2>3, <2>4
    <2>5. ASSUME NEW k \in marks', k.conv = c, i <= k.seq PROVE log'[c][i] \in seen'
        <3>1. CASE k \in marks
            BY <2>3, <2>5, <3>1
        <3>2. ASSUME NEW l \in loads, LoadMessages(l), l.rows # {},
                     k = [conv |-> l.conv, seq |-> LastSeq(l.rows)]
              PROVE  log'[c][i] \in seen'
            <4>1. PICK r \in l.rows : k.seq = r.seq /\ l.conv = c
                BY <1>5, <2>5, <3>2
            <4>2. r.seq \in Nat /\ i \in 1..r.seq
                <5>1. log[c] \in Seq(Messages) /\ r.seq \in DOMAIN log[c]
                    BY <1>2, <4>1 DEF PagesTrue
                <5> QED BY <2>1, <2>5, <4>1, <5>1
            <4>3. \E q \in l.rows : q.msg = log[c][i]
                BY <4>1, <4>2 DEF PagesTrue
            <4>4. rows' = l.rows
                BY <3>2 DEF LoadMessages, Show
            <4> QED BY <1>1, <2>2, <4>3, <4>4
        <3>3. ASSUME ApplyIncomingEvent, Head(events).type = "persisted",
                     k = [conv |-> Head(events).conv, seq |-> Head(events).seq]
              PROVE  FALSE
            <4>1. PICK p \in DOMAIN events' : /\ events'[p].type = "persisted" /\ events'[p].conv = c
                                              /\ events'[p].seq = i
                BY <1>7 DEF Comes
            <4>2. /\ events \in Seq(Record) /\ events # <<>> /\ events' = Tail(events)
                  /\ 1 \in DOMAIN events /\ events[1] = Head(events) /\ Head(events) \in Record
                BY <1>0, <3>3, HeadIsTrue DEF ServiceTypes
            <4>3. p \in Nat /\ p + 1 \in DOMAIN events /\ events[p + 1] = events'[p] /\ p # 0
                BY <4>1, <4>2, QueueMoves
            <4>4. Head(events).seq < i
                <5>1. events[1].type = "persisted" /\ events[1].conv = c
                    BY <2>5, <3>3, <4>2
                <5>2. 1 < p + 1
                    BY <4>3
                <5> QED BY <4>1, <4>2, <4>3, <5>1, <5>2 DEF RecordsOrdered
            <4>5. k.seq = Head(events).seq /\ k.seq \in Nat
                BY <1>6, <3>3
            <4> QED BY <2>0, <2>5, <4>4, <4>5
        <3> QED BY <3>1, <3>2, <3>3, MarksStep DEF MarkMove
    <2> QED BY <1>7, <2>4, <2>5
<1>8. \A c \in Convs : myRead'[c] <= Len(log'[c])
    BY <1>2, <1>4
<1>9. \A k \in marks' : k.seq <= Len(log'[k.conv])
    BY <1>2, <1>6
<1> QED BY <1>1, <1>7, <1>8, <1>9 DEF MarkedTrue

-----------------------------------------------------------------------------
(***************************************************************************)
(* What a list is owed stays on its way until the window takes it.         *)
(***************************************************************************)
\* A recall the row does not show keeps coming until its record is taken.
LEMMA RecallStays ==
    ASSUME ServiceTypes, LogTrue, ServiceMove, NEW c \in Convs, NEW i \in DOMAIN log[c],
           NEW r, log[c][i] = r.msg, RecallTold(c, r, i),
           ~(/\ Takes /\ Head(events).type = "recalled" /\ Head(events).conv = c
             /\ Head(events).seq = i)
    PROVE  RecallTold(c, r, i)'
<1>1. CASE Comes("recalled", c, i)
    <2>1. Comes("recalled", c, i)'
        BY <1>1, ComesStays
    <2> QED BY <2>1 DEF RecallTold
<1>2. CASE r.recalled = (r.msg \in recalled)
    <2>1. CASE recalled' = recalled
        BY <1>2, <2>1 DEF RecallTold
    <2>2. ASSUME NEW d \in Convs, NEW m \in Messages, Recalls(d, m) PROVE RecallTold(c, r, i)'
        <3>1. CASE m # r.msg
            BY <1>2, <2>2, <3>1 DEF RecallTold, Recalls
        <3>2. CASE m = r.msg
            <4>1. Number(d, m) \in DOMAIN log[d] /\ log[d][Number(d, m)] = m
                BY <2>2, NumberIsPlace DEF Recalls
            <4>2. d = c /\ Number(d, m) = i
                BY <3>2, <4>1 DEF LogTrue
            <4>3. i \in Nat
                BY DEF ServiceTypes
            <4>4. Event("recalled", c, m, i) \in Record
                BY <4>3 DEF Event, Record
            <4>5. events' = events \o <<Event("recalled", c, m, i)>>
                BY <2>2, <4>2 DEF Recalls
            <4>6. \E n \in DOMAIN events' : events'[n] = Event("recalled", c, m, i)
                BY <4>4, <4>5, LastRecord
            <4>7. Comes("recalled", c, i)'
                BY <4>6 DEF Comes, Event
            <4> QED BY <4>7 DEF RecallTold
        <3> QED BY <3>1, <3>2
    <2> QED BY <2>1, <2>2 DEF ServiceMove, Still, Stores, Reads, ThirdMoves, Takes
<1> QED BY <1>1, <1>2 DEF RecallTold

\* A list that has every message that does not come has it after the step.
LEMMA CoversStays ==
    ASSUME ServiceTypes, ServiceMove, NEW c \in Convs, NEW rs, NEW rs2, Covers(c, rs),
           \A r \in rs : r.id = "stored" => \E q \in rs2 : q.msg = r.msg /\ q.id = "stored",
           Takes /\ Head(events).type = "persisted" /\ Head(events).conv = c =>
              \E q \in rs2 : q.msg = log[c][Head(events).seq] /\ q.id = "stored"
    PROVE  Covers(c, rs2)'
<1> SUFFICES ASSUME NEW i \in DOMAIN log'[c]
             PROVE  \/ Comes("persisted", c, i)'
                    \/ \E q \in rs2 : q.msg = log'[c][i] /\ q.id = "stored"
    BY DEF Covers
<1>1. CASE i \in DOMAIN log[c]
    <2>0. log'[c][i] = log[c][i]
        BY <1>1, LogGrows
    <2>1. CASE Comes("persisted", c, i)
        BY <2>0, <2>1, ComesStays
    <2>2. CASE \E r \in rs : r.msg = log[c][i] /\ r.id = "stored"
        BY <2>0, <2>2
    <2> QED BY <1>1, <2>1, <2>2 DEF Covers
<1>2. ASSUME NEW m \in Messages, Stores(c, m), i = Len(log[c]) + 1 PROVE Comes("persisted", c, i)'
    BY <1>2, OnePersisted DEF Comes
<1> QED BY <1>1, <1>2, LogGrows

\* A members list that is not that of the service is owed a record or a load.
LEMMA ToldStays ==
    ASSUME ServiceTypes, ServiceMove, NEW c \in Convs, NEW ms, NEW rs, NEW rs2, MembersTold(c, ms, rs),
           (\E r \in rs : r.conv = c /\ r.when # "open") => \E r \in rs2 : r.conv = c /\ r.when # "open",
           Takes /\ Head(events).conv = c =>
              /\ Head(events).type # "read"
              /\ Head(events).type = "members" => \E r \in rs2 : r.conv = c /\ r.when # "open"
    PROVE  MembersTold(c, ms, rs2)'
<1>1. ms.read = theirRead'[c] \/ ReadComes(c)'
    <2>1. CASE ReadComes(c)
        BY <2>1, RecordStays DEF ReadComes
    <2>2. CASE ms.read = theirRead[c] /\ theirRead'[c] = theirRead[c]
        BY <2>2
    <2>3. CASE Reads(c)
        <3>1. Event("read", c, log[c][Len(log[c])], Len(log[c])) \in Record
            BY <2>3 DEF Reads, Event, Record, ServiceTypes
        <3>2. \E n \in DOMAIN events' : events'[n] = Event("read", c, log[c][Len(log[c])], Len(log[c]))
            BY <2>3, <3>1, LastRecord DEF Reads
        <3> QED BY <3>2 DEF ReadComes, Event
    <2>4. theirRead'[c] = theirRead[c] \/ Reads(c)
        BY DEF ServiceMove, Still, Stores, Reads, ThirdMoves, Recalls, Takes, ServiceTypes
    <2> QED BY <2>1, <2>2, <2>3, <2>4 DEF MembersTold
<1>2. \/ ms.third = (c \in third')
      \/ MembersCome(c)'
      \/ \E r \in rs2 : r.conv = c /\ r.when # "open"
    <2>1. CASE MembersCome(c)
        BY <2>1, RecordStays DEF MembersCome
    <2>2. CASE ms.third = (c \in third) /\ (c \in third') = (c \in third)
        BY <2>2
    <2>3. CASE ThirdMoves(c)
        <3>1. Event("members", c, None, 0) \in Record
            BY DEF Event, Record
        <3>2. \E n \in DOMAIN events' : events'[n] = Event("members", c, None, 0)
            BY <2>3, <3>1, LastRecord DEF ThirdMoves
        <3> QED BY <3>2 DEF MembersCome, Event
    <2>4. (c \in third') = (c \in third) \/ ThirdMoves(c)
        <3>1. CASE third' = third
            BY <3>1
        <3>2. ASSUME NEW d \in Convs, ThirdMoves(d), d # c PROVE c \in third' <=> c \in third
            BY <3>2 DEF ThirdMoves
        <3>3. third' = third \/ \E d \in Convs : ThirdMoves(d)
            BY DEF ServiceMove, Still, Stores, Reads, Recalls, Takes
        <3> QED BY <3>1, <3>2, <3>3
    <2> QED BY <2>1, <2>2, <2>3, <2>4 DEF MembersTold
<1> QED BY <1>1, <1>2 DEF MembersTold

\* What a step makes of the members and of the loads of them alone.
MembersMove ==
    \/ /\ members' = members
       /\ reloads' = reloads \/ \E x : x.members = None /\ reloads' = reloads \cup {x}
    \/ \E r \in reloads : ServeMembersAgain(r) \/ SetMembers(r) \/ Opened(r)
    \/ MembersFail
    \/ \E l \in loads : LoadMessages(l)
    \/ ApplyIncomingEvent /\ Head(events).conv = cur /\ Head(events).type = "read"

LEMMA MembersStep ==
    ASSUME WindowTypes, WindowNext
    PROVE  MembersMove
<1>a. ASSUME members' = members, reloads' = reloads PROVE MembersMove
    BY <1>a DEF MembersMove
<1>b. ASSUME members' = members, NEW x, x.members = None, reloads' = reloads \cup {x} PROVE MembersMove
    BY <1>b DEF MembersMove
<1>1. ASSUME NEW c \in Convs, SetCurrentConversation(c) \/ TheyRead(c) \/ TheyChangeMembers(c) PROVE MembersMove
    BY <1>a, <1>1 DEF SetCurrentConversation, TheyRead, TheyChangeMembers, window, group
<1>2. ASSUME NEW c \in Convs, StartDirectChat(c) PROVE MembersMove
    <2>1. Reload(c, "open").members = None
        BY DEF Reload
    <2> QED BY <1>b, <1>2, <2>1 DEF StartDirectChat, window
<1>3. ASSUME NEW l \in loads, ServeMessages(l) \/ ServeMembers(l) \/ LoadFails(l) PROVE MembersMove
    BY <1>a, <1>3 DEF ServeMessages, ServeMembers, LoadFails, window, group
<1>4. ASSUME NEW j \in marks, MarkAsRead(j) PROVE MembersMove
    BY <1>a, <1>4 DEF MarkAsRead, window, group
<1>5. ASSUME NEW j \in Mine, SendMessage(j) \/ RetryMessage(j) \/ Sent(j) \/ SendFails(j) PROVE MembersMove
    BY <1>a, <1>5 DEF SendMessage, RetryMessage, Sent, SendFails, group
<1>6. ASSUME NEW j \in Mine, NEW online \in BOOLEAN, Store(j, online) PROVE MembersMove
    BY <1>a, <1>6 DEF Store, window, group
<1>7. ASSUME NEW add \in BOOLEAN, HandleMember(add) PROVE MembersMove
    BY <1>a, <1>7 DEF HandleMember, window
<1>8. ASSUME NEW j \in calls, ServeMember(j) PROVE MembersMove
    BY <1>a, <1>8 DEF ServeMember, window
<1>9. ASSUME NEW j \in calls, MemberAnswered(j) PROVE MembersMove
    <2>1. Reload(j.conv, "whenShown").members = None /\ Reload(j.conv, "always").members = None
        BY DEF Reload
    <2>2. members' = members
        BY <1>9 DEF MemberAnswered, window
    <2>3. \/ reloads' = reloads \cup {}
          \/ reloads' = reloads \cup {Reload(j.conv, "whenShown")}
          \/ reloads' = reloads \cup {Reload(j.conv, "always")}
        BY <1>9 DEF MemberAnswered
    <2> QED BY <1>a, <1>b, <2>1, <2>2, <2>3
<1>10. ASSUME NEW m \in Theirs, NEW c \in Convs, TheySend(m, c) PROVE MembersMove
    BY <1>a, <1>10 DEF TheySend, window, group
<1>11. ASSUME NEW m \in Messages, NEW c \in Convs, RecallMessage(c, m) PROVE MembersMove
    BY <1>a, <1>11 DEF RecallMessage, window, group
<1>12. ASSUME ApplyIncomingEvent PROVE MembersMove
    <2>1. CASE Head(events).conv # cur
        BY <1>a, <1>12, <2>1 DEF ApplyIncomingEvent
    <2>2. CASE Head(events).conv = cur /\ Head(events).type = "read"
        BY <1>12, <2>2 DEF MembersMove
    <2>3. CASE Head(events).conv = cur /\ Head(events).type = "members"
        <3>1. members' = members /\ reloads' = reloads \cup {Reload(Head(events).conv, "whenShown")}
            BY <1>12, <2>3 DEF ApplyIncomingEvent
        <3>2. Reload(Head(events).conv, "whenShown").members = None
            BY DEF Reload
        <3> QED BY <1>b, <3>1, <3>2
    <2>4. CASE Head(events).conv = cur /\ Head(events).type # "read" /\ Head(events).type # "members"
        BY <1>a, <1>12, <2>4 DEF ApplyIncomingEvent
    <2> QED BY <2>1, <2>2, <2>3, <2>4
<1>13. ASSUME NEW r \in reloads, ServeMembersAgain(r) \/ SetMembers(r) \/ Opened(r) PROVE MembersMove
    BY <1>13 DEF MembersMove
<1>14. ASSUME NEW l \in loads, LoadMessages(l) PROVE MembersMove
    BY <1>14 DEF MembersMove
<1>15. ASSUME MembersFail PROVE MembersMove
    BY <1>15 DEF MembersMove
<1> QED BY <1>1, <1>2, <1>3, <1>4, <1>5, <1>6, <1>7, <1>8, <1>9, <1>10, <1>11, <1>12, <1>13, <1>14, <1>15
        DEF WindowNext

\* The load that sets its answer in the window.
Sets(r) == SetMembers(r) /\ (r.when = "always" \/ r.conv = cur)

\* A load of the members shown stays, unless it, or its like, is set or fails.
LEMMA ReloadStays ==
    ASSUME WindowTypes, WindowNext, NEW r \in reloads, r.conv = cur, r.when # "open"
    PROVE  \/ \E q \in reloads' : q.conv = cur /\ q.when # "open"
           \/ \E b \in reloads : Sets(b) /\ b.conv = cur
           \/ loads' = Outdate(cur) /\ torn'
<1> DEFINE Kept == \E q \in reloads' : q.conv = cur /\ q.when # "open"
<1>0. r \in ReloadCall /\ reloads \subseteq ReloadCall
    BY DEF WindowTypes, CallTypes
<1>1. ASSUME NEW c PROVE \E q \in OutdateMembers(c) : q.conv = cur /\ q.when # "open"
    <2>1. [r EXCEPT !.stale = @ \/ (r.conv = c /\ r.members # None)] \in OutdateMembers(c)
        BY DEF OutdateMembers
    <2> QED BY <1>0, <2>1 DEF ReloadCall
<1>2. CASE reloads \subseteq reloads'
    BY <1>2
<1>3. ASSUME NEW b \in reloads, ServeMembersAgain(b) PROVE Kept
    <2>1. CASE b = r
        <3>1. [b EXCEPT !.members = Members(b.conv)] \in reloads'
            BY <1>3 DEF ServeMembersAgain
        <3> QED BY <1>0, <2>1, <3>1 DEF ReloadCall
    <2>2. CASE b # r
        BY <1>3, <2>2 DEF ServeMembersAgain
    <2> QED BY <2>1, <2>2
<1>4. ASSUME NEW b \in reloads, SetMembers(b) PROVE Kept \/ (Sets(b) /\ b.conv = cur)
    <2>1. CASE Sets(b) /\ b.conv # cur
        <3>1. PICK q \in OutdateMembers(b.conv) : q.conv = cur /\ q.when # "open"
            BY <1>1
        <3>2. q # [b EXCEPT !.stale = TRUE]
            BY <1>0, <2>1, <3>1 DEF ReloadCall
        <3>3. reloads' = OutdateMembers(b.conv) \ {[b EXCEPT !.stale = TRUE]}
            BY <2>1 DEF Sets, SetMembers
        <3> QED BY <3>1, <3>2, <3>3
    <2>2. CASE ~Sets(b)
        <3>1. reloads' = reloads \ {b} /\ b.conv # cur
            BY <1>4, <2>2 DEF Sets, SetMembers
        <3> QED BY <3>1
    <2> QED BY <2>1, <2>2
<1>5. ASSUME NEW b \in reloads, Opened(b) PROVE Kept
    <2>1. PICK q \in OutdateMembers(b.conv) : q.conv = cur /\ q.when # "open"
        BY <1>1
    <2>2. q # [b EXCEPT !.stale = TRUE]
        BY <1>0, <1>5, <2>1 DEF ReloadCall, Opened
    <2>3. reloads' = OutdateMembers(b.conv) \ {[b EXCEPT !.stale = TRUE]}
        BY <1>5 DEF Opened
    <2> QED BY <2>1, <2>2, <2>3
<1>6. ASSUME MembersFail PROVE Kept \/ (loads' = Outdate(cur) /\ torn')
    <2>1. CASE reloads' = reloads
        BY <2>1
    <2>2. ASSUME NEW b \in reloads, reloads' = reloads \ {b}, loads' = Outdate(b.conv),
                 torn' = (torn \/ (b.conv = cur /\ b.when # "open"))
          PROVE  Kept \/ (loads' = Outdate(cur) /\ torn')
        BY <2>2
    <2> QED BY <1>6, <2>1, <2>2 DEF MembersFail
<1>7. ASSUME NEW l \in loads, LoadMessages(l) PROVE Kept
    BY <1>1, <1>7 DEF LoadMessages
<1>8. CASE ApplyIncomingEvent /\ Head(events).conv = cur /\ Head(events).type = "read"
    BY <1>1, <1>8 DEF ApplyIncomingEvent
<1>9. CASE reloads' = reloads \/ \E x : x.members = None /\ reloads' = reloads \cup {x}
    BY <1>9
<1> QED BY <1>3, <1>4, <1>5, <1>6, <1>7, <1>8, <1>9, MembersStep DEF MembersMove

\* A record of the window's conversation makes what was read before it old.
LEMMA EventIdles ==
    ASSUME WindowTypes, ApplyIncomingEvent, Head(events).conv = cur, Head(events).type # "members",
           NEW y \in loads', y.conv = cur
    PROVE  Idle(y)
<1>1. loads' = Outdate(cur)
    BY DEF ApplyIncomingEvent
<1> QED BY <1>1, OutdatedIsSame DEF WindowTypes

\* A record of the members makes them load again.
LEMMA EventReloads ==
    ASSUME ApplyIncomingEvent, Head(events).conv = cur, Head(events).type = "members"
    PROVE  \E q \in reloads' : q.conv = cur /\ q.when # "open" /\ q.members = None /\ ~q.stale
<1>1. reloads' = reloads \cup {Reload(cur, "whenShown")}
    BY DEF ApplyIncomingEvent
<1>2. LET q == Reload(cur, "whenShown") IN
      q.conv = cur /\ q.when = "whenShown" /\ q.members = None /\ ~q.stale
    BY DEF Reload
<1> QED BY <1>1, <1>2

\* What a load has fetched and a new answer was not, is owed a record or a load.
LEMMA LoadsToldStep ==
    ASSUME WindowTypes, LogTrue, RecordsTrue, PagesTrue, LoadsTold, WindowNext
    PROVE  LoadsTold'
<1> SUFFICES ASSUME NEW y \in loads', y.conv = cur', ~y.stale
             PROVE  /\ y.paged => /\ Covers(cur, y.rows)'
                                  /\ \A r \in y.rows : RecallTold(cur, r, r.seq)'
                    /\ y.members # None => MembersTold(cur, y.members, reloads)'
    BY DEF LoadsTold
<1>1. CASE Idle(y)
    BY <1>1 DEF Idle
<1>2. CASE ~Idle(y)
    <2>1. ServiceTypes /\ ServiceMove /\ CallTypes
        BY StepMoves DEF WindowTypes
    <2>2. CallTypes'
        BY CallsStep
    <2>3. LoadMove(y)
        BY LoadsStep
    <2>4. cur' = cur
        BY <1>2, <2>3 DEF LoadMove, Idle
    <2>5. PICK c \in Convs : c = cur /\ c = cur' /\ c = y.conv
        BY <2>2, <2>4 DEF CallTypes, LoadCall
    <2>6. ASSUME y.paged
          PROVE  /\ Covers(c, y.rows)
                 /\ \A r \in y.rows : /\ r.seq \in DOMAIN log[c] /\ log[c][r.seq] = r.msg
                                      /\ RecallTold(c, r, r.seq)
        <3>1. ASSUME NEW l \in loads, l.conv = c, ~l.stale, l.paged, y.rows = l.rows
              PROVE  /\ Covers(c, y.rows)
                     /\ \A r \in y.rows : /\ r.seq \in DOMAIN log[c] /\ log[c][r.seq] = r.msg
                                          /\ RecallTold(c, r, r.seq)
            BY <2>5, <3>1 DEF LoadsTold, PagesTrue
        <3>2. CASE y.rows = Page(c)
            BY <2>1, <3>2, PageIsList DEF Covers, RecallTold
        <3> QED BY <1>2, <2>3, <2>5, <2>6, <3>1, <3>2 DEF LoadMove, SameLoad, Idle
    <2>7. ASSUME y.members # None PROVE MembersTold(c, y.members, reloads)
        <3>1. ASSUME NEW l \in loads, l.conv = c, ~l.stale, l.members # None, y.members = l.members
              PROVE  MembersTold(c, y.members, reloads)
            BY <2>5, <3>1 DEF LoadsTold
        <3>2. CASE y.members = Members(c)
            BY <3>2 DEF MembersTold, Members
        <3> QED BY <1>2, <2>3, <2>5, <2>7, <3>1, <3>2 DEF LoadMove, SameLoad, Idle
    <2>8. Takes /\ Head(events).conv = c => Head(events).type = "members"
        BY <1>2, <2>5, EventIdles DEF Takes
    <2>9. ASSUME y.paged
          PROVE  Covers(c, y.rows)' /\ \A r \in y.rows : RecallTold(c, r, r.seq)'
        <3>1. Covers(c, y.rows)'
            BY <2>1, <2>6, <2>8, <2>9, CoversStays
        <3>2. ASSUME NEW r \in y.rows PROVE RecallTold(c, r, r.seq)'
            BY <2>1, <2>6, <2>8, <2>9, RecallStays
        <3> QED BY <3>1, <3>2
    <2>10. ASSUME y.members # None PROVE MembersTold(c, y.members, reloads)'
        <3>1. ASSUME NEW r \in reloads, r.conv = c, r.when # "open"
              PROVE  \E q \in reloads' : q.conv = c /\ q.when # "open"
            <4>1. loads' # Outdate(c)
                BY <1>2, <2>1, <2>5, OutdatedIsSame
            <4>2. ASSUME NEW b \in reloads, Sets(b), b.conv = c PROVE loads' = Outdate(c)
                BY <4>2 DEF Sets, SetMembers
            <4> QED BY <2>5, <3>1, <4>1, <4>2, ReloadStays
        <3>2. Takes /\ Head(events).conv = c => \E q \in reloads' : q.conv = c /\ q.when # "open"
            BY <2>5, <2>8, EventReloads DEF Takes
        <3>3. PICK rs : rs = reloads
            OBVIOUS
        <3>4. PICK rs2 : rs2 = reloads'
            OBVIOUS
        <3>5. MembersTold(c, y.members, rs2)'
            BY <2>1, <2>7, <2>8, <2>10, <3>1, <3>2, <3>3, <3>4, ToldStays
        <3> QED BY <3>4, <3>5 DEF MembersTold
    <2> QED BY <2>5, <2>9, <2>10 DEF Covers, RecallTold, MembersTold, Comes, ReadComes, MembersCome
<1> QED BY <1>1, <1>2

\* The window becomes of the current conversation only by a load of it that is not old.
LEMMA FreshStep ==
    ASSUME WindowTypes, WindowNext, Fresh'
    PROVE  /\ cur' = cur /\ cur \in Convs
           /\ \/ Fresh
              \/ \E l \in loads : LoadMessages(l) /\ l.conv = cur /\ ~l.stale
<1> DEFINE Goal == cur' = cur /\ (Fresh \/ \E l \in loads : LoadMessages(l) /\ l.conv = cur /\ ~l.stale)
<1>0. loads \subseteq LoadCall /\ torn \in BOOLEAN
    BY DEF WindowTypes, CallTypes, PageTypes
<1>a. ASSUME cur' = cur, torn => torn', \A l \in loads : l.conv = cur => \E y \in loads' : y.conv = cur
      PROVE  Goal
    BY <1>a DEF Fresh
<1>b. ASSUME NEW c, loads' = Outdate(c) PROVE \A l \in loads : l.conv = cur => \E y \in loads' : y.conv = cur
    <2> TAKE l \in loads
    <2>1. [l EXCEPT !.stale = @ \/ (l.conv = c /\ (l.paged \/ l.members # None))] \in loads'
        BY <1>b DEF Outdate
    <2> QED BY <1>0, <2>1 DEF LoadCall
<1>c. ASSUME NEW c, Hydrate(c) PROVE FALSE
    <2>1. [conv |-> c, paged |-> FALSE, rows |-> {}, members |-> None, live |-> TRUE, stale |-> FALSE] \in loads'
        BY <1>c DEF Hydrate
    <2>2. \E y \in loads' : y.conv = c
        BY <2>1
    <2>3. cur' = c
        BY <1>c DEF Hydrate
    <2> QED BY <2>2, <2>3 DEF Fresh
<1>1. ASSUME NEW c \in Convs, TheyRead(c) \/ TheyChangeMembers(c) \/ StartDirectChat(c) PROVE Goal
    BY <1>a, <1>1 DEF TheyRead, TheyChangeMembers, StartDirectChat, window, history
<1>2. ASSUME NEW c \in Convs, SetCurrentConversation(c) PROVE Goal
    BY <1>c, <1>2 DEF SetCurrentConversation
<1>3. ASSUME NEW l \in loads, ServeMessages(l) PROVE Goal
    <2>1. [l EXCEPT !.paged = TRUE, !.rows = Page(l.conv)] \in loads' /\ loads \ {l} \subseteq loads'
          /\ cur' = cur /\ torn' = torn
        BY <1>3 DEF ServeMessages, window, history
    <2> QED BY <1>0, <1>a, <2>1 DEF LoadCall
<1>4. ASSUME NEW l \in loads, ServeMembers(l) PROVE Goal
    <2>1. [l EXCEPT !.members = Members(l.conv)] \in loads' /\ loads \ {l} \subseteq loads'
          /\ cur' = cur /\ torn' = torn
        BY <1>4 DEF ServeMembers, window, history
    <2> QED BY <1>0, <1>a, <2>1 DEF LoadCall
<1>5. ASSUME NEW l \in loads, LoadMessages(l) PROVE Goal
    BY <1>0, <1>5 DEF LoadMessages, Fresh, LoadCall
<1>6. ASSUME NEW l \in loads, LoadFails(l) PROVE Goal
    BY <1>6 DEF LoadFails, Fresh, window, LoadCall
<1>7. ASSUME NEW k \in marks, MarkAsRead(k) PROVE Goal
    BY <1>a, <1>7 DEF MarkAsRead, window, history
<1>8. ASSUME NEW k \in Mine, SendMessage(k) \/ RetryMessage(k) \/ Sent(k) PROVE Goal
    <2>1. cur' = cur
        BY <1>8 DEF SendMessage, RetryMessage, Sent
    <2>2. torn => torn'
        BY <1>8 DEF SendMessage, RetryMessage, Sent
    <2>3. loads' = Outdate(cur) \/ loads' = Outdate(sending[k].conv)
        BY <1>8 DEF SendMessage, RetryMessage, Sent
    <2> QED BY <1>a, <1>b, <2>1, <2>2, <2>3
<1>9. ASSUME NEW k \in Mine, SendFails(k) PROVE Goal
    BY <1>a, <1>9 DEF SendFails
<1>10. ASSUME NEW k \in Mine, NEW online \in BOOLEAN, Store(k, online) PROVE Goal
    BY <1>a, <1>10 DEF Store, window, history
<1>11. ASSUME NEW add \in BOOLEAN, HandleMember(add) PROVE Goal
    BY <1>a, <1>11 DEF HandleMember, window, history
<1>12. ASSUME NEW k \in calls, ServeMember(k) \/ MemberAnswered(k) PROVE Goal
    BY <1>a, <1>12 DEF ServeMember, MemberAnswered, window, history
<1>13. ASSUME NEW r \in reloads, ServeMembersAgain(r) PROVE Goal
    BY <1>a, <1>13 DEF ServeMembersAgain, window, history
<1>14. ASSUME NEW r \in reloads, SetMembers(r) PROVE Goal
    <2>1. cur' = cur /\ (torn => torn') /\ (loads' = loads \/ \E c : loads' = Outdate(c))
        BY <1>14 DEF SetMembers
    <2> QED BY <1>a, <1>b, <2>1
<1>15. ASSUME NEW r \in reloads, Opened(r) PROVE Goal
    <2>1. CASE r.conv = cur
        <3>1. cur' = cur /\ (torn => torn') /\ loads' = Outdate(cur)
            BY <1>15, <2>1 DEF Opened
        <3> QED BY <1>a, <1>b, <3>1
    <2>2. CASE r.conv # cur
        BY <1>c, <1>15, <2>2 DEF Opened
    <2> QED BY <2>1, <2>2
<1>16. ASSUME MembersFail PROVE Goal
    <2>1. cur' = cur
        BY <1>16 DEF MembersFail, window
    <2>2. torn => torn'
        BY <1>16 DEF MembersFail
    <2>3. loads' = loads \/ \E c : loads' = Outdate(c)
        BY <1>16 DEF MembersFail
    <2> QED BY <1>a, <1>b, <2>1, <2>2, <2>3
<1>17. ASSUME NEW m \in Theirs, NEW c \in Convs, TheySend(m, c) PROVE Goal
    BY <1>a, <1>17 DEF TheySend, window, history
<1>18. ASSUME NEW m \in Messages, NEW c \in Convs, RecallMessage(c, m) PROVE Goal
    BY <1>a, <1>18 DEF RecallMessage, window, history
<1>19. ASSUME ApplyIncomingEvent PROVE Goal
    <2>1. cur' = cur /\ (torn => torn') /\ (loads' = loads \/ \E c : loads' = Outdate(c))
        BY <1>19 DEF ApplyIncomingEvent
    <2> QED BY <1>a, <1>b, <2>1
<1>20. Goal
    <2> HIDE DEF Goal
    <2> QED BY <1>1, <1>2, <1>3, <1>4, <1>5, <1>6, <1>7, <1>8, <1>9, <1>10, <1>11, <1>12, <1>13, <1>14, <1>15,
               <1>16, <1>17, <1>18, <1>19 DEF WindowNext
<1>21. cur \in Convs
    BY <1>20 DEF Fresh, WindowTypes, PageTypes
<1> QED BY <1>20, <1>21

\* The loads of the members that were under way are so as well when they are old.
LEMMA OutdatedReloads ==
    ASSUME CallTypes, NEW c
    PROVE  /\ \A r \in reloads : \E q \in OutdateMembers(c) :
                 q.conv = r.conv /\ q.when = r.when /\ (q = r \/ q = [r EXCEPT !.stale = TRUE])
           /\ \A q \in OutdateMembers(c) : q.conv = c /\ q.members # None => q.stale
<1>1. reloads \subseteq ReloadCall
    BY DEF CallTypes
<1>2. ASSUME NEW r \in reloads
      PROVE  LET q == [r EXCEPT !.stale = @ \/ (r.conv = c /\ r.members # None)] IN
             /\ q \in OutdateMembers(c) /\ q.conv = r.conv /\ q.when = r.when /\ q.members = r.members
             /\ q.stale = (r.stale \/ (r.conv = c /\ r.members # None))
             /\ q = r \/ q = [r EXCEPT !.stale = TRUE]
    BY <1>1 DEF OutdateMembers, ReloadCall
<1>3. \A q \in OutdateMembers(c) : \E r \in reloads :
         q = [r EXCEPT !.stale = @ \/ (r.conv = c /\ r.members # None)]
    BY DEF OutdateMembers
<1>4. ASSUME NEW r \in reloads
      PROVE  \E q \in OutdateMembers(c) :
                q.conv = r.conv /\ q.when = r.when /\ (q = r \/ q = [r EXCEPT !.stale = TRUE])
    BY <1>2
<1>5. ASSUME NEW q \in OutdateMembers(c), q.conv = c, q.members # None PROVE q.stale
    <2>1. PICK r \in reloads : q = [r EXCEPT !.stale = @ \/ (r.conv = c /\ r.members # None)]
        BY <1>3
    <2> QED BY <1>2, <1>5, <2>1
<1> QED BY <1>4, <1>5

\* What the load that is set has fetched is owed no more than what is left under way.
LEMMA SetTold ==
    ASSUME WindowTypes, WindowTold, Fresh, NEW b \in reloads, b.conv = cur, b.members # None, ~b.stale,
           reloads' = OutdateMembers(b.conv) \ {[b EXCEPT !.stale = TRUE]}, members' = b.members,
           cur' = cur, UNCHANGED <<theirRead, third, events>>
    PROVE  MembersTold(cur, members, reloads)'
<1>1. CallTypes /\ reloads \subseteq ReloadCall
    BY DEF WindowTypes, CallTypes
<1>2. MembersTold(cur, b.members, OthersThan(b))
    BY DEF WindowTold
<1>3. ASSUME NEW s \in OthersThan(b), s.conv = cur, s.when # "open"
      PROVE  \E q \in reloads' : q.conv = cur /\ q.when # "open"
    <2>1. s \in reloads /\ s # b /\ ~s.stale
        BY DEF OthersThan
    <2>2. PICK q \in OutdateMembers(cur) : /\ q.conv = cur /\ q.when # "open"
                                           /\ q = s \/ q = [s EXCEPT !.stale = TRUE]
        BY <1>1, <1>3, <2>1, OutdatedReloads
    <2>3. s \in ReloadCall /\ b \in ReloadCall /\ s.stale = FALSE /\ b.stale = FALSE
        BY <1>1, <2>1 DEF ReloadCall
    <2>4. s # [b EXCEPT !.stale = TRUE]
        BY <2>3 DEF ReloadCall
    <2>5. [s EXCEPT !.stale = TRUE] # [b EXCEPT !.stale = TRUE]
        BY <2>1, <2>3 DEF ReloadCall
    <2> QED BY <2>2, <2>4, <2>5
<1> QED BY <1>2, <1>3 DEF MembersTold, ReadComes, MembersCome

\* The members shown are those of the service, or a record or a load of them comes.
LEMMA MembersToldStep ==
    ASSUME WindowTypes, RecordsTrue, RecordsOrdered, LoadsTold, WindowTold, WindowNext, Fresh', cur' = cur,
           cur \in Convs, Fresh \/ \E l \in loads : LoadMessages(l)
    PROVE  MembersTold(cur, members, reloads)'
<1>0. ServiceTypes /\ ServiceMove /\ CallTypes /\ ~torn'
    BY StepMoves DEF WindowTypes, Fresh
<1>1. ASSUME NEW l \in loads, LoadMessages(l) PROVE MembersTold(cur, members, reloads)'
    <2>1. l.conv = cur /\ ~l.stale /\ l.members # None /\ members' = l.members
          /\ reloads' = OutdateMembers(cur) /\ UNCHANGED <<theirRead, third, events>>
        BY <1>0, <1>1 DEF LoadMessages, service
    <2>2. MembersTold(cur, l.members, reloads)
        BY <2>1 DEF LoadsTold
    <2>3. \A r \in reloads : \E q \in reloads' : q.conv = r.conv /\ q.when = r.when
        BY <1>0, <2>1, OutdatedReloads
    <2> QED BY <2>1, <2>2, <2>3 DEF MembersTold, ReadComes, MembersCome
<1>2. ASSUME Fresh, NEW b \in reloads, Sets(b) PROVE MembersTold(cur, members, reloads)'
    <2>1. /\ b.conv = cur /\ ~b.stale /\ b.members # None /\ members' = b.members
          /\ reloads' = OutdateMembers(b.conv) \ {[b EXCEPT !.stale = TRUE]}
          /\ UNCHANGED <<theirRead, third, events>>
        BY <1>0, <1>2 DEF Sets, SetMembers, service
    <2> QED BY <1>2, <2>1, SetTold
<1>3. ASSUME Fresh, NEW b \in reloads, Opened(b) PROVE MembersTold(cur, members, reloads)'
    <2>1. b.conv = cur
        BY <1>3 DEF Opened, Hydrate
    <2>2. /\ ~b.stale /\ b.members # None /\ members' = b.members
          /\ reloads' = OutdateMembers(b.conv) \ {[b EXCEPT !.stale = TRUE]}
          /\ UNCHANGED <<theirRead, third, events>>
        BY <1>0, <1>3, <2>1 DEF Opened, service
    <2> QED BY <1>3, <2>1, <2>2, SetTold
<1>4. ASSUME Fresh, ApplyIncomingEvent, Head(events).conv = cur, Head(events).type = "read"
      PROVE  MembersTold(cur, members, reloads)'
    <2>0. /\ 1 \in DOMAIN events /\ events[1] = Head(events) /\ events # <<>> /\ events' = Tail(events)
          /\ events \in Seq(Record)
        BY <1>0, <1>4, HeadIsTrue DEF ServiceTypes
    <2>1. /\ members' = [members EXCEPT !.read = Head(events).seq] /\ reloads' = OutdateMembers(cur)
          /\ UNCHANGED <<theirRead, third>>
        BY <1>4 DEF ApplyIncomingEvent, service
    <2>2. members'.read = Head(events).seq /\ members'.third = members.third
        BY <2>1 DEF WindowTypes, PageTypes, MemberList
    <2>4. ASSUME NEW q \in DOMAIN events, 1 < q, events[q].type = "read", events[q].conv = cur
          PROVE  ReadComes(cur)'
        <3>1. q - 1 \in DOMAIN Tail(events) /\ Tail(events)[q - 1] = events[q]
            BY <2>0, <2>4, QueueMoves
        <3> QED BY <2>0, <2>4, <3>1 DEF ReadComes
    <2>5. members'.read = theirRead'[cur] \/ ReadComes(cur)'
        BY <1>4, <2>0, <2>1, <2>2, <2>4 DEF RecordsOrdered
    <2>6. \A r \in reloads : \E q \in reloads' : q.conv = r.conv /\ q.when = r.when
        BY <1>0, <2>1, OutdatedReloads
    <2>7. MembersCome(cur) => MembersCome(cur)'
        BY <1>0, <1>4, RecordStays DEF MembersCome
    <2>8. MembersTold(cur, members, reloads)
        BY <1>4 DEF WindowTold
    <2> QED BY <2>1, <2>2, <2>5, <2>6, <2>7, <2>8 DEF MembersTold
<1>5. ASSUME Fresh, members' = members, \A b \in reloads : ~Sets(b),
             ~(ApplyIncomingEvent /\ Head(events).conv = cur /\ Head(events).type = "read")
      PROVE  MembersTold(cur, members, reloads)'
    <2>1. MembersTold(cur, members, reloads)
        BY <1>5 DEF WindowTold
    <2>2. ASSUME NEW r \in reloads, r.conv = cur, r.when # "open"
          PROVE  \E q \in reloads' : q.conv = cur /\ q.when # "open"
        BY <1>0, <1>5, <2>2, ReloadStays
    <2>3. Takes /\ Head(events).conv = cur =>
             /\ Head(events).type # "read"
             /\ Head(events).type = "members" => \E q \in reloads' : q.conv = cur /\ q.when # "open"
        BY <1>5, EventReloads DEF Takes
    <2>4. PICK c, ms, rs, rs2 : c = cur /\ ms = members /\ rs = reloads /\ rs2 = reloads'
        OBVIOUS
    <2>5. MembersTold(c, ms, rs2)'
        BY <1>0, <2>1, <2>2, <2>3, <2>4, ToldStays
    <2> QED BY <1>5, <2>4, <2>5 DEF MembersTold, ReadComes, MembersCome
<1>6. \/ \E l \in loads : LoadMessages(l)
      \/ \E b \in reloads : Sets(b) \/ Opened(b)
      \/ members' = members
      \/ ApplyIncomingEvent /\ Head(events).conv = cur /\ Head(events).type = "read"
    BY MembersStep DEF MembersMove, Sets, ServeMembersAgain, SetMembers, MembersFail, window
<1> QED BY <1>1, <1>2, <1>3, <1>4, <1>5, <1>6

\* A load of the members that has its answer is owed a record, or another load.
LEMMA ReloadsToldStep ==
    ASSUME WindowTypes, WindowTold, WindowNext, Fresh', cur' = cur, cur \in Convs,
           Fresh \/ \E l \in loads : LoadMessages(l),
           NEW b \in reloads', b.conv = cur, b.members # None, ~b.stale
    PROVE  MembersTold(cur, b.members, OthersThan(b))'
<1>0. ServiceTypes /\ ServiceMove /\ CallTypes /\ ~torn' /\ reloads \subseteq ReloadCall
    BY StepMoves DEF WindowTypes, Fresh, CallTypes
<1>1. b \notin OutdateMembers(cur)
    BY <1>0, OutdatedReloads
<1>2. ASSUME NEW l \in loads, LoadMessages(l) PROVE FALSE
    BY <1>0, <1>1, <1>2 DEF LoadMessages
<1>3. ASSUME NEW a \in reloads, Sets(a) PROVE FALSE
    BY <1>0, <1>1, <1>3 DEF Sets, SetMembers
<1>4. ASSUME NEW a \in reloads, Opened(a) PROVE FALSE
    <2>1. a.conv = cur
        BY <1>4 DEF Opened, Hydrate
    <2> QED BY <1>1, <1>4, <2>1 DEF Opened
<1>5. ASSUME ApplyIncomingEvent, Head(events).conv = cur, Head(events).type = "read" PROVE FALSE
    BY <1>1, <1>5 DEF ApplyIncomingEvent
<1>6. ASSUME b.members = Members(cur), UNCHANGED <<theirRead, third>>
      PROVE  MembersTold(cur, b.members, OthersThan(b))'
    BY <1>6 DEF MembersTold, Members
<1>7. ASSUME b \in reloads,
             \A s \in OthersThan(b) : s.conv = cur /\ s.when # "open" =>
                \E q \in reloads' : q # b /\ ~q.stale /\ q.conv = cur /\ q.when # "open"
      PROVE  MembersTold(cur, b.members, OthersThan(b))'
    <2>1. MembersTold(cur, b.members, OthersThan(b))
        BY <1>2, <1>7 DEF WindowTold
    <2>2. PICK c, rs, rs2 : c = cur /\ rs = OthersThan(b) /\ rs2 = {s \in reloads' : s # b /\ ~s.stale}
        OBVIOUS
    <2>3. (\E r \in rs : r.conv = c /\ r.when # "open") => \E r \in rs2 : r.conv = c /\ r.when # "open"
        BY <1>7, <2>2
    <2>4. Takes /\ Head(events).conv = c => Head(events).type # "read"
        BY <1>5, <2>2 DEF Takes
    <2>5. Takes /\ Head(events).conv = c /\ Head(events).type = "members" =>
             \E q \in reloads' : q.conv = c /\ q.when # "open" /\ q.members = None /\ ~q.stale
        BY <2>2, EventReloads DEF Takes
    <2>6. Takes /\ Head(events).conv = c /\ Head(events).type = "members" =>
             \E r \in rs2 : r.conv = c /\ r.when # "open"
        BY <2>2, <2>5
    <2>7. MembersTold(c, b.members, rs2)'
        BY <1>0, <2>1, <2>2, <2>3, <2>4, <2>6, ToldStays
    <2> QED BY <2>2, <2>7 DEF MembersTold, ReadComes, MembersCome, OthersThan
<1>8. ASSUME NEW a \in reloads, ServeMembersAgain(a) PROVE MembersTold(cur, b.members, OthersThan(b))'
    <2> DEFINE n == [a EXCEPT !.members = Members(a.conv)]
    <2>1. /\ n.conv = a.conv /\ n.when = a.when /\ n.members = Members(a.conv) /\ n.stale = a.stale
          /\ reloads' = (reloads \ {a}) \cup {n} /\ UNCHANGED <<theirRead, third>>
        BY <1>0, <1>8 DEF ServeMembersAgain, ReloadCall, service
    <2> HIDE DEF n
    <2>2. CASE b = n
        BY <1>6, <2>1, <2>2
    <2>3. CASE b # n
        <3>1. b \in reloads
            BY <2>1, <2>3
        <3>2. ASSUME NEW s \in OthersThan(b), s.conv = cur, s.when # "open"
              PROVE  \E q \in reloads' : q # b /\ ~q.stale /\ q.conv = cur /\ q.when # "open"
            <4>1. s \in reloads /\ s # b /\ ~s.stale
                BY DEF OthersThan
            <4>2. CASE s = a
                BY <2>1, <2>3, <3>2, <4>1, <4>2
            <4>3. CASE s # a
                BY <2>1, <3>2, <4>1, <4>3
            <4> QED BY <4>2, <4>3
        <3> QED BY <1>7, <3>1, <3>2
    <2> QED BY <2>2, <2>3
<1>9. ASSUME NEW a \in reloads, SetMembers(a), ~Sets(a) PROVE MembersTold(cur, b.members, OthersThan(b))'
    <2>1. reloads' = reloads \ {a} /\ a.conv # cur
        BY <1>9 DEF Sets, SetMembers
    <2> QED BY <1>7, <2>1 DEF OthersThan
<1>10. ASSUME MembersFail PROVE MembersTold(cur, b.members, OthersThan(b))'
    <2>1. CASE reloads' = reloads
        BY <1>7, <2>1 DEF OthersThan
    <2>2. ASSUME NEW a \in reloads, reloads' = reloads \ {a},
                 torn' = (torn \/ (a.conv = cur /\ a.when # "open"))
          PROVE  MembersTold(cur, b.members, OthersThan(b))'
        <3>1. ~(a.conv = cur /\ a.when # "open")
            BY <1>0, <2>2
        <3> QED BY <1>7, <2>2, <3>1 DEF OthersThan
    <2> QED BY <1>10, <2>1, <2>2 DEF MembersFail
<1>11. CASE reloads' = reloads \/ \E x : x.members = None /\ reloads' = reloads \cup {x}
    <2>1. b \in reloads /\ reloads \subseteq reloads'
        BY <1>11
    <2> QED BY <1>7, <2>1 DEF OthersThan
<1> QED BY <1>2, <1>3, <1>4, <1>5, <1>8, <1>9, <1>10, <1>11, MembersStep DEF MembersMove

\* A row the service numbered stays, or makes way for another of its message.
LEMMA StoredRowsStay ==
    ASSUME WindowTypes, LogTrue, RecordsTrue, ShownTrue, WindowNext, \A l \in loads : ~LoadMessages(l),
           NEW r \in rows, r.id = "stored"
    PROVE  \E q \in rows' : q.msg = r.msg /\ q.id = "stored"
<1>1. CASE rows' = rows
    BY <1>1
<1>2. ASSUME NEW k \in Mine, NEW next \in WindowRow, rows' = ReplaceMessage(rows, next), next.msg = k,
             r.msg = k => next.id = "stored"
      PROVE  \E q \in rows' : q.msg = r.msg /\ q.id = "stored"
    BY <1>2 DEF ReplaceMessage
<1>3. ASSUME NEW k \in Mine, SendMessage(k) PROVE \E q \in rows' : q.msg = r.msg /\ q.id = "stored"
    <2>1. r.msg # k
        BY <1>3 DEF ShownTrue, LogTrue, SendMessage
    <2> QED BY <1>2, <1>3, <2>1, SendRows
<1>4. ASSUME NEW k \in Mine, RetryMessage(k) PROVE \E q \in rows' : q.msg = r.msg /\ q.id = "stored"
    <2>1. PICK next \in WindowRow, a \in rows : rows' = ReplaceMessage(rows, next) /\ next.msg = k
                                               /\ a.msg = k /\ next.id = a.id
        BY <1>4, SendRows
    <2>2. r.msg = k => r = a
        BY <2>1 DEF WindowTypes, PageTypes, RowList
    <2> QED BY <1>2, <2>1, <2>2
<1>5. ASSUME NEW k \in Mine, Sent(k) PROVE \E q \in rows' : q.msg = r.msg /\ q.id = "stored"
    BY <1>2, <1>5, SendRows
<1>6. ASSUME NEW k \in Mine, SendFails(k) PROVE \E q \in rows' : q.msg = r.msg /\ q.id = "stored"
    BY <1>6, FailedRows DEF WindowTypes, PageTypes
<1>7. ASSUME ApplyIncomingEvent, Head(events).conv = cur
      PROVE  \E q \in rows' : q.msg = r.msg /\ q.id = "stored"
    <2>1. rows' = Applied(Head(events))
        BY <1>7 DEF ApplyIncomingEvent, Show
    <2>2. Head(events) \in Record /\ (Head(events).type = "persisted" => Head(events).msg \in Messages)
        BY <1>7, HeadIsTrue
    <2> QED BY <2>1, <2>2, AppliedRows DEF WindowTypes, PageTypes
<1> QED BY <1>1, <1>3, <1>4, <1>5, <1>6, <1>7, RowsStep DEF RowsMove

\* A position once found to cover a guessed number stays so found.
LEMMA CollidedStays ==
    ASSUME WindowNext, collided
    PROVE  collided'
<1>1. ASSUME NEW l \in loads, LoadMessages(l) PROVE collided'
    BY <1>1 DEF LoadMessages
<1>2. ASSUME NEW k \in Mine, SendMessage(k) \/ RetryMessage(k) \/ Sent(k) \/ SendFails(k) PROVE collided'
    BY <1>2 DEF SendMessage, RetryMessage, Sent, SendFails
<1>3. ASSUME ApplyIncomingEvent PROVE collided'
    BY <1>3 DEF ApplyIncomingEvent
<1> QED BY <1>1, <1>2, <1>3, RowsStep DEF RowsMove

\* What NumberedTold and WindowTold say of one row.
Placed(c, r) == \E i \in DOMAIN log[c] : log[c][i] = r.msg

RowTold(c, r) ==
    /\ r.id = "stored" =>
          \E i \in DOMAIN log[c] : log[c][i] = r.msg /\ (Final(r.msg) => r.seq = i /\ RecallTold(c, r, i))
    /\ Placed(c, r) \/ Underway(r)

\* A row that keeps its number and its recall is as true as it was.
LEMMA RowStaysTold ==
    ASSUME WindowTypes, LogTrue, RecordsTrue, ServiceMove, NEW c \in Convs, NEW r, NEW q, RowTold(c, r),
           SameRow(q, r), q.recalled = r.recalled, Final(r.msg)' => Final(r.msg),
           Underway(r) => Underway(q)' \/ Placed(c, r),
           ~(/\ Takes /\ Head(events).type = "recalled" /\ Head(events).conv = c
             /\ Head(events).msg = r.msg /\ r.id = "stored")
    PROVE  RowTold(c, q)'
<1>0. ServiceTypes
    BY DEF WindowTypes
<1>1. \A i \in DOMAIN log[c] : i \in DOMAIN log'[c] /\ log'[c][i] = log[c][i]
    BY <1>0, LogGrows
<1>2. Placed(c, r) => Placed(c, q)'
    BY <1>1 DEF Placed, SameRow
<1>3. ASSUME q.id = "stored"
      PROVE  \E i \in DOMAIN log'[c] :
                log'[c][i] = q.msg /\ (Final(q.msg)' => q.seq = i /\ RecallTold(c, q, i)')
    <2>1. r.id = "stored"
        BY <1>3 DEF SameRow
    <2>2. PICK i \in DOMAIN log[c] : log[c][i] = r.msg /\ (Final(r.msg) => r.seq = i /\ RecallTold(c, r, i))
        BY <2>1 DEF RowTold
    <2>3. ASSUME Final(r.msg)' PROVE q.seq = i /\ RecallTold(c, q, i)'
        <3>1. r.seq = i /\ RecallTold(c, r, i)
            BY <2>2, <2>3
        <3>2. Takes /\ Head(events).type = "recalled" /\ Head(events).conv = c => Head(events).seq # i
            BY <2>1, <2>2, HeadIsTrue DEF Takes
        <3>3. RecallTold(c, r, i)'
            BY <1>0, <2>2, <3>1, <3>2, RecallStays
        <3> QED BY <3>1, <3>3 DEF SameRow, RecallTold
    <2> QED BY <1>1, <2>2, <2>3 DEF SameRow
<1> QED BY <1>2, <1>3 DEF RowTold

\* A row of a page that is not old is told when the page is set.
LEMMA LoadedRows ==
    ASSUME WindowTypes, PagesTrue, LoadsTold, NEW c \in Convs, c = cur, NEW l \in loads, LoadMessages(l), ~torn'
    PROVE  Covers(c, rows)' /\ \A q \in rows' : RowTold(c, q)'
<1>1. /\ l.paged /\ l.conv = c /\ ~l.stale /\ rows' = l.rows
      /\ UNCHANGED <<log, recalled, events>>
    BY DEF LoadMessages, Show, service
<1>2. Covers(c, l.rows) /\ \A r \in l.rows : RecallTold(c, r, r.seq)
    BY <1>1 DEF LoadsTold
<1>3. Covers(c, rows)'
    BY <1>1, <1>2 DEF Covers, Comes
<1>4. ASSUME NEW q \in l.rows PROVE RowTold(c, q)'
    <2>1. q.seq \in DOMAIN log[c] /\ log[c][q.seq] = q.msg
        BY <1>1 DEF PagesTrue
    <2>2. RecallTold(c, q, q.seq)'
        BY <1>1, <1>2 DEF RecallTold, Comes
    <2> QED BY <1>1, <2>1, <2>2 DEF RowTold, Placed
<1> QED BY <1>1, <1>3, <1>4

\* A row that a record of the window's conversation leaves is told.
LEMMA AppliedRowsTold ==
    ASSUME WindowTypes, LogTrue, RecordsTrue, RecordsOrdered, WindowNext, NEW c \in Convs, c = cur,
           \A r \in rows : RowTold(c, r), ApplyIncomingEvent, Head(events).conv = c
    PROVE  \A q \in rows' : RowTold(c, q)'
<1> DEFINE e == Head(events)
<1>0. ServiceMove /\ ServiceTypes
    BY StepMoves DEF WindowTypes
<1>1. /\ e \in Record /\ e.conv = c /\ events # <<>> /\ events' = Tail(events)
      /\ 1 \in DOMAIN events /\ events[1] = e /\ events \in Seq(Record)
      /\ e.type # "members" => e.seq \in DOMAIN log[c] /\ log[c][e.seq] = e.msg /\ e.msg \in Messages
    BY <1>0, HeadIsTrue DEF ServiceTypes
<1>2. /\ rows' = Applied(e) /\ sending' = sending /\ UNCHANGED <<log, recalled>>
      /\ collided' = (collided \/ (e.type = "read" /\ \E r \in Covered(e) : r.id = "local"))
    BY DEF ApplyIncomingEvent, Show, service
<1> HIDE DEF e
<1>3. \A q \in Applied(e) :
         \/ \E r \in rows : Touched(e, q, r)
         \/ e.type = "persisted" /\ q = Carried(e)
    <2>1. RowList(rows) /\ (e.type = "persisted" => e.msg \in Messages)
        BY <1>1 DEF WindowTypes, PageTypes
    <2> QED BY <1>1, <2>1, AppliedRows
<1>4. ASSUME e.type = "persisted", NEW q, q = Carried(e) PROVE RowTold(c, q)'
    <2>1. PICK n : n = e.seq
        OBVIOUS
    <2>2. q.msg = e.msg /\ q.seq = n /\ q.recalled = FALSE
        BY <1>4, <2>1 DEF Carried
    <2>3. ASSUME e.msg \in recalled PROVE Comes("recalled", c, n)'
        <3>1. PICK o \in DOMAIN events : 1 < o /\ events[o].type = "recalled" /\ events[o].conv = c
                                         /\ events[o].seq = n
            BY <1>1, <1>4, <2>1, <2>3 DEF RecordsOrdered
        <3>2. o - 1 \in DOMAIN Tail(events) /\ Tail(events)[o - 1] = events[o]
            BY <1>1, <3>1, QueueMoves
        <3> QED BY <1>1, <3>1, <3>2 DEF Comes
    <2>4. RecallTold(c, q, n)'
        <3>1. CASE e.msg \in recalled
            <4>1. Comes("recalled", c, n)'
                BY <2>3, <3>1
            <4> QED BY <4>1 DEF RecallTold
        <3>2. CASE e.msg \notin recalled
            <4>1. q.recalled = FALSE /\ q.msg \notin recalled'
                BY <1>2, <2>2, <3>2
            <4>2. (q.msg \in recalled') = FALSE
                BY <4>1
            <4>3. q.recalled = (q.msg \in recalled')
                BY <4>1, <4>2
            <4> QED BY <4>3 DEF RecallTold
        <3> QED BY <3>1, <3>2
    <2>5. n \in DOMAIN log'[c] /\ log'[c][n] = q.msg
        BY <1>1, <1>2, <1>4, <2>1, <2>2
    <2> QED BY <2>2, <2>4, <2>5 DEF RowTold, Placed
<1>5. ASSUME NEW r \in rows, NEW q, Touched(e, q, r) PROVE RowTold(c, q)'
    <2>1. SameRow(q, r) /\ RowTold(c, r) /\ (q.status = r.status \/ Retold(e, r))
        BY <1>5 DEF Touched
    <2>2. Final(r.msg)' => Final(r.msg)
        BY <1>2 DEF Final
    <2>3. e.type # "members" /\ e.msg = r.msg => Placed(c, r)
        BY <1>1 DEF Placed
    <2>4. ASSUME Underway(r) PROVE Underway(q)' \/ Placed(c, r)
        <3>1. CASE q.status = r.status
            BY <1>2, <2>1, <2>4, <3>1 DEF Underway, SameRow
        <3>2. CASE e.type = "read" /\ r \in Covered(e)
            <4>1. CASE r.id = "stored"
                BY <2>1, <4>1 DEF RowTold, Placed
            <4>2. CASE r.id # "stored"
                <5>1. r.id = "local"
                    BY <4>2 DEF WindowTypes, PageTypes, RowList, WindowRow
                <5>2. collided'
                    BY <1>2, <3>2, <5>1
                <5> QED BY <1>2, <2>1, <2>4, <5>2 DEF Underway, SameRow
            <4> QED BY <4>1, <4>2
        <3> QED BY <2>1, <2>3, <3>1, <3>2 DEF Retold
    <2>5. CASE RecalledBy(e, r)
        <3>1. q.recalled /\ e.msg \in recalled /\ e.msg = r.msg /\ q.recalled \in BOOLEAN
            BY <1>1, <1>5, <2>5 DEF Touched, RecalledBy, RecordsTrue, WindowRow
        <3>2. \A i \in DOMAIN log[c] : RecallTold(c, q, i)'
            BY <1>2, <2>1, <3>1 DEF RecallTold, SameRow
        <3> QED BY <1>2, <2>1, <2>2, <2>4, <2>5, <3>2 DEF RowTold, Placed, SameRow
    <2>6. CASE ~RecalledBy(e, r)
        <3>1. q.recalled = r.recalled
            BY <1>5, <2>6 DEF Touched
        <3>2. ~(/\ Takes /\ Head(events).type = "recalled" /\ Head(events).conv = c
                /\ Head(events).msg = r.msg /\ r.id = "stored")
            BY <2>6 DEF RecalledBy, e
        <3> QED BY <1>0, <2>1, <2>2, <2>4, <3>1, <3>2, RowStaysTold
    <2> QED BY <2>5, <2>6
<1> QED BY <1>2, <1>3, <1>4, <1>5

\* A row that a send leaves is told.
LEMMA SentRowsTold ==
    ASSUME WindowTypes, LogTrue, RecordsTrue, WindowNext, NEW c \in Convs, c = cur, ~torn',
           \A r \in rows : RowTold(c, r), NEW k \in Mine,
           SendMessage(k) \/ RetryMessage(k) \/ Sent(k) \/ SendFails(k)
    PROVE  \A q \in rows' : RowTold(c, q)'
<1>0. ServiceMove /\ ServiceTypes /\ sending \in [Mine -> SendCall] /\ RowList(rows)
    BY StepMoves DEF WindowTypes, PageTypes
<1>1. /\ UNCHANGED <<log, recalled, events>> /\ (collided => collided')
      /\ \A m \in Mine : m # k => sending'[m] = sending[m]
      /\ k \notin Theirs
    BY <1>0, CollidedStays, MessagesAreApart DEF SendMessage, RetryMessage, Sent, SendFails, service
<1>2. ~Takes
    <2>1. events \in Seq(Record)
        BY <1>0 DEF ServiceTypes
    <2>2. events # <<>> => Len(Tail(events)) # Len(events)
        BY <2>1
    <2> QED BY <1>1, <2>2 DEF Takes
<1>3. ASSUME NEW r \in rows, r.msg # k PROVE RowTold(c, r)'
    <2>1. r.msg \in Messages
        BY <1>0 DEF RowList, WindowRow
    <2>2. Final(r.msg)' => Final(r.msg)
        BY <1>1, <1>3, <2>1 DEF Final, Messages
    <2>3. Underway(r) => Underway(r)'
        BY <1>1, <1>3 DEF Underway
    <2> QED BY <1>0, <1>2, <2>2, <2>3, RowStaysTold DEF SameRow
<1>4. ASSUME NEW next, rows' = ReplaceMessage(rows, next), next.msg = k, RowTold(c, next)'
      PROVE  \A q \in rows' : RowTold(c, q)'
    BY <1>3, <1>4 DEF ReplaceMessage
<1>5. CASE SendMessage(k)
    <2>1. PICK next \in WindowRow : /\ rows' = ReplaceMessage(rows, next) /\ next.msg = k /\ next.id = "local"
        BY <1>5, SendRows
    <2>2. sending'[k].pc = "asked"
        BY <1>0, <1>5 DEF SendMessage
    <2> QED BY <1>4, <2>1, <2>2 DEF RowTold, Underway
<1>6. CASE RetryMessage(k)
    <2>1. PICK next \in WindowRow, a \in rows : /\ rows' = ReplaceMessage(rows, next) /\ next.msg = k
                                                /\ a.msg = k /\ next.id = a.id
        BY <1>6, SendRows
    <2>2. sending'[k].pc = "asked"
        BY <1>0, <1>6 DEF RetryMessage
    <2>3. ~Final(k)'
        BY <1>1, <2>2 DEF Final
    <2>4. next.id = "stored" => \E i \in DOMAIN log[c] : log[c][i] = k
        BY <2>1 DEF RowTold
    <2> QED BY <1>1, <1>4, <2>1, <2>2, <2>3, <2>4 DEF RowTold, Underway
<1>7. CASE Sent(k)
    <2>1. PICK next \in WindowRow, d \in Convs :
             /\ rows' = ReplaceMessage(rows, next) /\ next.msg = k /\ Stored(d, k)
             /\ next.seq = Number(d, k) /\ next.recalled = (k \in recalled) /\ (d # cur => torn')
        BY <1>7, SendRows
    <2>2. d = c /\ Number(d, k) \in DOMAIN log[d] /\ log[d][Number(d, k)] = k
        BY <2>1, NumberIsPlace
    <2>3. next.seq \in DOMAIN log'[c] /\ log'[c][next.seq] = next.msg
        BY <1>1, <2>1, <2>2
    <2>4. RecallTold(c, next, next.seq)'
        BY <1>1, <2>1 DEF RecallTold
    <2>5. RowTold(c, next)'
        BY <2>3, <2>4 DEF RowTold, Placed
    <2> QED BY <1>4, <2>1, <2>5
<1>8. CASE SendFails(k)
    <2>1. \A q \in rows' : \E r \in rows : IF r.msg = k THEN q = [r EXCEPT !.status = "failed"] ELSE q = r
        BY <1>0, <1>8, FailedRows
    <2>2. ASSUME NEW r \in rows, r.msg = k, NEW q, q = [r EXCEPT !.status = "failed"] PROVE RowTold(c, q)'
        <3>1. SameRow(q, r) /\ q.recalled = r.recalled /\ q.status = "failed"
            BY <1>0, <2>2 DEF RowList, WindowRow, SameRow
        <3>2. sending'[k].pc = "failed"
            BY <1>0, <1>8 DEF SendFails
        <3>3. ~Final(r.msg)' /\ Underway(q)'
            BY <1>1, <2>2, <3>1, <3>2 DEF Final, Underway, SameRow
        <3> QED BY <1>0, <1>2, <3>1, <3>3, RowStaysTold
    <2> QED BY <1>3, <2>1, <2>2
<1> QED BY <1>5, <1>6, <1>7, <1>8

\* Rows that a step leaves alone stay told.
LEMMA KeptRowsTold ==
    ASSUME WindowTypes, LogTrue, RecordsTrue, WindowNext, NEW c \in Convs, c = cur,
           \A r \in rows : RowTold(c, r), rows' = rows, collided' = collided,
           \A k \in Mine : ~(SendMessage(k) \/ RetryMessage(k) \/ Sent(k) \/ SendFails(k)),
           ~(ApplyIncomingEvent /\ Head(events).conv = cur)
    PROVE  \A q \in rows' : RowTold(c, q)'
<1>0. ServiceMove /\ RowList(rows) /\ sending \in [Mine -> SendCall]
    BY StepMoves DEF WindowTypes, PageTypes
<1>1. ASSUME NEW k \in Mine
      PROVE  sending'[k] = sending[k] \/ (sending[k].pc = "asked" /\ sending'[k].pc = "answer")
    <2>1. SendMove(k)
        BY SendingStep
    <2>2. sending[k] \in SendCall
        BY <1>0
    <2> QED BY <2>1, <2>2 DEF SendMove, SendCall
<1>2. ASSUME NEW r \in rows PROVE RowTold(c, r)'
    <2>1. r.msg \in Mine \cup Theirs
        BY <1>0 DEF RowList, WindowRow, Messages
    <2>2. Final(r.msg)' => Final(r.msg)
        BY <1>1, <2>1 DEF Final
    <2>3. Underway(r) => Underway(r)'
        BY <1>1 DEF Underway
    <2> QED BY <1>0, <2>2, <2>3, RowStaysTold DEF SameRow, Takes
<1> QED BY <1>2

\* The window stays what it owes: the conversation, but for what comes.
LEMMA WindowToldStep ==
    ASSUME WindowTypes, LogTrue, RecordsTrue, RecordsOrdered, PagesTrue, ShownTrue, LoadsTold, WindowTold,
           WindowNext
    PROVE  WindowTold'
<1> SUFFICES ASSUME Fresh'
             PROVE  /\ Covers(cur, rows)'
                    /\ NumberedTold'
                    /\ \A r \in rows' : (\E i \in DOMAIN log'[cur'] : log'[cur'][i] = r.msg) \/ Underway(r)'
                    /\ MembersTold(cur, members, reloads)'
                    /\ \A b \in reloads' : b.conv = cur' /\ b.members # None /\ ~b.stale =>
                          MembersTold(cur, b.members, OthersThan(b))'
    BY DEF WindowTold
<1>1. /\ cur' = cur /\ cur \in Convs /\ ~torn'
      /\ Fresh \/ \E l \in loads : LoadMessages(l) /\ l.conv = cur /\ ~l.stale
    BY FreshStep DEF Fresh
<1>2. PICK c \in Convs : c = cur /\ c = cur'
    BY <1>1
<1>3. ServiceMove /\ ServiceTypes
    BY StepMoves DEF WindowTypes
<1>4. MembersTold(cur, members, reloads)'
    BY <1>1, MembersToldStep
<1>5. ASSUME NEW b \in reloads', b.conv = cur', b.members # None, ~b.stale
      PROVE  MembersTold(cur, b.members, OthersThan(b))'
    BY <1>1, <1>5, ReloadsToldStep
<1>6. Covers(c, rows)' /\ \A q \in rows' : RowTold(c, q)'
    <2>1. ASSUME NEW l \in loads, LoadMessages(l) PROVE Covers(c, rows)' /\ \A q \in rows' : RowTold(c, q)'
        BY <1>1, <1>2, <2>1, LoadedRows
    <2>2. ASSUME Fresh, \A l \in loads : ~LoadMessages(l)
          PROVE  Covers(c, rows)' /\ \A q \in rows' : RowTold(c, q)'
        <3>1. Covers(c, rows) /\ \A r \in rows : RowTold(c, r)
            BY <1>2, <2>2 DEF WindowTold, NumberedTold, RowTold, Placed
        <3>2. \A r \in rows : r.id = "stored" => \E q \in rows' : q.msg = r.msg /\ q.id = "stored"
            BY <2>2, StoredRowsStay
        <3>3. ASSUME Takes, Head(events).type = "persisted", Head(events).conv = c
              PROVE  \E q \in rows' : q.msg = log[c][Head(events).seq] /\ q.id = "stored"
            <4>1. /\ Head(events) \in Record /\ Head(events).msg \in Messages
                  /\ log[c][Head(events).seq] = Head(events).msg
                BY <3>3, HeadIsTrue DEF Takes
            <4>2. rows' = Applied(Head(events))
                BY <1>2, <3>3 DEF Takes, ApplyIncomingEvent, Show
            <4> QED BY <3>3, <4>1, <4>2, AppliedRows DEF WindowTypes, PageTypes
        <3>4. PICK rs, rs2 : rs = rows /\ rs2 = rows'
            OBVIOUS
        <3>5. Covers(c, rs2)'
            BY <1>3, <3>1, <3>2, <3>3, <3>4, CoversStays
        <3>6. Covers(c, rows)'
            BY <3>4, <3>5 DEF Covers
        <3>7. \A q \in rows' : RowTold(c, q)'
            <4>1. CASE ApplyIncomingEvent /\ Head(events).conv = cur
                BY <1>2, <3>1, <4>1, AppliedRowsTold
            <4>2. ASSUME NEW k \in Mine, SendMessage(k) \/ RetryMessage(k) \/ Sent(k) \/ SendFails(k)
                  PROVE  \A q \in rows' : RowTold(c, q)'
                BY <1>1, <1>2, <3>1, <4>2, SentRowsTold
            <4>3. CASE /\ rows' = rows /\ collided' = collided
                       /\ \A k \in Mine : ~(SendMessage(k) \/ RetryMessage(k) \/ Sent(k) \/ SendFails(k))
                       /\ ~(ApplyIncomingEvent /\ Head(events).conv = cur)
                BY <1>2, <3>1, <4>3, KeptRowsTold
            <4> QED BY <2>2, <4>1, <4>2, <4>3, RowsStep DEF RowsMove
        <3> QED BY <3>6, <3>7
    <2> QED BY <1>1, <2>1, <2>2
<1>7. Covers(cur, rows)'
    BY <1>2, <1>6 DEF Covers, Comes
<1>8. NumberedTold' /\ \A r \in rows' : (\E i \in DOMAIN log'[cur'] : log'[cur'][i] = r.msg) \/ Underway(r)'
    BY <1>2, <1>6 DEF NumberedTold, RowTold, Placed, RecallTold, Comes
<1> QED BY <1>4, <1>5, <1>7, <1>8

-----------------------------------------------------------------------------
(***************************************************************************)
(* The invariant of the window, and the theorems.                          *)
(***************************************************************************)
WindowInv ==
    /\ WindowTypes /\ LogTrue /\ RecordsTrue /\ RecordsOrdered /\ PagesTrue
    /\ ShownTrue /\ MarkedTrue /\ LoadsTold /\ WindowTold

\* The invariant holds at the start, is kept, and so holds always.
LEMMA WindowStarts == WindowInit => WindowInv
<1> SUFFICES ASSUME WindowInit PROVE WindowInv
    OBVIOUS
<1>1. WindowTypes
    BY InitTypes
<1>2. /\ events = <<>> /\ DOMAIN events = {} /\ rows = {} /\ loads = {} /\ marks = {} /\ recalled = {}
      /\ cur = None /\ myRead = [c \in Convs |-> 0] /\ \A k \in Mine : sending[k] = NotSent
      /\ \A c \in Convs : log[c] = <<>>
    BY DEF WindowInit
<1>3. \A c \in Convs : DOMAIN log[c] = {} /\ Len(log[c]) = 0 /\ myRead[c] = 0
    BY <1>2
<1>4. LogTrue
    BY <1>2, <1>3 DEF LogTrue, Stored, NotSent
<1>5. RecordsTrue /\ RecordsOrdered
    BY <1>2 DEF RecordsTrue, RecordsOrdered
<1>6. PagesTrue /\ LoadsTold
    BY <1>2 DEF PagesTrue, LoadsTold
<1>7. ShownTrue
    BY <1>2 DEF ShownTrue, ShownSentIsStored
<1>8. MarkedTrue
    BY <1>2, <1>3 DEF MarkedTrue
<1>9. WindowTold
    BY <1>2 DEF WindowTold, Fresh
<1> QED BY <1>1, <1>4, <1>5, <1>6, <1>7, <1>8, <1>9 DEF WindowInv

LEMMA WindowStays == WindowInv /\ [WindowNext]_windowVars => WindowInv'
<1> SUFFICES ASSUME WindowInv, [WindowNext]_windowVars PROVE WindowInv'
    OBVIOUS
<1>1. CASE WindowNext
    <2>1. /\ WindowTypes /\ LogTrue /\ RecordsTrue /\ RecordsOrdered /\ PagesTrue
          /\ ShownTrue /\ MarkedTrue /\ LoadsTold /\ WindowTold
        BY DEF WindowInv
    <2>2. WindowTypes' /\ LogTrue' /\ RecordsTrue' /\ RecordsOrdered' /\ PagesTrue'
        BY <1>1, <2>1, TypesStep, LogStep, RecordsStep, OrderStep, PagesStep
    <2>3. ShownTrue' /\ MarkedTrue'
        BY <1>1, <2>1, ShownStep, MarkedStep
    <2>4. LoadsTold' /\ WindowTold'
        BY <1>1, <2>1, LoadsToldStep, WindowToldStep
    <2> QED BY <2>2, <2>3, <2>4 DEF WindowInv
<1>2. CASE UNCHANGED windowVars
    <2>0. /\ UNCHANGED <<log, delivered, recalled, myRead, theirRead, third>>
          /\ UNCHANGED <<events, cur, rows, members, loads, calls, reloads, sending, marks>>
          /\ UNCHANGED <<torn, collided, seen>>
        BY <1>2 DEF windowVars, service, window, group, history
    <2>1. WindowTypes'
        BY <2>0 DEF WindowInv, WindowTypes, ServiceTypes, PageTypes, CallTypes
    <2>2. LogTrue'
        BY <2>0 DEF WindowInv, LogTrue, Stored
    <2>3. RecordsTrue' /\ PagesTrue'
        BY <2>0 DEF WindowInv, RecordsTrue, PagesTrue
    <2>4. RecordsOrdered'
        BY <2>0 DEF WindowInv, RecordsOrdered
    <2>5. ShownTrue'
        BY <2>0 DEF WindowInv, ShownTrue, ShownSentIsStored, Stored
    <2>6. MarkedTrue'
        BY <2>0 DEF WindowInv, MarkedTrue, Comes
    <2>7. LoadsTold'
        BY <2>0 DEF WindowInv, LoadsTold, Covers, RecallTold, MembersTold, Comes, ReadComes, MembersCome
    <2>8. Fresh' = Fresh /\ NumberedTold' = NumberedTold /\ Covers(cur, rows)' = Covers(cur, rows)
        BY <2>0 DEF Fresh, NumberedTold, Final, RecallTold, Covers, Comes
    <2>9. WindowTold'
        BY <2>0, <2>8 DEF WindowInv, WindowTold, Underway, OthersThan, MembersTold, ReadComes, MembersCome
    <2> QED BY <2>1, <2>2, <2>3, <2>4, <2>5, <2>6, <2>7, <2>9 DEF WindowInv
<1> QED BY <1>1, <1>2

LEMMA WindowHolds == WindowSpec => []WindowInv
BY WindowStarts, WindowStays, PTL DEF WindowSpec

\* Whatever the loads, sends, retries and records of a session, and in whatever order
\* they are answered, the window has one row for a message (replaceMessage).
THEOREM WindowHasOneRowEach == WindowSpec => []OneRowPerMessage
<1>1. WindowInv => OneRowPerMessage
    BY DEF WindowInv, WindowTypes, PageTypes, RowList, WindowRow, OneRowPerMessage
<1> QED BY <1>1, WindowHolds, PTL

\* A row shown as sent, delivered or read is of a message the service has, until a read
\* position covers the guessed number of a row under way (applyIncomingEvent).
THEOREM SentIsStored == WindowSpec => []ShownSentIsStored
<1>1. WindowInv => ShownSentIsStored
    BY DEF WindowInv, ShownTrue
<1> QED BY <1>1, WindowHolds, PTL

\* In the loaded window nothing of the other user is marked as read that was never
\* shown (markAsRead, as loadMessages and applyIncomingEvent call it).
THEOREM OnlyShownIsMarked == WindowSpec => []MarkedWasShown
<1>1. WindowInv => MarkedWasShown
    <2> SUFFICES ASSUME WindowInv, NEW c \in Convs, c = cur, ~torn, \A l \in loads : l.conv # c,
                        NEW i \in DOMAIN log[c], i <= myRead[c], log[c][i] \in Theirs
                 PROVE  log[c][i] \in seen
        BY DEF MarkedWasShown
    <2>1. Fresh
        BY NoneIsApart DEF Fresh
    <2>2. Comes("persisted", c, i) \/ \E r \in rows : r.msg = log[c][i]
        BY <2>1 DEF WindowInv, WindowTold, Covers
    <2>3. log[c][i] \in seen \/ ~Comes("persisted", c, i)
        BY DEF WindowInv, MarkedTrue
    <2>4. \A r \in rows : r.msg \in seen
        BY DEF WindowInv, MarkedTrue
    <2> QED BY <2>2, <2>3, <2>4
<1> QED BY <1>1, WindowHolds, PTL

\* With nothing under way the window is the conversation: its messages at their places
\* and recalled where they are, its members, and beside them only sends that failed.
THEOREM WindowIsConversation == WindowSpec => []WindowConverges
<1>1. WindowInv => WindowConverges
    <2> SUFFICES ASSUME WindowInv, AtRest, ~torn, cur # None
                 PROVE  /\ members = Members(cur)
                        /\ \A i \in DOMAIN log[cur] :
                              \E r \in rows :
                                 /\ r.msg = log[cur][i] /\ r.id = "stored"
                                 /\ \/ r.seq = i /\ r.recalled = (r.msg \in recalled)
                                    \/ r.msg \in Mine /\ sending[r.msg].pc = "failed"
                        /\ \A r \in rows :
                              \/ r.msg \in {log[cur][i] : i \in DOMAIN log[cur]}
                              \/ sending[r.msg].pc = "failed" /\ (r.status = "failed" \/ collided)
        BY DEF WindowConverges
    <2>1. Fresh /\ cur \in Convs
        BY DEF Fresh, AtRest, WindowInv, WindowTypes, PageTypes
    <2>2. DOMAIN events = {} /\ reloads = {}
        BY DEF AtRest
    <2>3. /\ Covers(cur, rows) /\ NumberedTold /\ MembersTold(cur, members, reloads)
          /\ \A r \in rows : (\E i \in DOMAIN log[cur] : log[cur][i] = r.msg) \/ Underway(r)
        BY <2>1 DEF WindowInv, WindowTold
    <2>4. members = Members(cur)
        <3>1. members.read = theirRead[cur] /\ members.third = (cur \in third)
            BY <2>2, <2>3 DEF MembersTold, ReadComes, MembersCome
        <3>2. members \in MemberList
            BY DEF WindowInv, WindowTypes, PageTypes
        <3> QED BY <3>1, <3>2 DEF MemberList, Members
    <2>5. ASSUME NEW i \in DOMAIN log[cur]
          PROVE  \E r \in rows :
                    /\ r.msg = log[cur][i] /\ r.id = "stored"
                    /\ \/ r.seq = i /\ r.recalled = (r.msg \in recalled)
                       \/ r.msg \in Mine /\ sending[r.msg].pc = "failed"
        <3>1. PICK r \in rows : r.msg = log[cur][i] /\ r.id = "stored"
            BY <2>2, <2>3 DEF Covers, Comes
        <3>2. Final(r.msg) => r.seq = i /\ r.recalled = (r.msg \in recalled)
            BY <2>1, <2>2, <2>3, <3>1 DEF NumberedTold, RecallTold, Comes, WindowInv, LogTrue
        <3>3. ~Final(r.msg) => r.msg \in Mine /\ sending[r.msg].pc = "failed"
            <4>1. r.msg \in Mine \cup Theirs
                BY DEF WindowInv, WindowTypes, PageTypes, RowList, WindowRow, Messages
            <4>2. Stored(cur, r.msg)
                BY <3>1 DEF Stored
            <4>3. r.msg \in Mine => sending[r.msg].pc # "none"
                BY <2>1, <4>2 DEF WindowInv, LogTrue
            <4> QED BY <4>1, <4>3 DEF Final, AtRest
        <3> QED BY <3>1, <3>2, <3>3
    <2>6. ASSUME NEW r \in rows
          PROVE  \/ r.msg \in {log[cur][i] : i \in DOMAIN log[cur]}
                 \/ sending[r.msg].pc = "failed" /\ (r.status = "failed" \/ collided)
        BY <2>3 DEF Underway, AtRest
    <2> QED BY <2>4, <2>5, <2>6
<1> QED BY <1>1, WindowHolds, PTL

=============================================================================
