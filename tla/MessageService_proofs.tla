------------------------ MODULE MessageService_proofs ------------------------
(***************************************************************************)
(* Proofs about MessageService, for any users, conversations, keys,        *)
(* handlers and environment.                                               *)
(*                                                                         *)
(* TypeOK alone is not inductive: that the row a handler inserts is a      *)
(* Message rests on what the handler's record holds at each label, which   *)
(* WellFormed says.                                                        *)
(***************************************************************************)
EXTENDS MessageService, SequenceTheorems, TLAPS

\* The labels at which a request still uses the key it came with, and at which it
\* holds a row of messages.
HoldsKey == {"lock", "lookup", "insert"}
HoldsRow == {"delivery", "summary", "members", "accepted", "fanout", "append", "recall"}

\* What a handler's record holds at its label.
WellFormed(p) ==
    /\ p.pc # "idle" => p.user \in Users /\ p.conv \in Convs
    /\ p.pc \in HoldsKey => p.key \in Keys
    /\ p.pc \in HoldsRow => p.row \in Message
    /\ p.pc = "append" => p.to \in Users

HandlersTyped == /\ proc \in [Handlers -> Handler]
                 /\ \A h \in Handlers : WellFormed(proc[h])

TypeInv == TypeOK /\ HandlersTyped

-----------------------------------------------------------------------------
\* The record of a handler that does nothing.
LEMMA IdleType == Idle \in Handler /\ WellFormed(Idle)
  BY DEF Idle, Handler, PC, WellFormed, HoldsKey, HoldsRow

\* Appending a sync event to the streams of some users keeps the streams typed.
LEMMA EmitType ==
  ASSUME stream \in [Users -> Seq(SyncEvent)], NEW us, NEW e \in SyncEvent, Emit(us, e)
  PROVE  stream' \in [Users -> Seq(SyncEvent)]
  BY DEF Emit

\* The record of a handler is one, and is well-formed at its label.
LEMMA HandlerIsTyped ==
  ASSUME TypeInv, NEW h \in Handlers
  PROVE  proc[h] \in Handler /\ WellFormed(proc[h])
  BY DEF TypeInv, HandlersTyped

\* What is read of a conversation has its type.
LEMMA ConvIsTyped ==
  ASSUME TypeInv, NEW c \in Convs
  PROVE  lastSeq[c] \in Nat /\ members[c] \in SUBSET Users
  BY DEF TypeInv, TypeOK

\* One handler moves to a well-formed record: all of them stay well-formed.
LEMMA MoveType ==
  ASSUME TypeInv, NEW h \in Handlers, NEW p \in Handler, WellFormed(p),
         proc' = [proc EXCEPT ![h] = p]
  PROVE  HandlersTyped'
  BY DEF HandlersTyped, TypeInv, TypeOK, WellFormed

\* A handler that returns is idle and the others are as they were.
LEMMA ReturnType ==
  ASSUME TypeInv, NEW h \in Handlers, Return(h)
  PROVE  HandlersTyped'
  BY IdleType, MoveType DEF Return

\* The initial state is typed.
LEMMA InitType == Init => TypeInv
  <1> SUFFICES ASSUME Init PROVE TypeInv
    OBVIOUS
  <1>1. HandlersTyped
    BY IdleType DEF Init, HandlersTyped
  <1>2. TypeOK
    BY <1>1 DEF Init, TypeOK, HandlersTyped
  <1> QED
    BY <1>1, <1>2 DEF TypeInv

\* Every step of a handler, and of what runs beside it, keeps the state typed.
LEMMA NextType == TypeInv /\ [Next]_vars => TypeInv'
  <1> SUFFICES ASSUME TypeInv, [Next]_vars PROVE TypeInv'
    OBVIOUS
  <1> USE DEF vars, dbVars, envVars
  <1>1. ASSUME NEW h \in Handlers, NEW u \in Users, NEW c \in Convs, NEW k \in Keys,
               SendMessage(h, u, c, k)
        PROVE  TypeInv'
    <2> DEFINE p == [Idle EXCEPT !.pc = "lock", !.user = u, !.conv = c, !.key = k]
    <2>1. p \in Handler /\ WellFormed(p)
      BY DEF Idle, Handler, PC, WellFormed, HoldsKey, HoldsRow
    <2>2. proc' = [proc EXCEPT ![h] = p]
      BY <1>1 DEF SendMessage
    <2> HIDE DEF p
    <2>3. HandlersTyped'
      BY <2>1, <2>2, MoveType
    <2> QED
      BY <1>1, <2>3 DEF HandlersTyped, SendMessage, Admit, TypeInv, TypeOK
  <1>2. ASSUME NEW h \in Handlers, LockConversation(h) PROVE TypeInv'
    <2> DEFINE p == [proc[h] EXCEPT !.pc = "lookup", !.seq = lastSeq[proc[h].conv]]
    <2>1. p \in Handler /\ WellFormed(p)
      <3>1. /\ proc[h] \in Handler /\ WellFormed(proc[h])
            /\ proc[h].pc = "lock"
        BY <1>2, HandlerIsTyped DEF LockConversation, At
      <3>4. lastSeq[proc[h].conv] \in Nat
        BY <3>1, ConvIsTyped DEF WellFormed
      <3>2. p \in Handler
        BY <3>1, <3>4 DEF Handler, PC
      <3>3. WellFormed(p)
        BY <3>1 DEF Handler, WellFormed, HoldsKey, HoldsRow
      <3> QED
        BY <3>2, <3>3
    <2>2. proc' = [proc EXCEPT ![h] = p]
      BY <1>2 DEF LockConversation, TypeInv, TypeOK
    <2> HIDE DEF p
    <2>3. HandlersTyped'
      BY <2>1, <2>2, MoveType
    <2> QED
      BY <1>2, <2>3 DEF HandlersTyped, LockConversation, TypeInv, TypeOK
  <1>3. ASSUME NEW h \in Handlers, FindExisting(h) PROVE TypeInv'
    <2>1. PICK m \in SameKey(proc[h].user, proc[h].key) :
              proc' = [proc EXCEPT ![h].pc = "delivery", ![h].row = m, ![h].created = FALSE]
      BY <1>3 DEF FindExisting
    <2> DEFINE p == [proc[h] EXCEPT !.pc = "delivery", !.row = m, !.created = FALSE]
    <2>2. m \in Message
      BY DEF SameKey, TypeInv, TypeOK
    <2>3. p \in Handler /\ WellFormed(p)
      <3>1. /\ proc[h] \in Handler /\ WellFormed(proc[h])
            /\ proc[h].pc = "lookup"
        BY <1>3, HandlerIsTyped DEF FindExisting, At
      <3>2. p \in Handler
        BY <3>1, <2>2 DEF Handler, PC
      <3>3. WellFormed(p)
        BY <3>1, <2>2 DEF Handler, WellFormed, HoldsKey, HoldsRow
      <3> QED
        BY <3>2, <3>3
    <2>4. proc' = [proc EXCEPT ![h] = p]
      BY <2>1 DEF TypeInv, TypeOK
    <2> HIDE DEF p
    <2>5. HandlersTyped'
      BY <2>3, <2>4, MoveType
    <2> QED
      BY <1>3, <2>5 DEF HandlersTyped, FindExisting, TypeInv, TypeOK
  <1>4. ASSUME NEW h \in Handlers, FindNone(h) PROVE TypeInv'
    <2> DEFINE p == [proc[h] EXCEPT !.pc = "insert"]
    <2>1. p \in Handler /\ WellFormed(p)
      BY <1>4, HandlerIsTyped, ConvIsTyped
         DEF FindNone, At, Handler, PC, WellFormed, HoldsKey, HoldsRow
    <2>2. proc' = [proc EXCEPT ![h] = p]
      BY <1>4 DEF FindNone, TypeInv, TypeOK
    <2> HIDE DEF p
    <2>3. HandlersTyped'
      BY <2>1, <2>2, MoveType
    <2> QED
      BY <1>4, <2>3 DEF HandlersTyped, FindNone, TypeInv, TypeOK
  <1>5. ASSUME NEW h \in Handlers, InsertMessage(h) PROVE TypeInv'
    <2> DEFINE m == [id |-> nextId, conv |-> proc[h].conv, seq |-> proc[h].seq + 1,
                     sender |-> proc[h].user, key |-> proc[h].key]
               p == [proc[h] EXCEPT !.pc = "delivery", !.row = m, !.created = TRUE]
    <2>1. m \in Message
      BY <1>5 DEF InsertMessage, At, TypeInv, TypeOK, HandlersTyped, Handler, WellFormed, HoldsKey, Message
    <2>2. p \in Handler /\ WellFormed(p)
      <3> HIDE DEF m
      <3>1. proc[h] \in Handler /\ WellFormed(proc[h]) /\ proc[h].pc = "insert"
        BY <1>5, HandlerIsTyped DEF InsertMessage, At
      <3>2. p \in Handler
        BY <2>1, <3>1 DEF Handler, PC
      <3>3. p.pc = "delivery" /\ p.row = m /\ p.user = proc[h].user
            /\ p.conv = proc[h].conv /\ p.key = proc[h].key
        BY <3>1 DEF Handler
      <3> HIDE DEF p
      <3> QED
        BY <2>1, <3>1, <3>2, <3>3 DEF WellFormed, HoldsKey, HoldsRow
    <2>3. proc' = [proc EXCEPT ![h] = p]
      BY <1>5 DEF InsertMessage, TypeInv, TypeOK
    <2>4. messages' \in SUBSET Message /\ m.seq \in Nat
      BY <1>5, <2>1 DEF InsertMessage, TypeInv, TypeOK, Message
    <2> HIDE DEF p
    <2>5. HandlersTyped'
      BY <2>2, <2>3, MoveType
    <2>6. lastSeq' \in [Convs -> Nat]
      <3> DEFINE n == proc[h].seq + 1
      <3>1. n \in Nat /\ lastSeq \in [Convs -> Nat]
        BY HandlerIsTyped DEF Handler, TypeInv, TypeOK
      <3>2. lastSeq' = [lastSeq EXCEPT ![proc[h].conv] = n]
        BY <1>5 DEF InsertMessage
      <3> HIDE DEF n
      <3> QED
        BY <3>1, <3>2
    <2>9. nextId' \in Nat
      BY <1>5 DEF InsertMessage, TypeInv, TypeOK
    <2>7. /\ preview' \in [Convs -> {"none", "content", "recalled"}]
          /\ convLock' \in [Convs -> Handlers \cup {None}]
      BY <1>5 DEF InsertMessage, TypeInv, TypeOK
    <2> HIDE DEF m
    <2>8. UNCHANGED <<members, lastRead, recalled, delivered, online, stream, acked, requests, envSteps>>
      BY <1>5 DEF InsertMessage
    <2> QED
      BY <2>4, <2>5, <2>6, <2>7, <2>8, <2>9 DEF HandlersTyped, TypeInv, TypeOK
  <1>6. ASSUME NEW h \in Handlers, InsertRefused(h) PROVE TypeInv'
    <2>1. HandlersTyped'
      BY <1>6, ReturnType DEF InsertRefused
    <2> QED
      BY <1>6, <2>1 DEF HandlersTyped, InsertRefused, TypeInv, TypeOK
  <1>7. ASSUME NEW h \in Handlers, ApplyDeliveryStatus(h) PROVE TypeInv'
    <2> DEFINE reached == (members[proc[h].row.conv] \ {proc[h].row.sender}) \cap online # {}
               p == [proc[h] EXCEPT !.pc = "summary", !.dlv = reached]
    <2>1. proc[h].row.id \in Nat
      BY <1>7, HandlerIsTyped DEF ApplyDeliveryStatus, At, WellFormed, HoldsRow, Message
    <2>0. reached \in BOOLEAN
      OBVIOUS
    <2>2. p \in Handler /\ WellFormed(p)
      <3> HIDE DEF reached
      <3>1. proc[h] \in Handler /\ WellFormed(proc[h]) /\ proc[h].pc = "delivery"
        BY <1>7, HandlerIsTyped DEF ApplyDeliveryStatus, At
      <3> QED
        BY <2>0, <3>1 DEF Handler, PC, WellFormed, HoldsKey, HoldsRow
    <2>3. proc[h].created => proc' = [proc EXCEPT ![h] = p]
      BY <1>7 DEF ApplyDeliveryStatus, TypeInv, TypeOK
    <2>4. ~proc[h].created => Return(h)
      BY <1>7 DEF ApplyDeliveryStatus
    <2> HIDE DEF p
    <2>5. HandlersTyped'
      BY <2>2, <2>3, <2>4, MoveType, ReturnType
    <2>6. delivered' \in SUBSET Nat /\ acked' \in SUBSET Nat
      BY <1>7, <2>1 DEF ApplyDeliveryStatus, TypeInv, TypeOK
    <2> QED
      BY <1>7, <2>5, <2>6 DEF HandlersTyped, ApplyDeliveryStatus, TypeInv, TypeOK
  <1>8. ASSUME NEW h \in Handlers, SenderSummary(h) PROVE TypeInv'
    <2> DEFINE p == [proc[h] EXCEPT !.pc = "members"]
    <2>1. p \in Handler /\ WellFormed(p)
      BY <1>8, HandlerIsTyped, ConvIsTyped
         DEF SenderSummary, At, Handler, PC, WellFormed, HoldsKey, HoldsRow
    <2>2. proc' = [proc EXCEPT ![h] = p] \/ Return(h)
      BY <1>8 DEF SenderSummary, TypeInv, TypeOK
    <2> HIDE DEF p
    <2>3. HandlersTyped'
      BY <2>1, <2>2, MoveType, ReturnType
    <2> QED
      BY <1>8, <2>3 DEF HandlersTyped, SenderSummary, TypeInv, TypeOK
  <1>9. ASSUME NEW h \in Handlers, ReadMembers(h) PROVE TypeInv'
    <2> DEFINE p == [proc[h] EXCEPT !.pc = "accepted", !.todo = members[proc[h].conv]]
    <2>1. p \in Handler /\ WellFormed(p)
      <3>1. /\ proc[h] \in Handler /\ WellFormed(proc[h])
            /\ proc[h].pc = "members"
        BY <1>9, HandlerIsTyped DEF ReadMembers, At
      <3>4. members[proc[h].conv] \in SUBSET Users
        BY <3>1, ConvIsTyped DEF WellFormed
      <3>2. p \in Handler
        BY <3>1, <3>4 DEF Handler, PC
      <3>3. WellFormed(p)
        BY <3>1 DEF Handler, WellFormed, HoldsKey, HoldsRow
      <3> QED
        BY <3>2, <3>3
    <2>2. proc' = [proc EXCEPT ![h] = p]
      BY <1>9 DEF ReadMembers, TypeInv, TypeOK
    <2> HIDE DEF p
    <2>3. HandlersTyped'
      BY <2>1, <2>2, MoveType
    <2> QED
      BY <1>9, <2>3 DEF HandlersTyped, ReadMembers, TypeInv, TypeOK
  <1>10. ASSUME NEW h \in Handlers, EmitAccepted(h) PROVE TypeInv'
    <2> DEFINE p == [proc[h] EXCEPT !.pc = "fanout"]
    <2>1. p \in Handler /\ WellFormed(p)
      BY <1>10, HandlerIsTyped, ConvIsTyped
         DEF EmitAccepted, At, Handler, PC, WellFormed, HoldsKey, HoldsRow
    <2>2. proc' = [proc EXCEPT ![h] = p]
      BY <1>10 DEF EmitAccepted, TypeInv, TypeOK
    <2>3. stream' \in [Users -> Seq(SyncEvent)]
      BY <1>10, EmitType
         DEF EmitAccepted, At, TypeInv, TypeOK, HandlersTyped, WellFormed, HoldsRow, Message, SyncEvent
    <2> HIDE DEF p
    <2>4. HandlersTyped'
      BY <2>1, <2>2, MoveType
    <2> QED
      BY <1>10, <2>3, <2>4 DEF HandlersTyped, EmitAccepted, TypeInv, TypeOK
  <1>11. ASSUME NEW h \in Handlers, NEW u \in Users, SummariseFor(h, u) PROVE TypeInv'
    <2> DEFINE next == IF u \in members[proc[h].conv] THEN "append" ELSE "fanout"
               n == SummarySeq(h)
               p == [proc[h] EXCEPT !.todo = @ \ {u}, !.pc = next, !.to = u, !.seq = n]
    <2>0. proc[h] \in Handler /\ WellFormed(proc[h]) /\ proc[h].pc = "fanout"
      BY <1>11, HandlerIsTyped DEF SummariseFor, At
    <2>4. n \in Nat /\ next \in {"append", "fanout"}
      BY <2>0, ConvIsTyped DEF SummarySeq, WellFormed
    <2>1. p \in Handler /\ WellFormed(p)
      <3> HIDE DEF next, n
      <3> QED
        BY <2>0, <2>4 DEF Handler, PC, WellFormed, HoldsKey, HoldsRow
    <2>2. proc' = [proc EXCEPT ![h] = p]
      BY <1>11, <2>0 DEF SummariseFor, TypeInv, TypeOK
    <2> HIDE DEF p
    <2>3. HandlersTyped'
      BY <2>1, <2>2, MoveType
    <2> QED
      BY <1>11, <2>3 DEF HandlersTyped, SummariseFor, TypeInv, TypeOK
  <1>12. ASSUME NEW h \in Handlers, AppendPersisted(h) PROVE TypeInv'
    <2> DEFINE p == [proc[h] EXCEPT !.pc = "fanout"]
    <2>1. p \in Handler /\ WellFormed(p)
      BY <1>12, HandlerIsTyped, ConvIsTyped
         DEF AppendPersisted, At, Handler, PC, WellFormed, HoldsKey, HoldsRow
    <2>2. proc' = [proc EXCEPT ![h] = p]
      BY <1>12 DEF AppendPersisted, TypeInv, TypeOK
    <2>3. stream' \in [Users -> Seq(SyncEvent)]
      BY <1>12, EmitType
         DEF AppendPersisted, At, TypeInv, TypeOK, HandlersTyped, Handler, WellFormed, HoldsRow, Message, SyncEvent
    <2> HIDE DEF p
    <2>4. HandlersTyped'
      BY <2>1, <2>2, MoveType
    <2> QED
      BY <1>12, <2>3, <2>4 DEF HandlersTyped, AppendPersisted, TypeInv, TypeOK
  <1>13. ASSUME NEW h \in Handlers, FinishSend(h) PROVE TypeInv'
    <2>1. proc[h].row \in Message
      BY <1>13 DEF FinishSend, At, TypeInv, HandlersTyped, WellFormed, HoldsRow
    <2>2. stream' \in [Users -> Seq(SyncEvent)]
      BY <1>13, <2>1, EmitType DEF FinishSend, TypeInv, TypeOK, Message, SyncEvent
    <2>3. HandlersTyped'
      BY <1>13, ReturnType DEF FinishSend
    <2> QED
      BY <1>13, <2>1, <2>2, <2>3 DEF HandlersTyped, FinishSend, TypeInv, TypeOK, Message
  <1>14. ASSUME NEW h \in Handlers, NEW u \in Users, NEW m \in messages, RecallMessage(h, u, m)
         PROVE  TypeInv'
    <2> DEFINE p == [Idle EXCEPT !.pc = "recall", !.user = u, !.conv = m.conv, !.row = m]
    <2>1. m \in Message
      BY DEF TypeInv, TypeOK
    <2>2. p \in Handler /\ WellFormed(p)
      BY <2>1 DEF Message, Idle, Handler, PC, WellFormed, HoldsKey, HoldsRow
    <2>3. proc' = [proc EXCEPT ![h] = p]
      BY <1>14 DEF RecallMessage
    <2> HIDE DEF p
    <2>4. HandlersTyped'
      BY <2>2, <2>3, MoveType
    <2> QED
      BY <1>14, <2>4 DEF HandlersTyped, RecallMessage, Admit, TypeInv, TypeOK
  <1>15. ASSUME NEW h \in Handlers, RecallTx(h) PROVE TypeInv'
    <2> DEFINE p == [proc[h] EXCEPT !.pc = "recipients"]
    <2>1. p \in Handler /\ WellFormed(p)
      BY <1>15, HandlerIsTyped, ConvIsTyped
         DEF RecallTx, At, Handler, PC, WellFormed, HoldsKey, HoldsRow
    <2>2. proc' = [proc EXCEPT ![h] = p]
      BY <1>15 DEF RecallTx, TypeInv, TypeOK
    <2>3. recalled' \in SUBSET Nat /\ preview' \in [Convs -> {"none", "content", "recalled"}]
      BY <1>15 DEF RecallTx, At, TypeInv, TypeOK, HandlersTyped, WellFormed, HoldsRow, Message
    <2> HIDE DEF p
    <2>4. HandlersTyped'
      BY <2>1, <2>2, MoveType
    <2> QED
      BY <1>15, <2>3, <2>4 DEF HandlersTyped, RecallTx, TypeInv, TypeOK
  <1>16. ASSUME NEW h \in Handlers, NEW u \in Users, NEW c \in Convs, NEW s \in 0..lastSeq[c],
                MarkRead(h, u, c, s)
         PROVE  TypeInv'
    <2> DEFINE n == IF s = 0 THEN lastSeq[c] ELSE s
               p == [Idle EXCEPT !.pc = "markRead", !.user = u, !.conv = c, !.seq = n]
    <2>0. n \in Nat
      BY ConvIsTyped
    <2>1. p \in Handler /\ WellFormed(p)
      <3> HIDE DEF n
      <3> QED
        BY <2>0 DEF Idle, Handler, PC, WellFormed, HoldsKey, HoldsRow
    <2>2. proc' = [proc EXCEPT ![h] = p]
      BY <1>16 DEF MarkRead
    <2> HIDE DEF p
    <2>3. HandlersTyped'
      BY <2>1, <2>2, MoveType
    <2> QED
      BY <1>16, <2>3 DEF HandlersTyped, MarkRead, Admit, TypeInv, TypeOK
  <1>17. ASSUME NEW h \in Handlers, MarkReadTx(h) PROVE TypeInv'
    <2> DEFINE p == [proc[h] EXCEPT !.pc = "recipients"]
    <2>1. p \in Handler /\ WellFormed(p)
      BY <1>17, HandlerIsTyped, ConvIsTyped
         DEF MarkReadTx, At, Handler, PC, WellFormed, HoldsKey, HoldsRow
    <2>2. proc' = [proc EXCEPT ![h] = p]
      BY <1>17 DEF MarkReadTx, TypeInv, TypeOK
    <2>3. lastRead' \in [Convs -> [Users -> Nat]]
      BY <1>17 DEF MarkReadTx, Larger, At, TypeInv, TypeOK, HandlersTyped, Handler, WellFormed
    <2> HIDE DEF p
    <2>4. HandlersTyped'
      BY <2>1, <2>2, MoveType
    <2> QED
      BY <1>17, <2>3, <2>4 DEF HandlersTyped, MarkReadTx, TypeInv, TypeOK
  <1>18. ASSUME NEW h \in Handlers, ReadRecipients(h) PROVE TypeInv'
    <2> DEFINE p == [proc[h] EXCEPT !.pc = "emit", !.todo = members[proc[h].conv]]
    <2>1. p \in Handler /\ WellFormed(p)
      <3>1. /\ proc[h] \in Handler /\ WellFormed(proc[h])
            /\ proc[h].pc = "recipients"
        BY <1>18, HandlerIsTyped DEF ReadRecipients, At
      <3>4. members[proc[h].conv] \in SUBSET Users
        BY <3>1, ConvIsTyped DEF WellFormed
      <3>2. p \in Handler
        BY <3>1, <3>4 DEF Handler, PC
      <3>3. WellFormed(p)
        BY <3>1 DEF Handler, WellFormed, HoldsKey, HoldsRow
      <3> QED
        BY <3>2, <3>3
    <2>2. proc' = [proc EXCEPT ![h] = p]
      BY <1>18 DEF ReadRecipients, TypeInv, TypeOK
    <2> HIDE DEF p
    <2>3. HandlersTyped'
      BY <2>1, <2>2, MoveType
    <2> QED
      BY <1>18, <2>3 DEF HandlersTyped, ReadRecipients, TypeInv, TypeOK
  <1>19. ASSUME NEW h \in Handlers, EmitRecalled(h) PROVE TypeInv'
    <2>1. stream' \in [Users -> Seq(SyncEvent)]
      BY <1>19, EmitType
         DEF EmitRecalled, At, TypeInv, TypeOK, HandlersTyped, Handler, WellFormed, Message, SyncEvent
    <2>2. HandlersTyped'
      BY <1>19, ReturnType DEF EmitRecalled
    <2> QED
      BY <1>19, <2>1, <2>2 DEF HandlersTyped, EmitRecalled, TypeInv, TypeOK
  <1>20. ASSUME NEW h \in Handlers, EmitRead(h) PROVE TypeInv'
    <2>1. stream' \in [Users -> Seq(SyncEvent)]
      BY <1>20, EmitType DEF EmitRead, At, TypeInv, TypeOK, HandlersTyped, Handler, WellFormed, SyncEvent
    <2>2. HandlersTyped'
      BY <1>20, ReturnType DEF EmitRead
    <2> QED
      BY <1>20, <2>1, <2>2 DEF HandlersTyped, EmitRead, TypeInv, TypeOK
  <1>21. ASSUME NEW c \in Convs, NEW u \in Users, RemoveMember(c, u) PROVE TypeInv'
    <2>1. members' \in [Convs -> SUBSET Users]
      BY <1>21 DEF RemoveMember, TypeInv, TypeOK
    <2> QED
      BY <1>21, <2>1 DEF RemoveMember, May, HandlersTyped, TypeInv, TypeOK
  <1>25. ASSUME NEW c \in Convs, NEW u \in Users, AddMember(c, u) PROVE TypeInv'
    <2>1. members' \in [Convs -> SUBSET Users]
      BY <1>25 DEF AddMember, TypeInv, TypeOK
    <2>2. lastRead' \in [Convs -> [Users -> Nat]]
      BY <1>25 DEF AddMember, TypeInv, TypeOK
    <2> QED
      BY <1>25, <2>1, <2>2 DEF AddMember, May, HandlersTyped, TypeInv, TypeOK
  <1>22. ASSUME NEW u \in Users, SetPresence(u) PROVE TypeInv'
    BY <1>22 DEF SetPresence, May, HandlersTyped, TypeInv, TypeOK
  <1>23. CASE Crash
    BY <1>23, IdleType DEF Crash, May, HandlersTyped, TypeInv, TypeOK
  <1>24. CASE UNCHANGED vars
    BY <1>24 DEF HandlersTyped, TypeInv, TypeOK
  <1> QED
    BY <1>1, <1>2, <1>3, <1>4, <1>5, <1>6, <1>7, <1>8, <1>9, <1>10, <1>11, <1>12, <1>13, <1>14,
       <1>15, <1>16, <1>17, <1>18, <1>19, <1>20, <1>21, <1>22, <1>23, <1>24, <1>25
       DEF Next, Request, Proceed, Environment

\* Every variable keeps its type, for any instance of the message path.
THEOREM TypeCorrect == Spec => []TypeOK
  <1>1. TypeInv => TypeOK
    BY DEF TypeInv
  <1> QED
    BY InitType, NextType, <1>1, PTL DEF Spec
-----------------------------------------------------------------------------
(***************************************************************************)
(* Proofs of the order of messages: their numbers, ids, keys, the preview  *)
(* of the newest one and the read positions, for any instance of           *)
(* MessageService.                                                         *)
(*                                                                         *)
(* SeqDense is not inductive: the number a handler inserts is one it read  *)
(* two steps earlier.  LockInv says why it is still right, and that no two *)
(* handlers are between the two steps for one conversation.                *)
(***************************************************************************)

\* The labels inside SendMessage's transaction.
InTx == {"lookup", "insert"}

\* Within its transaction a handler holds the row lock, and the number it read is
\* still the conversation's.
LockInv ==
    \A h \in Handlers : proc[h].pc \in InTx =>
        /\ convLock[proc[h].conv] = h
        /\ proc[h].seq = lastSeq[proc[h].conv]

\* The row a handler holds is stored.
RowInv == \A h \in Handlers : proc[h].pc \in HoldsRow => proc[h].row \in messages

\* AUTO_INCREMENT: ids are below the next one and name one row each.
IdInv ==
    /\ \A m \in messages : m.id < nextId
    /\ \A m, n \in messages : m.id = n.id => m = n
    /\ \A i \in recalled : i < nextId

HandlerInv == LockInv /\ RowInv
TableInv == SeqDense /\ IdInv /\ OneRowPerKey /\ PreviewAgrees

IInv == TypeInv /\ HandlerInv /\ TableInv

-----------------------------------------------------------------------------
\* Initially there is no message and no handler at work.
LEMMA InitOrder == Init => IInv
  <1> SUFFICES ASSUME Init PROVE IInv
    OBVIOUS
  <1>1. TypeInv
    BY InitType
  <1>2. HandlerInv
    BY DEF Init, HandlerInv, LockInv, RowInv, Idle, InTx, HoldsRow
  <1>3. TableInv
    BY DEF Init, TableInv, SeqDense, IdInv, OneRowPerKey, PreviewAgrees
  <1> QED
    BY <1>1, <1>2, <1>3 DEF IInv

\* A step that leaves the tables alone keeps what is said of them.
LEMMA TablesAlone ==
  ASSUME TableInv, UNCHANGED <<messages, nextId, recalled, lastSeq, preview>>
  PROVE  TableInv'
  BY DEF TableInv, SeqDense, IdInv, OneRowPerKey, PreviewAgrees

\* A handler moves to a label outside the transaction, with a stored row if it
\* holds one, while the tables and the locks stay as they are.
LEMMA QuietMove ==
  ASSUME IInv, NEW h \in Handlers,
         \A g \in Handlers \ {h} : proc'[g] = proc[g],
         proc'[h].pc \notin InTx,
         proc'[h].pc \in HoldsRow => proc'[h].row \in messages,
         UNCHANGED <<messages, nextId, recalled, lastSeq, preview, convLock>>
  PROVE  HandlerInv' /\ TableInv'
  <1>1. TableInv'
    BY TablesAlone DEF IInv
  <1>2. LockInv'
    BY DEF IInv, HandlerInv, LockInv
  <1>3. RowInv'
    BY DEF IInv, HandlerInv, RowInv
  <1> QED
    BY <1>1, <1>2, <1>3 DEF HandlerInv

\* A handler leaves its transaction and gives the row lock back, the tables being
\* as they were.
LEMMA ReleaseMove ==
  ASSUME IInv, NEW h \in Handlers, proc[h].pc \in InTx,
         \A g \in Handlers \ {h} : proc'[g] = proc[g],
         proc'[h].pc \notin InTx,
         proc'[h].pc \in HoldsRow => proc'[h].row \in messages,
         convLock' = [convLock EXCEPT ![proc[h].conv] = None],
         UNCHANGED <<messages, nextId, recalled, lastSeq, preview>>
  PROVE  HandlerInv' /\ TableInv'
  <1>1. TableInv'
    BY TablesAlone DEF IInv
  <1>2. convLock[proc[h].conv] = h /\ convLock \in [Convs -> Handlers \cup {None}]
    BY DEF IInv, TypeInv, TypeOK, HandlerInv, LockInv
  <1>3. LockInv'
    <2> SUFFICES ASSUME NEW g \in Handlers, proc'[g].pc \in InTx
                 PROVE  /\ convLock'[proc'[g].conv] = g
                        /\ proc'[g].seq = lastSeq[proc'[g].conv]
      BY DEF LockInv
    <2>1. g # h /\ proc'[g] = proc[g]
      OBVIOUS
    <2>2. convLock[proc[g].conv] = g /\ proc[g].seq = lastSeq[proc[g].conv]
      BY <2>1 DEF IInv, HandlerInv, LockInv
    <2> QED
      BY <1>2, <2>1, <2>2
  <1>4. RowInv'
    BY DEF IInv, HandlerInv, RowInv
  <1> QED
    BY <1>1, <1>3, <1>4 DEF HandlerInv

\* Every step keeps the order of messages.
LEMMA NextOrder == IInv /\ [Next]_vars => HandlerInv' /\ TableInv'
  <1> SUFFICES ASSUME IInv, [Next]_vars PROVE HandlerInv' /\ TableInv'
    OBVIOUS
  <1> USE DEF dbVars, envVars
  <1>0. /\ TypeInv
        /\ proc \in [Handlers -> Handler]
        /\ \A h \in Handlers : proc[h].pc \in HoldsRow => proc[h].row \in messages
    BY DEF IInv, TypeInv, TypeOK, HandlerInv, RowInv
  <1>1. ASSUME NEW h \in Handlers, NEW u \in Users, NEW c \in Convs, NEW k \in Keys,
               SendMessage(h, u, c, k)
        PROVE  HandlerInv' /\ TableInv'
    <2>1. proc'[h].pc = "lock" /\ \A g \in Handlers \ {h} : proc'[g] = proc[g]
      BY <1>0, <1>1 DEF SendMessage, Idle
    <2> QED
      BY <1>1, <2>1, QuietMove DEF SendMessage, InTx, HoldsRow
  <1>2. ASSUME NEW h \in Handlers, LockConversation(h) PROVE HandlerInv' /\ TableInv'
    <2> DEFINE c == proc[h].conv
    <2>1. /\ convLock[c] = None /\ convLock' = [convLock EXCEPT ![c] = h]
          /\ proc'[h].pc = "lookup" /\ proc'[h].conv = c /\ proc'[h].seq = lastSeq[c]
          /\ \A g \in Handlers \ {h} : proc'[g] = proc[g]
      BY <1>0, <1>2 DEF LockConversation, RowFree, Handler
    <2>2. c \in Convs
      BY <1>0, <1>2, HandlerIsTyped DEF LockConversation, At, WellFormed
    <2>3. UNCHANGED <<messages, nextId, recalled, lastSeq, preview>>
      BY <1>2 DEF LockConversation
    <2>4. TableInv'
      BY <2>3, TablesAlone DEF IInv
    <2>5. LockInv'
      <3> SUFFICES ASSUME NEW g \in Handlers, proc'[g].pc \in InTx
                   PROVE  /\ convLock'[proc'[g].conv] = g
                          /\ proc'[g].seq = lastSeq[proc'[g].conv]
        BY <2>3 DEF LockInv
      <3>1. convLock \in [Convs -> Handlers \cup {None}]
        BY <1>0 DEF TypeInv, TypeOK
      <3>2. CASE g = h
        BY <2>1, <2>2, <3>1, <3>2
      <3>3. CASE g # h
        <4>1. convLock[proc[g].conv] = g /\ proc[g].seq = lastSeq[proc[g].conv]
          BY <2>1, <3>3 DEF IInv, HandlerInv, LockInv
        <4> QED
          BY <2>1, <3>1, <3>3, <4>1, NoneIsNoHandler
      <3> QED
        BY <3>2, <3>3
    <2>6. RowInv'
      BY <2>1, <2>3 DEF IInv, HandlerInv, RowInv, HoldsRow
    <2> QED
      BY <2>4, <2>5, <2>6 DEF HandlerInv
  <1>3. ASSUME NEW h \in Handlers, FindExisting(h) PROVE HandlerInv' /\ TableInv'
    <2>1. PICK m \in SameKey(proc[h].user, proc[h].key) :
              proc' = [proc EXCEPT ![h].pc = "delivery", ![h].row = m, ![h].created = FALSE]
      BY <1>3 DEF FindExisting
    <2>2. /\ proc'[h].pc = "delivery" /\ proc'[h].row \in messages
          /\ \A g \in Handlers \ {h} : proc'[g] = proc[g]
      BY <1>0, <2>1, HandlerIsTyped DEF SameKey, Handler
    <2>3. /\ UNCHANGED <<messages, nextId, recalled, lastSeq, preview>>
          /\ proc[h].pc = "lookup"
          /\ convLock' = [convLock EXCEPT ![proc[h].conv] = None]
      BY <1>3 DEF FindExisting, At
    <2> QED
      BY <2>2, <2>3, ReleaseMove DEF InTx
  <1>4. ASSUME NEW h \in Handlers, FindNone(h) PROVE HandlerInv' /\ TableInv'
    <2>1. /\ proc[h].pc = "lookup" /\ proc'[h].pc = "insert"
          /\ proc'[h].conv = proc[h].conv /\ proc'[h].seq = proc[h].seq
          /\ \A g \in Handlers \ {h} : proc'[g] = proc[g]
      BY <1>0, <1>4, HandlerIsTyped DEF FindNone, At, Handler
    <2>2. UNCHANGED <<messages, nextId, recalled, lastSeq, preview, convLock>>
      BY <1>4 DEF FindNone
    <2>3. LockInv'
      BY <2>1, <2>2 DEF IInv, HandlerInv, LockInv, InTx
    <2>4. RowInv'
      BY <2>1, <2>2 DEF IInv, HandlerInv, RowInv, HoldsRow
    <2> QED
      BY <2>2, <2>3, <2>4, TablesAlone DEF IInv, HandlerInv
  <1>5. ASSUME NEW h \in Handlers, InsertMessage(h) PROVE HandlerInv' /\ TableInv'
    <2> DEFINE c == proc[h].conv
               m == [id |-> nextId, conv |-> c, seq |-> proc[h].seq + 1,
                     sender |-> proc[h].user, key |-> proc[h].key]
    <2>1. proc[h].pc = "insert" /\ c \in Convs
      BY <1>0, <1>5, HandlerIsTyped DEF InsertMessage, At, WellFormed
    <2>2. convLock[c] = h /\ proc[h].seq = lastSeq[c]
      BY <2>1 DEF IInv, HandlerInv, LockInv, InTx
    <2>3. /\ lastSeq \in [Convs -> Nat] /\ nextId \in Nat /\ recalled \in SUBSET Nat
          /\ preview \in [Convs -> {"none", "content", "recalled"}]
          /\ convLock \in [Convs -> Handlers \cup {None}]
          /\ \A n \in messages : n.id \in Nat /\ n.conv \in Convs /\ n.seq \in Nat
      BY <1>0 DEF TypeInv, TypeOK, Message
    <2>4. /\ m.id = nextId /\ m.conv = c /\ m.seq = lastSeq[c] + 1
          /\ \A n \in messages : ~(n.sender = m.sender /\ n.key = m.key)
      BY <1>5, <2>2 DEF InsertMessage, KeyFree, SameKey
    <2>5. /\ messages' = messages \cup {m}
          /\ nextId' = nextId + 1
          /\ lastSeq' = [lastSeq EXCEPT ![c] = m.seq]
          /\ preview' = [preview EXCEPT ![c] = "content"]
          /\ convLock' = [convLock EXCEPT ![c] = None]
          /\ recalled' = recalled
      BY <1>5 DEF InsertMessage
    <2>6. /\ proc'[h].pc = "delivery" /\ proc'[h].row = m
          /\ \A g \in Handlers \ {h} : proc'[g] = proc[g]
      BY <1>0, <1>5, HandlerIsTyped DEF InsertMessage, Handler
    <2> HIDE DEF m
    <2>7. LockInv'
      <3> SUFFICES ASSUME NEW g \in Handlers, proc'[g].pc \in InTx
                   PROVE  /\ convLock'[proc'[g].conv] = g
                          /\ proc'[g].seq = lastSeq'[proc'[g].conv]
        BY DEF LockInv
      <3>1. g # h /\ proc'[g] = proc[g]
        BY <2>6 DEF InTx
      <3>2. convLock[proc[g].conv] = g /\ proc[g].seq = lastSeq[proc[g].conv]
        BY <3>1 DEF IInv, HandlerInv, LockInv
      <3>3. proc[g].conv # c
        BY <2>2, <3>1, <3>2
      <3> QED
        BY <2>3, <2>5, <3>1, <3>2, <3>3
    <2>8. RowInv'
      BY <2>5, <2>6 DEF IInv, HandlerInv, RowInv
    <2>9. SeqDense'
      <3> SUFFICES ASSUME NEW d \in Convs
                   PROVE  /\ \A s \in 1..lastSeq'[d] : \E n \in messages' : n.conv = d /\ n.seq = s
                          /\ \A n \in messages' : n.conv = d => n.seq \in 1..lastSeq'[d]
                          /\ \A n, o \in messages' :
                               n.conv = d /\ o.conv = d /\ n.seq = o.seq => n = o
        BY DEF SeqDense
      <3>1. /\ \A s \in 1..lastSeq[d] : \E n \in messages : n.conv = d /\ n.seq = s
            /\ \A n \in messages : n.conv = d => n.seq \in 1..lastSeq[d]
            /\ \A n, o \in messages : n.conv = d /\ o.conv = d /\ n.seq = o.seq => n = o
        BY DEF IInv, TableInv, SeqDense
      <3>2. CASE d # c
        BY <2>3, <2>4, <2>5, <3>1, <3>2
      <3>3. CASE d = c
        <4>1. lastSeq'[d] = lastSeq[d] + 1 /\ lastSeq[d] \in Nat
          BY <2>1, <2>3, <2>4, <2>5, <3>3
        <4>2. \A s \in 1..lastSeq'[d] : s \in 1..lastSeq[d] \/ s = m.seq
          BY <2>4, <3>3, <4>1
        <4>3. \A s \in 1..lastSeq'[d] : \E n \in messages' : n.conv = d /\ n.seq = s
          BY <2>4, <2>5, <3>1, <3>3, <4>2
        <4>4. \A n \in messages' : n.conv = d => n.seq \in 1..lastSeq'[d]
          BY <2>4, <2>5, <3>1, <3>3, <4>1
        <4>5. \A n, o \in messages' : n.conv = d /\ o.conv = d /\ n.seq = o.seq => n = o
          BY <2>4, <2>5, <3>1, <3>3, <4>1
        <4> QED
          BY <4>3, <4>4, <4>5
      <3> QED
        BY <3>2, <3>3
    <2>10. IdInv'
      BY <2>3, <2>4, <2>5 DEF IInv, TableInv, IdInv
    <2>11. OneRowPerKey'
      BY <2>4, <2>5 DEF IInv, TableInv, OneRowPerKey
    <2>12. PreviewAgrees'
      <3> SUFFICES ASSUME NEW n \in messages', n.seq = lastSeq'[n.conv]
                   PROVE  preview'[n.conv] = IF n.id \in recalled' THEN "recalled" ELSE "content"
        BY DEF PreviewAgrees
      <3>1. CASE n = m
        BY <2>1, <2>3, <2>4, <2>5, <3>1 DEF IInv, TableInv, IdInv
      <3>2. CASE n # m
        <4>1. n \in messages
          BY <2>5, <3>2
        <4>2. n.conv # c
          BY <2>1, <2>3, <2>4, <2>5, <4>1 DEF IInv, TableInv, SeqDense
        <4> QED
          BY <2>3, <2>5, <4>1, <4>2 DEF IInv, TableInv, PreviewAgrees
      <3> QED
        BY <3>1, <3>2
    <2> QED
      BY <2>7, <2>8, <2>9, <2>10, <2>11, <2>12 DEF HandlerInv, TableInv
  <1>6. ASSUME NEW h \in Handlers, InsertRefused(h) PROVE HandlerInv' /\ TableInv'
    <2>1. proc'[h].pc = "idle" /\ \A g \in Handlers \ {h} : proc'[g] = proc[g]
      BY <1>0, <1>6 DEF InsertRefused, Return, Idle
    <2>2. /\ UNCHANGED <<messages, nextId, recalled, lastSeq, preview>>
          /\ proc[h].pc = "insert"
          /\ convLock' = [convLock EXCEPT ![proc[h].conv] = None]
      BY <1>6 DEF InsertRefused, At
    <2> QED
      BY <2>1, <2>2, ReleaseMove DEF InTx, HoldsRow
  <1>7. ASSUME NEW h \in Handlers,
               ApplyDeliveryStatus(h) \/ SenderSummary(h) \/ ReadMembers(h) \/ EmitAccepted(h)
        PROVE  HandlerInv' /\ TableInv'
    <2>1. /\ proc[h].pc \in HoldsRow
          /\ proc'[h].pc \in {"idle", "summary", "members", "accepted", "fanout"}
          /\ proc'[h].pc # "idle" => proc'[h].row = proc[h].row
          /\ \A g \in Handlers \ {h} : proc'[g] = proc[g]
      BY <1>0, <1>7, HandlerIsTyped
         DEF ApplyDeliveryStatus, SenderSummary, ReadMembers, EmitAccepted, Return, Idle, At,
             Handler, HoldsRow
    <2>2. UNCHANGED <<messages, nextId, recalled, lastSeq, preview, convLock>>
      BY <1>7 DEF ApplyDeliveryStatus, SenderSummary, ReadMembers, EmitAccepted
    <2> QED
      BY <1>0, <2>1, <2>2, QuietMove DEF InTx, HoldsRow
  <1>8. ASSUME NEW h \in Handlers, NEW u \in Users, SummariseFor(h, u)
        PROVE  HandlerInv' /\ TableInv'
    <2>1. /\ proc[h].pc = "fanout" /\ proc'[h].pc \in {"fanout", "append"}
          /\ proc'[h].row = proc[h].row
          /\ \A g \in Handlers \ {h} : proc'[g] = proc[g]
      BY <1>0, <1>8, HandlerIsTyped DEF SummariseFor, At, Handler
    <2>2. UNCHANGED <<messages, nextId, recalled, lastSeq, preview, convLock>>
      BY <1>8 DEF SummariseFor
    <2> QED
      BY <1>0, <2>1, <2>2, QuietMove DEF InTx, HoldsRow
  <1>9. ASSUME NEW h \in Handlers, AppendPersisted(h) PROVE HandlerInv' /\ TableInv'
    <2>1. /\ proc[h].pc = "append" /\ proc'[h].pc = "fanout"
          /\ proc'[h].row = proc[h].row
          /\ \A g \in Handlers \ {h} : proc'[g] = proc[g]
      BY <1>0, <1>9, HandlerIsTyped DEF AppendPersisted, At, Handler
    <2>2. UNCHANGED <<messages, nextId, recalled, lastSeq, preview, convLock>>
      BY <1>9 DEF AppendPersisted
    <2> QED
      BY <1>0, <2>1, <2>2, QuietMove DEF InTx, HoldsRow
  <1>10. ASSUME NEW h \in Handlers, FinishSend(h) \/ EmitRecalled(h) \/ EmitRead(h)
         PROVE  HandlerInv' /\ TableInv'
    <2>1. proc'[h].pc = "idle" /\ \A g \in Handlers \ {h} : proc'[g] = proc[g]
      BY <1>0, <1>10 DEF FinishSend, EmitRecalled, EmitRead, Return, Idle
    <2>2. UNCHANGED <<messages, nextId, recalled, lastSeq, preview, convLock>>
      BY <1>10 DEF FinishSend, EmitRecalled, EmitRead
    <2> QED
      BY <2>1, <2>2, QuietMove DEF InTx, HoldsRow
  <1>11. ASSUME NEW h \in Handlers, NEW u \in Users, NEW m \in messages, RecallMessage(h, u, m)
         PROVE  HandlerInv' /\ TableInv'
    <2>1. /\ proc'[h].pc = "recall" /\ proc'[h].row = m
          /\ \A g \in Handlers \ {h} : proc'[g] = proc[g]
      BY <1>0, <1>11 DEF RecallMessage, Idle
    <2>2. UNCHANGED <<messages, nextId, recalled, lastSeq, preview, convLock>>
      BY <1>11 DEF RecallMessage, Admit
    <2> QED
      BY <2>1, <2>2, QuietMove DEF InTx, HoldsRow
  <1>12. ASSUME NEW h \in Handlers, RecallTx(h) PROVE HandlerInv' /\ TableInv'
    <2> DEFINE m == proc[h].row
    <2>1. /\ m \in messages
          /\ proc'[h].pc = "recipients" /\ \A g \in Handlers \ {h} : proc'[g] = proc[g]
      BY <1>0, <1>12, HandlerIsTyped DEF RecallTx, At, Handler, HoldsRow
    <2>2. /\ recalled' = recalled \cup {m.id}
          /\ preview' = IF IsNewest(m) THEN [preview EXCEPT ![m.conv] = "recalled"] ELSE preview
          /\ UNCHANGED <<messages, nextId, lastSeq, convLock>>
      BY <1>12 DEF RecallTx
    <2>3. preview \in [Convs -> {"none", "content", "recalled"}] /\ m.conv \in Convs
      BY <1>0, <2>1 DEF TypeInv, TypeOK, Message
    <2> HIDE DEF m
    <2>4. LockInv' /\ RowInv'
      BY <2>1, <2>2 DEF IInv, HandlerInv, LockInv, RowInv, InTx, HoldsRow
    <2>5. SeqDense' /\ OneRowPerKey'
      BY <2>2 DEF IInv, TableInv, SeqDense, OneRowPerKey
    <2>6. IdInv'
      BY <2>1, <2>2 DEF IInv, TableInv, IdInv
    <2>7. PreviewAgrees'
      <3> SUFFICES ASSUME NEW n \in messages, n.seq = lastSeq[n.conv]
                   PROVE  preview'[n.conv] = IF n.id \in recalled' THEN "recalled" ELSE "content"
        BY <2>2 DEF PreviewAgrees
      <3>1. preview[n.conv] = IF n.id \in recalled THEN "recalled" ELSE "content"
        BY DEF IInv, TableInv, PreviewAgrees
      <3>2. n.conv \in Convs
        BY <1>0 DEF TypeInv, TypeOK, Message
      <3>3. CASE n = m
        BY <2>2, <2>3, <3>3 DEF IsNewest
      <3>4. CASE n # m
        <4>1. n.id # m.id
          BY <2>1, <3>4 DEF IInv, TableInv, IdInv
        <4>2. n.conv = m.conv => ~IsNewest(m)
          BY <2>1, <3>2, <3>4 DEF IInv, TableInv, SeqDense, IsNewest
        <4> QED
          BY <2>2, <2>3, <3>1, <3>2, <4>1, <4>2
      <3> QED
        BY <3>3, <3>4
    <2> QED
      BY <2>4, <2>5, <2>6, <2>7 DEF HandlerInv, TableInv
  <1>13. ASSUME NEW h \in Handlers, NEW u \in Users, NEW c \in Convs, NEW s \in 0..lastSeq[c],
                MarkRead(h, u, c, s)
         PROVE  HandlerInv' /\ TableInv'
    <2>1. proc'[h].pc = "markRead" /\ \A g \in Handlers \ {h} : proc'[g] = proc[g]
      BY <1>0, <1>13 DEF MarkRead, Idle
    <2>2. UNCHANGED <<messages, nextId, recalled, lastSeq, preview, convLock>>
      BY <1>13 DEF MarkRead, Admit
    <2> QED
      BY <2>1, <2>2, QuietMove DEF InTx, HoldsRow
  <1>14. ASSUME NEW h \in Handlers, MarkReadTx(h) \/ ReadRecipients(h)
         PROVE  HandlerInv' /\ TableInv'
    <2>1. /\ proc'[h].pc \in {"recipients", "emit"}
          /\ \A g \in Handlers \ {h} : proc'[g] = proc[g]
      BY <1>0, <1>14, HandlerIsTyped DEF MarkReadTx, ReadRecipients, Handler
    <2>2. UNCHANGED <<messages, nextId, recalled, lastSeq, preview, convLock>>
      BY <1>14 DEF MarkReadTx, ReadRecipients
    <2> QED
      BY <2>1, <2>2, QuietMove DEF InTx, HoldsRow
  <1>15. ASSUME Environment \/ UNCHANGED vars PROVE HandlerInv' /\ TableInv'
    <2>1. UNCHANGED <<messages, nextId, recalled, lastSeq, preview>>
      BY <1>15 DEF Environment, RemoveMember, AddMember, SetPresence, Crash, May, vars
    <2>2. UNCHANGED <<proc, convLock>> \/ Crash
      BY <1>15 DEF Environment, RemoveMember, AddMember, SetPresence, vars
    <2>3. CASE UNCHANGED <<proc, convLock>>
      <3>1. LockInv'
        BY <2>1, <2>3 DEF IInv, HandlerInv, LockInv
      <3>2. RowInv'
        BY <2>1, <2>3 DEF IInv, HandlerInv, RowInv
      <3> QED
        BY <2>1, <3>1, <3>2, TablesAlone DEF IInv, HandlerInv
    <2>4. CASE Crash
      <3>1. \A h \in Handlers : proc'[h].pc = "idle"
        BY <2>4 DEF Crash, Idle
      <3>2. LockInv' /\ RowInv'
        BY <3>1 DEF LockInv, RowInv, InTx, HoldsRow
      <3> QED
        BY <2>1, <3>2, TablesAlone DEF IInv, HandlerInv
    <2> QED
      BY <2>2, <2>3, <2>4
  <1> QED
    <2>1. CASE UNCHANGED vars
      BY <2>1, <1>15
    <2>2. CASE Environment
      BY <2>2, <1>15
    <2>3. ASSUME NEW h \in Handlers, Request(h) PROVE HandlerInv' /\ TableInv'
      BY <2>3, <1>1, <1>11, <1>13 DEF Request
    <2>4. ASSUME NEW h \in Handlers, Proceed(h) PROVE HandlerInv' /\ TableInv'
      BY <2>4, <1>2, <1>3, <1>4, <1>5, <1>6, <1>7, <1>8, <1>9, <1>10, <1>12, <1>14 DEF Proceed
    <2> QED
      BY <2>1, <2>2, <2>3, <2>4 DEF Next

\* The strengthening is inductive.
LEMMA Inductive == Spec => []IInv
  <1>1. IInv /\ [Next]_vars => IInv'
    BY NextType, NextOrder DEF IInv
  <1> QED
    BY <1>1, InitOrder, PTL DEF Spec

\* The messages of a conversation are numbered without a gap and without a
\* duplicate, however sends, retries, recalls and crashes interleave
\* (repository.SendMessage).
THEOREM NumberingIsDense == Spec => []SeqDense
  <1>1. IInv => SeqDense
    BY DEF IInv, TableInv
  <1> QED
    BY <1>1, Inductive, PTL

\* The number a handler inserts is taken by nobody, so that only its key can
\* refuse a row.
THEOREM InsertNeverLosesItsNumber == Spec => []NumberIsFresh
  <1>1. IInv => NumberIsFresh
    <2> SUFFICES ASSUME IInv, NEW h \in Handlers, At(h, "insert"),
                        NEW m \in messages, m.conv = proc[h].conv
                 PROVE  m.seq # proc[h].seq + 1
      BY DEF NumberIsFresh, NumberFree
    <2>1. proc[h].seq = lastSeq[m.conv]
      BY DEF IInv, HandlerInv, LockInv, At, InTx
    <2>2. m.conv \in Convs /\ lastSeq[m.conv] \in Nat
      BY DEF IInv, TypeInv, TypeOK, Message
    <2>3. m.seq \in 1..lastSeq[m.conv]
      BY <2>2 DEF IInv, TableInv, SeqDense
    <2> QED
      BY <2>1, <2>2, <2>3
  <1> QED
    BY <1>1, Inductive, PTL

\* A client that retries a send with its client_msg_id never stores it twice.
THEOREM RetryStoresOnce == Spec => []OneRowPerKey
  <1>1. IInv => OneRowPerKey
    BY DEF IInv, TableInv
  <1> QED
    BY <1>1, Inductive, PTL

\* The conversation list shows "recalled" exactly when the newest message is.
THEOREM PreviewIsRight == Spec => []PreviewAgrees
  <1>1. IInv => PreviewAgrees
    BY DEF IInv, TableInv
  <1> QED
    BY <1>1, Inductive, PTL

\* No step moves the read position of somebody who stays a member back: receipts
\* write the larger value, and only joining anew starts from zero.
LEMMA ReadStep ==
  ASSUME TypeInv, [Next]_vars, NEW c \in Convs, NEW u \in members[c] \cap members'[c]
  PROVE  lastRead'[c][u] >= lastRead[c][u]
  <1>1. lastRead \in [Convs -> [Users -> Nat]] /\ u \in Users
    BY DEF TypeInv, TypeOK
  <1>2. CASE UNCHANGED lastRead
    BY <1>1, <1>2
  <1>3. ASSUME NEW h \in Handlers, MarkReadTx(h) PROVE lastRead'[c][u] >= lastRead[c][u]
    <2> DEFINE d == proc[h].conv
               v == proc[h].user
    <2>1. d \in Convs /\ v \in Users /\ proc[h].seq \in Nat
      BY <1>3, HandlerIsTyped DEF MarkReadTx, At, WellFormed, Handler
    <2>2. lastRead' = lastRead \/ lastRead' = [lastRead EXCEPT ![d][v] = Larger(@, proc[h].seq)]
      BY <1>3 DEF MarkReadTx
    <2> HIDE DEF d, v
    <2> QED
      BY <1>1, <2>1, <2>2 DEF Larger
  <1>4. ASSUME NEW d \in Convs, NEW v \in Users, AddMember(d, v)
        PROVE  lastRead'[c][u] >= lastRead[c][u]
    <2>1. lastRead' = [lastRead EXCEPT ![d][v] = 0] /\ v \notin members[d]
      BY <1>4 DEF AddMember
    <2>2. ~(d = c /\ v = u)
      BY <2>1
    <2> QED
      BY <1>1, <2>1, <2>2
  <1>5. \/ UNCHANGED lastRead
        \/ \E h \in Handlers : MarkReadTx(h)
        \/ \E d \in Convs, v \in Users : AddMember(d, v)
    <2>1. ASSUME NEW h \in Handlers, Request(h) PROVE UNCHANGED lastRead
      BY <2>1 DEF Request, SendMessage, RecallMessage, MarkRead, dbVars
    <2>2. ASSUME NEW h \in Handlers, Proceed(h) PROVE UNCHANGED lastRead \/ MarkReadTx(h)
      BY <2>2 DEF Proceed, LockConversation, FindExisting, FindNone, InsertMessage,
           InsertRefused, ApplyDeliveryStatus, SenderSummary, ReadMembers, EmitAccepted,
           SummariseFor, AppendPersisted, FinishSend, RecallTx, ReadRecipients,
           EmitRecalled, EmitRead, dbVars
    <2>3. ASSUME Environment
          PROVE  UNCHANGED lastRead \/ \E d \in Convs, v \in Users : AddMember(d, v)
      BY <2>3 DEF Environment, RemoveMember, SetPresence, Crash, dbVars
    <2>4. UNCHANGED vars => UNCHANGED lastRead
      BY DEF vars, dbVars
    <2> QED
      BY <2>1, <2>2, <2>3, <2>4 DEF Next
  <1> QED
    BY <1>2, <1>3, <1>4, <1>5

\* Read positions only move forward, whatever order the requests of several tabs
\* are executed in (repository.MarkConversationRead).
THEOREM ReadMovesForward == Spec => ReadNeverRegresses
  <1>1. TypeInv /\ [Next]_vars
          => [\A c \in Convs : \A u \in members[c] \cap members'[c] :
                lastRead'[c][u] >= lastRead[c][u]]_vars
    BY ReadStep
  <1> QED
    BY <1>1, InitType, NextType, PTL DEF Spec, ReadNeverRegresses
-----------------------------------------------------------------------------
(***************************************************************************)
(* The message path implements ConversationLog: every step of it is, under *)
(* the mapping Log, a step of the abstract log or leaves it as it is.      *)
(***************************************************************************)

\* A receipt on its way names a position the conversation has.
TargetInv ==
    \A h \in Handlers : proc[h].pc = "markRead" => proc[h].seq <= lastSeq[proc[h].conv]

\* What the log is made of.
logVars == <<messages, recalled, lastSeq, lastRead>>

\* The steps that change the log.
LogStep ==
    \/ \E h \in Handlers : InsertMessage(h) \/ RecallTx(h) \/ MarkReadTx(h)
    \/ \E c \in Convs, u \in Users : AddMember(c, u)

\* Every other step leaves what the log is made of alone.
LEMMA OtherStepsStutter == [Next]_vars => LogStep \/ UNCHANGED logVars
  <1> SUFFICES ASSUME [Next]_vars PROVE LogStep \/ UNCHANGED logVars
    OBVIOUS
  <1>1. ASSUME NEW h \in Handlers, Request(h) PROVE UNCHANGED logVars
    BY <1>1 DEF Request, SendMessage, RecallMessage, MarkRead, dbVars, logVars
  <1>2. ASSUME NEW h \in Handlers, Proceed(h)
        PROVE  UNCHANGED logVars \/ InsertMessage(h) \/ RecallTx(h) \/ MarkReadTx(h)
    BY <1>2 DEF Proceed, LockConversation, FindExisting, FindNone, InsertRefused,
         ApplyDeliveryStatus, SenderSummary, ReadMembers, EmitAccepted, SummariseFor,
         AppendPersisted, FinishSend, ReadRecipients, EmitRecalled, EmitRead, dbVars, logVars
  <1>3. ASSUME Environment
        PROVE  UNCHANGED logVars \/ \E c \in Convs, u \in Users : AddMember(c, u)
    BY <1>3 DEF Environment, RemoveMember, SetPresence, Crash, dbVars, logVars
  <1>4. UNCHANGED vars => UNCHANGED logVars
    BY DEF vars, dbVars, logVars
  <1> QED
    BY <1>1, <1>2, <1>3, <1>4 DEF Next, LogStep

\* A handler enters "markRead" by MarkRead only.
LEMMA TargetStep == IInv /\ TargetInv /\ [Next]_vars => TargetInv'
  <1> SUFFICES ASSUME IInv, TargetInv, [Next]_vars, NEW g \in Handlers, proc'[g].pc = "markRead"
               PROVE  proc'[g].seq <= lastSeq'[proc'[g].conv]
    BY DEF TargetInv
  <1>0. /\ TypeInv
        /\ proc \in [Handlers -> Handler]
        /\ lastSeq \in [Convs -> Nat]
    BY DEF IInv, TypeInv, TypeOK
  <1>1. \A c \in Convs : lastSeq'[c] \in Nat /\ lastSeq'[c] >= lastSeq[c]
    <2>1. ASSUME NEW h \in Handlers, InsertMessage(h)
          PROVE  \A c \in Convs : lastSeq'[c] \in Nat /\ lastSeq'[c] >= lastSeq[c]
      <3>1. /\ lastSeq' = [lastSeq EXCEPT ![proc[h].conv] = proc[h].seq + 1]
            /\ proc[h].pc = "insert"
        BY <2>1 DEF InsertMessage, At
      <3>2. proc[h].seq = lastSeq[proc[h].conv] /\ proc[h].seq \in Nat
        BY <1>0, <3>1, HandlerIsTyped DEF IInv, HandlerInv, LockInv, InTx, Handler
      <3> QED
        BY <1>0, <3>1, <3>2
    <2>2. UNCHANGED lastSeq \/ \E h \in Handlers : InsertMessage(h)
      BY OtherStepsStutter DEF LogStep, logVars, RecallTx, MarkReadTx, AddMember
    <2> QED
      BY <1>0, <2>1, <2>2
  <1>2. CASE proc'[g] = proc[g]
    <2>1. proc[g].seq <= lastSeq[proc[g].conv] /\ proc[g].seq \in Nat /\ proc[g].conv \in Convs
      BY <1>0, <1>2, HandlerIsTyped DEF TargetInv, WellFormed, Handler
    <2> QED
      BY <1>0, <1>1, <1>2, <2>1
  <1>3. ASSUME NEW u \in Users, NEW c \in Convs, NEW s \in 0..lastSeq[c], MarkRead(g, u, c, s)
        PROVE  proc'[g].seq <= lastSeq'[proc'[g].conv]
    <2>1. proc'[g].seq = (IF s = 0 THEN lastSeq[c] ELSE s) /\ proc'[g].conv = c
      BY <1>0, <1>3 DEF MarkRead, Idle
    <2> QED
      BY <1>0, <1>1, <2>1
  <1>4. \/ proc'[g] = proc[g]
        \/ \E u \in Users, c \in Convs : \E s \in 0..lastSeq[c] : MarkRead(g, u, c, s)
    <2>1. ASSUME NEW h \in Handlers, Request(h), h # g PROVE proc'[g] = proc[g]
      BY <1>0, <2>1 DEF Request, SendMessage, RecallMessage, MarkRead
    <2>2. ASSUME NEW u \in Users, NEW c \in Convs, NEW k \in Keys, SendMessage(g, u, c, k)
          PROVE  proc'[g].pc = "lock"
      BY <1>0, <2>2 DEF SendMessage, Idle
    <2>5. ASSUME NEW u \in Users, NEW m \in messages, RecallMessage(g, u, m)
          PROVE  proc'[g].pc = "recall"
      BY <1>0, <2>5 DEF RecallMessage, Idle
    <2>6. ASSUME NEW h \in Handlers, Proceed(h), h # g PROVE proc'[g] = proc[g]
      BY <1>0, <2>6
         DEF Proceed, Return, LockConversation, FindExisting, FindNone, InsertMessage,
             InsertRefused, ApplyDeliveryStatus, SenderSummary, ReadMembers, EmitAccepted,
             SummariseFor, AppendPersisted, FinishSend, RecallTx, MarkReadTx, ReadRecipients,
             EmitRecalled, EmitRead
    <2>7. ASSUME Proceed(g) PROVE proc'[g].pc # "markRead"
      <3>1. /\ proc[g] \in Handler
            /\ Idle.pc = "idle"
        BY <1>0, HandlerIsTyped DEF Idle
      <3>2. ~(LockConversation(g) \/ FindNone(g))
        BY <1>0, <3>1 DEF LockConversation, FindNone, Handler
      <3>7. ASSUME FindExisting(g) PROVE FALSE
        <4>1. PICK m : proc' = [proc EXCEPT ![g].pc = "delivery", ![g].row = m,
                                            ![g].created = FALSE]
          BY <3>7 DEF FindExisting
        <4> QED
          BY <1>0, <3>1, <4>1 DEF Handler
      <3>8. ~InsertMessage(g)
        BY <1>0, <3>1 DEF InsertMessage, Handler
      <3>3. ~(InsertRefused(g) \/ ApplyDeliveryStatus(g) \/ SenderSummary(g) \/ ReadMembers(g))
        BY <1>0, <3>1 DEF InsertRefused, ApplyDeliveryStatus, SenderSummary, ReadMembers, Return,
                          Handler
      <3>4. ~(EmitAccepted(g) \/ AppendPersisted(g) \/ FinishSend(g) \/ RecallTx(g))
        BY <1>0, <3>1 DEF EmitAccepted, AppendPersisted, FinishSend, RecallTx, Return, Handler
      <3>5. ASSUME NEW u \in Users, SummariseFor(g, u) PROVE FALSE
        BY <1>0, <3>1, <3>5 DEF SummariseFor, At, Handler
      <3>6. ~(MarkReadTx(g) \/ ReadRecipients(g) \/ EmitRecalled(g) \/ EmitRead(g))
        BY <1>0, <3>1 DEF MarkReadTx, ReadRecipients, EmitRecalled, EmitRead, Return, Handler
      <3> QED
        BY <2>7, <3>2, <3>3, <3>4, <3>5, <3>6, <3>7, <3>8 DEF Proceed
    <2>3. ASSUME Environment PROVE proc'[g] = proc[g] \/ proc'[g].pc = "idle"
      BY <2>3 DEF Environment, RemoveMember, AddMember, SetPresence, Crash, Idle
    <2>4. UNCHANGED vars => proc'[g] = proc[g]
      BY DEF vars
    <2> QED
      BY <2>1, <2>2, <2>3, <2>4, <2>5, <2>6, <2>7 DEF Next, Request
  <1> QED
    BY <1>2, <1>3, <1>4

-----------------------------------------------------------------------------
\* The log as the messages give it: position s holds what the message with this
\* seq says.
LEMMA LogEntries ==
  ASSUME IInv, NEW c \in Convs
  PROVE  /\ DOMAIN LogOf(c) = 1..lastSeq[c]
         /\ \A m \in messages :
              m.conv = c => /\ m.seq \in 1..lastSeq[c]
                            /\ LogOf(c)[m.seq] = [sender |-> m.sender, key |-> m.key]
         /\ \A s \in 1..lastSeq[c] : \E m \in messages : m.conv = c /\ m.seq = s
  <1>1. /\ \A s \in 1..lastSeq[c] : \E m \in messages : m.conv = c /\ m.seq = s
        /\ \A m \in messages : m.conv = c => m.seq \in 1..lastSeq[c]
        /\ \A m, n \in messages : m.conv = c /\ n.conv = c /\ m.seq = n.seq => m = n
    BY DEF IInv, TableInv, SeqDense
  <1>2. ASSUME NEW m \in messages, m.conv = c
        PROVE  LogOf(c)[m.seq] = [sender |-> m.sender, key |-> m.key]
    <2>1. (CHOOSE n \in messages : n.conv = c /\ n.seq = m.seq) = m
      BY <1>1, <1>2
    <2> QED
      BY <1>1, <1>2, <2>1 DEF LogOf
  <1>3. DOMAIN LogOf(c) = 1..lastSeq[c]
    BY DEF LogOf
  <1> QED
    BY <1>1, <1>2, <1>3

\* The log is a sequence of entries.
LEMMA LogIsSequence ==
  ASSUME IInv, NEW c \in Convs
  PROVE  LogOf(c) \in Seq(Log!Entry) /\ Len(LogOf(c)) = lastSeq[c]
  <1>1. lastSeq[c] \in Nat
    BY DEF IInv, TypeInv, TypeOK
  <1>2. \A s \in 1..lastSeq[c] : LogOf(c)[s] \in Log!Entry
    <2> SUFFICES ASSUME NEW s \in 1..lastSeq[c] PROVE LogOf(c)[s] \in Log!Entry
      OBVIOUS
    <2>1. PICK m \in messages : m.conv = c /\ m.seq = s
      BY LogEntries
    <2>2. m.sender \in Users /\ m.key \in Keys
      BY <2>1 DEF IInv, TypeInv, TypeOK, Message
    <2>3. LogOf(c)[s] = [sender |-> m.sender, key |-> m.key]
      BY <2>1, LogEntries
    <2> QED
      BY <2>2, <2>3 DEF Log!Entry
  <1>3. LogOf(c) \in [1..lastSeq[c] -> Log!Entry]
    <2>1. LogOf(c) = [s \in 1..lastSeq[c] |-> LogOf(c)[s]]
      BY DEF LogOf
    <2> QED
      BY <1>2, <2>1
  <1>4. LogOf(c) \in Seq(Log!Entry)
    BY <1>1, <1>3, SeqDef
  <1>5. DOMAIN LogOf(c) = 1..lastSeq[c]
    BY <1>3
  <1> QED
    BY <1>1, <1>4, <1>5, LenProperties

\* The same as one fact, for this state and the next.
LogFacts ==
    \A c \in Convs :
        /\ LogOf(c) \in Seq(Log!Entry) /\ Len(LogOf(c)) = lastSeq[c]
        /\ \A m \in messages :
             m.conv = c => /\ m.seq \in 1..lastSeq[c]
                           /\ LogOf(c)[m.seq] = [sender |-> m.sender, key |-> m.key]
        /\ \A s \in 1..lastSeq[c] : \E m \in messages : m.conv = c /\ m.seq = s

\* They hold now ...
LEMMA LogFactsNow == IInv => LogFacts
  BY LogEntries, LogIsSequence DEF LogFacts

\* ... and after a step.
LEMMA LogFactsNext == IInv' => LogFacts'
  BY LogFactsNow, PTL

\* A step that keeps a conversation's messages and number keeps its log.
LEMMA LogKept ==
  ASSUME LogFacts, LogFacts', NEW c \in Convs, messages \subseteq messages', lastSeq'[c] = lastSeq[c]
  PROVE  LogOf(c)' = LogOf(c)
  <1>1. /\ LogOf(c) \in Seq(Log!Entry) /\ LogOf(c)' \in Seq(Log!Entry)
        /\ Len(LogOf(c)) = lastSeq[c] /\ Len(LogOf(c)') = lastSeq[c]
    BY DEF LogFacts
  <1>2. ASSUME NEW s \in 1..lastSeq[c] PROVE LogOf(c)'[s] = LogOf(c)[s]
    <2>1. PICK m \in messages : m.conv = c /\ m.seq = s
      BY DEF LogFacts
    <2>2. LogOf(c)[s] = [sender |-> m.sender, key |-> m.key]
      BY <2>1 DEF LogFacts
    <2>3. LogOf(c)'[s] = [sender |-> m.sender, key |-> m.key]
      BY <2>1 DEF LogFacts
    <2> QED
      BY <2>2, <2>3
  <1> HIDE DEF LogFacts
  <1> QED
    BY <1>1, <1>2, SeqEqual

\* The insert of a message is Send: an entry nobody has, at the end of one log.
LEMMA InsertIsSend ==
  ASSUME IInv, IInv', NEW h \in Handlers, InsertMessage(h)
  PROVE  Log!Next
  <1>1. /\ proc[h].pc = "insert" /\ proc[h].conv \in Convs
        /\ proc[h].user \in Users /\ proc[h].key \in Keys
    BY HandlerIsTyped DEF IInv, InsertMessage, At, WellFormed, HoldsKey
  <1>12. PICK c \in Convs : c = proc[h].conv
    BY <1>1
  <1> DEFINE e == [sender |-> proc[h].user, key |-> proc[h].key]
             m == [id |-> nextId, conv |-> c, seq |-> proc[h].seq + 1,
                   sender |-> proc[h].user, key |-> proc[h].key]
  <1>0. LogFacts /\ LogFacts'
    BY LogFactsNow, LogFactsNext
  <1>2. proc[h].seq = lastSeq[c] /\ lastSeq \in [Convs -> Nat]
    BY <1>1, <1>12 DEF IInv, TypeInv, TypeOK, HandlerInv, LockInv, InTx
  <1>3. /\ messages' = messages \cup {m}
        /\ lastSeq' = [lastSeq EXCEPT ![c] = m.seq]
        /\ recalled' = recalled /\ lastRead' = lastRead
        /\ \A n \in messages : ~(n.sender = proc[h].user /\ n.key = proc[h].key)
    BY <1>12 DEF InsertMessage, KeyFree, SameKey
  <1>4. /\ m.id = nextId /\ m.conv = c /\ m.seq = lastSeq[c] + 1
        /\ m.sender = proc[h].user /\ m.key = proc[h].key
    BY <1>2
  <1> HIDE DEF m
  <1>5. e \in Log!Entry
    BY <1>1 DEF Log!Entry
  <1>6. ~Log!Contains(e)
    <2> SUFFICES ASSUME NEW d \in Convs, NEW i \in DOMAIN LogOf(d), LogOf(d)[i] = e
                 PROVE  FALSE
      BY DEF Log!Contains
    <2>1. i \in 1..lastSeq[d]
      BY LogEntries
    <2>2. PICK n \in messages : n.conv = d /\ n.seq = i
      BY <2>1, LogEntries
    <2>3. LogOf(d)[i] = [sender |-> n.sender, key |-> n.key]
      BY <2>2, LogEntries
    <2> QED
      BY <1>3, <2>3
  <1>7. \A d \in Convs \ {c} : LogOf(d)' = LogOf(d)
    BY <1>0, <1>2, <1>3, LogKept
  <1>8. LogOf(c)' = Append(LogOf(c), e)
    <2>1. /\ LogOf(c) \in Seq(Log!Entry) /\ LogOf(c)' \in Seq(Log!Entry)
          /\ Len(LogOf(c)) = lastSeq[c] /\ Len(LogOf(c)') = lastSeq[c] + 1
      BY <1>0, <1>1, <1>2, <1>3, <1>4 DEF LogFacts
    <2>2. /\ Append(LogOf(c), e) \in Seq(Log!Entry)
          /\ Len(Append(LogOf(c), e)) = lastSeq[c] + 1
          /\ \A i \in 1..lastSeq[c] : Append(LogOf(c), e)[i] = LogOf(c)[i]
          /\ Append(LogOf(c), e)[lastSeq[c] + 1] = e
      BY <2>1, <1>5, AppendProperties
    <2>3. ASSUME NEW s \in 1..lastSeq[c] PROVE LogOf(c)'[s] = LogOf(c)[s]
      <3>1. PICK n \in messages : n.conv = c /\ n.seq = s
        BY <1>0, <1>1 DEF LogFacts
      <3>2. LogOf(c)[s] = [sender |-> n.sender, key |-> n.key]
        BY <1>0, <1>1, <3>1 DEF LogFacts
      <3>3. LogOf(c)'[s] = [sender |-> n.sender, key |-> n.key]
        BY <1>0, <1>1, <1>3, <3>1 DEF LogFacts
      <3> QED
        BY <3>2, <3>3
    <2>4. LogOf(c)'[lastSeq[c] + 1] = e
      BY <1>0, <1>1, <1>3, <1>4 DEF LogFacts
    <2>5. \A s \in 1..(lastSeq[c] + 1) : LogOf(c)'[s] = Append(LogOf(c), e)[s]
      <3>1. \A s \in 1..(lastSeq[c] + 1) : s \in 1..lastSeq[c] \/ s = lastSeq[c] + 1
        BY <1>1, <1>2
      <3> QED
        BY <2>2, <2>3, <2>4, <3>1
    <2> QED
      BY <2>1, <2>2, <2>5, SeqEqual
  <1>9. {<<n.conv, n.seq>> : n \in {o \in messages' : o.id \in recalled'}}
          = {<<n.conv, n.seq>> : n \in {o \in messages : o.id \in recalled}}
    <2>1. nextId \notin recalled
      BY DEF IInv, TypeInv, TypeOK, TableInv, IdInv
    <2>2. {o \in messages' : o.id \in recalled'} = {o \in messages : o.id \in recalled}
      BY <1>3, <1>4, <2>1
    <2> QED
      BY <2>2
  <1>10. [d \in Convs |-> LogOf(d)'] = [[d \in Convs |-> LogOf(d)] EXCEPT ![c] = Append(@, e)]
    BY <1>1, <1>7, <1>8
  <1>11. Log!Send(c, e)
    BY <1>3, <1>6, <1>9, <1>10 DEF Log!Send
  <1> QED
    BY <1>1, <1>5, <1>11 DEF Log!Next

\* The log and the read positions as they were: nothing happens, but perhaps to the
\* recalled ones or a position.
LEMMA LogUnchanged ==
  ASSUME UNCHANGED <<messages, lastSeq>>
  PROVE  [c \in Convs |-> LogOf(c)'] = [c \in Convs |-> LogOf(c)]
  BY DEF LogOf

\* The transaction of a recall is Recall of the message's position.
LEMMA RecallIsRecall ==
  ASSUME IInv, NEW h \in Handlers, RecallTx(h)
  PROVE  Log!Next
  <1>1. /\ proc[h].pc = "recall" /\ proc[h].row \in messages
    BY DEF RecallTx, At, IInv, HandlerInv, RowInv, HoldsRow
  <1>2. PICK m \in messages : m = proc[h].row
    BY <1>1
  <1>3. m.conv \in Convs /\ m.seq \in DOMAIN LogOf(m.conv)
    <2>1. m.conv \in Convs
      BY DEF IInv, TypeInv, TypeOK, Message
    <2> QED
      BY <2>1, LogEntries
  <1>4. recalled' = recalled \cup {m.id} /\ UNCHANGED <<messages, lastSeq, lastRead>>
    BY <1>2 DEF RecallTx
  <1>5. {<<n.conv, n.seq>> : n \in {o \in messages' : o.id \in recalled'}}
          = {<<n.conv, n.seq>> : n \in {o \in messages : o.id \in recalled}}
            \cup {<<m.conv, m.seq>>}
    <2>1. {o \in messages' : o.id \in recalled'} = {o \in messages : o.id \in recalled} \cup {m}
      BY <1>4 DEF IInv, TableInv, IdInv
    <2> QED
      BY <2>1
  <1>6. Log!Recall(m.conv, m.seq)
    BY <1>4, <1>5, LogUnchanged DEF Log!Recall
  <1> QED
    BY <1>3, <1>6 DEF Log!Next

\* A receipt is Read when it moves the position, and nothing otherwise.
LEMMA MarkReadIsRead ==
  ASSUME IInv, TargetInv, NEW h \in Handlers, MarkReadTx(h)
  PROVE  Log!Next \/ UNCHANGED Log!vars
  <1>1. /\ proc[h].pc = "markRead" /\ proc[h].conv \in Convs /\ proc[h].user \in Users
        /\ proc[h].seq \in Nat /\ proc[h].seq <= lastSeq[proc[h].conv]
    BY HandlerIsTyped DEF MarkReadTx, At, WellFormed, Handler, TargetInv, IInv
  <1>2. PICK c \in Convs, u \in Users, i \in Nat :
          c = proc[h].conv /\ u = proc[h].user /\ i = proc[h].seq
    BY <1>1
  <1>3. /\ UNCHANGED <<messages, recalled, lastSeq>>
        /\ lastRead' = lastRead \/ lastRead' = [lastRead EXCEPT ![c][u] = Larger(@, i)]
    BY <1>2 DEF MarkReadTx
  <1>4. lastRead \in [Convs -> [Users -> Nat]] /\ lastSeq[c] \in Nat
    BY DEF IInv, TypeInv, TypeOK
  <1>5. CASE lastRead' = lastRead
    BY <1>3, <1>5, LogUnchanged DEF Log!vars
  <1>6. CASE lastRead' = [lastRead EXCEPT ![c][u] = Larger(@, i)] /\ i <= lastRead[c][u]
    <2>1. Larger(lastRead[c][u], i) = lastRead[c][u]
      BY <1>4, <1>6 DEF Larger
    <2>2. lastRead' = lastRead
      BY <1>4, <1>6, <2>1
    <2> QED
      BY <1>5, <2>2
  <1>7. CASE lastRead' = [lastRead EXCEPT ![c][u] = Larger(@, i)] /\ i > lastRead[c][u]
    <2>1. Larger(lastRead[c][u], i) = i
      BY <1>4, <1>7 DEF Larger
    <2>2. lastRead' = [lastRead EXCEPT ![c][u] = i]
      BY <1>7, <2>1
    <2>3. i \in DOMAIN LogOf(c)
      BY <1>1, <1>2, <1>4, <1>7, LogEntries
    <2>4. Log!Read(c, u, i)
      BY <1>3, <1>7, <2>2, LogUnchanged DEF Log!Read
    <2> QED
      BY <2>3, <2>4 DEF Log!Next
  <1> QED
    BY <1>3, <1>4, <1>5, <1>6, <1>7

\* Every step of the message path is a step of the log or leaves it alone.
LEMMA StepSimulation ==
  IInv /\ IInv' /\ TargetInv /\ [Next]_vars => [Log!Next]_(Log!vars)
  <1> SUFFICES ASSUME IInv, IInv', TargetInv, [Next]_vars
               PROVE  Log!Next \/ UNCHANGED Log!vars
    OBVIOUS
  <1>1. CASE UNCHANGED logVars
    BY <1>1, LogUnchanged DEF Log!vars, logVars
  <1>2. ASSUME NEW c \in Convs, NEW u \in Users, AddMember(c, u) PROVE Log!Next
    <2>1. UNCHANGED <<messages, recalled, lastSeq>> /\ lastRead' = [lastRead EXCEPT ![c][u] = 0]
      BY <1>2 DEF AddMember
    <2>2. Log!Join(c, u)
      BY <2>1, LogUnchanged DEF Log!Join
    <2> QED
      BY <2>2 DEF Log!Next
  <1> QED
    BY <1>1, <1>2, OtherStepsStutter, InsertIsSend, RecallIsRecall, MarkReadIsRead DEF LogStep

\* The message store is a log per conversation: under any number of concurrent
\* sends, retries, recalls, receipts, membership changes and crashes, its tables
\* behave as ConversationLog says.
THEOREM StoreIsLog == Spec => ImplementsLog
  <1>1. Init => Log!Init
    <2> SUFFICES ASSUME Init PROVE Log!Init
      OBVIOUS
    <2>1. \A c \in Convs : LogOf(c) = <<>>
      BY DEF Init, LogOf
    <2>2. {<<m.conv, m.seq>> : m \in {n \in messages : n.id \in recalled}} = {}
      BY DEF Init
    <2> QED
      BY <2>1, <2>2 DEF Init, Log!Init
  <1>2. Init => TargetInv
    BY DEF Init, TargetInv, Idle
  <1> QED
    BY <1>1, <1>2, Inductive, TargetStep, StepSimulation, PTL DEF Spec, ImplementsLog, Log!Spec
-----------------------------------------------------------------------------
(***************************************************************************)
(* The sync records of messages and read positions.                        *)
(*                                                                         *)
(* A record is appended several statements after the row it tells of is    *)
(* written, so that what the streams hold and what the requests in flight  *)
(* still owe are related (RecInv): who stored a message owes each member a *)
(* record until it has appended it, and until then nobody else has.        *)
(***************************************************************************)

\* The labels between the first read of the summary and the last record.
Fanning == {"summary", "members", "accepted", "fanout", "append"}

\* The request with record p has stored a message of its own and is not done with
\* announcing it.
Creates(p) == p.pc \in Fanning \/ (p.pc = "delivery" /\ p.created)

\* It has yet to append the record for u.
Owes(p, u) ==
    \/ p.pc \notin {"accepted", "fanout", "append"}
    \/ u \in p.todo
    \/ p.pc = "append" /\ u = p.to

\* The message is of the request's conversation, and a summary it has read counts it.
Sound(p) ==
    /\ p.row.conv = p.conv
    /\ p.pc = "append" => p.row.seq <= p.seq /\ p.to \notin p.todo

\* The stream st announces message i.
Announces(st, i) ==
    \E k \in DOMAIN st : st[k].type = "message.persisted" /\ st[k].msg = i

\* What a request still has to announce to somebody nobody has announced to him, and
\* every message has one request that announces it.
CreatorInv ==
    \A h \in Handlers : Creates(proc[h]) =>
        /\ Sound(proc[h])
        /\ \A u \in Users : Owes(proc[h], u) => ~Announces(stream[u], proc[h].row.id)
        /\ \A g \in Handlers : Creates(proc[g]) /\ proc[g].row.id = proc[h].row.id => g = h

\* Every message is announced to every member, or a request will.
MessagesReach ==
    \A m \in messages : \A u \in members[m.conv] :
        \/ Announces(stream[u], m.id)
        \/ \E h \in Handlers : Creates(proc[h]) /\ proc[h].row = m /\ Owes(proc[h], u)

\* The stream st has a receipt of reader r for position s.
HasReceipt(st, c, r, s) ==
    \E k \in DOMAIN st :
        st[k].type = "message.read" /\ st[k].conv = c /\ st[k].user = r /\ st[k].seq = s

\* The request with record p will append that receipt for u.
Carries(p, u, c, r, s) ==
    /\ p.pc = "recipients" \/ (p.pc = "emit" /\ u \in p.todo)
    /\ p.row = None /\ p.conv = c /\ p.user = r /\ p.seq = s

\* So it is with the stored read positions.
ReceiptsReach ==
    \A c \in Convs : \A u, r \in members[c] : lastRead[c][r] > 0 =>
        \/ HasReceipt(stream[u], c, r, lastRead[c][r])
        \/ \E h \in Handlers : Carries(proc[h], u, c, r, lastRead[c][r])

\* Who sends is a member and so are the recipients left, if no membership changed.
Stays(p) ==
    /\ p.pc \in HoldsKey \cup {"delivery"} \cup Fanning => p.user \in members[p.conv]
    /\ p.pc \in {"accepted", "fanout", "append"} => p.todo \subseteq members[p.conv]
    /\ p.pc = "markRead" => p.row = None

StaysInv == \A h \in Handlers : Stays(proc[h])

\* With no crash, no membership and no presence change.
Undisturbed == envSteps = 0 => MessagesReach /\ ReceiptsReach /\ StaysInv

RecInv == SummaryCoversMessage /\ AnnouncedOnce /\ CreatorInv /\ Undisturbed

-----------------------------------------------------------------------------
\* The end of what Emit does to one stream.
LEMMA EmitOne ==
  ASSUME TypeInv, NEW us, NEW e \in SyncEvent, Emit(us, e), NEW u \in Users
  PROVE  /\ stream[u] \in Seq(SyncEvent) /\ Len(stream[u]) \in Nat
         /\ DOMAIN stream[u] = 1..Len(stream[u])
         /\ \A k \in DOMAIN stream[u] : k \in DOMAIN stream'[u] /\ stream'[u][k] = stream[u][k]
         /\ u \notin us => stream'[u] = stream[u]
         /\ u \in us =>
              /\ DOMAIN stream'[u] = 1..(Len(stream[u]) + 1)
              /\ stream'[u][Len(stream[u]) + 1] = e
  <1>1. stream[u] \in Seq(SyncEvent)
    BY DEF TypeInv, TypeOK
  <1>2. stream'[u] = IF u \in us THEN Append(stream[u], e) ELSE stream[u]
    BY DEF Emit
  <1>3. /\ Len(stream[u]) \in Nat /\ DOMAIN stream[u] = 1..Len(stream[u])
        /\ DOMAIN Append(stream[u], e) = 1..(Len(stream[u]) + 1)
        /\ \A k \in 1..Len(stream[u]) : Append(stream[u], e)[k] = stream[u][k]
        /\ Append(stream[u], e)[Len(stream[u]) + 1] = e
    BY <1>1
  <1> QED
    BY <1>1, <1>2, <1>3

\* A record that announces nothing leaves what is said of announcements as it is.
LEMMA EmitOther ==
  ASSUME TypeInv, NEW us, NEW e \in SyncEvent, Emit(us, e), e.type # "message.persisted",
         SummaryCoversMessage, AnnouncedOnce, UNCHANGED messages
  PROVE  /\ SummaryCoversMessage' /\ AnnouncedOnce'
         /\ \A u \in Users : \A i : Announces(stream'[u], i) <=> Announces(stream[u], i)
  <1>1. ASSUME NEW u \in Users, NEW k \in DOMAIN stream'[u],
               stream'[u][k].type = "message.persisted"
        PROVE  k \in DOMAIN stream[u] /\ stream'[u][k] = stream[u][k]
    BY <1>1, EmitOne
  <1>2. ASSUME NEW u \in Users, NEW k \in DOMAIN stream[u]
        PROVE  k \in DOMAIN stream'[u] /\ stream'[u][k] = stream[u][k]
    BY EmitOne
  <1>3. SummaryCoversMessage'
    BY <1>1 DEF SummaryCoversMessage, Received
  <1>4. AnnouncedOnce'
    BY <1>1 DEF AnnouncedOnce
  <1>5. \A u \in Users : \A i : Announces(stream'[u], i) <=> Announces(stream[u], i)
    BY <1>1, <1>2 DEF Announces
  <1> QED
    BY <1>3, <1>4, <1>5

\* Records stay.
LEMMA EmitKeeps ==
  ASSUME TypeInv, NEW us, NEW e \in SyncEvent, Emit(us, e)
  PROVE  /\ \A u \in Users : \A i : Announces(stream[u], i) => Announces(stream'[u], i)
         /\ \A u \in Users : \A c, r, s : HasReceipt(stream[u], c, r, s) => HasReceipt(stream'[u], c, r, s)
  <1>1. ASSUME NEW u \in Users, NEW k \in DOMAIN stream[u]
        PROVE  k \in DOMAIN stream'[u] /\ stream'[u][k] = stream[u][k]
    BY EmitOne
  <1> QED
    BY <1>1 DEF Announces, HasReceipt

-----------------------------------------------------------------------------
\* One request goes from its record to q, announcing its message to those it owes
\* no more, and carrying out the receipts it carries no more.
LEMMA Move ==
  ASSUME IInv, RecInv, NEW h \in Handlers, NEW q, proc'[h] = q,
         \A g \in Handlers \ {h} : proc'[g] = proc[g],
         UNCHANGED <<messages, members, lastRead, envSteps>>,
         SummaryCoversMessage' /\ AnnouncedOnce',
         \A u \in Users : \A i : Announces(stream[u], i) => Announces(stream'[u], i),
         \A u \in Users : \A i : Announces(stream'[u], i) =>
            Announces(stream[u], i) \/ (Creates(proc[h]) /\ i = proc[h].row.id /\ ~Owes(q, u)),
         \A u \in Users : \A c, r, s : HasReceipt(stream[u], c, r, s) => HasReceipt(stream'[u], c, r, s),
         Creates(q) => /\ Creates(proc[h]) /\ q.row = proc[h].row /\ Sound(q)
                       /\ \A u \in Users : Owes(q, u) => Owes(proc[h], u),
         envSteps = 0 =>
            /\ Stays(q)
            /\ Creates(proc[h]) => \A u \in members[proc[h].row.conv] : Owes(proc[h], u) =>
                  (Creates(q) /\ q.row = proc[h].row /\ Owes(q, u)) \/ Announces(stream'[u], proc[h].row.id)
            /\ \A c \in Convs : \A u \in members[c] : \A r, s : Carries(proc[h], u, c, r, s) =>
                  Carries(q, u, c, r, s) \/ HasReceipt(stream'[u], c, r, s)
  PROVE  RecInv'
  <1>1. CreatorInv'
    <2> SUFFICES ASSUME NEW g \in Handlers, Creates(proc'[g])
                 PROVE  /\ Sound(proc'[g])
                        /\ \A u \in Users : Owes(proc'[g], u) => ~Announces(stream'[u], proc'[g].row.id)
                        /\ \A f \in Handlers :
                             Creates(proc'[f]) /\ proc'[f].row.id = proc'[g].row.id => f = g
      BY DEF CreatorInv, Creates, Sound, Owes, Announces
    <2>1. \A f \in Handlers : Creates(proc'[f]) => Creates(proc[f]) /\ proc'[f].row = proc[f].row
      OBVIOUS
    <2>2. \A f \in Handlers : Creates(proc'[f]) /\ proc'[f].row.id = proc'[g].row.id => f = g
      BY <2>1 DEF RecInv, CreatorInv
    <2>3. CASE g = h
      BY <2>1, <2>2, <2>3 DEF RecInv, CreatorInv
    <2>4. CASE g # h
      <3>1. /\ proc'[g] = proc[g] /\ Creates(proc[g]) /\ Sound(proc[g])
            /\ \A u \in Users : Owes(proc[g], u) => ~Announces(stream[u], proc[g].row.id)
            /\ Creates(proc[h]) => proc[g].row.id # proc[h].row.id
        BY <2>1, <2>4 DEF RecInv, CreatorInv
      <3> QED
        BY <2>2, <3>1
    <2> QED
      BY <2>3, <2>4
  <1>2. ASSUME envSteps = 0 PROVE MessagesReach'
    <2> SUFFICES ASSUME NEW m \in messages, NEW u \in members[m.conv]
                 PROVE  \/ Announces(stream'[u], m.id)
                        \/ \E g \in Handlers : Creates(proc'[g]) /\ proc'[g].row = m /\ Owes(proc'[g], u)
      BY DEF MessagesReach, Creates, Owes, Announces
    <2>1. u \in Users
      BY DEF IInv, TypeInv, TypeOK, Message
    <2>2. CASE Announces(stream[u], m.id)
      BY <2>1, <2>2
    <2>3. ASSUME NEW g \in Handlers, Creates(proc[g]) /\ proc[g].row = m /\ Owes(proc[g], u)
          PROVE  \/ Announces(stream'[u], m.id)
                 \/ Creates(proc'[g]) /\ proc'[g].row = m /\ Owes(proc'[g], u)
      BY <1>2, <2>1, <2>3
    <2> QED
      BY <1>2, <2>2, <2>3 DEF RecInv, Undisturbed, MessagesReach
  <1>3. ASSUME envSteps = 0 PROVE ReceiptsReach'
    <2> SUFFICES ASSUME NEW c \in Convs, NEW u \in members[c], NEW r \in members[c],
                        lastRead[c][r] > 0
                 PROVE  \/ HasReceipt(stream'[u], c, r, lastRead[c][r])
                        \/ \E g \in Handlers : Carries(proc'[g], u, c, r, lastRead[c][r])
      BY DEF ReceiptsReach, Carries, HasReceipt
    <2>1. u \in Users
      BY DEF IInv, TypeInv, TypeOK
    <2>2. \/ HasReceipt(stream[u], c, r, lastRead[c][r])
          \/ \E g \in Handlers : Carries(proc[g], u, c, r, lastRead[c][r])
      BY <1>3 DEF RecInv, Undisturbed, ReceiptsReach
    <2>3. HasReceipt(stream[u], c, r, lastRead[c][r]) => HasReceipt(stream'[u], c, r, lastRead[c][r])
      BY <2>1 DEF HasReceipt
    <2>4. ASSUME NEW g \in Handlers, Carries(proc[g], u, c, r, lastRead[c][r])
          PROVE  \/ HasReceipt(stream'[u], c, r, lastRead[c][r])
                 \/ Carries(proc'[g], u, c, r, lastRead[c][r])
      BY <1>3, <2>1, <2>4 DEF HasReceipt
    <2> QED
      BY <2>2, <2>3, <2>4
  <1>4. ASSUME envSteps = 0 PROVE StaysInv'
    <2>1. StaysInv
      BY <1>4 DEF RecInv, Undisturbed
    <2>2. ASSUME NEW g \in Handlers PROVE Stays(proc[g])'
      <3>1. CASE g = h
        BY <1>4, <3>1 DEF Stays
      <3>2. CASE g # h
        BY <2>1, <3>2 DEF StaysInv, Stays
      <3> QED
        BY <3>1, <3>2
    <2> QED
      BY <2>2 DEF StaysInv
  <1> QED
    BY <1>1, <1>2, <1>3, <1>4 DEF RecInv, Undisturbed

\* The same for a step that appends no record.
LEMMA QuietStep ==
  ASSUME IInv, RecInv, NEW h \in Handlers, NEW q, proc'[h] = q,
         \A g \in Handlers \ {h} : proc'[g] = proc[g],
         UNCHANGED <<messages, members, lastRead, envSteps, stream>>,
         Creates(q) => /\ Creates(proc[h]) /\ q.row = proc[h].row /\ Sound(q)
                       /\ \A u \in Users : Owes(q, u) => Owes(proc[h], u),
         envSteps = 0 =>
            /\ Stays(q)
            /\ Creates(proc[h]) => \A u \in members[proc[h].row.conv] : Owes(proc[h], u) =>
                  Creates(q) /\ q.row = proc[h].row /\ Owes(q, u)
            /\ \A c \in Convs : \A u \in members[c] : \A r, s :
                  Carries(proc[h], u, c, r, s) => Carries(q, u, c, r, s)
  PROVE  RecInv'
  <1>1. SummaryCoversMessage' /\ AnnouncedOnce'
    BY DEF RecInv, SummaryCoversMessage, AnnouncedOnce, Received
  <1>2. \A u \in Users : \A i : Announces(stream'[u], i) <=> Announces(stream[u], i)
    BY DEF Announces
  <1>3. \A u \in Users : \A c, r, s : HasReceipt(stream[u], c, r, s) => HasReceipt(stream'[u], c, r, s)
    BY DEF HasReceipt
  <1> QED
    BY <1>1, <1>2, <1>3, Move

\* A request that is received, or that returns with nothing to announce.
LEMMA IdleStep ==
  ASSUME IInv, RecInv, NEW h \in Handlers, NEW q, proc'[h] = q,
         \A g \in Handlers \ {h} : proc'[g] = proc[g],
         UNCHANGED <<messages, members, lastRead, envSteps, stream>>,
         ~Creates(q), envSteps = 0 => Stays(q),
         ~Creates(proc[h]), proc[h].pc \notin {"recipients", "emit"}
  PROVE  RecInv'
  <1>1. \A u, c, r, s : ~Carries(proc[h], u, c, r, s)
    BY DEF Carries
  <1> QED
    BY <1>1, QuietStep

\* Steps that append no record and change no message and no read position.
LEMMA QuietActions ==
  ASSUME IInv, RecInv, NEW h \in Handlers, NEW u \in Users,
         \/ \E c \in Convs : \E k \in Keys : SendMessage(h, u, c, k)
         \/ \E c \in Convs : \E s \in 0..lastSeq[c] : MarkRead(h, u, c, s)
         \/ \E m \in messages : RecallMessage(h, u, m)
         \/ LockConversation(h) \/ FindExisting(h) \/ FindNone(h) \/ InsertRefused(h)
         \/ ApplyDeliveryStatus(h) \/ SenderSummary(h) \/ ReadMembers(h)
         \/ SummariseFor(h, u) \/ RecallTx(h) \/ ReadRecipients(h)
  PROVE  RecInv'
  <1> USE DEF dbVars, envVars
  <1>0. /\ TypeInv
        /\ proc \in [Handlers -> Handler] /\ proc[h] \in Handler /\ WellFormed(proc[h])
        /\ proc[h].pc \in HoldsRow => proc[h].row \in messages
        /\ envSteps = 0 => Stays(proc[h])
    BY HandlerIsTyped DEF IInv, TypeInv, TypeOK, HandlerInv, RowInv, RecInv, Undisturbed, StaysInv
  <1>1. ASSUME NEW c \in Convs, NEW k \in Keys, SendMessage(h, u, c, k) PROVE RecInv'
    <2> DEFINE q == [Idle EXCEPT !.pc = "lock", !.user = u, !.conv = c, !.key = k]
    <2>1. proc'[h] = q /\ \A g \in Handlers \ {h} : proc'[g] = proc[g]
      BY <1>0, <1>1 DEF SendMessage
    <2>2. ~Creates(q) /\ (envSteps = 0 => Stays(q))
      BY <1>1 DEF SendMessage, Creates, Stays, Idle, Fanning, HoldsKey
    <2>3. proc[h].pc = "idle" /\ UNCHANGED <<messages, members, lastRead, envSteps, stream>>
      BY <1>1 DEF SendMessage, Admit, At
    <2>4. ~Creates(proc[h])
      BY <2>3 DEF Creates, Fanning
    <2> HIDE DEF q
    <2> QED
      BY <2>1, <2>2, <2>3, <2>4, IdleStep
  <1>2. ASSUME NEW c \in Convs, NEW s \in 0..lastSeq[c], MarkRead(h, u, c, s) PROVE RecInv'
    <2> DEFINE q == [Idle EXCEPT !.pc = "markRead", !.user = u, !.conv = c,
                                 !.seq = IF s = 0 THEN lastSeq[c] ELSE s]
    <2>1. proc'[h] = q /\ \A g \in Handlers \ {h} : proc'[g] = proc[g]
      BY <1>0, <1>2 DEF MarkRead
    <2>2. ~Creates(q) /\ (envSteps = 0 => Stays(q))
      BY <1>2 DEF Creates, Stays, Idle, Fanning, HoldsKey
    <2>3. proc[h].pc = "idle" /\ UNCHANGED <<messages, members, lastRead, envSteps, stream>>
      BY <1>2 DEF MarkRead, Admit, At
    <2>4. ~Creates(proc[h])
      BY <2>3 DEF Creates, Fanning
    <2> HIDE DEF q
    <2> QED
      BY <2>1, <2>2, <2>3, <2>4, IdleStep
  <1>3. ASSUME NEW m \in messages, RecallMessage(h, u, m) PROVE RecInv'
    <2> DEFINE q == [Idle EXCEPT !.pc = "recall", !.user = u, !.conv = m.conv, !.row = m]
    <2>1. proc'[h] = q /\ \A g \in Handlers \ {h} : proc'[g] = proc[g]
      BY <1>0, <1>3 DEF RecallMessage
    <2>2. ~Creates(q) /\ (envSteps = 0 => Stays(q))
      BY <1>3 DEF Creates, Stays, Idle, Fanning, HoldsKey
    <2>3. proc[h].pc = "idle" /\ UNCHANGED <<messages, members, lastRead, envSteps, stream>>
      BY <1>3 DEF RecallMessage, Admit, At
    <2>4. ~Creates(proc[h])
      BY <2>3 DEF Creates, Fanning
    <2> HIDE DEF q
    <2> QED
      BY <2>1, <2>2, <2>3, <2>4, IdleStep
  <1>4. CASE LockConversation(h) \/ FindNone(h)
    <2>1. /\ proc[h].pc \in {"lock", "lookup"} /\ proc'[h].pc \in {"lookup", "insert"}
          /\ proc'[h].user = proc[h].user /\ proc'[h].conv = proc[h].conv
          /\ \A g \in Handlers \ {h} : proc'[g] = proc[g]
          /\ UNCHANGED <<messages, members, lastRead, envSteps, stream>>
      BY <1>0, <1>4 DEF LockConversation, FindNone, At, Handler
    <2>2. ~Creates(proc'[h]) /\ ~Creates(proc[h]) /\ (envSteps = 0 => Stays(proc'[h]))
      BY <1>0, <2>1 DEF Creates, Stays, Fanning, HoldsKey
    <2> QED
      BY <2>1, <2>2, IdleStep
  <1>5. CASE FindExisting(h)
    <2>0. PICK m : proc' = [proc EXCEPT ![h].pc = "delivery", ![h].row = m, ![h].created = FALSE]
      BY <1>5 DEF FindExisting
    <2>1. /\ proc[h].pc = "lookup" /\ proc'[h].pc = "delivery" /\ proc'[h].created = FALSE
          /\ proc'[h].user = proc[h].user /\ proc'[h].conv = proc[h].conv
          /\ \A g \in Handlers \ {h} : proc'[g] = proc[g]
          /\ UNCHANGED <<messages, members, lastRead, envSteps, stream>>
      <3>1. proc[h].pc = "lookup" /\ UNCHANGED <<messages, members, lastRead, envSteps, stream>>
        BY <1>5 DEF FindExisting, At
      <3>2. proc'[h] = [proc[h] EXCEPT !.pc = "delivery", !.row = m, !.created = FALSE]
        BY <1>0, <2>0
      <3>3. \A g \in Handlers \ {h} : proc'[g] = proc[g]
        BY <1>0, <2>0
      <3> QED
        BY <1>0, <3>1, <3>2, <3>3 DEF Handler
    <2>2. ~Creates(proc'[h]) /\ ~Creates(proc[h]) /\ (envSteps = 0 => Stays(proc'[h]))
      BY <1>0, <2>1 DEF Creates, Stays, Fanning, HoldsKey
    <2> QED
      BY <2>1, <2>2, IdleStep
  <1>6. CASE InsertRefused(h)
    <2>1. /\ proc[h].pc = "insert" /\ proc'[h].pc = "idle"
          /\ \A g \in Handlers \ {h} : proc'[g] = proc[g]
          /\ UNCHANGED <<messages, members, lastRead, envSteps, stream>>
      BY <1>0, <1>6 DEF InsertRefused, Return, Idle, At
    <2>2. ~Creates(proc'[h]) /\ ~Creates(proc[h]) /\ (envSteps = 0 => Stays(proc'[h]))
      BY <2>1 DEF Creates, Stays, Fanning, HoldsKey
    <2> QED
      BY <2>1, <2>2, IdleStep
  <1>7. CASE ApplyDeliveryStatus(h)
    <2>1. /\ proc[h].pc = "delivery" /\ proc[h].created \in BOOLEAN
          /\ \A g \in Handlers \ {h} : proc'[g] = proc[g]
          /\ UNCHANGED <<messages, members, lastRead, envSteps, stream>>
      BY <1>0, <1>7 DEF ApplyDeliveryStatus, Return, At, Handler
    <2>2. CASE ~proc[h].created
      <3>1. proc'[h].pc = "idle"
        BY <1>0, <1>7, <2>2 DEF ApplyDeliveryStatus, Return, Idle
      <3>2. ~Creates(proc'[h]) /\ ~Creates(proc[h]) /\ (envSteps = 0 => Stays(proc'[h]))
        BY <2>1, <2>2, <3>1 DEF Creates, Stays, Fanning, HoldsKey
      <3> QED
        BY <2>1, <3>1, <3>2, IdleStep
    <2>3. CASE proc[h].created
      <3>1. /\ proc'[h].pc = "summary" /\ proc'[h].row = proc[h].row
            /\ proc'[h].conv = proc[h].conv /\ proc'[h].user = proc[h].user
        BY <1>0, <1>7, <2>3 DEF ApplyDeliveryStatus, Handler
      <3>2. Creates(proc[h]) /\ Creates(proc'[h])
        BY <2>1, <2>3, <3>1 DEF Creates, Fanning
      <3>3. Sound(proc'[h])
        BY <3>1, <3>2 DEF RecInv, CreatorInv, Sound
      <3>4. \A v \in Users : Owes(proc[h], v) /\ Owes(proc'[h], v)
        BY <2>1, <3>1 DEF Owes
      <3>5. envSteps = 0 => Stays(proc'[h])
        BY <1>0, <2>1, <3>1 DEF Stays, Fanning, HoldsKey
      <3>6. \A v, c, r, s : ~Carries(proc[h], v, c, r, s)
        BY <2>1 DEF Carries
      <3>7. members[proc[h].row.conv] \subseteq Users
        BY <1>0, <2>1 DEF TypeInv, TypeOK, Message, WellFormed, HoldsRow
      <3> QED
        BY <2>1, <3>1, <3>2, <3>3, <3>4, <3>5, <3>6, <3>7, QuietStep
    <2> QED
      BY <2>1, <2>2, <2>3
  <1>8. CASE SenderSummary(h)
    <2>1. /\ proc[h].pc = "summary"
          /\ \A g \in Handlers \ {h} : proc'[g] = proc[g]
          /\ UNCHANGED <<messages, members, lastRead, envSteps, stream>>
      BY <1>0, <1>8 DEF SenderSummary, Return, At, Handler
    <2>2. Creates(proc[h]) /\ \A v \in Users : Owes(proc[h], v)
      BY <2>1 DEF Creates, Owes, Fanning
    <2>3. \A v, c, r, s : ~Carries(proc[h], v, c, r, s)
      BY <2>1 DEF Carries
    <2>4. proc[h].row.conv \in Convs /\ members[proc[h].row.conv] \subseteq Users
      BY <1>0, <2>1 DEF TypeInv, TypeOK, Message, WellFormed, HoldsRow
    <2>5. CASE proc[h].user \in members[proc[h].conv]
      <3>1. /\ proc'[h].pc = "members" /\ proc'[h].row = proc[h].row
            /\ proc'[h].conv = proc[h].conv /\ proc'[h].user = proc[h].user
        BY <1>0, <1>8, <2>5 DEF SenderSummary, Handler
      <3>2. Creates(proc'[h]) /\ \A v \in Users : Owes(proc'[h], v)
        BY <3>1 DEF Creates, Owes, Fanning
      <3>3. Sound(proc'[h])
        BY <2>2, <3>1 DEF RecInv, CreatorInv, Sound
      <3>4. envSteps = 0 => Stays(proc'[h])
        BY <1>0, <2>1, <3>1 DEF Stays, Fanning, HoldsKey
      <3> QED
        BY <2>1, <2>2, <2>3, <2>4, <3>1, <3>2, <3>3, <3>4, QuietStep
    <2>6. CASE proc[h].user \notin members[proc[h].conv]
      <3>1. proc'[h].pc = "idle"
        BY <1>0, <1>8, <2>6 DEF SenderSummary, Return, Idle
      <3>2. ~Creates(proc'[h]) /\ envSteps # 0
        BY <1>0, <2>1, <2>6, <3>1 DEF Creates, Stays, Fanning
      <3> QED
        BY <2>1, <3>2, QuietStep
    <2> QED
      BY <2>5, <2>6
  <1>9. CASE ReadMembers(h)
    <2>1. /\ proc[h].pc = "members" /\ proc'[h].pc = "accepted"
          /\ proc'[h].row = proc[h].row /\ proc'[h].conv = proc[h].conv
          /\ proc'[h].user = proc[h].user /\ proc'[h].todo = members[proc[h].conv]
          /\ \A g \in Handlers \ {h} : proc'[g] = proc[g]
          /\ UNCHANGED <<messages, members, lastRead, envSteps, stream>>
      BY <1>0, <1>9 DEF ReadMembers, At, Handler
    <2>2. Creates(proc[h]) /\ Creates(proc'[h]) /\ \A v \in Users : Owes(proc[h], v)
      BY <2>1 DEF Creates, Owes, Fanning
    <2>3. \A v, c, r, s : ~Carries(proc[h], v, c, r, s)
      BY <2>1 DEF Carries
    <2>4. Sound(proc[h]) /\ Sound(proc'[h])
      BY <2>1, <2>2 DEF RecInv, CreatorInv, Sound
    <2>5. \A v \in members[proc[h].row.conv] : Owes(proc'[h], v)
      BY <2>1, <2>4 DEF Owes, Sound
    <2>6. envSteps = 0 => Stays(proc'[h])
      BY <1>0, <2>1 DEF Stays, Fanning, HoldsKey
    <2> QED
      BY <2>1, <2>2, <2>3, <2>4, <2>5, <2>6, QuietStep
  <1>10. CASE SummariseFor(h, u)
    <2>1. /\ proc[h].pc = "fanout" /\ u \in proc[h].todo
          /\ proc'[h].row = proc[h].row /\ proc'[h].conv = proc[h].conv
          /\ proc'[h].user = proc[h].user /\ proc'[h].todo = proc[h].todo \ {u}
          /\ proc'[h].to = u /\ proc'[h].seq = lastSeq[proc[h].conv]
          /\ \A g \in Handlers \ {h} : proc'[g] = proc[g]
          /\ UNCHANGED <<messages, members, lastRead, envSteps, stream>>
      BY <1>0, <1>10 DEF SummariseFor, SummarySeq, At, Handler
    <2>2. proc'[h].pc = IF u \in members[proc[h].conv] THEN "append" ELSE "fanout"
      BY <1>0, <1>10 DEF SummariseFor, At, Handler
    <2>3. Creates(proc[h]) /\ Creates(proc'[h])
      BY <2>1, <2>2 DEF Creates, Fanning
    <2>4. \A v, c, r, s : ~Carries(proc[h], v, c, r, s)
      BY <2>1 DEF Carries
    <2>5. Sound(proc'[h])
      <3>1. proc[h].row \in messages /\ proc[h].row.conv = proc[h].conv /\ proc[h].conv \in Convs
        BY <1>0, <2>1, <2>3 DEF RecInv, CreatorInv, Sound, HoldsRow, WellFormed
      <3>2. lastSeq[proc[h].conv] \in Nat /\ proc[h].row.seq \in 1..lastSeq[proc[h].conv]
        BY <1>0, <3>1 DEF IInv, TableInv, SeqDense, TypeInv, TypeOK
      <3> QED
        BY <2>1, <3>1, <3>2 DEF Sound
    <2>6. \A v \in Users : Owes(proc'[h], v) => Owes(proc[h], v)
      BY <2>1, <2>2 DEF Owes
    <2>7. envSteps = 0 => Stays(proc'[h]) /\ \A v \in Users : Owes(proc[h], v) => Owes(proc'[h], v)
      BY <1>0, <2>1, <2>2 DEF Stays, Owes, Fanning, HoldsKey
    <2>8. members[proc[h].row.conv] \subseteq Users
      BY <1>0, <2>1 DEF TypeInv, TypeOK, Message, WellFormed, HoldsRow
    <2> QED
      BY <2>1, <2>3, <2>4, <2>5, <2>6, <2>7, <2>8, QuietStep
  <1>11. CASE RecallTx(h)
    <2>1. /\ proc[h].pc = "recall" /\ proc'[h].pc = "recipients"
          /\ \A g \in Handlers \ {h} : proc'[g] = proc[g]
          /\ UNCHANGED <<messages, members, lastRead, envSteps, stream>>
      BY <1>0, <1>11 DEF RecallTx, At, Handler
    <2>2. ~Creates(proc'[h]) /\ ~Creates(proc[h]) /\ (envSteps = 0 => Stays(proc'[h]))
      BY <2>1 DEF Creates, Stays, Fanning, HoldsKey
    <2> QED
      BY <2>1, <2>2, IdleStep
  <1>12. CASE ReadRecipients(h)
    <2>1. /\ proc[h].pc = "recipients" /\ proc'[h].pc = "emit"
          /\ proc'[h].row = proc[h].row /\ proc'[h].conv = proc[h].conv
          /\ proc'[h].user = proc[h].user /\ proc'[h].seq = proc[h].seq
          /\ proc'[h].todo = members[proc[h].conv]
          /\ \A g \in Handlers \ {h} : proc'[g] = proc[g]
          /\ UNCHANGED <<messages, members, lastRead, envSteps, stream>>
      BY <1>0, <1>12 DEF ReadRecipients, At, Handler
    <2>2. ~Creates(proc'[h]) /\ ~Creates(proc[h]) /\ (envSteps = 0 => Stays(proc'[h]))
      BY <2>1 DEF Creates, Stays, Fanning, HoldsKey
    <2>3. \A c \in Convs : \A v \in members[c] : \A r, s :
            Carries(proc[h], v, c, r, s) => Carries(proc'[h], v, c, r, s)
      BY <2>1 DEF Carries
    <2> QED
      BY <2>1, <2>2, <2>3, QuietStep
  <1> QED
    BY <1>1, <1>2, <1>3, <1>4, <1>5, <1>6, <1>7, <1>8, <1>9, <1>10, <1>11, <1>12

\* InsertMessage: the new message is announced to nobody, and its request owes it to all.
LEMMA InsertRecords ==
  ASSUME IInv, RecInv, NEW h \in Handlers, InsertMessage(h)
  PROVE  RecInv'
  <1> DEFINE m == [id |-> nextId, conv |-> proc[h].conv, seq |-> proc[h].seq + 1,
                   sender |-> proc[h].user, key |-> proc[h].key]
  <1>0. /\ TypeInv
        /\ proc \in [Handlers -> Handler] /\ proc[h] \in Handler /\ WellFormed(proc[h])
        /\ \A g \in Handlers : proc[g].pc \in HoldsRow => proc[g].row \in messages
        /\ envSteps = 0 => Stays(proc[h])
    BY HandlerIsTyped DEF IInv, TypeInv, TypeOK, HandlerInv, RowInv, RecInv, Undisturbed, StaysInv
  <1>1. /\ proc[h].pc = "insert" /\ proc'[h].pc = "delivery" /\ proc'[h].created = TRUE
        /\ proc'[h].row = m /\ proc'[h].user = proc[h].user /\ proc'[h].conv = proc[h].conv
        /\ \A g \in Handlers \ {h} : proc'[g] = proc[g]
    BY <1>0 DEF InsertMessage, At, Handler
  <1>2. /\ messages' = messages \cup {m}
        /\ UNCHANGED <<members, lastRead, envSteps, stream>>
    BY DEF InsertMessage, envVars
  <1>3. m.id = nextId /\ m.conv = proc[h].conv
    OBVIOUS
  <1> HIDE DEF m
  <1>4. \A n \in messages : n.id < nextId /\ n.id \in Nat /\ nextId \in Nat
    BY <1>0 DEF IInv, TableInv, IdInv, TypeInv, TypeOK, Message
  <1>5. \A u \in Users : ~Announces(stream[u], nextId)
    <2> SUFFICES ASSUME NEW u \in Users, NEW k \in DOMAIN stream[u],
                        stream[u][k].type = "message.persisted", stream[u][k].msg = nextId
                 PROVE  FALSE
      BY DEF Announces
    <2>1. \E n \in messages : n.id = stream[u][k].msg
      BY DEF RecInv, SummaryCoversMessage, Received
    <2> QED
      BY <1>4, <2>1
  <1>6. SummaryCoversMessage' /\ AnnouncedOnce'
    BY <1>2 DEF RecInv, SummaryCoversMessage, AnnouncedOnce, Received
  <1>7. CreatorInv'
    <2> SUFFICES ASSUME NEW g \in Handlers, Creates(proc'[g])
                 PROVE  /\ Sound(proc'[g])
                        /\ \A u \in Users : Owes(proc'[g], u) => ~Announces(stream[u], proc'[g].row.id)
                        /\ \A f \in Handlers :
                             Creates(proc'[f]) /\ proc'[f].row.id = proc'[g].row.id => f = g
      BY <1>2 DEF CreatorInv, Creates, Sound, Owes, Announces
    <2>1. \A f \in Handlers \ {h} :
             Creates(proc'[f]) => Creates(proc[f]) /\ proc[f].row \in messages /\ proc'[f] = proc[f]
      BY <1>0, <1>1 DEF Creates, Fanning, HoldsRow
    <2>2. CASE g = h
      <3>1. Sound(proc'[h])
        BY <1>1, <1>3 DEF Sound
      <3> QED
        BY <1>1, <1>3, <1>4, <1>5, <2>1, <2>2, <3>1
    <2>3. CASE g # h
      BY <1>1, <1>3, <1>4, <2>1, <2>3 DEF RecInv, CreatorInv
    <2> QED
      BY <2>2, <2>3
  <1>8. Creates(proc'[h]) /\ \A u : Owes(proc'[h], u)
    BY <1>1 DEF Creates, Owes
  <1>9. ASSUME envSteps = 0 PROVE MessagesReach'
    <2> SUFFICES ASSUME NEW n \in messages', NEW u \in members[n.conv]
                 PROVE  \/ Announces(stream[u], n.id)
                        \/ \E g \in Handlers : Creates(proc'[g]) /\ proc'[g].row = n /\ Owes(proc'[g], u)
      BY <1>2 DEF MessagesReach, Creates, Owes, Announces
    <2>1. CASE n = m
      BY <1>1, <1>8, <2>1
    <2>2. CASE n \in messages
      <3>1. ~Creates(proc[h])
        BY <1>1 DEF Creates, Fanning
      <3>2. \/ Announces(stream[u], n.id)
            \/ \E g \in Handlers : Creates(proc[g]) /\ proc[g].row = n /\ Owes(proc[g], u)
        BY <1>9, <2>2 DEF RecInv, Undisturbed, MessagesReach
      <3> QED
        BY <1>1, <3>1, <3>2
    <2> QED
      BY <1>2, <2>1, <2>2
  <1>10. ASSUME envSteps = 0 PROVE ReceiptsReach'
    <2> SUFFICES ASSUME NEW c \in Convs, NEW u \in members[c], NEW r \in members[c],
                        lastRead[c][r] > 0
                 PROVE  \/ HasReceipt(stream[u], c, r, lastRead[c][r])
                        \/ \E g \in Handlers : Carries(proc'[g], u, c, r, lastRead[c][r])
      BY <1>2 DEF ReceiptsReach, Carries, HasReceipt
    <2>1. ~Carries(proc[h], u, c, r, lastRead[c][r])
      BY <1>1 DEF Carries
    <2>2. \/ HasReceipt(stream[u], c, r, lastRead[c][r])
          \/ \E g \in Handlers : Carries(proc[g], u, c, r, lastRead[c][r])
      BY <1>10 DEF RecInv, Undisturbed, ReceiptsReach
    <2> QED
      BY <1>1, <2>1, <2>2
  <1>11. ASSUME envSteps = 0 PROVE StaysInv'
    <2> SUFFICES ASSUME NEW g \in Handlers PROVE Stays(proc[g])'
      BY DEF StaysInv
    <2>1. CASE g = h
      BY <1>0, <1>1, <1>2, <1>11, <2>1 DEF Stays, Fanning, HoldsKey
    <2>2. CASE g # h
      BY <1>1, <1>2, <1>11, <2>2 DEF RecInv, Undisturbed, StaysInv, Stays
    <2> QED
      BY <2>1, <2>2
  <1> QED
    BY <1>2, <1>6, <1>7, <1>9, <1>10, <1>11 DEF RecInv, Undisturbed

\* MarkReadTx: a position it moves is one it will announce.
LEMMA MarkReadRecords ==
  ASSUME IInv, RecInv, NEW h \in Handlers, MarkReadTx(h)
  PROVE  RecInv'
  <1> DEFINE d == proc[h].conv
             v == proc[h].user
             n == proc[h].seq
  <1>0. /\ TypeInv
        /\ proc \in [Handlers -> Handler] /\ proc[h] \in Handler
        /\ lastRead \in [Convs -> [Users -> Nat]] /\ members \in [Convs -> SUBSET Users]
        /\ envSteps = 0 => Stays(proc[h])
    BY HandlerIsTyped DEF IInv, TypeInv, TypeOK, RecInv, Undisturbed, StaysInv
  <1>1. /\ proc[h].pc = "markRead" /\ proc'[h].pc = "recipients"
        /\ proc'[h].row = proc[h].row /\ proc'[h].conv = d /\ proc'[h].user = v /\ proc'[h].seq = n
        /\ \A g \in Handlers \ {h} : proc'[g] = proc[g]
        /\ UNCHANGED <<messages, members, envSteps, stream>>
    BY <1>0 DEF MarkReadTx, At, Handler, envVars
  <1>2. d \in Convs /\ v \in Users /\ n \in Nat
    BY <1>0, <1>1, HandlerIsTyped DEF WellFormed, Handler
  <1>3. lastRead' = IF v \in members[d] THEN [lastRead EXCEPT ![d][v] = Larger(@, n)] ELSE lastRead
    BY DEF MarkReadTx
  <1> HIDE DEF d, v, n
  <1>4. ~Creates(proc[h]) /\ ~Creates(proc'[h])
    BY <1>1 DEF Creates, Fanning
  <1>5. SummaryCoversMessage' /\ AnnouncedOnce'
    BY <1>1 DEF RecInv, SummaryCoversMessage, AnnouncedOnce, Received
  <1>6. CreatorInv'
    <2>1. \A g \in Handlers : Creates(proc'[g]) => Creates(proc[g]) /\ proc'[g] = proc[g]
      BY <1>1, <1>4
    <2> SUFFICES ASSUME NEW g \in Handlers, Creates(proc'[g])
                 PROVE  /\ Sound(proc'[g])
                        /\ \A u \in Users : Owes(proc'[g], u) => ~Announces(stream[u], proc'[g].row.id)
                        /\ \A f \in Handlers :
                             Creates(proc'[f]) /\ proc'[f].row.id = proc'[g].row.id => f = g
      BY <1>1 DEF CreatorInv, Creates, Sound, Owes, Announces
    <2> QED
      BY <2>1 DEF RecInv, CreatorInv
  <1>7. ASSUME envSteps = 0 PROVE MessagesReach'
    <2> SUFFICES ASSUME NEW m \in messages, NEW u \in members[m.conv]
                 PROVE  \/ Announces(stream[u], m.id)
                        \/ \E g \in Handlers : Creates(proc'[g]) /\ proc'[g].row = m /\ Owes(proc'[g], u)
      BY <1>1 DEF MessagesReach, Creates, Owes, Announces
    <2> QED
      BY <1>1, <1>4, <1>7 DEF RecInv, Undisturbed, MessagesReach
  <1>8. ASSUME envSteps = 0 PROVE ReceiptsReach'
    <2> SUFFICES ASSUME NEW c \in Convs, NEW u \in members[c], NEW r \in members[c],
                        lastRead'[c][r] > 0
                 PROVE  \/ HasReceipt(stream[u], c, r, lastRead'[c][r])
                        \/ \E g \in Handlers : Carries(proc'[g], u, c, r, lastRead'[c][r])
      BY <1>1 DEF ReceiptsReach, Carries, HasReceipt
    <2>1. CASE lastRead'[c][r] = lastRead[c][r]
      <3>1. ~Carries(proc[h], u, c, r, lastRead[c][r])
        BY <1>1 DEF Carries
      <3>2. \/ HasReceipt(stream[u], c, r, lastRead[c][r])
            \/ \E g \in Handlers : Carries(proc[g], u, c, r, lastRead[c][r])
        BY <1>8, <2>1 DEF RecInv, Undisturbed, ReceiptsReach
      <3> QED
        BY <1>1, <2>1, <3>1, <3>2
    <2>2. CASE lastRead'[c][r] # lastRead[c][r]
      <3>1. c = d /\ r = v /\ lastRead'[c][r] = n
        BY <1>0, <1>2, <1>3, <2>2 DEF Larger
      <3>2. proc[h].row = None
        BY <1>0, <1>1, <1>8 DEF Stays
      <3> QED
        BY <1>1, <3>1, <3>2 DEF Carries
    <2> QED
      BY <2>1, <2>2
  <1>9. ASSUME envSteps = 0 PROVE StaysInv'
    <2> SUFFICES ASSUME NEW g \in Handlers PROVE Stays(proc[g])'
      BY DEF StaysInv
    <2>1. CASE g = h
      BY <1>1, <2>1 DEF Stays, Fanning, HoldsKey
    <2>2. CASE g # h
      BY <1>1, <1>9, <2>2 DEF RecInv, Undisturbed, StaysInv, Stays
    <2> QED
      BY <2>1, <2>2
  <1> QED
    BY <1>1, <1>5, <1>6, <1>7, <1>8, <1>9 DEF RecInv, Undisturbed

\* Steps that append records, but none that announces a message.
LEMMA EmitActions ==
  ASSUME IInv, RecInv, NEW h \in Handlers,
         EmitAccepted(h) \/ FinishSend(h) \/ EmitRecalled(h) \/ EmitRead(h)
  PROVE  RecInv'
  <1> USE DEF dbVars, envVars
  <1>0. /\ TypeInv /\ SummaryCoversMessage /\ AnnouncedOnce
        /\ proc \in [Handlers -> Handler] /\ proc[h] \in Handler /\ WellFormed(proc[h])
        /\ proc[h].pc \in HoldsRow => proc[h].row \in messages
        /\ envSteps = 0 => Stays(proc[h])
    BY HandlerIsTyped DEF IInv, TypeInv, TypeOK, HandlerInv, RowInv, RecInv, Undisturbed, StaysInv
  <1>1. CASE EmitAccepted(h)
    <2> DEFINE m == proc[h].row
               e == [type |-> "message.accepted", conv |-> m.conv, msg |-> m.id,
                     user |-> m.sender, seq |-> 0]
    <2>1. /\ proc[h].pc = "accepted" /\ proc'[h].pc = "fanout"
          /\ proc'[h].row = proc[h].row /\ proc'[h].conv = proc[h].conv
          /\ proc'[h].user = proc[h].user /\ proc'[h].todo = proc[h].todo
          /\ \A g \in Handlers \ {h} : proc'[g] = proc[g]
          /\ UNCHANGED <<messages, members, lastRead, envSteps>>
      BY <1>0, <1>1 DEF EmitAccepted, At, Handler
    <2>2. Emit({m.sender}, e)
      BY <1>1 DEF EmitAccepted
    <2>3. m \in Message
      BY <1>0, <2>1 DEF WellFormed, HoldsRow
    <2>4. e \in SyncEvent /\ e.type # "message.persisted"
      BY <2>3 DEF Message, SyncEvent
    <2> HIDE DEF m, e
    <2>5. /\ SummaryCoversMessage' /\ AnnouncedOnce'
          /\ \A u \in Users : \A i : Announces(stream'[u], i) <=> Announces(stream[u], i)
      BY <1>0, <2>1, <2>2, <2>4, EmitOther
    <2>6. \A u \in Users : \A c, r, s : HasReceipt(stream[u], c, r, s) => HasReceipt(stream'[u], c, r, s)
      BY <1>0, <2>2, <2>4, EmitKeeps
    <2>7. Creates(proc[h]) /\ Creates(proc'[h])
      BY <2>1 DEF Creates, Fanning
    <2>8. Sound(proc'[h])
      BY <2>1, <2>7 DEF RecInv, CreatorInv, Sound
    <2>9. \A u \in Users : Owes(proc'[h], u) <=> Owes(proc[h], u)
      BY <2>1 DEF Owes
    <2>10. \A u, c, r, s : ~Carries(proc[h], u, c, r, s)
      BY <2>1 DEF Carries
    <2>11. envSteps = 0 => Stays(proc'[h])
      BY <1>0, <2>1 DEF Stays, Fanning, HoldsKey
    <2>12. members[proc[h].row.conv] \subseteq Users
      BY <1>0, <2>1 DEF TypeInv, TypeOK, Message, WellFormed, HoldsRow
    <2> QED
      BY <2>1, <2>5, <2>6, <2>7, <2>8, <2>9, <2>10, <2>11, <2>12, Move
  <1>2. CASE FinishSend(h)
    <2> DEFINE m == proc[h].row
               e == [type |-> "message.delivered", conv |-> m.conv, msg |-> m.id,
                     user |-> m.sender, seq |-> 0]
    <2>1. /\ proc[h].pc = "fanout" /\ proc[h].todo = {} /\ proc'[h].pc = "idle"
          /\ \A g \in Handlers \ {h} : proc'[g] = proc[g]
          /\ UNCHANGED <<messages, members, lastRead, envSteps>>
      BY <1>0, <1>2 DEF FinishSend, Return, Idle, At, Handler
    <2>2. Emit({m.sender}, e) \/ UNCHANGED stream
      BY <1>2 DEF FinishSend
    <2>3. m \in Message
      BY <1>0, <2>1 DEF WellFormed, HoldsRow
    <2>4. e \in SyncEvent /\ e.type # "message.persisted"
      BY <2>3 DEF Message, SyncEvent
    <2> HIDE DEF m, e
    <2>5. /\ SummaryCoversMessage' /\ AnnouncedOnce'
          /\ \A u \in Users : \A i : Announces(stream'[u], i) <=> Announces(stream[u], i)
      <3>1. CASE UNCHANGED stream
        BY <1>0, <2>1, <3>1 DEF SummaryCoversMessage, AnnouncedOnce, Received, Announces
      <3> QED
        BY <1>0, <2>1, <2>2, <2>4, <3>1, EmitOther
    <2>6. \A u \in Users : \A c, r, s : HasReceipt(stream[u], c, r, s) => HasReceipt(stream'[u], c, r, s)
      BY <1>0, <2>2, <2>4, EmitKeeps DEF HasReceipt
    <2>7. ~Creates(proc'[h]) /\ (envSteps = 0 => Stays(proc'[h]))
      BY <2>1 DEF Creates, Fanning, Stays, HoldsKey
    <2>8. \A u : ~Owes(proc[h], u)
      BY <2>1 DEF Owes
    <2>9. \A u, c, r, s : ~Carries(proc[h], u, c, r, s)
      BY <2>1 DEF Carries
    <2> QED
      BY <2>1, <2>5, <2>6, <2>7, <2>8, <2>9, Move
  <1>3. CASE EmitRecalled(h)
    <2> DEFINE e == [type |-> "message.recalled", conv |-> proc[h].conv,
                     msg |-> proc[h].row.id, user |-> proc[h].user, seq |-> 0]
    <2>1. /\ proc[h].pc = "emit" /\ proc[h].row # None /\ proc'[h].pc = "idle"
          /\ \A g \in Handlers \ {h} : proc'[g] = proc[g]
          /\ UNCHANGED <<messages, members, lastRead, envSteps>>
      BY <1>0, <1>3 DEF EmitRecalled, Return, Idle, At, Handler
    <2>2. Emit(proc[h].todo, e)
      BY <1>3 DEF EmitRecalled
    <2>4. e \in SyncEvent /\ e.type # "message.persisted"
      BY <1>0, <2>1 DEF WellFormed, Handler, Message, SyncEvent
    <2> HIDE DEF e
    <2>5. /\ SummaryCoversMessage' /\ AnnouncedOnce'
          /\ \A u \in Users : \A i : Announces(stream'[u], i) <=> Announces(stream[u], i)
      BY <1>0, <2>1, <2>2, <2>4, EmitOther
    <2>6. \A u \in Users : \A c, r, s : HasReceipt(stream[u], c, r, s) => HasReceipt(stream'[u], c, r, s)
      BY <1>0, <2>2, <2>4, EmitKeeps
    <2>7. ~Creates(proc'[h]) /\ ~Creates(proc[h]) /\ (envSteps = 0 => Stays(proc'[h]))
      BY <2>1 DEF Creates, Fanning, Stays, HoldsKey
    <2>9. \A u, c, r, s : ~Carries(proc[h], u, c, r, s)
      BY <2>1 DEF Carries
    <2> QED
      BY <2>1, <2>5, <2>6, <2>7, <2>9, Move
  <1>4. CASE EmitRead(h)
    <2> DEFINE e == [type |-> "message.read", conv |-> proc[h].conv, msg |-> 0,
                     user |-> proc[h].user, seq |-> proc[h].seq]
    <2>1. /\ proc[h].pc = "emit" /\ proc[h].row = None /\ proc'[h].pc = "idle"
          /\ \A g \in Handlers \ {h} : proc'[g] = proc[g]
          /\ UNCHANGED <<messages, members, lastRead, envSteps>>
      BY <1>0, <1>4 DEF EmitRead, Return, Idle, At, Handler
    <2>2. Emit(proc[h].todo, e)
      BY <1>4 DEF EmitRead
    <2>3. e.type = "message.read" /\ e.conv = proc[h].conv /\ e.user = proc[h].user /\ e.seq = proc[h].seq
      OBVIOUS
    <2>4. e \in SyncEvent /\ e.type # "message.persisted"
      BY <1>0, <2>1 DEF WellFormed, Handler, SyncEvent
    <2> HIDE DEF e
    <2>5. /\ SummaryCoversMessage' /\ AnnouncedOnce'
          /\ \A u \in Users : \A i : Announces(stream'[u], i) <=> Announces(stream[u], i)
      BY <1>0, <2>1, <2>2, <2>4, EmitOther
    <2>6. \A u \in Users : \A c, r, s : HasReceipt(stream[u], c, r, s) => HasReceipt(stream'[u], c, r, s)
      BY <1>0, <2>2, <2>4, EmitKeeps
    <2>7. ~Creates(proc'[h]) /\ ~Creates(proc[h]) /\ (envSteps = 0 => Stays(proc'[h]))
      BY <2>1 DEF Creates, Fanning, Stays, HoldsKey
    <2>8. ASSUME NEW c \in Convs, NEW u \in members[c], NEW r, NEW s, Carries(proc[h], u, c, r, s)
          PROVE  HasReceipt(stream'[u], c, r, s)
      <3>1. u \in proc[h].todo /\ proc[h].conv = c /\ proc[h].user = r /\ proc[h].seq = s
        BY <2>1, <2>8 DEF Carries
      <3>2. u \in Users
        BY <1>0 DEF TypeInv, TypeOK
      <3>3. /\ Len(stream[u]) \in Nat /\ DOMAIN stream'[u] = 1..(Len(stream[u]) + 1)
            /\ stream'[u][Len(stream[u]) + 1] = e
        BY <1>0, <2>2, <2>4, <3>1, <3>2, EmitOne
      <3>4. Len(stream[u]) + 1 \in DOMAIN stream'[u]
        BY <3>3
      <3> QED
        BY <2>3, <3>1, <3>3, <3>4 DEF HasReceipt
    <2> QED
      BY <2>1, <2>5, <2>6, <2>7, <2>8, Move
  <1> QED
    BY <1>1, <1>2, <1>3, <1>4

\* AppendPersisted: the record counts its message, and is the first to announce it
\* to this recipient.
LEMMA AppendRecords ==
  ASSUME IInv, RecInv, NEW h \in Handlers, AppendPersisted(h)
  PROVE  RecInv'
  <1> USE DEF dbVars, envVars
  <1> DEFINE m == proc[h].row
             w == proc[h].to
             e == [type |-> "message.persisted", conv |-> m.conv, msg |-> m.id,
                   user |-> m.sender, seq |-> proc[h].seq]
  <1>0. /\ TypeInv
        /\ proc \in [Handlers -> Handler] /\ proc[h] \in Handler /\ WellFormed(proc[h])
        /\ proc[h].pc \in HoldsRow => proc[h].row \in messages
        /\ envSteps = 0 => Stays(proc[h])
    BY HandlerIsTyped DEF IInv, TypeInv, TypeOK, HandlerInv, RowInv, RecInv, Undisturbed, StaysInv
  <1>1. /\ proc[h].pc = "append" /\ proc'[h].pc = "fanout"
        /\ proc'[h].row = proc[h].row /\ proc'[h].conv = proc[h].conv
        /\ proc'[h].user = proc[h].user /\ proc'[h].todo = proc[h].todo
        /\ \A g \in Handlers \ {h} : proc'[g] = proc[g]
        /\ UNCHANGED <<messages, members, lastRead, envSteps>>
    BY <1>0 DEF AppendPersisted, At, Handler
  <1>2. Emit({w}, e)
    BY DEF AppendPersisted
  <1>3. m \in messages /\ m \in Message /\ w \in Users /\ proc[h].seq \in Nat
    BY <1>0, <1>1 DEF WellFormed, HoldsRow, Handler
  <1>4. e \in SyncEvent /\ e.type = "message.persisted" /\ e.conv = m.conv /\ e.msg = m.id
        /\ e.seq = proc[h].seq
    BY <1>3 DEF Message, SyncEvent
  <1>5. Creates(proc[h]) /\ Creates(proc'[h])
    BY <1>1 DEF Creates, Fanning
  <1>6. /\ m.seq <= proc[h].seq /\ w \notin proc[h].todo /\ Sound(proc'[h])
        /\ ~Announces(stream[w], m.id)
    BY <1>1, <1>3, <1>5 DEF RecInv, CreatorInv, Sound, Owes
  <1>7. \A u \in Users : Owes(proc[h], u) <=> Owes(proc'[h], u) \/ u = w
    BY <1>1 DEF Owes
  <1>8. ~Owes(proc'[h], w)
    BY <1>1, <1>6 DEF Owes
  <1>9. /\ \A u \in Users \ {w} : stream'[u] = stream[u]
        /\ Len(stream[w]) \in Nat /\ DOMAIN stream[w] = 1..Len(stream[w])
        /\ DOMAIN stream'[w] = 1..(Len(stream[w]) + 1)
        /\ stream'[w][Len(stream[w]) + 1] = e
        /\ \A k \in DOMAIN stream[w] : stream'[w][k] = stream[w][k]
    BY <1>0, <1>2, <1>3, <1>4, EmitOne
  <1>10. proc[h].row = m
    OBVIOUS
  <1>11. envSteps = 0 => Stays(proc'[h])
    BY <1>0, <1>1 DEF Stays, Fanning, HoldsKey
  <1>12. \A u, c, r, s : ~Carries(proc[h], u, c, r, s)
    BY <1>1 DEF Carries
  <1>13. members[m.conv] \subseteq Users
    BY <1>0, <1>3 DEF TypeInv, TypeOK, Message
  <1> HIDE DEF m, w, e
  <1>14. \A k \in DOMAIN stream'[w] :
            k = Len(stream[w]) + 1 \/ (k \in DOMAIN stream[w] /\ stream'[w][k] = stream[w][k])
    BY <1>9
  <1>15. SummaryCoversMessage'
    <2> SUFFICES ASSUME NEW u \in Users, NEW k \in DOMAIN stream'[u],
                        stream'[u][k].type = "message.persisted"
                 PROVE  \E n \in messages : n.id = stream'[u][k].msg /\ n.conv = stream'[u][k].conv
                                            /\ n.seq <= stream'[u][k].seq
      BY <1>1 DEF SummaryCoversMessage, Received
    <2>1. CASE k \in DOMAIN stream[u] /\ stream'[u][k] = stream[u][k]
      BY <2>1 DEF RecInv, SummaryCoversMessage, Received
    <2>2. CASE u = w /\ k = Len(stream[w]) + 1
      BY <1>3, <1>4, <1>6, <1>9, <2>2
    <2> QED
      BY <1>9, <1>14, <2>1, <2>2
  <1>16. AnnouncedOnce'
    <2> SUFFICES ASSUME NEW u \in Users, NEW i \in DOMAIN stream'[u], NEW j \in DOMAIN stream'[u],
                        stream'[u][i].type = "message.persisted",
                        stream'[u][j].type = "message.persisted",
                        stream'[u][i].msg = stream'[u][j].msg
                 PROVE  i = j
      BY DEF AnnouncedOnce
    <2>1. CASE u # w
      BY <1>9, <2>1 DEF RecInv, AnnouncedOnce
    <2>2. CASE u = w
      <3>1. \A k \in DOMAIN stream[w] :
              ~(stream'[w][k].type = "message.persisted" /\ stream'[w][k].msg = m.id)
        BY <1>6, <1>9 DEF Announces
      <3>2. CASE i \in DOMAIN stream[w] /\ j \in DOMAIN stream[w]
        BY <1>9, <2>2, <3>2 DEF RecInv, AnnouncedOnce
      <3> QED
        BY <1>4, <1>9, <1>14, <2>2, <3>1, <3>2
    <2> QED
      BY <2>1, <2>2
  <1>17. ASSUME NEW u \in Users, NEW i
         PROVE  Announces(stream'[u], i) <=> Announces(stream[u], i) \/ (u = w /\ i = m.id)
    <2>1. CASE u # w
      BY <1>9, <2>1
    <2>2. CASE u = w
      <3>1. Announces(stream'[w], i) => Announces(stream[w], i) \/ i = m.id
        BY <1>4, <1>9, <1>14 DEF Announces
      <3>2. Announces(stream[w], i) => Announces(stream'[w], i)
        BY <1>9 DEF Announces
      <3>3. Len(stream[w]) + 1 \in DOMAIN stream'[w]
        BY <1>9
      <3>4. Announces(stream'[w], m.id)
        BY <1>4, <1>9, <3>3 DEF Announces
      <3> QED
        BY <2>2, <3>1, <3>2, <3>4
    <2> QED
      BY <2>1, <2>2
  <1>18. \A u \in Users : \A c, r, s : HasReceipt(stream[u], c, r, s) => HasReceipt(stream'[u], c, r, s)
    BY <1>0, <1>2, <1>4, EmitKeeps
  <1> QED
    BY <1>1, <1>5, <1>6, <1>7, <1>8, <1>10, <1>11, <1>12, <1>13, <1>15, <1>16, <1>17, <1>18, Move

\* Membership changes, presence changes and a crash disturb; what was announced stays.
LEMMA EnvironmentRecords == IInv /\ RecInv /\ (Environment \/ UNCHANGED vars) => RecInv'
  <1> SUFFICES ASSUME IInv, RecInv, Environment \/ UNCHANGED vars PROVE RecInv'
    OBVIOUS
  <1> USE DEF dbVars, envVars
  <1>1. ASSUME UNCHANGED vars PROVE RecInv'
    <2>1. UNCHANGED <<messages, members, lastRead, envSteps, stream, proc>>
      BY <1>1 DEF vars
    <2>2. SummaryCoversMessage' /\ AnnouncedOnce' /\ CreatorInv'
      BY <2>1 DEF RecInv, SummaryCoversMessage, AnnouncedOnce, Received, CreatorInv, Creates, Owes,
                  Sound, Announces
    <2>3. MessagesReach' <=> MessagesReach
      BY <2>1 DEF MessagesReach, Creates, Owes, Announces
    <2>4. ReceiptsReach' <=> ReceiptsReach
      BY <2>1 DEF ReceiptsReach, Carries, HasReceipt
    <2>5. StaysInv' <=> StaysInv
      BY <2>1 DEF StaysInv, Stays
    <2> QED
      BY <2>1, <2>2, <2>3, <2>4, <2>5 DEF RecInv, Undisturbed
  <1>2. ASSUME Environment PROVE RecInv'
    <2>1. envSteps' # 0 /\ UNCHANGED <<messages, stream>>
      BY <1>2 DEF Environment, RemoveMember, AddMember, SetPresence, Crash, May, IInv, TypeInv, TypeOK
    <2>2. \A h \in Handlers : proc'[h] = proc[h] \/ proc'[h].pc = "idle"
      BY <1>2 DEF Environment, RemoveMember, AddMember, SetPresence, Crash, Idle
    <2>3. SummaryCoversMessage' /\ AnnouncedOnce'
      BY <2>1 DEF RecInv, SummaryCoversMessage, AnnouncedOnce, Received
    <2>4. \A h \in Handlers : Creates(proc'[h]) => Creates(proc[h]) /\ proc'[h] = proc[h]
      BY <2>2 DEF Creates, Fanning
    <2>5. CreatorInv'
      <3> SUFFICES ASSUME NEW g \in Handlers, Creates(proc'[g])
                   PROVE  /\ Sound(proc'[g])
                          /\ \A u \in Users : Owes(proc'[g], u) => ~Announces(stream[u], proc'[g].row.id)
                          /\ \A f \in Handlers :
                               Creates(proc'[f]) /\ proc'[f].row.id = proc'[g].row.id => f = g
        BY <2>1 DEF CreatorInv, Creates, Sound, Owes, Announces
      <3> QED
        BY <2>4 DEF RecInv, CreatorInv
    <2> QED
      BY <2>1, <2>3, <2>5 DEF RecInv, Undisturbed
  <1> QED
    BY <1>1, <1>2

\* Initially nothing is stored and nothing announced.
LEMMA InitRecords == Init => RecInv
  <1> SUFFICES ASSUME Init PROVE RecInv
    OBVIOUS
  <1>1. SummaryCoversMessage /\ AnnouncedOnce
    BY DEF Init, SummaryCoversMessage, AnnouncedOnce, Received
  <1>2. CreatorInv /\ StaysInv
    BY DEF Init, CreatorInv, StaysInv, Creates, Stays, Idle, Fanning, HoldsKey
  <1>3. MessagesReach
    BY DEF Init, MessagesReach
  <1>4. ReceiptsReach
    <2>1. \A c \in Convs : members[c] \subseteq Users
      BY InitType DEF TypeInv, TypeOK
    <2> QED
      BY <2>1 DEF Init, ReceiptsReach
  <1> QED
    BY <1>1, <1>2, <1>3, <1>4 DEF RecInv, Undisturbed

\* Every step keeps what is said of the records.
LEMMA NextRecords == IInv /\ RecInv /\ [Next]_vars => RecInv'
  <1> SUFFICES ASSUME IInv, RecInv, [Next]_vars PROVE RecInv'
    OBVIOUS
  <1>1. ASSUME NEW h \in Handlers, Request(h) PROVE RecInv'
    BY <1>1, QuietActions DEF Request
  <1>2. ASSUME NEW h \in Handlers, Proceed(h) PROVE RecInv'
    <2>1. \/ LockConversation(h) \/ FindExisting(h) \/ FindNone(h) \/ InsertRefused(h)
          \/ ApplyDeliveryStatus(h) \/ SenderSummary(h) \/ ReadMembers(h)
          \/ (\E u \in Users : SummariseFor(h, u)) \/ RecallTx(h) \/ ReadRecipients(h)
          \/ InsertMessage(h) \/ MarkReadTx(h) \/ AppendPersisted(h)
          \/ EmitAccepted(h) \/ FinishSend(h) \/ EmitRecalled(h) \/ EmitRead(h)
      BY <1>2 DEF Proceed
    <2>2. PICK u \in Users : TRUE
      BY <1>2, <2>1, HandlerIsTyped DEF IInv, WellFormed, LockConversation, FindExisting, FindNone, 
         InsertRefused, ApplyDeliveryStatus, SenderSummary, ReadMembers, RecallTx, ReadRecipients,
         InsertMessage, MarkReadTx, AppendPersisted, EmitAccepted, FinishSend, EmitRecalled, EmitRead, At
    <2> QED
      BY <2>1, <2>2, QuietActions, InsertRecords, MarkReadRecords, AppendRecords, EmitActions
  <1> QED
    BY <1>1, <1>2, EnvironmentRecords DEF Next

\* Once the requests are answered, what they owed is in the streams.
LEMMA RecordsReach == RecInv => RecordsAgree
  <1> SUFFICES ASSUME RecInv PROVE RecordsAgree
    OBVIOUS
  <1> SUFFICES ASSUME Quiescent, envSteps = 0, NEW c \in Convs, NEW u \in members[c]
               PROVE  /\ \A m \in messages : m.conv = c /\ m.id \in acked =>
                           \E e \in Received(u, "message.persisted") : e.msg = m.id
                      /\ \A r \in members[c] : lastRead[c][r] > 0 =>
                           \E e \in Received(u, "message.read") :
                              e.conv = c /\ e.user = r /\ e.seq = lastRead[c][r]
    BY DEF RecInv, RecordsAgree
  <1>1. \A h \in Handlers : proc[h].pc = "idle"
    BY DEF Quiescent, At
  <1>2. \A h \in Handlers : ~Creates(proc[h])
    BY <1>1 DEF Creates, Fanning
  <1>3. \A h \in Handlers : \A r, s : ~Carries(proc[h], u, c, r, s)
    BY <1>1 DEF Carries
  <1>4. ASSUME NEW m \in messages, m.conv = c
        PROVE  \E e \in Received(u, "message.persisted") : e.msg = m.id
    <2>1. Announces(stream[u], m.id)
      BY <1>2, <1>4 DEF RecInv, Undisturbed, MessagesReach
    <2> QED
      BY <2>1 DEF Announces, Received
  <1>5. ASSUME NEW r \in members[c], lastRead[c][r] > 0
        PROVE  \E e \in Received(u, "message.read") : e.conv = c /\ e.user = r /\ e.seq = lastRead[c][r]
    <2>1. HasReceipt(stream[u], c, r, lastRead[c][r])
      BY <1>3, <1>5 DEF RecInv, Undisturbed, ReceiptsReach
    <2> QED
      BY <2>1 DEF HasReceipt, Received
  <1> QED
    BY <1>4, <1>5

\* Whatever requests run concurrently, in any order of their statements, each message
\* is announced to a user once, with a summary that counts it; and when all are done
\* and no member came or went and nothing crashed, every member has the records of
\* every message and of every read position (message_service.go:174-191, :295-297).
THEOREM StreamsTellEveryMember == Spec => []RecordsAgree
  <1>1. IInv /\ IInv' /\ RecInv /\ [Next]_vars => RecInv'
    BY NextRecords
  <1> QED
    BY Inductive, InitRecords, <1>1, RecordsReach, PTL DEF Spec
=============================================================================
