--------------------------- MODULE MessageService ---------------------------
(***************************************************************************)
(* The message path of the API process: SendMessage, RecallMessage and     *)
(* MarkRead of chat/message_service.go, down to the SQL transactions of    *)
(* repository/repository.go, with the per-user sync records they append.   *)
(*                                                                         *)
(* One HTTP request runs in one goroutine, a member of Handlers.  A step   *)
(* is one SQL statement or transaction of it; between two steps the other  *)
(* handlers, the membership operations and a crash of the process may run. *)
(* SendMessage's transaction is three steps, so that what its SELECT ...   *)
(* FOR UPDATE protects is checked and not assumed.                         *)
(***************************************************************************)
EXTENDS Naturals, Sequences, FiniteSets

CONSTANTS
    Users,          \* user ids
    Convs,          \* conversation ids
    Keys,           \* values of client_msg_id a client draws from
    Handlers,       \* goroutines of the API process serving requests
    Env,            \* what else may happen: "membership", "presence", "crash"
    MaxRequests,    \* bound: requests admitted in a behaviour
    MaxEnvSteps,    \* bound: membership changes, presence changes and crashes
    None            \* no value

ASSUME NoneIsNoHandler == None \notin Handlers
ASSUME BoundsAreNaturals == MaxRequests \in Nat /\ MaxEnvSteps \in Nat
ASSUME EnvAssumption == Env \subseteq {"membership", "presence", "crash"}

VARIABLES
    members,    \* conversation_members with deleted_at IS NULL
    lastRead,   \* conversation_members.last_read_seq
    online,     \* users Redis holds a presence key for
    lastSeq,    \* conversations.last_message_seq
    preview,    \* conversations.last_message_preview: "none", "content", "recalled"
    convLock,   \* the transaction that holds the conversation's row lock
    messages,   \* rows of messages; the columns that never change
    nextId,     \* AUTO_INCREMENT of messages
    recalled,   \* ids with recalled_at set
    delivered,  \* ids with delivery_status "delivered"
    stream,     \* sync_events of each user, in id order
    proc,       \* the state of each handler
    acked,      \* ids some SendMessage request answered with (history)
    requests,   \* requests admitted so far
    envSteps    \* environment steps so far

dbVars   == <<members, lastRead, lastSeq, preview, messages, nextId, recalled, delivered>>
envVars  == <<online, requests, envSteps>>
vars     == <<dbVars, envVars, convLock, stream, proc, acked>>

(***************************************************************************)
(* Data                                                                    *)
(***************************************************************************)
Message == [id : Nat, conv : Convs, seq : Nat, sender : Users, key : Keys]

\* seq is the last_message_seq of the conversation summary in a
\* "message.persisted" record, and last_read_seq in a "message.read" record.
SyncEvent == [type : {"message.accepted", "message.persisted", "message.delivered",
                      "message.recalled", "message.read"},
              conv : Convs, msg : Nat, user : Users, seq : Nat]

PC == {"idle",
       "lock", "lookup", "insert", "delivery", "summary", "members", "accepted",
       "fanout", "append",
       "recall", "markRead", "recipients", "emit"}

\* seq: last_message_seq read under the lock, then the summary last read; for
\* MarkRead the target.  todo: recipients left.  created, dlv: the result of
\* the repository's SendMessage, and deliveryEvent # nil.
Handler == [pc : PC, user : Users \cup {None}, conv : Convs \cup {None},
            key : Keys \cup {None}, seq : Nat, row : Message \cup {None},
            created : BOOLEAN, dlv : BOOLEAN, todo : SUBSET Users,
            to : Users \cup {None}]

Idle == [pc |-> "idle", user |-> None, conv |-> None, key |-> None, seq |-> 0,
         row |-> None, created |-> FALSE, dlv |-> FALSE, todo |-> {}, to |-> None]

\* Mutant of Larger: the last request wins.
Latest(a, b) == b

Larger(a, b) == IF a >= b THEN a ELSE b

At(h, label) == proc[h].pc = label

\* The handler returns to its caller: to the client, with or without an error.
Return(h) == proc' = [proc EXCEPT ![h] = Idle]

\* AppendSyncEvents: one INSERT of one row per recipient.
Emit(us, e) == stream' = [u \in Users |-> IF u \in us THEN Append(stream[u], e) ELSE stream[u]]

\* Mutant of SameKey: a recalled message no longer counts.
SameKeyNotRecalled(u, k) == {m \in messages : m.sender = u /\ m.key = k /\ m.id \notin recalled}

\* The (sender_id, client_msg_id) lookup and the unique key behind it; both
\* look at every conversation.
SameKey(u, k) == {m \in messages : m.sender = u /\ m.key = k}

\* Mutant of KeyFree: no unique key on (sender_id, client_msg_id).
KeyNotUnique(h) == TRUE

\* What the unique keys on (sender_id, client_msg_id) and (conversation_id, seq)
\* ask of the row the handler inserts.
KeyFree(h) == SameKey(proc[h].user, proc[h].key) = {}
NumberFree(h) == \A m \in messages : m.conv = proc[h].conv => m.seq # proc[h].seq + 1

\* Mutant of RowFree: SELECT without FOR UPDATE.
RowNotLocked(c) == TRUE

\* No transaction holds the conversation's row.
RowFree(c) == convLock[c] = None

Admit == /\ requests < MaxRequests
         /\ requests' = requests + 1
         /\ UNCHANGED <<online, envSteps>>

May(kind) == /\ kind \in Env
             /\ envSteps < MaxEnvSteps
             /\ envSteps' = envSteps + 1
             /\ UNCHANGED requests

-----------------------------------------------------------------------------
\* Conversations without messages; everybody is in all of them, or whoever earlier
\* membership changes left there.
Init ==
    /\ members \in [Convs -> IF "membership" \in Env THEN SUBSET Users ELSE {Users}]
    /\ lastRead = [c \in Convs |-> [u \in Users |-> 0]]
    /\ online \in IF "presence" \in Env THEN SUBSET Users ELSE {{}}
    /\ lastSeq = [c \in Convs |-> 0]
    /\ preview = [c \in Convs |-> "none"]
    /\ convLock = [c \in Convs |-> None]
    /\ messages = {}
    /\ nextId = 1
    /\ recalled = {}
    /\ delivered = {}
    /\ stream = [u \in Users |-> <<>>]
    /\ proc = [h \in Handlers |-> Idle]
    /\ acked = {}
    /\ requests = 0
    /\ envSteps = 0

-----------------------------------------------------------------------------
(***************************************************************************)
(* SendMessage                                                             *)
(***************************************************************************)

\* Mutant of SendMessage: a request with an empty client_msg_id keeps it empty.
SendWithoutKey(h, u, c, k) ==
    /\ At(h, "idle")
    /\ Admit
    /\ u \in members[c]
    /\ proc' = [proc EXCEPT ![h] = [Idle EXCEPT !.pc = "lock", !.user = u, !.conv = c]]
    /\ UNCHANGED <<dbVars, convLock, stream, acked>>

\* The membership check and the validation; every send the client retries
\* carries the client_msg_id of the first attempt.
SendMessage(h, u, c, k) ==
    /\ At(h, "idle")
    /\ Admit
    /\ u \in members[c]
    /\ proc' = [proc EXCEPT ![h] = [Idle EXCEPT !.pc = "lock", !.user = u, !.conv = c, !.key = k]]
    /\ UNCHANGED <<dbVars, convLock, stream, acked>>

\* Mutant of LockConversation: the number is reserved before the lookup.
LockAndReserve(h) ==
    LET c == proc[h].conv IN
    /\ At(h, "lock")
    /\ RowFree(c)
    /\ convLock' = [convLock EXCEPT ![c] = h]
    /\ lastSeq' = [lastSeq EXCEPT ![c] = @ + 1]
    /\ proc' = [proc EXCEPT ![h].pc = "lookup", ![h].seq = lastSeq[c]]
    /\ UNCHANGED <<members, lastRead, preview, messages, nextId, recalled, delivered,
                   envVars, stream, acked>>

\* SELECT ... FROM conversations ... FOR UPDATE
LockConversation(h) ==
    LET c == proc[h].conv IN
    /\ At(h, "lock")
    /\ RowFree(c)
    /\ convLock' = [convLock EXCEPT ![c] = h]
    /\ proc' = [proc EXCEPT ![h].pc = "lookup", ![h].seq = lastSeq[c]]
    /\ UNCHANGED <<dbVars, envVars, stream, acked>>

\* Mutant of FindExisting: a row found is taken for a new one.
FindExistingAsNew(h) ==
    /\ At(h, "lookup")
    /\ \E m \in SameKey(proc[h].user, proc[h].key) :
         proc' = [proc EXCEPT ![h].pc = "delivery", ![h].row = m, ![h].created = TRUE]
    /\ convLock' = [convLock EXCEPT ![proc[h].conv] = None]
    /\ UNCHANGED <<dbVars, envVars, stream, acked>>

\* A row with this key exists: the transaction commits and returns that row.
FindExisting(h) ==
    /\ At(h, "lookup")
    /\ \E m \in SameKey(proc[h].user, proc[h].key) :
         proc' = [proc EXCEPT ![h].pc = "delivery", ![h].row = m, ![h].created = FALSE]
    /\ convLock' = [convLock EXCEPT ![proc[h].conv] = None]
    /\ UNCHANGED <<dbVars, envVars, stream, acked>>

FindNone(h) ==
    /\ At(h, "lookup")
    /\ SameKey(proc[h].user, proc[h].key) = {}
    /\ proc' = [proc EXCEPT ![h].pc = "insert"]
    /\ UNCHANGED <<dbVars, envVars, convLock, stream, acked>>

\* INSERT INTO messages, UPDATE conversations, COMMIT.
InsertMessage(h) ==
    LET c == proc[h].conv
        m == [id |-> nextId, conv |-> c, seq |-> proc[h].seq + 1,
              sender |-> proc[h].user, key |-> proc[h].key]
    IN
    /\ At(h, "insert")
    /\ KeyFree(h) /\ NumberFree(h)
    /\ messages' = messages \cup {m}
    /\ nextId' = nextId + 1
    /\ lastSeq' = [lastSeq EXCEPT ![c] = m.seq]
    /\ preview' = [preview EXCEPT ![c] = "content"]
    /\ convLock' = [convLock EXCEPT ![c] = None]
    /\ proc' = [proc EXCEPT ![h].pc = "delivery", ![h].row = m, ![h].created = TRUE]
    /\ UNCHANGED <<members, lastRead, recalled, delivered, envVars, stream, acked>>

\* The same key was committed in another conversation since the lookup: the
\* INSERT is refused, the transaction rolls back, the request fails.
InsertRefused(h) ==
    /\ At(h, "insert")
    /\ ~(KeyFree(h) /\ NumberFree(h))
    /\ convLock' = [convLock EXCEPT ![proc[h].conv] = None]
    /\ Return(h)
    /\ UNCHANGED <<dbVars, envVars, stream, acked>>

\* applyDeliveryStatus, for a retried message too; a message found by its key
\* is answered here, with no record of any kind.
ApplyDeliveryStatus(h) ==
    LET m == proc[h].row
        reached == (members[m.conv] \ {m.sender}) \cap online # {}
    IN
    /\ At(h, "delivery")
    /\ delivered' = IF reached THEN delivered \cup {m.id} ELSE delivered
    /\ IF proc[h].created
         THEN /\ proc' = [proc EXCEPT ![h].pc = "summary", ![h].dlv = reached]
              /\ acked' = acked
         ELSE /\ Return(h)
              /\ acked' = acked \cup {m.id}
    /\ UNCHANGED <<members, lastRead, lastSeq, preview, messages, nextId, recalled,
                   envVars, convLock, stream>>

\* GetConversationSummary(sender) needs the sender's member row; without it
\* the request fails and nothing is fanned out.
SenderSummary(h) ==
    /\ At(h, "summary")
    /\ IF proc[h].user \in members[proc[h].conv]
         THEN proc' = [proc EXCEPT ![h].pc = "members"]
         ELSE Return(h)
    /\ UNCHANGED <<dbVars, envVars, convLock, stream, acked>>

\* Mutant of ReadMembers: only who is online gets a record.
ReadOnlineMembers(h) ==
    /\ At(h, "members")
    /\ proc' = [proc EXCEPT ![h].pc = "accepted", ![h].todo = members[proc[h].conv] \cap online]
    /\ UNCHANGED <<dbVars, envVars, convLock, stream, acked>>

ReadMembers(h) ==
    /\ At(h, "members")
    /\ proc' = [proc EXCEPT ![h].pc = "accepted", ![h].todo = members[proc[h].conv]]
    /\ UNCHANGED <<dbVars, envVars, convLock, stream, acked>>

EmitAccepted(h) ==
    LET m == proc[h].row IN
    /\ At(h, "accepted")
    /\ Emit({m.sender}, [type |-> "message.accepted", conv |-> m.conv, msg |-> m.id,
                         user |-> m.sender, seq |-> 0])
    /\ proc' = [proc EXCEPT ![h].pc = "fanout"]
    /\ UNCHANGED <<dbVars, envVars, convLock, acked>>

\* The last_message_seq GetConversationSummary reads.
SummarySeq(h) == lastSeq[proc[h].conv]

\* The loop over memberIDs: the summary for one recipient is read ...
SummariseFor(h, u) ==
    LET c == proc[h].conv IN
    /\ At(h, "fanout")
    /\ u \in proc[h].todo
    /\ proc' = [proc EXCEPT ![h].todo = @ \ {u},
                            ![h].pc = IF u \in members[c] THEN "append" ELSE @,
                            ![h].to = u,
                            ![h].seq = SummarySeq(h)]
    /\ UNCHANGED <<dbVars, envVars, convLock, stream, acked>>

\* ... and the record that carries it is appended.
AppendPersisted(h) ==
    LET m == proc[h].row IN
    /\ At(h, "append")
    /\ Emit({proc[h].to}, [type |-> "message.persisted", conv |-> m.conv, msg |-> m.id,
                           user |-> m.sender, seq |-> proc[h].seq])
    /\ proc' = [proc EXCEPT ![h].pc = "fanout"]
    /\ UNCHANGED <<dbVars, envVars, convLock, acked>>

FinishSend(h) ==
    LET m == proc[h].row IN
    /\ At(h, "fanout")
    /\ proc[h].todo = {}
    /\ IF proc[h].dlv
         THEN Emit({m.sender}, [type |-> "message.delivered", conv |-> m.conv, msg |-> m.id,
                                user |-> m.sender, seq |-> 0])
         ELSE UNCHANGED stream
    /\ acked' = acked \cup {m.id}
    /\ Return(h)
    /\ UNCHANGED <<dbVars, envVars, convLock>>

-----------------------------------------------------------------------------
(***************************************************************************)
(* RecallMessage                                                           *)
(***************************************************************************)

\* Only the sender, and only once: a message seen recalled is answered at once.
RecallMessage(h, u, m) ==
    /\ At(h, "idle")
    /\ Admit
    /\ m.sender = u
    /\ m.id \notin recalled
    /\ proc' = [proc EXCEPT ![h] = [Idle EXCEPT !.pc = "recall", !.user = u,
                                                !.conv = m.conv, !.row = m]]
    /\ UNCHANGED <<dbVars, convLock, stream, acked>>

\* Mutant of IsNewest: the UPDATE has no condition on last_message_seq.
IsAny(m) == TRUE

IsNewest(m) == lastSeq[m.conv] = m.seq

\* The transaction; its UPDATE of the conversation waits for the row lock.
RecallTx(h) ==
    LET m == proc[h].row IN
    /\ At(h, "recall")
    /\ RowFree(m.conv)
    /\ recalled' = recalled \cup {m.id}
    /\ preview' = IF IsNewest(m) THEN [preview EXCEPT ![m.conv] = "recalled"] ELSE preview
    /\ proc' = [proc EXCEPT ![h].pc = "recipients"]
    /\ UNCHANGED <<members, lastRead, lastSeq, messages, nextId, delivered,
                   envVars, convLock, stream, acked>>

(***************************************************************************)
(* MarkRead                                                                *)
(***************************************************************************)

\* seq 0 stands for the conversation's last_message_seq.
MarkRead(h, u, c, s) ==
    /\ At(h, "idle")
    /\ Admit
    /\ u \in members[c]
    /\ proc' = [proc EXCEPT ![h] = [Idle EXCEPT !.pc = "markRead", !.user = u, !.conv = c,
                                                !.seq = IF s = 0 THEN lastSeq[c] ELSE s]]
    /\ UNCHANGED <<dbVars, convLock, stream, acked>>

\* UPDATE ... SET last_read_seq = GREATEST(last_read_seq, ?), on an active row.
MarkReadTx(h) ==
    LET c == proc[h].conv
        u == proc[h].user
    IN
    /\ At(h, "markRead")
    /\ lastRead' = IF u \in members[c]
                     THEN [lastRead EXCEPT ![c][u] = Larger(@, proc[h].seq)] ELSE lastRead
    /\ proc' = [proc EXCEPT ![h].pc = "recipients"]
    /\ UNCHANGED <<members, lastSeq, preview, messages, nextId, recalled, delivered,
                   envVars, convLock, stream, acked>>

\* Both read the members after their write ...
ReadRecipients(h) ==
    /\ At(h, "recipients")
    /\ proc' = [proc EXCEPT ![h].pc = "emit", ![h].todo = members[proc[h].conv]]
    /\ UNCHANGED <<dbVars, envVars, convLock, stream, acked>>

\* ... and append one record for each of them.  A receipt carries the target
\* of the request, not the stored maximum.
EmitRecalled(h) ==
    /\ At(h, "emit")
    /\ proc[h].row # None
    /\ Emit(proc[h].todo, [type |-> "message.recalled", conv |-> proc[h].conv,
                           msg |-> proc[h].row.id, user |-> proc[h].user, seq |-> 0])
    /\ Return(h)
    /\ UNCHANGED <<dbVars, envVars, convLock, acked>>

EmitRead(h) ==
    /\ At(h, "emit")
    /\ proc[h].row = None
    /\ Emit(proc[h].todo, [type |-> "message.read", conv |-> proc[h].conv, msg |-> 0,
                           user |-> proc[h].user, seq |-> proc[h].seq])
    /\ Return(h)
    /\ UNCHANGED <<dbVars, envVars, convLock, acked>>

-----------------------------------------------------------------------------
(***************************************************************************)
(* What the rest of the system does meanwhile                              *)
(***************************************************************************)

\* RemoveConversationMember: the row is soft-deleted.
RemoveMember(c, u) ==
    /\ May("membership")
    /\ u \in members[c]
    /\ members' = [members EXCEPT ![c] = @ \ {u}]
    /\ UNCHANGED <<lastRead, lastSeq, preview, messages, nextId, recalled, delivered,
                   online, convLock, stream, proc, acked>>

\* AddConversationMembers: a new row, or the old one revived with last_read_seq 0.
AddMember(c, u) ==
    /\ May("membership")
    /\ u \notin members[c]
    /\ members' = [members EXCEPT ![c] = @ \cup {u}]
    /\ lastRead' = [lastRead EXCEPT ![c][u] = 0]
    /\ UNCHANGED <<lastSeq, preview, messages, nextId, recalled, delivered,
                   online, convLock, stream, proc, acked>>

SetPresence(u) ==
    /\ May("presence")
    /\ online' = IF u \in online THEN online \ {u} ELSE online \cup {u}
    /\ UNCHANGED <<dbVars, convLock, stream, proc, acked>>

\* The process dies: its goroutines are gone and MySQL rolls back.
Crash ==
    /\ May("crash")
    /\ \E h \in Handlers : ~At(h, "idle")
    /\ proc' = [h \in Handlers |-> Idle]
    /\ convLock' = [c \in Convs |-> None]
    /\ UNCHANGED <<dbVars, online, stream, acked>>

-----------------------------------------------------------------------------
Request(h) ==
    \E u \in Users :
        \/ \E m \in messages : RecallMessage(h, u, m)
        \/ \E c \in Convs :
             \/ \E k \in Keys : SendMessage(h, u, c, k)
             \/ \E s \in 0..lastSeq[c] : MarkRead(h, u, c, s)

\* The next step of an admitted request.
Proceed(h) ==
    \/ LockConversation(h) \/ FindExisting(h) \/ FindNone(h)
    \/ InsertMessage(h) \/ InsertRefused(h) \/ ApplyDeliveryStatus(h)
    \/ SenderSummary(h) \/ ReadMembers(h) \/ EmitAccepted(h)
    \/ \E u \in Users : SummariseFor(h, u)
    \/ AppendPersisted(h) \/ FinishSend(h)
    \/ RecallTx(h) \/ MarkReadTx(h) \/ ReadRecipients(h)
    \/ EmitRecalled(h) \/ EmitRead(h)

Environment ==
    \/ \E c \in Convs, u \in Users : RemoveMember(c, u) \/ AddMember(c, u)
    \/ \E u \in Users : SetPresence(u)
    \/ Crash

Next == \/ \E h \in Handlers : Request(h) \/ Proceed(h)
        \/ Environment

Spec == Init /\ [][Next]_vars

\* A goroutine that can take a step takes one: the Go scheduler and the row
\* lock's queue starve nobody.
FairSpec == Spec /\ \A h \in Handlers : SF_vars(Proceed(h))

-----------------------------------------------------------------------------
TypeOK ==
    /\ members \in [Convs -> SUBSET Users]
    /\ lastRead \in [Convs -> [Users -> Nat]]
    /\ online \in SUBSET Users
    /\ lastSeq \in [Convs -> Nat]
    /\ preview \in [Convs -> {"none", "content", "recalled"}]
    /\ convLock \in [Convs -> Handlers \cup {None}]
    /\ messages \in SUBSET Message
    /\ nextId \in Nat
    /\ recalled \in SUBSET Nat
    /\ delivered \in SUBSET Nat
    /\ stream \in [Users -> Seq(SyncEvent)]
    /\ proc \in [Handlers -> Handler]
    /\ acked \in SUBSET Nat
    /\ requests \in Nat
    /\ envSteps \in Nat

\* Events a user's stream holds of one type.
Received(u, type) == {stream[u][i] : i \in {j \in DOMAIN stream[u] : stream[u][j].type = type}}

Quiescent == \A h \in Handlers : At(h, "idle")

\* The messages of a conversation are numbered 1..last_message_seq, one each and
\* without a gap, however sends, retries and refused inserts interleave
\* (repository.SendMessage).
SeqDense ==
    \A c \in Convs :
        /\ \A s \in 1..lastSeq[c] : \E m \in messages : m.conv = c /\ m.seq = s
        /\ \A m \in messages : m.conv = c => m.seq \in 1..lastSeq[c]
        /\ \A m, n \in messages : m.conv = c /\ n.conv = c /\ m.seq = n.seq => m = n

\* A send that found no message with its key never fails for its number: the row
\* lock makes last_message_seq + 1 fresh until the transaction ends.
NumberIsFresh == \A h \in Handlers : At(h, "insert") => NumberFree(h)

\* A client that retries a send with the same client_msg_id never stores the
\* message twice, whatever handlers and conversations the attempts run in.
OneRowPerKey == \A m, n \in messages : m.sender = n.sender /\ m.key = n.key => m = n

\* The conversation list shows "recalled" exactly when the newest message is:
\* a recall that races a newer send does not overwrite its preview.
PreviewAgrees ==
    \A m \in messages :
        m.seq = lastSeq[m.conv] => preview[m.conv] = IF m.id \in recalled THEN "recalled" ELSE "content"

\* The summary a "message.persisted" record carries already counts the message
\* the record announces.
SummaryCoversMessage ==
    \A u \in Users : \A e \in Received(u, "message.persisted") :
        \E m \in messages : m.id = e.msg /\ m.conv = e.conv /\ m.seq <= e.seq

\* No retry, crash or race makes a message be announced twice to a user.
AnnouncedOnce ==
    \A u \in Users : \A i, j \in DOMAIN stream[u] :
        /\ stream[u][i].type = "message.persisted"
        /\ stream[u][j].type = "message.persisted"
        /\ stream[u][i].msg = stream[u][j].msg
        => i = j

\* With no crash or membership change, once the handlers are done: a message a
\* client was told is stored has a record in the stream of every member, and some
\* receipt there carries the stored read position of every reader, so that a client
\* that keeps the largest it saw shows it (message_service.go:174-191, :295-297).
RecordsAgree ==
    /\ SummaryCoversMessage /\ AnnouncedOnce
    /\ Quiescent /\ envSteps = 0 =>
          \A c \in Convs : \A u \in members[c] :
              /\ \A m \in messages : m.conv = c /\ m.id \in acked =>
                    \E e \in Received(u, "message.persisted") : e.msg = m.id
              /\ \A r \in members[c] : lastRead[c][r] > 0 =>
                    \E e \in Received(u, "message.read") :
                        e.conv = c /\ e.user = r /\ e.seq = lastRead[c][r]

\* A read position never moves back while its owner stays a member, whatever
\* order the requests of several tabs are executed in.
ReadNeverRegresses ==
    [][\A c \in Convs : \A u \in members[c] \cap members'[c] : lastRead'[c][u] >= lastRead[c][u]]_vars

\* The store is the abstract log: the entry at a position is the message that
\* has this seq.
LogOf(c) == [s \in 1..lastSeq[c] |->
                LET m == CHOOSE m \in messages : m.conv = c /\ m.seq = s
                IN [sender |-> m.sender, key |-> m.key]]

Log == INSTANCE ConversationLog WITH
           log <- [c \in Convs |-> LogOf(c)],
           gone <- {<<m.conv, m.seq>> : m \in {n \in messages : n.id \in recalled}},
           position <- lastRead

\* Under concurrent sends, retries, recalls, receipts, membership changes and
\* crashes, the tables of the message path behave as that log.
ImplementsLog == Log!Spec

\* Every stored message is in the end announced to every member, with the
\* goroutines scheduled fairly, no crash and no membership change.
EveryMessageAnnounced ==
    \A s, u \in Users : \A k \in Keys :
        (\E m \in SameKey(s, k) : u \in members[m.conv])
            ~> (\E m \in SameKey(s, k) : \E e \in Received(u, "message.persisted") : e.msg = m.id)
=============================================================================
