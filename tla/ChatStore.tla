------------------------------ MODULE ChatStore ------------------------------
(***************************************************************************)
(* The message window of lib/chat-store.tsx: loading a conversation,       *)
(* optimistic sends with retries, and applyIncomingEvent over the user's   *)
(* replayed events, against a message service reduced to what it answers   *)
(* and emits (MessageService has it in full; SyncStream shows that the     *)
(* events come once each and in order).  Beside it, the members list of    *)
(* the window, which the group dialog of chat-window.tsx and the records   *)
(* of joins and departures load again on their own.                        *)
(*                                                                         *)
(* A message is named by its client_msg_id.  A row is one it has before    *)
(* the service knows it ("local", with a negative id) or after ("stored"). *)
(***************************************************************************)
EXTENDS Naturals, Sequences, FiniteSets, Functions

CONSTANTS
    Convs,     \* conversations of this user with one other user
    Mine,      \* messages this user sends
    Theirs,    \* messages the other user sends
    MaxSteps,  \* bound: selections of a conversation and retries
    MaxFails,  \* bound: sends and loads whose request or answer is lost
    MaxMarks,  \* bound: recalls, and reads by the other user
    MaxChanges,\* bound: changes of the members, and conversations opened from the contacts
    MaxMoves,  \* bound: all of these together, and messages
    None       \* no conversation, no answer yet

ASSUME BoundsAreNat == {MaxSteps, MaxFails, MaxMarks, MaxChanges, MaxMoves} \subseteq Nat
ASSUME MessagesAreApart == Mine \cap Theirs = {}
ASSUME NoneIsApart == None \notin Convs

VARIABLES
    log,        \* of each conversation, its messages in the order of their seq
    delivered,  \* messages stored as delivered
    recalled,   \* messages stored as recalled
    myRead,     \* of each conversation, this user's last_read_seq
    theirRead,  \* of each conversation, the other user's
    third,      \* conversations that a third user is a member of
    events,     \* records on their way to the client, in order
    cur,        \* currentConversation
    rows,       \* currentMessages
    members,    \* currentMembers: the other member's last_read_seq, and the third
    loads,      \* calls of loadMessages under way
    calls,      \* calls that add or remove a member under way
    reloads,    \* loads of the members alone under way
    sending,    \* of each of Mine, its sendMessage
    marks,      \* calls of markAsRead under way
    used,       \* how often each bounded kind of action has happened
    torn,       \* the window holds an answer older than what it had, or rows of another
                \* conversation, or lacks an optimistic row (history)
    collided,   \* a read position covered a row the service had not numbered (history)
    seen        \* messages the window has shown (history)

service == <<log, delivered, recalled, myRead, theirRead, third>>
window  == <<cur, rows, members>>
group   == <<calls, reloads>>
history == <<torn, collided, seen>>
windowVars == <<service, events, window, loads, group, sending, marks, used, history>>

Messages == Mine \cup Theirs

NotSent == [pc |-> "none", conv |-> None]

Emit(es) == events' = events \o es

Event(type, c, m, seq) == [type |-> type, conv |-> c, msg |-> m, seq |-> seq]

Number(c, m) == CHOOSE i \in DOMAIN log[c] : log[c][i] = m

Stored(c, m) == \E i \in DOMAIN log[c] : log[c][i] = m

\* messageDTO
Row(c, m) == [msg |-> m, id |-> "stored", seq |-> Number(c, m),
              status |-> IF m \in delivered THEN "delivered" ELSE "sent",
              recalled |-> m \in recalled]

\* getMessages
Page(c) == {Row(c, log[c][i]) : i \in DOMAIN log[c]}

\* getConversationMembers
Members(c) == [read |-> theirRead[c], third |-> c \in third]

LastSeq(rs) == IF rs = {} THEN 0
               ELSE CHOOSE n \in {r.seq : r \in rs} : \A r \in rs : r.seq <= n

\* Mutant of ReplaceMessage: rows are matched by id alone.
ReplaceById(rs, next) == {r \in rs : r.msg # next.msg \/ r.id # next.id} \cup {next}

\* replaceMessage: a row of the same id or client_msg_id, or the optimistic row of
\* the send, gives way; otherwise the row is added.
ReplaceMessage(rs, next) == {r \in rs : r.msg # next.msg} \cup {next}

\* The rows a handler leaves, and those it shows for the first time.
Show(rs) ==
    /\ rows' = rs
    /\ seen' = seen \cup {r.msg : r \in rs}

\* The bounds.  A change of the members counts for three moves.
Bounds == [steps |-> MaxSteps, fails |-> MaxFails, marks |-> MaxMarks, changes |-> MaxChanges]

Moves == used.steps + used.fails + used.marks + 3 * used.changes
           + Cardinality({k \in Mine : sending[k] # NotSent} \cup UNION {Range(log[c]) : c \in Convs})

Use(kind) ==
    /\ used[kind] < Bounds[kind]
    /\ Moves + (IF kind = "changes" THEN 3 ELSE 1) <= MaxMoves
    /\ used' = [used EXCEPT ![kind] = @ + 1]

\* Answers that were read before this change of the window.
Outdate(c) == {[l EXCEPT !.stale = @ \/ (l.conv = c /\ (l.paged \/ l.members # None))] : l \in loads}

OutdateMembers(c) == {[r EXCEPT !.stale = @ \/ (r.conv = c /\ r.members # None)] : r \in reloads}

-----------------------------------------------------------------------------
(***************************************************************************)
(* The conversation on screen.                                             *)
(***************************************************************************)
\* A click in ConversationList; the effect of the former conversation is
\* cancelled and the new one hydrated.  The rows stay until they are loaded.  An
\* answer read by now is old in any window to come: no record of it is applied.
Hydrate(c) ==
    /\ cur' = c
    /\ loads' = {[l EXCEPT !.live = FALSE, !.stale = @ \/ l.paged \/ l.members # None] : l \in loads}
                  \cup {[conv |-> c, paged |-> FALSE, rows |-> {}, members |-> None, live |-> TRUE,
                          stale |-> FALSE]}

SetCurrentConversation(c) ==
    /\ c # cur
    /\ Use("steps")
    /\ Hydrate(c)
    /\ UNCHANGED <<service, events, rows, members, group, sending, marks, history>>

\* The page and the members are asked for together and answered separately.
ServeMessages(l) ==
    /\ ~l.paged
    /\ loads' = (loads \ {l}) \cup {[l EXCEPT !.paged = TRUE, !.rows = Page(l.conv)]}
    /\ UNCHANGED <<service, events, window, group, sending, marks, used, history>>

ServeMembers(l) ==
    /\ l.members = None
    /\ loads' = (loads \ {l}) \cup {[l EXCEPT !.members = Members(l.conv)]}
    /\ UNCHANGED <<service, events, window, group, sending, marks, used, history>>

\* Optimistic rows of this conversation that the page does not have.
Unloaded(l) == {k \in Mine : /\ sending[k].pc # "none" /\ sending[k].conv = l.conv
                             /\ \A r \in l.rows : r.msg # k}

\* Mutant of MarksAfter: up to the conversation's last message, not the page's.
MarksAfterAll(l) ==
    IF l.live THEN marks \cup {[conv |-> l.conv, seq |-> Len(log[l.conv])]} ELSE marks

\* hydrateConversation goes on to mark the page as read unless it was cancelled.
MarksAfter(l) ==
    IF l.live /\ l.rows # {} THEN marks \cup {[conv |-> l.conv, seq |-> LastSeq(l.rows)]} ELSE marks

\* loadMessages' answer replaces the window, whatever conversation it shows by then.
LoadMessages(l) ==
    /\ l.paged /\ l.members # None
    /\ Show(l.rows)
    /\ members' = l.members
    /\ reloads' = OutdateMembers(l.conv)
    /\ torn' = (l.conv # cur \/ l.stale \/ Unloaded(l) # {})
    /\ marks' = MarksAfter(l)
    /\ loads' = Outdate(l.conv) \ {[l EXCEPT !.stale = TRUE]}
    /\ UNCHANGED <<service, events, cur, calls, sending, used, collided>>

\* No catch: the rows of the former conversation stay.
LoadFails(l) ==
    /\ Use("fails")
    /\ loads' = loads \ {l}
    /\ torn' = (torn \/ l.conv = cur)
    /\ UNCHANGED <<service, events, window, group, sending, marks, collided, seen>>

\* MarkRead at the service; the answer clears the unread count in the list.
MarkAsRead(k) ==
    /\ myRead' = [myRead EXCEPT ![k.conv] = IF @ < k.seq THEN k.seq ELSE @]
    /\ marks' = marks \ {k}
    /\ UNCHANGED <<log, delivered, recalled, theirRead, third, events, window, loads, group, sending, used, history>>

-----------------------------------------------------------------------------
(***************************************************************************)
(* sendMessage and retryMessage.                                           *)
(***************************************************************************)
\* The optimistic row; its seq is one more than the last that is shown.
Optimistic(k) == [msg |-> k, id |-> "local", seq |-> LastSeq(rows) + 1, status |-> "sending",
                  recalled |-> FALSE]

SendMessage(k) ==
    /\ cur # None
    /\ sending[k].pc = "none"
    /\ Moves < MaxMoves
    /\ Show(ReplaceMessage(rows, Optimistic(k)))
    /\ sending' = [sending EXCEPT ![k] = [pc |-> "asked", conv |-> cur]]
    /\ loads' = Outdate(cur)
    /\ UNCHANGED <<service, events, cur, members, group, marks, used, torn, collided>>

\* The button of a failed row of the window: the same client_msg_id and id, to the
\* conversation that is current now.
RetryMessage(k) ==
    /\ cur # None
    /\ Use("steps")
    /\ \E r \in rows :
          /\ r.msg = k /\ r.status = "failed"
          /\ Show(ReplaceMessage(rows, [Optimistic(k) EXCEPT !.id = r.id]))
    /\ sending[k].pc = "failed"
    /\ sending' = [sending EXCEPT ![k] = [pc |-> "asked", conv |-> cur]]
    /\ loads' = Outdate(cur)
    /\ UNCHANGED <<service, events, cur, members, group, marks, torn, collided>>

\* persistAndFanoutMessage; a key the service has is answered without a record.
Store(k, online) ==
    LET c == sending[k].conv
        known == \E d \in Convs : Stored(d, k) IN
    /\ sending[k].pc = "asked"
    /\ sending' = [sending EXCEPT ![k].pc = "answer"]
    /\ delivered' = IF online THEN delivered \cup {k} ELSE delivered
    /\ log' = IF known THEN log ELSE [log EXCEPT ![c] = Append(@, k)]
    /\ LET n == Len(log[c]) + 1 IN
         IF known THEN UNCHANGED events
         ELSE Emit(<<Event("accepted", c, k, n), Event("persisted", c, k, n)>>
                     \o IF online THEN <<Event("delivered", c, k, n)>> ELSE <<>>)
    /\ UNCHANGED <<recalled, myRead, theirRead, third, window, loads, group, marks, used, history>>

\* The answer takes the place of the optimistic row, in whatever window is shown.
Sent(k) ==
    LET c == sending[k].conv
        home == CHOOSE d \in Convs : Stored(d, k) IN
    /\ sending[k].pc = "answer"
    /\ Show(ReplaceMessage(rows, Row(home, k)))
    /\ sending' = [sending EXCEPT ![k].pc = "done"]
    /\ loads' = Outdate(c)
    /\ torn' = (torn \/ home # cur \/ c # cur)
    /\ UNCHANGED <<service, events, cur, members, group, marks, used, collided>>

\* The request or its answer is lost: the row, if it is shown, has failed.
SendFails(k) ==
    /\ sending[k].pc \in {"asked", "answer"}
    /\ Use("fails")
    /\ Show({IF r.msg = k THEN [r EXCEPT !.status = "failed"] ELSE r : r \in rows})
    /\ sending' = [sending EXCEPT ![k].pc = "failed"]
    /\ UNCHANGED <<service, events, cur, members, loads, group, marks, torn, collided>>

-----------------------------------------------------------------------------
(***************************************************************************)
(* The members of a group, and conversations opened from the contacts.     *)
(***************************************************************************)
\* when: members are set only when the conversation is shown by then ("whenShown"),
\* in any case ("always"), or with the conversation itself ("open").
Reload(c, when) == [conv |-> c, when |-> when, members |-> None, stale |-> FALSE]

\* The dialog offers to add who is not shown as a member and to remove who is.
HandleMember(add) ==
    /\ cur # None
    /\ Use("changes")
    /\ add # members.third
    /\ calls' = calls \cup {[conv |-> cur, add |-> add, served |-> FALSE]}
    /\ UNCHANGED <<service, events, window, loads, reloads, sending, marks, history>>

SetThird(c, in) ==
    /\ third' = IF in THEN third \cup {c} ELSE third \ {c}
    /\ Emit(<<Event("members", c, None, 0)>>)

\* A removal of nobody is refused, and the call ends there.
ServeMember(k) ==
    /\ ~k.served
    /\ IF ~k.add /\ k.conv \notin third
         THEN calls' = calls \ {k} /\ UNCHANGED <<third, events>>
         ELSE calls' = (calls \ {k}) \cup {[k EXCEPT !.served = TRUE]} /\ SetThird(k.conv, k.add)
    /\ UNCHANGED <<log, delivered, recalled, myRead, theirRead, window, loads, reloads, sending, marks,
                   used, history>>

\* Another manager adds or removes the third user.
TheyChangeMembers(c) ==
    /\ Use("changes")
    /\ SetThird(c, c \notin third)
    /\ UNCHANGED <<log, delivered, recalled, myRead, theirRead, window, loads, group, sending, marks, history>>

\* After a removal the window's members are set if it shows the group now, after an
\* addition if it shows it once they are loaded.
MemberAnswered(k) ==
    /\ k.served
    /\ calls' = calls \ {k}
    /\ reloads' = reloads \cup (IF k.add THEN {Reload(k.conv, "whenShown")}
                                 ELSE IF cur = k.conv THEN {Reload(k.conv, "always")} ELSE {})
    /\ UNCHANGED <<service, events, window, loads, sending, marks, used, history>>

\* The conversation a click in the contacts opens: its members are loaded first, and
\* then it becomes the current one.  createGroupChat ends in the same way.
StartDirectChat(c) ==
    /\ Use("changes")
    /\ reloads' = reloads \cup {Reload(c, "open")}
    /\ UNCHANGED <<service, events, window, loads, calls, sending, marks, history>>

ServeMembersAgain(r) ==
    /\ r.members = None
    /\ reloads' = (reloads \ {r}) \cup {[r EXCEPT !.members = Members(r.conv)]}
    /\ UNCHANGED <<service, events, window, loads, calls, sending, marks, used, history>>

\* setCurrentMembers
SetMembers(r) ==
    /\ r.members # None /\ r.when # "open"
    /\ IF r.when = "always" \/ r.conv = cur
         THEN /\ members' = r.members
              /\ torn' = (torn \/ r.stale \/ r.conv # cur)
              /\ loads' = Outdate(r.conv)
              /\ reloads' = OutdateMembers(r.conv) \ {[r EXCEPT !.stale = TRUE]}
         ELSE /\ reloads' = reloads \ {r}
              /\ UNCHANGED <<members, torn, loads>>
    /\ UNCHANGED <<service, events, cur, rows, calls, sending, marks, used, collided, seen>>

\* The effect that loads a conversation runs only when its id changes.
Opened(r) ==
    /\ r.members # None /\ r.when = "open"
    /\ members' = r.members
    /\ reloads' = OutdateMembers(r.conv) \ {[r EXCEPT !.stale = TRUE]}
    /\ IF r.conv = cur
         THEN /\ torn' = (torn \/ r.stale)
              /\ loads' = Outdate(cur)
              /\ cur' = cur
         ELSE Hydrate(r.conv) /\ torn' = torn
    /\ UNCHANGED <<service, events, rows, calls, sending, marks, used, collided, seen>>

\* Nothing is caught: what the call would have set stays as it is.
MembersFail ==
    /\ Use("fails")
    /\ \/ \E k \in calls : calls' = calls \ {k} /\ UNCHANGED <<loads, reloads, torn>>
       \/ \E r \in reloads : /\ reloads' = reloads \ {r}
                             /\ loads' = Outdate(r.conv)
                             /\ torn' = (torn \/ (r.conv = cur /\ r.when # "open"))
                             /\ UNCHANGED calls
    /\ UNCHANGED <<service, events, window, sending, marks, collided, seen>>

-----------------------------------------------------------------------------
(***************************************************************************)
(* The other user, and recalls.                                            *)
(***************************************************************************)
TheySend(m, c) ==
    /\ \A d \in Convs : ~Stored(d, m)
    /\ Moves < MaxMoves
    /\ log' = [log EXCEPT ![c] = Append(@, m)]
    /\ Emit(<<Event("persisted", c, m, Len(log[c]) + 1)>>)
    /\ UNCHANGED <<delivered, recalled, myRead, theirRead, third, window, loads, group, sending, marks, used, history>>

TheyRead(c) ==
    /\ Use("marks")
    /\ theirRead[c] < Len(log[c])
    /\ theirRead' = [theirRead EXCEPT ![c] = Len(log[c])]
    /\ Emit(<<Event("read", c, log[c][Len(log[c])], Len(log[c]))>>)
    /\ UNCHANGED <<log, delivered, recalled, myRead, third, window, loads, group, sending, marks, history>>

\* recallMessage of a stored message, by the one who sent it, on any page.
RecallMessage(c, m) ==
    /\ Use("marks")
    /\ Stored(c, m)
    /\ m \notin recalled
    /\ recalled' = recalled \cup {m}
    /\ Emit(<<Event("recalled", c, m, Number(c, m))>>)
    /\ UNCHANGED <<log, delivered, myRead, theirRead, third, window, loads, group, sending, marks, history>>

-----------------------------------------------------------------------------
(***************************************************************************)
(* applyIncomingEvent: the rows an event leaves.                           *)
(***************************************************************************)
\* Only a row still shown as being sent; a failed one stays failed.
Accepted(e) == {IF r.msg = e.msg /\ r.status = "sending" THEN [r EXCEPT !.status = "sent"] ELSE r :
                r \in rows}

\* The message as it was when the event was written: not recalled.
Carried(e) == [msg |-> e.msg, id |-> "stored", seq |-> e.seq, status |-> "sent",
               recalled |-> FALSE]

Persisted(e) == IF \E r \in rows : r.msg = e.msg /\ r.id = "stored" THEN rows
                ELSE ReplaceMessage(rows, Carried(e))

Delivered(e) == {IF r.msg = e.msg THEN [r EXCEPT !.status = "delivered"] ELSE r : r \in rows}

\* Every row of this user's up to the position, sent or not.
Covered(e) == {r \in rows : r.msg \in Mine /\ r.seq <= e.seq}

\* Mutant of Read: positions are compared the wrong way round.
ReadAbove(e) == {IF r.msg \in Mine /\ r.seq >= e.seq THEN [r EXCEPT !.status = "read"] ELSE r :
                 r \in rows}

Read(e) == {IF r \in Covered(e) THEN [r EXCEPT !.status = "read"] ELSE r : r \in rows}

\* Mutant of Recalled: the row is dropped.
RecalledDrops(e) == {r \in rows : r.msg # e.msg}

Recalled(e) == {IF r.msg = e.msg /\ r.id = "stored"
                  THEN [r EXCEPT !.recalled = TRUE,
                                 !.status = IF @ = "failed" THEN @ ELSE "read"]
                  ELSE r : r \in rows}

Applied(e) == CASE e.type = "accepted"  -> Accepted(e)
                [] e.type = "persisted" -> Persisted(e)
                [] e.type = "delivered" -> Delivered(e)
                [] e.type = "read"      -> Read(e)
                [] e.type = "recalled"  -> Recalled(e)
                [] e.type = "members"   -> rows

\* Only the current conversation's window changes; a message of the other user in
\* it is marked as read.
ApplyIncomingEvent ==
    LET e == Head(events) IN
    /\ events # <<>>
    /\ events' = Tail(events)
    /\ IF e.conv = cur
         THEN /\ Show(Applied(e))
              /\ marks' = IF e.type = "persisted" /\ e.msg \in Theirs
                            THEN marks \cup {[conv |-> e.conv, seq |-> e.seq]} ELSE marks
              /\ collided' = (collided \/ (e.type = "read" /\ \E r \in Covered(e) : r.id = "local"))
              /\ members' = IF e.type = "read" THEN [members EXCEPT !.read = e.seq] ELSE members
              /\ loads' = IF e.type = "members" THEN loads ELSE Outdate(e.conv)
              /\ reloads' = CASE e.type = "members" -> reloads \cup {Reload(e.conv, "whenShown")}
                              [] e.type = "read" -> OutdateMembers(e.conv)
                              [] OTHER -> reloads
         ELSE UNCHANGED <<rows, members, seen, marks, collided, loads, reloads>>
    /\ UNCHANGED <<service, cur, calls, sending, used, torn>>

WindowInit ==
    /\ log = [c \in Convs |-> <<>>]
    /\ delivered = {}
    /\ recalled = {}
    /\ myRead = [c \in Convs |-> 0]
    /\ theirRead = [c \in Convs |-> 0]
    /\ third \in {{}, Convs}
    /\ events = <<>>
    /\ cur = None
    /\ rows = {}
    /\ members = [read |-> 0, third |-> FALSE]
    /\ loads = {}
    /\ calls = {}
    /\ reloads = {}
    /\ sending = [k \in Mine |-> NotSent]
    /\ marks = {}
    /\ used = [kind \in DOMAIN Bounds |-> 0]
    /\ torn = FALSE
    /\ collided = FALSE
    /\ seen = {}

WindowNext ==
    \/ \E c \in Convs : SetCurrentConversation(c) \/ TheyRead(c)
    \/ \E l \in loads : 
          ServeMessages(l) \/ ServeMembers(l) \/ LoadMessages(l) \/ LoadFails(l)
    \/ \E k \in marks : MarkAsRead(k)
    \/ \E k \in Mine : SendMessage(k) \/ RetryMessage(k) \/ Sent(k) \/ SendFails(k)
    \/ \E k \in Mine, online \in BOOLEAN : Store(k, online)
    \/ \E add \in BOOLEAN : HandleMember(add)
    \/ \E k \in calls : ServeMember(k) \/ MemberAnswered(k)
    \/ \E c \in Convs : TheyChangeMembers(c) \/ StartDirectChat(c)
    \/ \E r \in reloads : ServeMembersAgain(r) \/ SetMembers(r) \/ Opened(r)
    \/ MembersFail
    \/ \E m \in Theirs, c \in Convs : TheySend(m, c)
    \/ \E m \in Messages, c \in Convs : RecallMessage(c, m)
    \/ ApplyIncomingEvent

WindowSpec == WindowInit /\ [][WindowNext]_windowVars

-----------------------------------------------------------------------------
Status == {"sending", "sent", "delivered", "read", "failed"}

\* Types, and: however answers, retries and events interleave, the window has one
\* row for a message (replaceMessage, chat-store.tsx:160-177, :589-616).
OneRowPerMessage ==
    /\ rows \subseteq [msg : Messages, id : {"local", "stored"}, seq : Nat, status : Status,
                       recalled : BOOLEAN]
    /\ cur \in Convs \cup {None}
    /\ \A r, q \in rows : r.msg = q.msg => r = q

\* With nothing on its way the window shows exactly the conversation: each stored
\* message at its place, recalled where it is, the other member's read position, and
\* beside them only sends that failed (chat-store.tsx:300-424, :575-688).  It is not
\* claimed while the window holds what an overtaken or failed load left there
\* (chat-store.tsx:308), nor of a row a read position covered by chance; and a stored
\* message whose answer was lost, and a retry's again, keeps the retry's guessed place.
AtRest ==
    /\ events = <<>> /\ loads = {} /\ calls = {} /\ reloads = {}
    /\ \A k \in Mine : sending[k].pc \in {"none", "failed", "done"}

WindowConverges ==
    AtRest /\ ~torn /\ cur # None =>
        /\ members = Members(cur)
        /\ \A i \in DOMAIN log[cur] :
              \E r \in rows :
                 /\ r.msg = log[cur][i] /\ r.id = "stored"
                 /\ \/ r.seq = i /\ r.recalled = (r.msg \in recalled)
                    \/ r.msg \in Mine /\ sending[r.msg].pc = "failed"
        /\ \A r \in rows : \/ r.msg \in {log[cur][i] : i \in DOMAIN log[cur]}
                           \/ sending[r.msg].pc = "failed" /\ (r.status = "failed" \/ collided)

\* What is shown as sent, delivered or read is stored, unless a read position has
\* covered the guessed number of a row still on its way (chat-store.tsx:356,
\* :634-651): then a failed send is shown as read and loses its retry button.
ShownSentIsStored ==
    ~collided => \A r \in rows : r.status \in {"sent", "delivered", "read"} =>
                                    \E c \in Convs : Stored(c, r.msg)

\* While a conversation is on screen and loaded, nothing of the other user is marked
\* as read in it that the window never showed (chat-store.tsx:613-615, :806-815).  It
\* is not claimed before the load: an event that comes first marks all before it.
MarkedWasShown ==
    \A c \in Convs : (c = cur /\ ~torn /\ \A l \in loads : l.conv # c) =>
       \A i \in DOMAIN log[c] : (i <= myRead[c] /\ log[c][i] \in Theirs) => log[c][i] \in seen
=============================================================================
