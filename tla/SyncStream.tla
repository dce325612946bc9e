----------------------------- MODULE SyncStream -----------------------------
(***************************************************************************)
(* How one client keeps up with one user's sync_events: the writers that   *)
(* append rows and publish sync.notify (chat/sync.go), the cursor and page *)
(* queries (repository.go, sync/service.go), the socket that carries the   *)
(* nudges (realtime_controller.go, hub.go, rabbit.go) and the client's     *)
(* bootstrap and replay loop (chat-store.tsx, use-websocket.ts).           *)
(*                                                                         *)
(* An event stands for one change of what this user sees.  Its row gets an *)
(* AUTO_INCREMENT id when it is inserted and is seen by queries when its   *)
(* transaction commits, so ids may become visible out of order.            *)
(***************************************************************************)
EXTENDS Naturals, Sequences, FiniteSets

CONSTANTS
    Events,    \* the changes made while the client runs, one sync row each
    Loops,     \* invocations of replaySyncEvents that may be in flight at a time
    History,   \* rows the user's stream already holds, with ids 1..History
    PageSize,  \* limit of one page
    Env,       \* what the environment does:
               \*   "overlap"    two appends to the stream overlap in time
               \*   "busyBoot"   changes are made while the client boots
               \*   "drop"       Redis Pub/Sub or the socket loses a nudge
               \*   "disconnect" the socket breaks
               \*   "httpError"  a page request fails
               \*   "relogin"    the user logs out and in again
    MaxBreaks  \* bound: disconnects, logouts and failing requests

ASSUME HistoryIsNat == History \in Nat
ASSUME PageSizeIsPositive == PageSize \in Nat \ {0}
ASSUME BreaksAreNat == MaxBreaks \in Nat
ASSUME EnvIsKnown ==
    Env \subseteq {"overlap", "busyBoot", "drop", "disconnect", "httpError", "relogin"}

VARIABLES
    stage,    \* of each event: "none", "done" (the change committed), "inserted"
              \* (its row has an id), "visible", "notified"
    id,       \* the row's id, 0 before it has one
    lastId,   \* AUTO_INCREMENT of sync_events
    nudges,   \* sync.notify messages on their way
    socket,   \* "down", "open" (upgraded, the client knows), "registered" (in the hub)
    breaks,   \* disconnects, logouts and failed requests so far
    boot,     \* the client's bootstrap: "load", "cursor", "set", "ready"
    head,     \* the cursor a bootstrap query answered
    cursor,   \* syncCursorRef
    inFlight, \* syncReplayInFlightRef
    pending,  \* syncReplayPendingRef
    loop,     \* of each invocation, where it is: "off", "rows", "current", "apply"
    from,     \* the cursor it asks a page for
    page,     \* the events of that page
    current,  \* the current_cursor of that page
    known,    \* events whose effect the client's state shows
    applied,  \* the pages applied since login, each as its set of ids (history)
    mishaps   \* "overlap", "busyBoot", "httpError" once that happened, "stray" once a
              \* logout left a replay running (history)

server == <<stage, id, lastId>>
link   == <<nudges, socket, breaks>>
boots  == <<boot, head>>
loops  == <<inFlight, pending, loop, from, page, current>>
state  == <<known, applied>>
vars   == <<server, link, boots, cursor, loops, state, mishaps>>

Visible == {e \in Events : stage[e] \in {"visible", "notified"}}

Highest(S, floor) == CHOOSE n \in S \cup {floor} : \A m \in S \cup {floor} : m <= n

\* CurrentSyncCursor: MAX(id), or 0.
CurrentSyncCursor == Highest({id[e] : e \in Visible}, History)

\* WHERE id > c ORDER BY id ASC LIMIT PageSize, as the set of its rows.
After(c) == {e \in Visible : id[e] > c}

IsPage(S, c) ==
    /\ S \subseteq After(c)
    /\ \A e \in S, f \in After(c) \ S : id[e] < id[f]
    /\ Cardinality(S) <= PageSize
    /\ S = After(c) \/ Cardinality(S) = PageSize

-----------------------------------------------------------------------------
Init ==
    /\ stage = [e \in Events |-> "none"]
    /\ id = [e \in Events |-> 0]
    /\ lastId = History
    /\ nudges = 0
    /\ socket = "down"
    /\ breaks = 0
    /\ boot = "load"
    /\ head = 0
    /\ cursor = 0
    /\ inFlight = FALSE
    /\ pending = FALSE
    /\ loop = [l \in Loops |-> "off"]
    /\ from = [l \in Loops |-> 0]
    /\ page = [l \in Loops |-> {}]
    /\ current = [l \in Loops |-> 0]
    /\ known = {}
    /\ applied = <<>>
    /\ mishaps = {}

-----------------------------------------------------------------------------
(***************************************************************************)
(* Writers: a service method changes the tables, then emitSyncEvent        *)
(* appends the row and publishes sync.notify.                              *)
(***************************************************************************)
Booting == boot \in {"cursor", "set"}

\* A write while the client boots.
Writing(overlaps) ==
    /\ Booting => "busyBoot" \in Env
    /\ overlaps => "overlap" \in Env
    /\ mishaps' = mishaps \cup (IF Booting THEN {"busyBoot"} ELSE {})
                          \cup (IF overlaps THEN {"overlap"} ELSE {})

\* The method's own transaction commits.
Change(e) ==
    /\ Writing(FALSE)
    /\ stage[e] = "none"
    /\ stage' = [stage EXCEPT ![e] = "done"]
    /\ UNCHANGED <<id, lastId, link, boots, cursor, loops, state>>

\* AppendSyncEvents runs in a transaction of its own; the id is taken at INSERT.
InsertRow(e) ==
    /\ Writing(\E f \in Events : stage[f] = "inserted")
    /\ stage[e] = "done"
    /\ stage' = [stage EXCEPT ![e] = "inserted"]
    /\ lastId' = lastId + 1
    /\ id' = [id EXCEPT ![e] = lastId + 1]
    /\ UNCHANGED <<link, boots, cursor, loops, state>>

CommitRow(e) ==
    /\ Writing(FALSE)
    /\ stage[e] = "inserted"
    /\ stage' = [stage EXCEPT ![e] = "visible"]
    /\ UNCHANGED <<id, lastId, link, boots, cursor, loops, state>>

\* The publish; it does not fail the method and is not repeated later.
Notify(e) ==
    /\ stage[e] = "visible"
    /\ stage' = [stage EXCEPT ![e] = "notified"]
    /\ nudges' = nudges + 1
    /\ UNCHANGED <<id, lastId, socket, breaks, boots, cursor, loops, state, mishaps>>

-----------------------------------------------------------------------------
(***************************************************************************)
(* Replay: a call of replaySyncEvents, and the service behind one page.    *)
(***************************************************************************)

\* A call gets past the ready and in-flight checks and asks from cursor c.
Begin(c) ==
    \E l \in Loops :
        /\ loop[l] = "off"
        /\ loop' = [loop EXCEPT ![l] = "rows"]
        /\ from' = [from EXCEPT ![l] = c]
        /\ inFlight' = TRUE

\* Mutant of Trigger: no in-flight flag.
TriggerAnyway ==
    IF boot # "ready" THEN UNCHANGED loops
    ELSE /\ Begin(cursor)
         /\ UNCHANGED <<pending, page, current>>

\* replaySyncEvents is called.
Trigger ==
    IF boot # "ready" THEN UNCHANGED loops
    ELSE IF inFlight
           THEN /\ pending' = TRUE
                /\ UNCHANGED <<inFlight, loop, from, page, current>>
           ELSE /\ Begin(cursor)
                /\ UNCHANGED <<pending, page, current>>

\* ListSyncEvents reads the rows ...
ReadRows(l) ==
    /\ loop[l] = "rows"
    /\ \E S \in SUBSET Events : IsPage(S, from[l]) /\ page' = [page EXCEPT ![l] = S]
    /\ loop' = [loop EXCEPT ![l] = "current"]
    /\ UNCHANGED <<server, link, boots, cursor, inFlight, pending, from, current, state, mishaps>>

\* ... and then, in a query of its own, the current cursor.
ReadCurrent(l) ==
    /\ loop[l] = "current"
    /\ current' = [current EXCEPT ![l] = CurrentSyncCursor]
    /\ loop' = [loop EXCEPT ![l] = "apply"]
    /\ UNCHANGED <<server, link, boots, cursor, inFlight, pending, from, page, state, mishaps>>

\* ListEvents' next_cursor: the id of the last row, or the cursor it was given.
NextCursor(l) == Highest({id[e] : e \in page[l]}, from[l])
HasMore(l) == NextCursor(l) < current[l]

\* Mutant of NewCursor: the cursor goes to the end of the stream.
NewCursorCurrent(l) == current[l]

\* result.next_cursor || result.current_cursor || cursor
NewCursor(l) == IF NextCursor(l) # 0 THEN NextCursor(l) ELSE current[l]

\* The "finally" of a call: a trigger that came meanwhile makes it call again,
\* which the ready check may refuse.
Finish(l, c) ==
    /\ pending' = FALSE
    /\ IF pending /\ boot = "ready"
         THEN /\ loop' = [loop EXCEPT ![l] = "rows"]
              /\ from' = [from EXCEPT ![l] = c]
              /\ inFlight' = TRUE
         ELSE /\ loop' = [loop EXCEPT ![l] = "off"]
              /\ from' = [from EXCEPT ![l] = 0]
              /\ inFlight' = FALSE
    /\ page' = [page EXCEPT ![l] = {}]
    /\ current' = [current EXCEPT ![l] = 0]

\* The answer arrives: its events are applied in order, the cursor is set, and
\* the loop goes on while the page was not the last one.
ApplyPage(l) ==
    /\ loop[l] = "apply"
    /\ known' = known \cup page[l]
    /\ applied' = Append(applied, {id[e] : e \in page[l]})
    /\ cursor' = NewCursor(l)
    /\ IF HasMore(l) /\ page[l] # {}
         THEN /\ loop' = [loop EXCEPT ![l] = "rows"]
              /\ from' = [from EXCEPT ![l] = NextCursor(l)]
              /\ UNCHANGED <<inFlight, pending, page, current>>
         ELSE Finish(l, NewCursor(l))
    /\ UNCHANGED <<server, link, boots, mishaps>>

\* getSyncEvents throws: nothing is applied and the loop ends.
PageFails(l) ==
    /\ "httpError" \in Env
    /\ loop[l] # "off"
    /\ breaks < MaxBreaks
    /\ breaks' = breaks + 1
    /\ Finish(l, cursor)
    /\ mishaps' = mishaps \cup {"httpError"}
    /\ UNCHANGED <<server, nudges, socket, boots, cursor, state>>

-----------------------------------------------------------------------------
(***************************************************************************)
(* The socket                                                              *)
(***************************************************************************)

\* Mutant of Open: a reconnect waits for the next nudge.
OpenSilently ==
    /\ socket = "down"
    /\ socket' = "open"
    /\ UNCHANGED <<server, nudges, breaks, boots, cursor, loops, state, mishaps>>

\* The upgrade completes: onopen sets isConnected, whose effect replays.
Open ==
    /\ socket = "down"
    /\ socket' = "open"
    /\ Trigger
    /\ UNCHANGED <<server, nudges, breaks, boots, cursor, state, mishaps>>

\* ServeWS goes on after the upgrade and adds the socket to the hub.
Register ==
    /\ socket = "open"
    /\ socket' = "registered"
    /\ UNCHANGED <<server, nudges, breaks, boots, cursor, loops, state, mishaps>>

\* The consumer broadcasts a nudge to the user's sockets; with none in the hub
\* it is gone.
Deliver ==
    /\ nudges > 0
    /\ nudges' = nudges - 1
    /\ IF socket = "registered" THEN Trigger ELSE UNCHANGED loops
    /\ UNCHANGED <<server, socket, breaks, boots, cursor, state, mishaps>>

Drop ==
    /\ "drop" \in Env
    /\ nudges > 0
    /\ nudges' = nudges - 1
    /\ UNCHANGED <<server, socket, breaks, boots, cursor, loops, state, mishaps>>

Disconnect ==
    /\ "disconnect" \in Env
    /\ socket # "down"
    /\ breaks < MaxBreaks
    /\ breaks' = breaks + 1
    /\ socket' = "down"
    /\ UNCHANGED <<server, nudges, boots, cursor, loops, state, mishaps>>

-----------------------------------------------------------------------------
(***************************************************************************)
(* Login: the lists are loaded, then the cursor is asked for, then the     *)
(* client is ready to replay.                                              *)
(***************************************************************************)
LoadLists ==
    /\ boot = "load"
    /\ known' = {e \in Events : stage[e] # "none"}
    /\ boot' = "cursor"
    /\ UNCHANGED <<server, link, head, cursor, loops, applied, mishaps>>

AskCursor ==
    /\ boot = "cursor"
    /\ head' = CurrentSyncCursor
    /\ boot' = "set"
    /\ UNCHANGED <<server, link, cursor, loops, state, mishaps>>

BecomeReady ==
    /\ boot = "set"
    /\ cursor' = head
    /\ boot' = "ready"
    /\ UNCHANGED <<server, link, head, loops, state, mishaps>>

\* Logging out closes the socket and resets the state and the flags; a replay
\* that awaits its page runs on.
Relogin ==
    /\ "relogin" \in Env
    /\ boot = "ready"
    /\ breaks < MaxBreaks
    /\ breaks' = breaks + 1
    /\ socket' = "down"
    /\ boot' = "load"
    /\ cursor' = 0
    /\ known' = {}
    /\ applied' = <<>>
    /\ inFlight' = FALSE
    /\ pending' = FALSE
    /\ UNCHANGED <<server, nudges, head, loop, from, page, current>>
    /\ mishaps' = mishaps \cup (IF \E l \in Loops : loop[l] # "off" THEN {"stray"} ELSE {})

-----------------------------------------------------------------------------
Writer(e) == Change(e) \/ InsertRow(e) \/ CommitRow(e) \/ Notify(e)

Login == LoadLists \/ AskCursor \/ BecomeReady

Replay(l) == ReadRows(l) \/ ReadCurrent(l) \/ ApplyPage(l)

Next ==
    \/ \E e \in Events : Writer(e)
    \/ \E l \in Loops : Replay(l) \/ PageFails(l)
    \/ Open \/ Register \/ Deliver \/ Drop \/ Disconnect
    \/ Login \/ Relogin

Spec == Init /\ [][Next]_vars

\* An append that began ends, and is published; the consumer goroutine, the
\* upgrade handler and the client's promises run on; a socket that is down is
\* reopened after 5 s for as long as the client lives.
FairSpec ==
    /\ Spec
    /\ \A e \in Events : WF_vars(InsertRow(e) \/ CommitRow(e) \/ Notify(e))
    /\ \A l \in Loops : WF_vars(Replay(l))
    /\ WF_vars(Open) /\ WF_vars(Register) /\ WF_vars(Deliver) /\ WF_vars(Login)

-----------------------------------------------------------------------------
TypeOK ==
    /\ stage \in [Events -> {"none", "done", "inserted", "visible", "notified"}]
    /\ id \in [Events -> Nat]
    /\ lastId \in Nat
    /\ nudges \in Nat
    /\ socket \in {"down", "open", "registered"}
    /\ breaks \in Nat
    /\ boot \in {"load", "cursor", "set", "ready"}
    /\ head \in Nat
    /\ cursor \in Nat
    /\ inFlight \in BOOLEAN
    /\ pending \in BOOLEAN
    /\ loop \in [Loops -> {"off", "rows", "current", "apply"}]
    /\ from \in [Loops -> Nat]
    /\ page \in [Loops -> SUBSET Events]
    /\ current \in [Loops -> Nat]
    /\ known \in SUBSET Events
    /\ applied \in Seq(SUBSET Nat)
    /\ mishaps \in SUBSET {"overlap", "busyBoot", "httpError", "stray"}

\* The cursor is a replay watermark (repository.go:881-882): whatever lies at or
\* below it is in the client's state, so moving forward from it misses nothing, as
\* long as no two appends to the stream overlap, none happens while the client boots,
\* and the stream held a row before (History > 0).
NoGap ==
    boot = "ready" /\ mishaps \subseteq {"httpError", "stray"} =>
        \A e \in Events : id[e] # 0 /\ id[e] <= cursor => e \in known

\* Nudges, reconnects and page boundaries may overlap in any way: the ids that
\* replays apply still increase strictly, none is applied twice or backwards, unless
\* a replay from before a logout still runs (chat-store.tsx:744-783).
AppliedInOrder ==
    /\ TypeOK
    /\ "stray" \notin mishaps =>
          \A i, j \in DOMAIN applied :
              i < j => \A m \in applied[i], n \in applied[j] : m < n

\* A row appended while the socket was down is in the client's state in the end:
\* the replay on reconnect does not depend on any nudge (README.md, "Replayable
\* sync model").  Overlapping appends and failing requests may each break it.
ReconnectCatchesUp ==
    \A e \in Events :
        (boot = "ready" /\ socket = "down" /\ e \in Visible) ~> \/ e \in known
                                                              \/ mishaps \ {"stray"} # {}
=============================================================================
