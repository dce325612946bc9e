# A verification project for WeHi

WeHi is a chat system: a Go backend (`src/backend`), a Next.js client
(`src/frontend`), MySQL for facts, Redis for sessions, presence and the default
message bus. This directory holds TLA+ specifications of its services and of the
client state that talks to them, TLC configurations that check them on small
instances, and TLAPS proofs of what holds for every instance. Paths below are
relative to `src/`; `repository.go` stands for
`backend/internal/app/repository/repository.go`, `chat-store.tsx` and the other
`.tsx`/`.ts` files are under `frontend/`.

`PROJECT.json` maps every definition to the lines it models, lists the hazards
of the code with the properties that watch them, and for every checked property
a *mutant*: a small change of the model, of the kind a bug in the code would
be, under which TLC must find the property violated.

## 1. The system

```
 browser page ── HTTP ──> api process ──> MySQL (messages, members, sync_events, ...)
   auth-context   ^           |     └──> Redis (session keys; presence set: read)
   chat-store     |           | publish sync.notify, message.*, ...
   chat-window    |           v
   contacts-panel |       Redis Pub/Sub  (at most once)
   use-websocket  |           |
       └──── websocket ── realtime process (hub, gauge) ──> Redis (presence set: write)

 admin tab ── HTTP ──> api process (admin_users, ai_retry_jobs, config/ai.yaml)
```

Every HTTP request runs in one goroutine; nothing but MySQL transactions and row
locks orders the goroutines. A change a user should see is written to the
tables in one transaction, then appended to that user's `sync_events` in a
transaction of its own, then announced by a `sync.notify` nudge that may be
lost. A client holds a cursor, the id of the last sync event it replayed, and
pages forward from it on every nudge and on every reconnect. In the browser
nothing runs in parallel, but everything after an `await` runs later, when the
user may have typed, clicked or moved on and other answers and records have come.

### Inventory

| Component | State | Operations | Talks to | What is hard | What makes it correct |
|---|---|---|---|---|---|
| **Message path** (`app/chat/message_service.go`, `repository.go:689-812`) | conversations (last seq, preview), messages, members' read position, delivery status | SendMessage, RecallMessage, MarkRead, UpdateTyping | sync stream, presence (reads), bot | concurrent sends, retries with one `client_msg_id`, recall against send, receipts of several tabs, crash between commit and fan-out | numbers dense and unique, one row per key, preview right, every message announced once, read position monotone |
| **Sync stream** (`chat/sync.go`, `app/sync/service.go`, `repository.go:842-895`, `chat-store.tsx:720-800`) | sync_events, client cursor, in-flight and pending flags | AppendSyncEvents, ListSyncEvents, CurrentSyncCursor, bootstrap, replaySyncEvents | bus, socket, client state | ids visible out of order, two-query pages, lost nudges, overlapping triggers, logging out in mid-replay | the cursor passes nothing unapplied; a reconnect catches up |
| **Groups** (`chat/conversation_service.go`, `repository.go:354-634`) | conversation row, member rows with roles | create, invite, remove, leave, transfer, dissolve, rename, announcement | sync stream | checks outside the writes; two-transaction transfer; dissolution against invitation | one owner while there are members, none after dissolution, lists converge |
| **Direct conversations, settings** (`conversation_service.go`, `repository.go:207-290`) | conversation with a direct key; draft, mute, pin of a member | EnsureDirectConversation, UpdateSettings | sync stream, composer | two users create at once; two saves of one draft | one conversation per pair; the last draft stays |
| **Friends** (`chat/friend_service.go`, `repository.go:120-205`, `components/chat/contacts-panel.tsx`) | friend_requests, friendships; the lists each client shows | create, approve, reject; the panel's dialogs and reloads | sync stream | check-then-act; crossed requests; approve against reject; lists loaded beside records | mutual, decided once; no panel offers what is refused |
| **Realtime hub and presence** (`controllers/realtime_controller.go`, `realtime/hub.go`, `app/presence/service.go`) | hub of sockets, gauge, Redis set | ServeWS, Add, Remove, Broadcast, MarkOnline/Offline | bus, message path (delivery status) | two removers of a socket; several tabs; crash | presence is the set of users with a live socket; gauge honest |
| **Browser socket** (`hooks/use-websocket.ts`) | the socket of a page, its reconnect timeout, the connection mark | connect, onopen, onclose | hub, session | a socket closed to open another; expired tokens | one socket, shown as it is; connected in the end |
| **Message bus** (`platform/rabbit/rabbit.go`) | none (Pub/Sub) | Publish, Consume | all | at-most-once | none is promised; replay makes up for it |
| **Message window** (`lib/chat-store.tsx`) | current conversation, its rows and members | select, load, send, retry, markAsRead, applyIncomingEvent | HTTP API, sync stream | late answers, optimistic rows, guessed numbers | shows what the service holds, once each |
| **Composer** (`components/chat/chat-window.tsx`) | input, draft copy, typing status, timers | type, save draft, send, upload, settings | settings, message path | an effect per change of object, draft or input | the draft last typed survives; typing ends |
| **AI bot and retry jobs** (`app/ai/service.go`) | retry jobs, audit rows | reply, retry worker, RetryJobNow | message path | overlapping workers, crash between reply and status | one reply per message |
| **Sessions** (`app/auth/service.go`, `lib/api.ts`, `lib/auth-context.tsx`, login page, `settings-panel.tsx`) | Redis keys per token and session, the page's tokens and user | register, login, refresh, logout of one or the others | all HTTP | several keys per operation, refreshes shared by requests, half-failed operations | the user shown is the tokens' user; an ended session stays ended |
| **Admin** (`app/admin`, `lib/admin-api.ts`, `app/admin/*/page.tsx`) | admin account, token of the tab, pages, AI configuration | login, password, retry/clean-up of jobs, configuration, monitor, audit, diagnostics | bot jobs, config file | pages that were left go on; redirects by answers | the page fits the account; shows what the server has |
| **Search index, uploads, HTTP layer, configuration** | Elasticsearch documents, files | index, query; upload | bus | order of writes | index follows the table |

## 2. The modules

| Module | Models | Abstraction |
|---|---|---|
| `ConversationLog` | what the message store promises (abstract) | per conversation a log that only grows at its end, keys entered once, recalls for good, read positions |
| `MessageService` | the message path of the API process | statements of one request are steps of a *handler*; `SendMessage`'s transaction is three of them (lock, lookup, insert), so the row lock is checked and not assumed |
| `MessageService_proofs`, `GroupMembership_proofs`, `Contacts_proofs`, `ClientSession_proofs`, `Composer_proofs` | theorems about the module each is named after | section 5 |
| `StreamAndWindow_proofs` | theorems about the stream and the window its records reach, `SyncStream` and `ChatStore` | section 5 |
| `Sockets_proofs` | theorems about both ends of the sockets, `Presence` and `SocketHook` | section 5 |
| `BotAndConsole_proofs` | theorems about the bot and the console that oversees it, `BotReply` and `AdminConsole` | section 5 |
| `SyncStream` | one user's stream, one client | a row is inserted (takes its id) and committed (becomes visible) in two steps; pages are two queries; replay calls are *loops* |
| `GroupMembership` | one group, its operations, the clients' lists | one step per query or transaction; sync records reduced to their type |
| `FriendRequests` | friend requests and friendships at the service | one step per check or transaction; each client's view of the requests |
| `Contacts` (extends `FriendRequests`) | the contacts panel of every user over that service | a dialog's button is the request it makes; a list is loaded in two steps, read and set |
| `Presence` | the realtime process and its Redis set | a socket is a goroutine of ServeWS; broadcasts are another one |
| `SocketHook` | `useWebSocket` of one page | WebSocket objects are slots; the token is none, good or expired |
| `BotReply` | the bot's asynchronous answers, the retry jobs and the two goroutines that work on them, the admin's resets and clean-ups | a turn is one message to the bot; a pass keeps the jobs it listed with the attempt counts they had; due times are a flag |
| `ClientSession` | the tokens and the user of one page, the requests that refresh them, and the auth service's keys | token pairs are numbered; a session is named by its first pair; `Refresh` and `LogoutOthers` are split where Redis commands are |
| `ChatStore` | the message window and its members over a small message service | a message is its `client_msg_id`; the records come once and in order, as `SyncStream` shows |
| `Composer` | the input box, drafts, typing status and settings | a text is a number, each keystroke a new one |
| `AdminConsole` | one tab of the admin console and the answers of the API | a page is boot or shown; the three pages that only load a report are one |
| `MC*` | instances for TLC | symmetry sets, a view |

How the state corresponds to the code:

* `MessageService`: `members` = active rows of `conversation_members`, `lastRead`
  = `last_read_seq`, `lastSeq`/`preview`/`convLock` = the `conversations` row and
  its lock, `messages` = rows with the two unique keys (`KeyFree`, `NumberFree`),
  `recalled`/`delivered` = columns that change, `stream` = `sync_events` per user,
  `proc[h]` = the local variables of a request, with `pc` naming its next
  statement. `SendMessage … FinishSend` are one request in program order;
  `InsertRefused` is the unique key's rollback. `Crash` drops every handler and
  rolls back its lock. The direct pushes (`publishUserEvents`) carry the same
  facts as the sync records and are not told apart from them. `acked` is a history
  variable: ids some send was answered with.
* `SyncStream`: `stage[e]` follows one change from its commit over its row's
  INSERT and COMMIT to the nudge; `boot`, `cursor`, `inFlight`, `pending`,
  `loop` are the client's refs and promises. `applied` (the pages applied) and
  `mishaps` (what befell the stream or the client so far) are history variables.
* `GroupMembership`: `role` = active member rows, `stream` = records not yet
  replayed, `shown` = clients that list the group. `overlap` and `purged` are
  history variables: two requests were under way at a time; a dissolution deleted
  records nobody had replayed yet. `MCGroupMembership` gives TLC a view without the
  records and lists once `overlap` holds: only the clients read them, and no
  property but the types looks at them then. Groups start absent or in any
  state some earlier leaves may have produced.
* `FriendRequests`, `Contacts`: `rows`, `friendships`; `view[u]` and `friends[u]` are
  the two lists of a client, `loads` the lists under way, `sending` and `loadingId`
  the disabled buttons. `overtaken` and `misled` (history) tell a list set from
  an answer older than what it replaced, and a request to someone picked before the
  lists changed.
* `BotReply`: `inline[t]` is the goroutine of `startBotReply`, `job[t]` its row of
  `ai_retry_jobs` (`"deleted"` is a set `deleted_at`), `worker[w]` the local variables
  of `processRetryJobs` in one of its two callers. `disturbed` (history) holds what
  befell a turn: `fault`, a write that failed unnoticed or reported failure after it
  took effect; `crossed`, two passes had its job; `reset`, and `stale` when a worker
  had it; `crash`.
* `Presence`: `phase[s]` is the place of socket `s` in `ServeWS`; `hub`, `gauge`,
  `online` are the shared state; `shared` and `missed` (history) hold the users that had
  two sockets at a time, and those of whom Redis failed a change, whose error
  `ServeWS` drops (`RedisFails`).
* `SocketHook`: `cur` = `wsRef`, `up` = `isConnected`, `timer` = the timeout named by
  `reconnectTimeoutRef`, `stray` counts pending timeouts it no longer names.
  `enabled` and `token` change as `ClientSession` has them change. `hasty` (history): a
  connection was opened while an older socket was still closing.
* `ClientSession`: `token` = `accessToken`/`refreshToken` of `api.ts` (and
  sessionStorage), `refresh` = `refreshPromise` and the request behind it,
  `user`/`loading` = `AuthProvider`, `keyed` and `record` = the refresh-token and
  session keys in Redis. A call is `sent`, waits for a refresh (`await`) and is
  made `again`. `sent`, `apart`, `ended` are history.
* `ChatStore`: `rows` = `currentMessages`, `cur`, `members`; `loads` and
  `reloads` are the answers of `loadMessages` and of the members' list under way, with
  what they were answered; `events` the records not yet applied. `torn`,
  `collided`, `seen` are history: the window holds an overtaken answer; a read
  position covered a guessed number; what was shown so far.
* `Composer`: `input`, `armed` (the 400 ms timer), `typing` = `typingStateRef`, `timer` =
  the typing timer, `shown`/`saved` the draft in the client's copy and at the service,
  `told[c]` what the others were last told. The three effects of `chat-window.tsx`
  run inside the action that changes one of their dependencies. `typed`,
  `strayed`, `crossed` are history.
* `AdminConsole`: `page`, `ai` (the AI page's state), `calls` (requests of the page on
  screen and of pages left), `timers` (the intervals of the monitor). `slipped` and
  `strays` are history.

### Composition

`MessageService` composes with `ConversationLog` through the refinement mapping
`Log == INSTANCE ConversationLog WITH …`: the entry at position `s` of a
conversation is the message with that `seq`. `Contacts` runs on `FriendRequests`: its
actions are the panel's conditions conjoined with the service's. The other seams are
assumptions of one module that another one checks: `SyncStream` abstracts
the writers of all services to events, whose fan-outs are in `MessageService`,
`GroupMembership` and `FriendRequests`; `ChatStore` takes its records in order and
once each, which is `AppliedInOrder`; `SocketHook` lets user and token change as
`ClientSession` may; `AdminConsole` lets jobs end as `BotReply` does.

## 3. The runs

| Run | Instance | Asks |
|---|---|---|
| `MessageSend` | 2 users, 2 conversations, 1 key, 2 handlers, 2 requests; any set of users online; fairness | numbering (`SeqDense`, `NumberIsFresh`), idempotence (`OneRowPerKey`), fan-out (`EveryMessageAnnounced`) |
| `MessageTraffic` | 1 conversation, 3 requests of 2 handlers, one crash, membership or presence change | the refinement (`ImplementsLog`), `PreviewAgrees`, `ReadNeverRegresses`, and that streams and tables agree (`RecordsAgree`: no message announced twice or with a summary older than itself; undisturbed, no record missing) |
| `SyncReplay` | one old row, 2 new ones, page size 1; overlapping appends, lost nudges, and one disconnect, failing page or relogin; fairness | `NoGap`, `AppliedInOrder`, `ReconnectCatchesUp` |
| `GroupLife` | 3 users, 3 requests of 2 handlers, one crash, clients that replay at any time | `OwnerKept`, `WellFormed` (one owner; none after dissolution), `ListConverges` |
| `FriendLife` | 2 users with their panels, 2 rows, 4 requests of 2 handlers | `WellFormed` (friendship mutual, no accepted request without it), `ListsConverge`, `NoIdleRequest`, `DecidedOnce` |
| `PresenceLife` | 2 users, 3 sockets, one crash, failing Redis; fairness | `OneTabIsExact`, `HubAgrees`, `BrokenGoesOffline` |
| `BotRetries` | 1 turn, fresh or left over; 2 passes; 2 of crash, reset, clean-up, failing write; fairness | `AnsweredOnce`, `GivesUpAfterThree`, `EveryTurnEnds` |
| `SessionLife` | 2 users, 2 calls at once, 3 token pairs, tokens that expire at any time, one failing request, reload or revocation by another device | `SessionAgrees`, `RefreshedOnce`, `EndedStaysEnded` |
| `SocketLife` | 4 WebSocket objects, 6 changes of user and token, 3 breaks; fairness | `ShownAsItIs`, `Settles` |
| `ChatWindow` | 2 conversations, a message each way, 5 moves among selections, retries, failures, recalls, receipts, members that change | `OneRowPerMessage`, `WindowConverges`, `ShownSentIsStored`, `MarkedWasShown` |
| `ComposerLife` | 2 conversations, 3 keystrokes, 2 other steps, 2 requests or records under way, failing requests; fairness | `DraftSettles`, `TypingIsTimed`, `TypingEnds` |
| `AdminLife` | 1 job, 2 requests at once, 2 tokens, 2 moves, 2 edits, one fault; fairness | `InPlace`, `PageAgrees`, `PageSettles` |

Bounds, and why they are enough. Two handlers give every pairwise interleaving of
two requests, which is where a missing lock, check or unique key shows; three
users are the smallest group the code creates, and give an owner, an heir and a
bystander; two are enough for a friendship. Two conversations are needed for the one race
the row lock does not cover (one key sent to both) and, in the client, for an
answer that finds another conversation on screen. Two events with page size 1 make a
replay loop go round and end on a full page; one old row makes the cursor
positive at boot. Three sockets of two users give two tabs and a neighbour. Jobs of
the bot do not touch each other, so one turn shows what a pass, a second pass
and the admin do to a job. Two calls at once are what the single-flight refresh
is about; three pairs are two logins and a refresh, or one login refreshed
twice. Four WebSocket objects are more than a page ever has at once until a
connection is made in haste, after which nothing is claimed but `OneSocket`. Five
moves of the message window are a selection, a send, its failure, its retry and
a mark; a change of the members counts for three of them, so that a change and a
selection fit. Three keystrokes are one saved, one under way and one after it. Two
requests of the console are one of the page on screen and one of a page left. The
`Max…` constants only bound the length of behaviours. Deadlock checking is off
because bounded behaviours end; that requests do not block each other for ever is
part of the liveness properties.

Fairness.

* `MessageService!FairSpec`: strong fairness of each handler's next step,
  because a request waits for a row lock that InnoDB grants in queue order, and the
  Go scheduler runs every goroutine; nothing obliges a client to send a request.
* `SyncStream!FairSpec`: weak fairness of an append that has begun, of the
  consumer, of the upgrade handler, of the client's promises and of its 5-second
  reconnect; none of new changes, losses or breaks.
* `Presence!FairSpec`: weak fairness of each ServeWS goroutine (the ping ticker and
  the read deadline of `realtime_controller.go` end the read of a vanished peer) and
  of a broadcast's clean-up.
* `BotReply!FairSpec`: weak fairness of the goroutine of a turn, of each worker
  and of time; the provider may fail for ever.
* `SocketHook!FairHookSpec`: handshakes end and timeouts fire. `Composer!FairSpec`: the
  typing timer fires. `AdminConsole!FairConsole`: a request is answered, if only by an
  error, and what awaits the answer runs.
* `GroupMembership`, `Contacts`, `ClientSession` and `ChatStore` claim no
  liveness; there the end of all work is a condition of the property (`Quiescent`,
  `AtRest`).

Conditions in properties. Several properties hold only of behaviours in which
something did not happen. The condition is then part of the property, as a history
variable, and not of the model: the same runs contain the other behaviours, and
section 4 says what happens in them.

## 4. What the code does otherwise than one may expect

TLC shows each of these as soon as the condition named with it is dropped from its property,
or the environment step named is allowed.

*Message path and streams.*
A process that dies after the commit of a send and before its fan-out leaves a
message that no stream holds; the client's retry finds the row and is answered
without a fan-out (`message_service.go:292-297`; `envSteps = 0` in
`RecordsAgree`). Of two concurrent sends the older summary may be appended last.
Sync ids are handed out at INSERT and become visible at COMMIT, so the cursor can
pass a lower id for good (`repository.go:865,881-882`; `"overlap"` in `NoGap`). With
an empty stream (`History = 0`) the client's `next_cursor || current_cursor` skips
rows that were inserted between the two queries. Changes made while a client boots
are in neither its lists nor its replay (`"busyBoot"`). A logout resets the replay flags while a
replay runs, which then runs beside the next one (`"stray"` in `AppliedInOrder`).

*Groups and friends.* The heir of a transfer may leave between the check and the
promotion, whose UPDATE then matches no row: members without an owner
(`conversation_service.go:333-343`; `overlap` in `OwnerKept`). Two transfers at
once make two owners. Dissolving a group deletes the records its former members
have not replayed yet, whose clients go on listing it (`purged`). Two friend
requests at once both pass the pending check; approve and reject update by id after a
check in another statement, so that of two decisions read as pending the second
overwrites the first (`overlap` in `DecidedOnce`). The requester's list of
friends is not loaded again when a request is accepted. `AddFriendDialog` keeps a
user selected while the lists change (`contacts-panel.tsx:635,664`), so that crossed
requests can still be sent (`misled`); only the request clicked last has its
buttons disabled; an answer that comes late puts an older list over newer records
(`overtaken`).

*Presence and sockets.* Closing one of two tabs marks the user offline
(`realtime_controller.go:87-91`; `shared`). Two removers of one socket decrement the
gauge twice while another socket of the user is there, so the gauge may understate.
A crash of the realtime process leaves its users in the presence set. A connection
made while the former socket is still closing (signing out and in again) is closed by that
socket's `onclose` and its reconnect, which starts over with the one after it
(`use-websocket.ts:33-36,59-67`; `hasty`).

*Bot.* The bot answers twice when the start-up pass and a tick list one job
together (`crossed`), when the process dies or a write fails between the answer and
the job's update, and not at all when storing its first answer fails. A job reset while
a worker holds its old `attempt_count` may be exhausted early (`stale`).

*Session.* A refused refresh clears the tokens and leaves the user shown until the
next reload (`"refused"` in `SessionAgrees`); a bootstrap that cannot reach the
service keeps tokens without a user (`"unreached"`); an answer that was under way
across a logout or a login puts its user or its tokens over the newer ones
(`"crossed"`). A login whose answer is lost leaves a session no page
holds. A session ended while its refresh is between reading its key and issuing the
next pair lives on with that pair.

*Message window.* The answer of `loadMessages` replaces the window whichever
conversation it shows by then, and what newer events had put there
(`chat-store.tsx:308`; `torn`); if the load fails, the rows of the former conversation stay. An
optimistic row guesses its number, so that a read position of the other member may
cover it: a send that then fails is shown as read, without a retry button
(`:356,:634-651`; `collided`). A send that fails after a switch loses its
row silently. A stored message whose answer was lost keeps the place its row guessed, and
so does one sent again until that is answered (`"failed"` in `WindowConverges`). A page
that was read before the user left a conversation, and is set once it is on screen
again, lacks the records between
(`torn`). A recalled row turns "read" whatever it was. A message event that comes before
the load of its conversation marks all earlier messages as read, which were never shown
(`MarkedWasShown` excepts it). `removeConversationMember` compares with the conversation
that was current before it awaited, and `startDirectChat` moves the
window when it ends, wherever the user has gone meanwhile (`:485-493`).

*Composer.* A send that ends after a switch empties the input of the conversation on
screen and resets its typing status, whose "typing" then stays with the others until
the next keystroke there (`strayed`). The answer and the record of a draft's save
overwrite what was typed meanwhile; text typed while a send or an upload is under
way is erased when it ends; switching within 400 ms of a keystroke loses the
text; a failed save is not tried again before the next keystroke (`crossed`).
Selecting a conversation that has a draft announces typing.

*Admin.* A mistyped current password on the form for the new one is answered 401,
which drops the session. A late 401 of an old token's call drops the newer token. A page that was left still
redirects by the failure of its first request, and still moves on when a search it
made is answered (`slipped`). The monitor page left before its first answer leaves
its interval running (`strays`). A failed listing leaves the rows of the former
filter under the new one; the answer of a save replaces what was typed meanwhile
(`ai.clean`); the detail of a job may stay on screen after the job was deleted; a save
by a page that was left may take effect after the next page's load.

## 5. What is proved

The proofs hold for any sets of users, conversations, keys, handlers, sockets, rows and
turns, any environment and any bounds. Of the constants they assume only what the
modules declare: that bounds are natural numbers and environments known, that `None` is
none of the things it stands beside (`NoneIsNoHandler` of `MessageService`,
`NoneIsNoConv` of `Composer`, `NoneIsNoUser` of `ClientSession`, `NoneIsApart` of
`ChatStore`), that a message is sent by one user (`MessagesAreApart` there), that a group has
finitely many users (`UsersAreFinite` of `GroupMembership`), and that a page has room for
its first request (`SlotsExist` of `AdminConsole`). One theorem has a hypothesis
of its own: `NothingIsSkipped` needs `History > 0`, a row in the stream before, because a
page of an empty stream leaves the client at the cursor `next_cursor || current_cursor`
(`chat-store.tsx`), where `next_cursor` 0 counts as none and rows are skipped.

| Theorem | Module | States |
|---|---|---|
| `TypeCorrect` | `MessageService_proofs` | `TypeOK`: every variable keeps its type |
| `NumberingIsDense` | `MessageService_proofs` | `SeqDense`: messages of a conversation are numbered from 1 without gap or duplicate |
| `InsertNeverLosesItsNumber` | `MessageService_proofs` | `NumberIsFresh`: the number read under the lock is free when the row goes in |
| `RetryStoresOnce` | `MessageService_proofs` | `OneRowPerKey`: a sender's key names at most one row |
| `PreviewIsRight` | `MessageService_proofs` | `PreviewAgrees`: the list says "recalled" exactly when the newest message is |
| `ReadMovesForward` | `MessageService_proofs` | `ReadNeverRegresses`: no step moves a member's read position back |
| `StoreIsLog` | `MessageService_proofs` | `ImplementsLog`: the message path implements `ConversationLog` |
| `StreamsTellEveryMember` | `MessageService_proofs` | `RecordsAgree`: a message is announced once per stream and before any summary that covers it; undisturbed, every member is told of every message and receipt |
| `NothingIsSkipped` | `StreamAndWindow_proofs` | `NoGap`: what lies at or below the cursor is in the client's state |
| `ReplayIsOrdered` | `StreamAndWindow_proofs` | `AppliedInOrder`: replays apply strictly increasing ids |
| `WindowHasOneRowEach` | `StreamAndWindow_proofs` | `OneRowPerMessage`: the window has one row for a message |
| `SentIsStored` | `StreamAndWindow_proofs` | `ShownSentIsStored`: what is shown as sent is stored |
| `OnlyShownIsMarked` | `StreamAndWindow_proofs` | `MarkedWasShown`: in the loaded window only what was shown is marked as read |
| `WindowIsConversation` | `StreamAndWindow_proofs` | `WindowConverges`: with nothing under way the window is the conversation |
| `GroupIsWellFormed` | `GroupMembership_proofs` | `WellFormed`: never two owners, and no member of a dissolved group |
| `GroupKeepsItsOwner` | `GroupMembership_proofs` | `OwnerKept`: a group at rest with members has an owner |
| `ListsConverge` | `GroupMembership_proofs` | `ListConverges`: who lists the group is who is in it, once all is replayed |
| `FriendshipsHold` | `Contacts_proofs` | `WellFormed`: friendship is mutual, an approval made friends, one pending request each way |
| `DecisionsStand` | `Contacts_proofs` | `DecidedOnce`: a decided request keeps its decision |
| `PanelsConverge` | `Contacts_proofs` | `ListsConverge`: the panels end up with the stored requests and the new friend |
| `NoneAgainstAnother` | `Contacts_proofs` | `NoIdleRequest`: no pending request between friends, nor one in each direction |
| `HubAlwaysAgrees` | `Sockets_proofs` | `HubAgrees`: no socket in the hub without its handler, and a gauge that never overstates |
| `RedisHasTheLiveUsers` | `Sockets_proofs` | `OneTabIsExact`: of users with one tab, Redis has those with a live socket |
| `SocketShownAsItIs` | `Sockets_proofs` | `ShownAsItIs`: at most one live socket, the one `wsRef` names, and a true mark of it |
| `JobsGetThreeAttempts` | `BotAndConsole_proofs` | `GivesUpAfterThree`: no job is given up before its third failure |
| `OneAnswerPerTurn` | `BotAndConsole_proofs` | `AnsweredOnce`: an undisturbed turn has one answer or one notice at most |
| `AdminIsInPlace` | `BotAndConsole_proofs` | `InPlace`: the page on screen is the one the account calls for |
| `ConsoleAgrees` | `BotAndConsole_proofs` | `PageAgrees`: one interval while the monitor page is shown, rows of the filter, a form that is stored |
| `EndedForGood` | `ClientSession_proofs` | `EndedStaysEnded`: no key of an ended session comes back |
| `TokenSpentOnce` | `ClientSession_proofs` | `RefreshedOnce`: the page sends no refresh token twice |
| `PageShowsItsUser` | `ClientSession_proofs` | `SessionAgrees`: the user shown is the one the tokens were issued to |
| `TypingAlwaysTimed` | `Composer_proofs` | `TypingIsTimed`: whoever is told of typing is told under a timer that ends it |
| `DraftAlwaysSettles` | `Composer_proofs` | `DraftSettles`: input, client's copy and service end up with the text typed last |

The argument.

* *Types.* `TypeOK` alone is not inductive: the step after a label reads fields of the
  handler's record that must not be `None` there. `WellFormed` says which
  (`HoldsKey`: the labels at which a key is held, `HoldsRow`: those at which a
  row is). `TypeInv` adds it for every handler; `MoveType` reduces each action to "the
  record the handler moves to is well-formed".
* *Order.* `SeqDense` is not inductive: the insert uses a number read two steps
  earlier. `LockInv` says that a handler between the two holds the row lock and
  that its number is still the conversation's, so no other handler is there for the
  same conversation. `RowInv` (a row that a handler holds is stored) and `IdInv` (ids
  are below `nextId`, unique, and only given ids are recalled) are what the
  preview needs: a recall by id hits one row, and a new message is not a recalled
  one. `OneRowPerKey` follows from the unique key, `KeyFree`, not from the lock.
  `IInv == TypeInv /\ HandlerInv /\ TableInv` is the whole; most actions preserve it
  by `QuietMove` (the tables are as they were) or `ReleaseMove` (the lock is given
  back), and `InsertMessage`, `RecallTx` and `Crash` are argued one conjunct at a
  time. `LockInv` and `SeqDense` give `NumberIsFresh`.
* *Refinement.* `LogOf` picks the message at a position with `CHOOSE`; `SeqDense` makes
  it the only one (`LogEntries`), so that `LogOf(c)` is a sequence of length
  `lastSeq[c]` (`LogIsSequence`) whose entries stay while the messages do
  (`LogKept`). `InsertMessage` is then `Send`, where `KeyFree` shows that no log has
  the entry; `RecallTx` is `Recall`, `AddMember` is `Join`, and `MarkReadTx` is `Read`
  when it moves the position and a stutter when it does not. A receipt's
  position must exist in the log, which is `TargetInv`: it was at most `lastSeq` when the
  request was read, and `lastSeq` never falls. Every other step leaves the log's
  variables alone (`OtherStepsStutter`).
* *Socket.* `ShownAsItIs` is not inductive: an `onclose` of one object takes away the
  mark of another. `OneObject` says that, until a connection is made in haste, there is
  one object at a time; `ConnectKeeps` argues `connect` once for its three callers.
* *Typing.* What the typing effect sends depends on the status ref, so the ref must
  be set wherever somebody was told: `Timed`. A request that ends writes to its own
  conversation, so `WorkOK` says that each has one, and that nothing is under
  way before the first selection. The effects are argued one lemma each, the
  actions by the effects they run.
* *Hub.* That the gauge is at most the number of sockets needs the hub to be
  finite, whatever the set of sockets, and a socket not to be there when its
  handler adds it; `RemoveKeepsBound` argues `Hub.Remove` once for its two callers.
* *Jobs.* A worker writes what it decided by the attempt count it read when it listed
  the job. `CountInv` says that such a count, and the row's, is never more than the
  failures so far; a reset makes both untrue of the workers that hold the job, which is
  what `stale` records.

* *Records.* Whether every member is told depends on what a handler still has to do.
  `MessagesReach` and `ReceiptsReach` say that a message or a read position is in a
  member's stream, or that the handler which wrote it will get there (`Owes`,
  `Carries`); `CreatorInv` that a message not announced yet has one handler at most on
  its way to announce it, which is why it is announced once; `StaysInv` that the
  recipients a handler read are still members. The last two disjuncts hold only
  while nothing disturbs (`envSteps = 0`), as the property says.
* *Stream.* Without overlapping appends the one row that is not committed has the
  highest id (`LastUncommitted`), so a value is a watermark (`Settled`) once no such
  row can come in at or below it. `AtBoot` and `AtLoop` say that the cursor, and the
  place every replay loop has reached, are watermarks below which all is in the
  client's state, and that a page read has no hole (`Whole`). For the order,
  `Sole` and `AppliedBelow`: without a replay from before a logout one loop
  applies, and what was applied lies at or below its place.
* *Window.* `WindowInv` says what is still owed. A list of rows, in the window or in a
  page that is not old, has every message of its conversation but those whose record
  comes (`Covers`), and its rows are recalled where they should be but where a recall
  comes (`RecallTold`); a members list is right, or a record or a load of the members
  comes (`MembersTold`). This is of pages as soon as they are read (`LoadsTold`) and
  of the window from the load that sets one (`WindowTold`): a record taken
  meanwhile makes a page old, unless the page has it too. It needs the records to come
  in the order of their numbers, a recall after its message and the highest read
  position last (`RecordsOrdered`), and true ones (`RecordsTrue`). Of several loads of
  the members each is owed a record or another load (`OthersThan`), because the one
  that is set makes the others old. A position marked passes only what was shown or
  what comes (`MarkedTrue`), and in a loaded window what does not come is shown. The
  steps of the service are reduced to five kinds (`ServiceMove`), what a step makes of
  the rows, of a load and of a send to `RowsMove`, `LoadMove` and `SendMove`.
* *Group.* The handlers hold no lock, so the claims are about requests that come one
  at a time, and `GroupInv` is about the one handler at work (`Tidy`): `Stage` says what
  still holds of what it read, `Owes` which users it has yet to tell, `Foretold` that
  a list which differs from the membership has a record under way. That nobody is a
  member of a dissolved group is of the tables alone and needs no such condition.
* *Friends.* `CoreInv` is the service's part, again with a `Stage`, and gives mutual
  friendship without any condition. A panel's list is current, or the record or the
  load that will make it so is on its way (`ShownNow`, `FriendComes`); an answer that
  was read and not outdated is current, or the client has not had the record that
  comes after (`ReadNow`), so that setting the list undoes nothing for good. The
  steps of the service are reduced to `Informs`: a status changes only where
  records will tell. `NoIdleRequest` then needs that who asks has nobody's request
  against him (`Asking`), which the dialog sees because its list is current.
* *Redis.* `SoleHandler`: a user who never had two sockets at a time has one open
  handler. Redis then follows the announced handlers (`RedisFollows`).
* *Turns.* `OnceInv`: an undisturbed turn is held by one worker at most (`SpokenOnce`),
  and no worker holds two jobs of a turn (`HoldsOnce`), so that none speaks after
  another has.
* *Session.* `KeyInv` says that a session has one refresh key at most, and where a
  refresh between two Redis commands stands with it; `EndInv` what a refresh or a sign-out
  of an ended session still knows; `SentInv` that a token sent is never held again by
  a page. `FlowInv` and `UserInv` say that everything in flight is of the page's
  user, unless a login or a logout was crossed by an answer.
* *Console.* Every page starts anew with `Open`, which leaves the former page's requests
  running but takes the screen from them (`OpenKeeps`, one argument for its six
  callers). `CallsFit` says which requests the page on screen may have under way;
  `PlaceTrue` that what an answer says of the account is still so when it is read,
  because the account only ever gets a password and tokens, and a password just set
  is on its way to be heard of (`Changed`); `RowsFit` that one request about the jobs is
  under way at a time, for the filter highlighted; `FormFits` that a save without
  another beside it leaves form and configuration equal.
* *Draft.* `Settling` says what each of the request, its answer and the record under way
  carries, as long as no answer crossed what was typed: at most one is under way
  (`OneAtATime`), it has what the service stored (`Answers`), the client's copy differs
  from that only while one is coming (`Copies`), and the input is the text typed
  last and will be saved (`Input`).

Each of these invariants was checked by TLC on the instances of section 3 before it
was proved.

Model-checked only: the liveness properties (`EveryMessageAnnounced`,
`ReconnectCatchesUp`, `BrokenGoesOffline`, `EveryTurnEnds`, `Settles`, `TypingEnds`,
`PageSettles`), since the prover treats neither fairness nor `ENABLED`. Every safety
property of every run is the statement of a theorem.

## 6. What is not modelled, and why

* The search index: documents are written by the compensation path and by the
  consumer in any order, and nothing in the repository reads them back into state
  of its own.
* HTTP routing and decoding, configuration, wiring, metrics, and the scripts that
  start and probe the services: no shared state of their own. Of uploads the
  composer's side is modelled; the service writes one object per key.
* The RabbitMQ bus: not the default deployment; the Redis bus's at-most-once
  delivery is the weaker assumption.
* Renames, announcements, pins and remarks: each writes one row and announces
  it like the operations that are modelled; `UpdateTyping` at the service sets one
  expiring key (the composer's side of it is modelled).
* Logging out of all sessions at once, which nothing in the client calls, and the
  expiry of refresh tokens.
* The AI provider's protocol, the audit log's rows, and the making of the bot's
  account and conversation (`EnsureBotForUser`).
* Of the client: the list of conversations beyond membership and drafts, leaving and
  renaming a group from the window, the local filters of search boxes, layout,
  formatting. Of the console: what the monitor and the diagnostics compute.
* Contents, names, texts, timestamps and paging of history: data the properties do
  not tell apart.

## 7. Plan

Proofs: every safety property that the runs check is proved; the liveness properties
stay with TLC. Next are the steps a liveness argument would use, stated as action
properties: that an append, a reload or a turn under way comes nearer its end with every
step of its own.

Models: the deviations of section 4 that are conditions of properties today get the
strongest unconditional statement that is true of the code, as
`GivesUpAfterThree` has for failing writes.
