------------------------------ MODULE Composer ------------------------------
(***************************************************************************)
(* The input box of components/chat/chat-window.tsx: the draft it saves    *)
(* 400 ms after the last keystroke, the typing status it sends, and what   *)
(* sending a message, uploading a file or changing a setting does to it.   *)
(* The three effects run again whenever the conversation object, its draft *)
(* or the input changes; a saved draft comes back twice, in the answer and *)
(* in a conversation.updated record.                                       *)
(*                                                                         *)
(* A text is a number, each keystroke makes a new one, 0 is the empty text *)
(* (blank space counts as empty).  Requests for the typing status are      *)
(* taken to arrive in the order they are made.                             *)
(***************************************************************************)
EXTENDS Naturals, Sequences, FiniteSets

CONSTANTS
    Convs,    \* conversations
    MaxTexts, \* bound: keystrokes
    MaxSteps, \* bound: selections, toggles, uploads, and messages of others
    MaxCalls, \* bound: settings requests and records under way when one more is made
    Faults,   \* whether a request may fail
    None      \* no conversation, no timer

ASSUME BoundsAreNat == MaxTexts \in Nat /\ MaxSteps \in Nat /\ MaxCalls \in Nat
ASSUME FaultsIsBoolean == Faults \in BOOLEAN
ASSUME NoneIsNoConv == None \notin Convs

VARIABLES
    cur,    \* currentConversation
    input,  \* inputValue
    shown,  \* of each conversation, the draft in the client's copy
    saved,  \* of each conversation, the draft at the service
    armed,  \* the 400 ms timer runs
    saves,  \* settings requests under way
    events, \* conversation.updated records on their way
    typing, \* typingStateRef
    timer,  \* the conversation the typing timer is for
    told,   \* of each conversation, the typing status last sent
    send,   \* handleSend
    upload, \* handleUpload
    texts, steps,
    typed,  \* the text last typed in this conversation and not sent since (history)
    strayed, \* a send ended when another conversation was on screen (history)
    crossed \* an edit, a selection or a save came while a request or its record was
            \* on its way, an upload ended over a text, or a request failed (history)

box     == <<cur, input, shown, armed>>
notice  == <<typing, timer, told>>
work    == <<send, upload>>
bounds  == <<texts, steps>>
history == <<typed, strayed, crossed>>
vars == <<box, saved, saves, events, notice, work, bounds, history>>

Texts == 0..MaxTexts
Rest == [pc |-> "idle", conv |-> None]

Busy == saves # {} \/ events # <<>> \/ send.pc # "idle" \/ upload.pc # "idle"

Room == Cardinality(saves) + Len(events) < MaxCalls

Step == steps < MaxSteps /\ steps' = steps + 1

-----------------------------------------------------------------------------
(***************************************************************************)
(* The effects.                                                            *)
(***************************************************************************)
\* The typing effect, over the status ref and the statuses sent so far.
SyncTyping(ref, sent, c, text) ==
    /\ typing' = (ref \/ text # 0)
    /\ told' = IF text # 0 /\ ~ref THEN [sent EXCEPT ![c] = TRUE] ELSE sent
    /\ timer' = IF ref \/ text # 0 THEN c ELSE None

\* Its first run after a new draft is skipped; it runs again if that changed the input.
SkipTyping(ref, sent) ==
    /\ typing' = ref
    /\ told' = sent
    /\ timer' = None

\* Mutant of Hush: the conversation that is left is not told.
HushNobody(ref, sent) == sent

\* The clean-up of the last effect, for the conversation object that is left.
Hush(ref, sent) == IF ref /\ cur # None THEN [sent EXCEPT ![cur] = FALSE] ELSE sent

\* The debounce effect starts its timer again, or needs none.
Debounce(c, text, draft) == armed' = (text # draft)

\* The effects of a new object for conversation c: the input becomes its draft if
\* the conversation or the draft is another one.
Render(c, draft, ref, sent) ==
    /\ cur' = c
    /\ shown' = [shown EXCEPT ![c] = draft]
    /\ IF c = cur /\ draft = shown[c]
         THEN /\ input' = input
              /\ SyncTyping(ref, Hush(ref, sent), c, input)
         ELSE /\ input' = draft
              /\ IF draft = input THEN SkipTyping(ref, Hush(ref, sent))
                                  ELSE SyncTyping(ref, Hush(ref, sent), c, draft)
    /\ Debounce(c, input', draft)

\* Another conversation's object changes the list alone.
Update(c, draft, ref, sent) ==
    IF c = cur THEN Render(c, draft, ref, sent)
    ELSE /\ shown' = [shown EXCEPT ![c] = draft]
         /\ typing' = ref
         /\ told' = sent
         /\ UNCHANGED <<cur, input, armed, timer>>

\* inputValue alone changes.
SetInput(text) ==
    /\ input' = text
    /\ IF cur = None THEN UNCHANGED notice ELSE SyncTyping(typing, told, cur, text)
    /\ armed' = (cur # None /\ text # shown[cur])
    /\ UNCHANGED <<cur, shown>>

-----------------------------------------------------------------------------
(***************************************************************************)
(* The user.                                                               *)
(***************************************************************************)
Type(text) ==
    /\ cur # None
    /\ texts < MaxTexts
    /\ texts' = texts + 1
    /\ text \in {0, texts + 1}
    /\ text # input
    /\ SetInput(text)
    /\ typed' = text
    /\ crossed' = (crossed \/ Busy)
    /\ UNCHANGED <<saved, saves, events, work, steps, strayed>>

SetCurrentConversation(c) ==
    /\ c # cur
    /\ Step
    /\ Render(c, shown[c], typing, told)
    /\ typed' = shown[c]
    /\ crossed' = (crossed \/ Busy)
    /\ UNCHANGED <<saved, saves, events, work, texts, strayed>>

\* updateConversationSettings: a request with a draft, or (toggles) without one.
Request(c, draft, keep, then) == [conv |-> c, draft |-> draft, keep |-> keep, then |-> then,
                                  pc |-> "asked"]

SaveDraft ==
    /\ armed
    /\ Room
    /\ armed' = FALSE
    /\ saves' = saves \cup {Request(cur, input, FALSE, "typed")}
    /\ crossed' = (crossed \/ Busy)
    /\ UNCHANGED <<cur, input, shown, saved, events, notice, work, bounds, typed, strayed>>

\* handleTogglePinned, handleToggleMuted, handleEditAnnouncement.
Toggle ==
    /\ cur # None
    /\ Room
    /\ Step
    /\ saves' = saves \cup {Request(cur, 0, TRUE, "toggle")}
    /\ crossed' = (crossed \/ Busy)
    /\ UNCHANGED <<box, saved, events, notice, work, texts, typed, strayed>>

\* 1500 ms without a keystroke, or at once for an empty input.
StopTyping ==
    /\ timer # None
    /\ typing' = FALSE
    /\ told' = [told EXCEPT ![timer] = FALSE]
    /\ timer' = None
    /\ UNCHANGED <<box, saved, saves, events, work, bounds, history>>

-----------------------------------------------------------------------------
(***************************************************************************)
(* handleSend and handleUpload.                                            *)
(***************************************************************************)
\* Enter is not held up by an upload; the optimistic row makes a new object.
HandleSend ==
    /\ cur # None
    /\ input # 0
    /\ send.pc = "idle"
    /\ send' = [pc |-> "sending", conv |-> cur]
    /\ typed' = 0
    /\ crossed' = (crossed \/ Busy)
    /\ Render(cur, shown[cur], typing, told)
    /\ UNCHANGED <<saved, saves, events, upload, bounds, strayed>>

\* The continuation sends "not typing" and empties the draft before the effects of
\* the stored message's object run over the input, which still has the text.
Sent ==
    LET c == send.conv IN
    /\ send.pc = "sending"
    /\ strayed' = (strayed \/ c # cur)
    /\ send' = [send EXCEPT !.pc = "clearing"]
    /\ Update(c, shown[c], FALSE, IF typing THEN [told EXCEPT ![c] = FALSE] ELSE told)
    /\ saves' = saves \cup {Request(c, 0, FALSE, "send")}
    /\ crossed' = (crossed \/ saves # {} \/ events # <<>>)
    /\ UNCHANGED <<saved, events, upload, bounds, typed>>

\* The text stays in the input, and a failed row in the window.
SendFails ==
    /\ Faults
    /\ send.pc = "sending"
    /\ send' = Rest
    /\ crossed' = TRUE
    /\ UNCHANGED <<box, saved, saves, events, notice, upload, bounds, typed, strayed>>

HandleUpload ==
    /\ cur # None
    /\ Step
    /\ upload.pc = "idle"
    /\ upload' = [pc |-> "uploading", conv |-> cur]
    /\ crossed' = (crossed \/ Busy)
    /\ UNCHANGED <<box, saved, saves, events, notice, send, texts, typed, strayed>>

\* presignUpload, uploadObject, completeUpload and sendMessage have succeeded; the
\* draft of the conversation is emptied, whatever the input holds.
Uploaded ==
    LET c == upload.conv IN
    /\ upload.pc = "uploading"
    /\ upload' = [upload EXCEPT !.pc = "clearing"]
    /\ Update(c, shown[c], typing, told)
    /\ saves' = saves \cup {Request(c, 0, FALSE, "upload")}
    /\ crossed' = (crossed \/ saves # {} \/ events # <<>> \/ (c = cur /\ input # 0))
    /\ UNCHANGED <<saved, events, send, bounds, typed, strayed>>

UploadFails ==
    /\ Faults
    /\ upload.pc = "uploading"
    /\ upload' = Rest
    /\ UNCHANGED <<box, saved, saves, events, notice, send, bounds, history>>

-----------------------------------------------------------------------------
(***************************************************************************)
(* The service, its answers and its records.                               *)
(***************************************************************************)
\* UpdateSettings: the record and the answer carry the draft that is stored now.
UpdateSettings(r) ==
    LET draft == IF r.keep THEN saved[r.conv] ELSE r.draft IN
    /\ r.pc = "asked"
    /\ saved' = [saved EXCEPT ![r.conv] = draft]
    /\ events' = Append(events, [conv |-> r.conv, draft |-> draft])
    /\ saves' = (saves \ {r}) \cup {[r EXCEPT !.pc = "served", !.draft = draft]}
    /\ UNCHANGED <<box, notice, work, bounds, history>>

\* The answer of a draft or a toggle, or of an upload's.
Settled(r) ==
    /\ r.pc = "served" /\ r.then # "send"
    /\ saves' = saves \ {r}
    /\ upload' = IF r.then = "upload" THEN Rest ELSE upload
    /\ Update(r.conv, r.draft, typing, told)
    /\ UNCHANGED <<saved, events, send, bounds, history>>

\* Mutant of Cleared: emptying the input is left to the draft effect.
ClearedByEffect(r) ==
    /\ r.pc = "served" /\ r.then = "send"
    /\ saves' = saves \ {r}
    /\ send' = Rest
    /\ Update(r.conv, 0, typing, told)
    /\ UNCHANGED <<saved, events, upload, bounds, history>>

\* The answer of handleSend's: the input is emptied, in whatever conversation.
Cleared(r) ==
    /\ r.pc = "served" /\ r.then = "send"
    /\ saves' = saves \ {r}
    /\ send' = Rest
    /\ cur' = cur
    /\ shown' = [shown EXCEPT ![r.conv] = 0]
    /\ input' = 0
    /\ armed' = (shown'[cur] # 0)
    /\ SyncTyping(typing, IF r.conv = cur THEN Hush(typing, told) ELSE told, cur, 0)
    /\ UNCHANGED <<saved, events, upload, bounds, history>>

\* The request is lost: the input stays as it is, and is saved at the next keystroke.
SettingsFail(r) ==
    /\ Faults
    /\ r.pc = "asked"
    /\ saves' = saves \ {r}
    /\ send' = IF r.then = "send" THEN Rest ELSE send
    /\ upload' = IF r.then = "upload" THEN Rest ELSE upload
    /\ crossed' = TRUE
    /\ UNCHANGED <<box, saved, events, notice, bounds, typed, strayed>>

\* conversation.updated replaces the client's copy.
ConversationUpdated ==
    /\ events # <<>>
    /\ events' = Tail(events)
    /\ Update(Head(events).conv, Head(events).draft, typing, told)
    /\ UNCHANGED <<saved, saves, work, bounds, history>>

\* A message comes: a new object, with the draft the service has.
MessagePersisted(c) ==
    /\ Room
    /\ Step
    /\ events' = Append(events, [conv |-> c, draft |-> saved[c]])
    /\ crossed' = (crossed \/ Busy)
    /\ UNCHANGED <<box, saved, saves, notice, work, texts, typed, strayed>>

-----------------------------------------------------------------------------
Init ==
    /\ cur = None
    /\ input = 0
    /\ shown = [c \in Convs |-> 0]
    /\ saved = [c \in Convs |-> 0]
    /\ armed = FALSE
    /\ saves = {}
    /\ events = <<>>
    /\ typing = FALSE
    /\ timer = None
    /\ told = [c \in Convs |-> FALSE]
    /\ send = Rest
    /\ upload = Rest
    /\ texts = 0
    /\ steps = 0
    /\ typed = 0
    /\ strayed = FALSE
    /\ crossed = FALSE

Next ==
    \/ \E text \in Texts : Type(text)
    \/ \E c \in Convs : SetCurrentConversation(c) \/ MessagePersisted(c)
    \/ SaveDraft \/ Toggle \/ StopTyping
    \/ HandleSend \/ Sent \/ SendFails
    \/ HandleUpload \/ Uploaded \/ UploadFails
    \/ \E r \in saves : UpdateSettings(r) \/ Settled(r) \/ Cleared(r) \/ SettingsFail(r)
    \/ ConversationUpdated

Spec == Init /\ [][Next]_vars

\* The browser fires its timers.
FairSpec == Spec /\ WF_vars(StopTyping)

-----------------------------------------------------------------------------
TypeOK ==
    /\ cur \in Convs \cup {None} /\ timer \in Convs \cup {None}
    /\ input \in Texts /\ typed \in Texts
    /\ shown \in [Convs -> Texts] /\ saved \in [Convs -> Texts]
    /\ told \in [Convs -> BOOLEAN]
    /\ {armed, typing, strayed, crossed} \subseteq BOOLEAN

\* When the user pauses long enough for each request to come back, the input, the
\* client's copy and the service end up with the text typed last, or with none after
\* it was sent (chat-window.tsx:101-125, :167-192, chat-store.tsx:449-466).  Each
\* condition of crossed is needed: an answer overwrites what was typed meanwhile.
DraftSettles ==
    (~armed /\ ~Busy /\ ~crossed /\ cur # None) =>
        (input = typed /\ shown[cur] = typed /\ saved[cur] = typed)

\* The others are told of typing only in the conversation on screen, and a timer is
\* there to end it, whatever switches, drafts and answers do to the effects
\* (chat-window.tsx:127-164).  A send that ends after a switch breaks it: it resets
\* the status ref, and empties the input, of the conversation on screen by then ...
TypingIsTimed == TypeOK /\ (~strayed => \A c \in Convs : told[c] => (c = cur /\ timer = c))

\* ... so typing ends: no one is shown as typing for ever.
TypingEnds == \A c \in Convs : (told[c] /\ ~strayed) ~> (~told[c] \/ strayed)
=============================================================================
