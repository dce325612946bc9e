--------------------------- MODULE Composer_proofs ---------------------------
(***************************************************************************)
(* The others are told of typing only where the user is, under a timer     *)
(* that ends it (TypingIsTimed), and a draft settles (DraftSettles), for   *)
(* any conversations, texts and bounds.                                    *)
(* Neither is inductive.  What an effect sends depends on the status ref,  *)
(* which must be set wherever somebody was told (Timed), and a request     *)
(* must be of a conversation (WorkOK).  Where a draft ends depends on what *)
(* the request, the answer and the record under way carry (Settling).      *)
(***************************************************************************)
EXTENDS Composer, TLAPS

BoxOK ==
    /\ cur \in Convs \cup {None} /\ timer \in Convs \cup {None}
    /\ input \in Texts
    /\ shown \in [Convs -> Texts]
    /\ told \in [Convs -> BOOLEAN]
    /\ armed \in BOOLEAN /\ typing \in BOOLEAN

RestOK ==
    /\ typed \in Texts
    /\ saved \in [Convs -> Texts]
    /\ strayed \in BOOLEAN /\ crossed \in BOOLEAN

Call == [conv : Convs, draft : Texts, keep : BOOLEAN,
         then : {"typed", "toggle", "send", "upload"}, pc : {"asked", "served"}]

Record == [conv : Convs, draft : Texts]

Task(pcs) == [pc : {"idle"}, conv : {None}] \cup [pc : pcs, conv : Convs]

\* Before the first selection nothing is under way.
WorkOK ==
    /\ saves \in SUBSET Call
    /\ events \in Seq(Record)
    /\ send \in Task({"sending", "clearing"})
    /\ upload \in Task({"uploading", "clearing"})
    /\ cur = None => /\ ~armed /\ saves = {}
                     /\ send.pc = "idle" /\ upload.pc = "idle"

TypeInv == BoxOK /\ RestOK /\ WorkOK

\* Who was told, told by the status ref, of the conversation on screen, under its timer.
Timed == \A c \in Convs : told[c] => (c = cur /\ typing /\ timer = c)

ComposerInv == TypeInv /\ (~strayed => Timed)

LEMMA ZeroIsText == 0 \in Texts
BY BoundsAreNat DEF Texts

-----------------------------------------------------------------------------
(***************************************************************************)
(* The effects.                                                            *)
(***************************************************************************)
\* The typing effect keeps the ref with what was told.
LEMMA SyncTypingKeeps ==
    ASSUME NEW ref \in BOOLEAN, NEW sent \in [Convs -> BOOLEAN], NEW c \in Convs,
           NEW text \in Texts, SyncTyping(ref, sent, c, text)
    PROVE  /\ typing' \in BOOLEAN /\ told' \in [Convs -> BOOLEAN]
           /\ timer' \in Convs \cup {None}
           /\ (\A d \in Convs : sent[d] => d = c /\ ref)
                 => \A d \in Convs : told'[d] => d = c /\ typing' /\ timer' = c
BY DEF SyncTyping

\* The clean-up leaves nobody told, if who was told was told of this conversation.
LEMMA HushTellsAll ==
    ASSUME BoxOK, NEW ref \in BOOLEAN, NEW sent \in [Convs -> BOOLEAN]
    PROVE  /\ Hush(ref, sent) \in [Convs -> BOOLEAN]
           /\ (\A d \in Convs : sent[d] => d = cur /\ ref)
                 => \A d \in Convs : ~Hush(ref, sent)[d]
BY NoneIsNoConv DEF Hush, BoxOK

LEMMA RenderKeeps ==
    ASSUME BoxOK, NEW ref \in BOOLEAN, NEW sent \in [Convs -> BOOLEAN], NEW c \in Convs,
           NEW draft \in Texts, Render(c, draft, ref, sent)
    PROVE  /\ BoxOK' /\ cur' = c
           /\ (\A d \in Convs : sent[d] => d = cur /\ ref) => Timed'
<1> DEFINE hushed == Hush(ref, sent)
<1>1. /\ hushed \in [Convs -> BOOLEAN]
      /\ (\A d \in Convs : sent[d] => d = cur /\ ref) => \A d \in Convs : ~hushed[d]
  BY HushTellsAll
<1>2. /\ cur' = c /\ cur' \in Convs /\ input' \in Texts
      /\ shown' \in [Convs -> Texts] /\ armed' \in BOOLEAN
  BY DEF Render, Debounce, BoxOK
<1>3. \/ \E text \in Texts : SyncTyping(ref, hushed, c, text)
      \/ SkipTyping(ref, hushed)
  BY DEF Render, BoxOK
<1>. HIDE DEF hushed
<1>4. CASE \E text \in Texts : SyncTyping(ref, hushed, c, text)
  <2>1. /\ typing' \in BOOLEAN /\ told' \in [Convs -> BOOLEAN] /\ timer' \in Convs \cup {None}
        /\ (\A d \in Convs : hushed[d] => d = c /\ ref)
              => \A d \in Convs : told'[d] => d = c /\ typing' /\ timer' = c
    BY <1>1, <1>4, SyncTypingKeeps
  <2>. QED  BY <1>1, <1>2, <2>1 DEF BoxOK, Timed
<1>5. CASE SkipTyping(ref, hushed)
  BY <1>1, <1>2, <1>5 DEF SkipTyping, BoxOK, Timed
<1>. QED  BY <1>3, <1>4, <1>5

\* A new object of any conversation.
LEMMA UpdateKeeps ==
    ASSUME TypeInv, NEW c \in Convs, NEW draft \in Texts, Update(c, draft, typing, told)
    PROVE  BoxOK' /\ cur' = cur /\ (cur = None => ~armed') /\ (Timed => Timed')
<1>1. CASE c = cur
  BY <1>1, RenderKeeps, NoneIsNoConv DEF Update, TypeInv, BoxOK, Timed
<1>2. CASE c # cur
  BY <1>2 DEF Update, TypeInv, WorkOK, BoxOK, Timed
<1>. QED  BY <1>1, <1>2

-----------------------------------------------------------------------------
LEMMA InitComposer == Init => ComposerInv
<1>. SUFFICES ASSUME Init PROVE ComposerInv
  OBVIOUS
<1>1. BoxOK
  BY ZeroIsText DEF Init, BoxOK
<1>2. RestOK
  BY ZeroIsText DEF Init, RestOK
<1>3. WorkOK
  BY DEF Init, WorkOK, Task, Rest
<1>4. Timed
  BY DEF Init, Timed
<1>. QED  BY <1>1, <1>2, <1>3, <1>4 DEF ComposerInv, TypeInv

(***************************************************************************)
(* The actions of the user.                                                *)
(***************************************************************************)
LEMMA TypeKeeps ==
    ASSUME ComposerInv, NEW text \in Texts, Type(text)
    PROVE  ComposerInv'
<1>1. cur \in Convs /\ SyncTyping(typing, told, cur, text)
  BY DEF Type, SetInput, ComposerInv, TypeInv, BoxOK
<1>2. /\ typing' \in BOOLEAN /\ told' \in [Convs -> BOOLEAN] /\ timer' \in Convs \cup {None}
      /\ (\A d \in Convs : told[d] => d = cur /\ typing)
            => \A d \in Convs : told'[d] => d = cur /\ typing' /\ timer' = cur
  BY <1>1, SyncTypingKeeps DEF ComposerInv, TypeInv, BoxOK
<1>3. BoxOK' /\ (Timed => Timed')
  BY <1>2 DEF Type, SetInput, ComposerInv, TypeInv, BoxOK, Timed
<1>4. RestOK'
  BY DEF Type, ComposerInv, TypeInv, RestOK, Busy
<1>5. WorkOK'
  BY <1>1, NoneIsNoConv DEF Type, SetInput, ComposerInv, TypeInv, WorkOK, work
<1>. QED  BY <1>3, <1>4, <1>5 DEF ComposerInv, TypeInv, Type

LEMMA SelectKeeps ==
    ASSUME ComposerInv, NEW c \in Convs, SetCurrentConversation(c)
    PROVE  ComposerInv'
<1>1. shown[c] \in Texts /\ Render(c, shown[c], typing, told)
  BY DEF SetCurrentConversation, ComposerInv, TypeInv, BoxOK
<1>2. BoxOK' /\ cur' = c /\ (Timed => Timed')
  BY <1>1, RenderKeeps DEF ComposerInv, TypeInv, BoxOK, Timed
<1>3. RestOK'
  BY <1>1 DEF SetCurrentConversation, ComposerInv, TypeInv, RestOK, Busy
<1>4. WorkOK'
  BY <1>2, NoneIsNoConv DEF SetCurrentConversation, ComposerInv, TypeInv, WorkOK, work
<1>. QED  BY <1>2, <1>3, <1>4 DEF ComposerInv, TypeInv, SetCurrentConversation

LEMMA RequestIsCall ==
    ASSUME NEW c \in Convs, NEW draft \in Texts, NEW keep \in BOOLEAN,
           NEW then \in {"typed", "toggle", "send", "upload"}
    PROVE  Request(c, draft, keep, then) \in Call
BY DEF Request, Call

LEMMA SaveDraftKeeps == ComposerInv /\ SaveDraft => ComposerInv'
<1>. SUFFICES ASSUME ComposerInv, SaveDraft PROVE ComposerInv'
  OBVIOUS
<1>1. Request(cur, input, FALSE, "typed") \in Call /\ cur # None
  BY RequestIsCall DEF SaveDraft, ComposerInv, TypeInv, BoxOK, WorkOK
<1>2. BoxOK' /\ (Timed => Timed')
  BY DEF SaveDraft, ComposerInv, TypeInv, BoxOK, Timed, notice
<1>3. RestOK'
  BY DEF SaveDraft, ComposerInv, TypeInv, RestOK, Busy
<1>4. WorkOK'
  BY <1>1 DEF SaveDraft, ComposerInv, TypeInv, WorkOK, work
<1>. QED  BY <1>2, <1>3, <1>4 DEF ComposerInv, TypeInv, SaveDraft

LEMMA ToggleKeeps == ComposerInv /\ Toggle => ComposerInv'
<1>. SUFFICES ASSUME ComposerInv, Toggle PROVE ComposerInv'
  OBVIOUS
<1>1. Request(cur, 0, TRUE, "toggle") \in Call /\ cur # None
  BY RequestIsCall, ZeroIsText DEF Toggle, ComposerInv, TypeInv, BoxOK
<1>2. BoxOK' /\ (Timed => Timed')
  BY DEF Toggle, ComposerInv, TypeInv, BoxOK, Timed, box, notice
<1>3. RestOK'
  BY DEF Toggle, ComposerInv, TypeInv, RestOK, Busy
<1>4. WorkOK'
  BY <1>1 DEF Toggle, ComposerInv, TypeInv, WorkOK, box, work
<1>. QED  BY <1>2, <1>3, <1>4 DEF ComposerInv, TypeInv, Toggle

LEMMA StopTypingKeeps == ComposerInv /\ StopTyping => ComposerInv'
<1>. SUFFICES ASSUME ComposerInv, StopTyping PROVE ComposerInv'
  OBVIOUS
<1>1. BoxOK' /\ (Timed => Timed')
  BY DEF StopTyping, ComposerInv, TypeInv, BoxOK, Timed, box
<1>2. RestOK' /\ WorkOK'
  BY DEF StopTyping, ComposerInv, TypeInv, RestOK, WorkOK, box, work, history
<1>. QED  BY <1>1, <1>2 DEF ComposerInv, TypeInv, StopTyping, history

(***************************************************************************)
(* Sending and uploading.                                                  *)
(***************************************************************************)
LEMMA HandleSendKeeps == ComposerInv /\ HandleSend => ComposerInv'
<1>. SUFFICES ASSUME ComposerInv, HandleSend PROVE ComposerInv'
  OBVIOUS
<1>1. cur \in Convs /\ shown[cur] \in Texts /\ Render(cur, shown[cur], typing, told)
  BY DEF HandleSend, ComposerInv, TypeInv, BoxOK
<1>2. BoxOK' /\ cur' = cur /\ (Timed => Timed')
  BY <1>1, RenderKeeps DEF ComposerInv, TypeInv, BoxOK, Timed
<1>3. RestOK'
  BY ZeroIsText DEF HandleSend, ComposerInv, TypeInv, RestOK, Busy
<1>4. WorkOK'
  BY <1>1, <1>2, NoneIsNoConv DEF HandleSend, ComposerInv, TypeInv, WorkOK, Task
<1>. QED  BY <1>2, <1>3, <1>4 DEF ComposerInv, TypeInv, HandleSend

\* The continuation of a send in the conversation on screen takes back what was told.
LEMMA SentKeeps == ComposerInv /\ Sent => ComposerInv'
<1>. SUFFICES ASSUME ComposerInv, Sent PROVE ComposerInv'
  OBVIOUS
<1> DEFINE c == send.conv
           hushed == IF typing THEN [told EXCEPT ![c] = FALSE] ELSE told
<1>1. /\ c \in Convs /\ shown[c] \in Texts /\ cur # None
      /\ Update(c, shown[c], FALSE, hushed)
  BY NoneIsNoConv DEF Sent, ComposerInv, TypeInv, BoxOK, WorkOK, Task
<1>2. /\ hushed \in [Convs -> BOOLEAN]
      /\ Timed /\ c = cur => \A d \in Convs : ~hushed[d]
  BY <1>1 DEF ComposerInv, TypeInv, BoxOK, Timed
<1>3. Request(c, 0, FALSE, "send") \in Call
  BY <1>1, RequestIsCall, ZeroIsText
<1>. HIDE DEF hushed
<1>4. BoxOK' /\ cur' = cur /\ (Timed /\ c = cur => Timed')
  <2>1. CASE c = cur
    BY <1>1, <1>2, <2>1, RenderKeeps DEF Update, ComposerInv, TypeInv
  <2>2. CASE c # cur
    BY <1>1, <1>2, <2>2 DEF Update, ComposerInv, TypeInv, BoxOK
  <2>. QED  BY <2>1, <2>2
<1>5. RestOK' /\ (~strayed' => ~strayed /\ c = cur)
  BY DEF Sent, ComposerInv, TypeInv, RestOK
<1>6. WorkOK'
  BY <1>1, <1>3, <1>4 DEF Sent, ComposerInv, TypeInv, WorkOK, Task
<1>. QED  BY <1>4, <1>5, <1>6 DEF ComposerInv, TypeInv

LEMMA SendFailsKeeps == ComposerInv /\ SendFails => ComposerInv'
<1>. SUFFICES ASSUME ComposerInv, SendFails PROVE ComposerInv'
  OBVIOUS
<1>1. BoxOK' /\ RestOK' /\ (Timed => Timed')
  BY DEF SendFails, ComposerInv, TypeInv, BoxOK, RestOK, Timed, box, notice
<1>2. WorkOK'
  BY DEF SendFails, ComposerInv, TypeInv, WorkOK, Task, Rest, box
<1>. QED  BY <1>1, <1>2 DEF ComposerInv, TypeInv, SendFails

LEMMA HandleUploadKeeps == ComposerInv /\ HandleUpload => ComposerInv'
<1>. SUFFICES ASSUME ComposerInv, HandleUpload PROVE ComposerInv'
  OBVIOUS
<1>1. BoxOK' /\ RestOK' /\ (Timed => Timed')
  BY DEF HandleUpload, ComposerInv, TypeInv, BoxOK, RestOK, Timed, Busy, box, notice
<1>2. WorkOK'
  BY DEF HandleUpload, ComposerInv, TypeInv, BoxOK, WorkOK, Task, box
<1>. QED  BY <1>1, <1>2 DEF ComposerInv, TypeInv, HandleUpload

LEMMA UploadedKeeps == ComposerInv /\ Uploaded => ComposerInv'
<1>. SUFFICES ASSUME ComposerInv, Uploaded PROVE ComposerInv'
  OBVIOUS
<1> DEFINE c == upload.conv
<1>1. /\ c \in Convs /\ shown[c] \in Texts /\ cur # None
      /\ Update(c, shown[c], typing, told)
  BY NoneIsNoConv DEF Uploaded, ComposerInv, TypeInv, BoxOK, WorkOK, Task
<1>2. Request(c, 0, FALSE, "upload") \in Call
  BY <1>1, RequestIsCall, ZeroIsText
<1>3. BoxOK' /\ cur' = cur /\ (Timed => Timed')
  BY <1>1, UpdateKeeps DEF ComposerInv
<1>4. RestOK'
  BY DEF Uploaded, ComposerInv, TypeInv, RestOK
<1>5. WorkOK'
  BY <1>1, <1>2, <1>3 DEF Uploaded, ComposerInv, TypeInv, WorkOK, Task
<1>. QED  BY <1>3, <1>4, <1>5 DEF ComposerInv, TypeInv, Uploaded

LEMMA UploadFailsKeeps == ComposerInv /\ UploadFails => ComposerInv'
<1>. SUFFICES ASSUME ComposerInv, UploadFails PROVE ComposerInv'
  OBVIOUS
<1>1. BoxOK' /\ RestOK' /\ (Timed => Timed')
  BY DEF UploadFails, ComposerInv, TypeInv, BoxOK, RestOK, Timed, box, notice, history
<1>2. WorkOK'
  BY DEF UploadFails, ComposerInv, TypeInv, WorkOK, Task, Rest, box
<1>. QED  BY <1>1, <1>2 DEF ComposerInv, TypeInv, UploadFails, history

(***************************************************************************)
(* Answers and records.                                                    *)
(***************************************************************************)
LEMMA UpdateSettingsKeeps ==
    ASSUME ComposerInv, NEW r \in saves, UpdateSettings(r)
    PROVE  ComposerInv'
<1> DEFINE draft == IF r.keep THEN saved[r.conv] ELSE r.draft
<1>1. /\ r \in Call /\ r.conv \in Convs /\ draft \in Texts
      /\ [r EXCEPT !.pc = "served", !.draft = draft] \in Call
      /\ [conv |-> r.conv, draft |-> draft] \in Record
  BY DEF ComposerInv, TypeInv, WorkOK, RestOK, Call, Record
<1>. HIDE DEF draft
<1>2. /\ saved' = [saved EXCEPT ![r.conv] = draft]
      /\ events' = Append(events, [conv |-> r.conv, draft |-> draft])
      /\ saves' = (saves \ {r}) \cup {[r EXCEPT !.pc = "served", !.draft = draft]}
      /\ UNCHANGED <<box, notice, work, bounds, history>>
  BY DEF UpdateSettings, draft
<1>3. BoxOK' /\ RestOK' /\ (Timed => Timed')
  BY <1>1, <1>2 DEF ComposerInv, TypeInv, BoxOK, RestOK, Timed, box, notice, history
<1>4. events' \in Seq(Record) /\ saves' \in SUBSET Call
  BY <1>1, <1>2 DEF ComposerInv, TypeInv, WorkOK
<1>5. WorkOK'
  BY <1>2, <1>4 DEF ComposerInv, TypeInv, WorkOK, box, work
<1>. QED  BY <1>2, <1>3, <1>5 DEF ComposerInv, TypeInv, history

LEMMA SettledKeeps ==
    ASSUME ComposerInv, NEW r \in saves, Settled(r)
    PROVE  ComposerInv'
<1>1. r.conv \in Convs /\ r.draft \in Texts
  BY DEF ComposerInv, TypeInv, WorkOK, Call
<1>2. BoxOK' /\ cur' = cur /\ (cur = None => ~armed') /\ (Timed => Timed')
  BY <1>1, UpdateKeeps DEF Settled, ComposerInv
<1>3. RestOK'
  BY DEF Settled, ComposerInv, TypeInv, RestOK, history
<1>4. WorkOK'
  BY <1>2 DEF Settled, ComposerInv, TypeInv, WorkOK, Task, Rest
<1>. QED  BY <1>2, <1>3, <1>4 DEF ComposerInv, TypeInv, Settled, history

\* The answer empties the input of the conversation on screen, whose ref goes on.
LEMMA ClearedKeeps ==
    ASSUME ComposerInv, NEW r \in saves, Cleared(r)
    PROVE  ComposerInv'
<1> DEFINE sent == IF r.conv = cur THEN Hush(typing, told) ELSE told
<1>1. r.conv \in Convs /\ cur \in Convs
  BY DEF ComposerInv, TypeInv, BoxOK, WorkOK, Call
<1>2. /\ sent \in [Convs -> BOOLEAN]
      /\ Timed => \A d \in Convs : sent[d] => d = cur /\ typing
  BY HushTellsAll DEF ComposerInv, TypeInv, BoxOK, Timed
<1>3. SyncTyping(typing, sent, cur, 0) /\ typing \in BOOLEAN
  BY DEF Cleared, ComposerInv, TypeInv, BoxOK
<1>. HIDE DEF sent
<1>4. /\ typing' \in BOOLEAN /\ told' \in [Convs -> BOOLEAN] /\ timer' \in Convs \cup {None}
      /\ (\A d \in Convs : sent[d] => d = cur /\ typing)
            => \A d \in Convs : told'[d] => d = cur /\ typing' /\ timer' = cur
  BY <1>1, <1>2, <1>3, ZeroIsText, SyncTypingKeeps
<1>5. BoxOK' /\ cur' = cur /\ (Timed => Timed')
  BY <1>1, <1>2, <1>4, ZeroIsText DEF Cleared, ComposerInv, TypeInv, BoxOK, Timed
<1>6. RestOK'
  BY DEF Cleared, ComposerInv, TypeInv, RestOK, history
<1>7. WorkOK'
  BY <1>1, <1>5, NoneIsNoConv DEF Cleared, ComposerInv, TypeInv, WorkOK, Task, Rest
<1>. QED  BY <1>5, <1>6, <1>7 DEF ComposerInv, TypeInv, Cleared, history

LEMMA SettingsFailKeeps ==
    ASSUME ComposerInv, NEW r \in saves, SettingsFail(r)
    PROVE  ComposerInv'
<1>1. BoxOK' /\ RestOK' /\ (Timed => Timed')
  BY DEF SettingsFail, ComposerInv, TypeInv, BoxOK, RestOK, Timed, box, notice
<1>2. WorkOK'
  BY DEF SettingsFail, ComposerInv, TypeInv, WorkOK, Task, Rest, box
<1>. QED  BY <1>1, <1>2 DEF ComposerInv, TypeInv, SettingsFail

LEMMA ConversationUpdatedKeeps == ComposerInv /\ ConversationUpdated => ComposerInv'
<1>. SUFFICES ASSUME ComposerInv, ConversationUpdated PROVE ComposerInv'
  OBVIOUS
<1>1. Head(events) \in Record /\ Tail(events) \in Seq(Record)
  BY DEF ConversationUpdated, ComposerInv, TypeInv, WorkOK
<1>2. BoxOK' /\ cur' = cur /\ (cur = None => ~armed') /\ (Timed => Timed')
  BY <1>1, UpdateKeeps DEF ConversationUpdated, ComposerInv, Record
<1>3. RestOK'
  BY DEF ConversationUpdated, ComposerInv, TypeInv, RestOK, history
<1>4. WorkOK'
  BY <1>1, <1>2 DEF ConversationUpdated, ComposerInv, TypeInv, WorkOK, work
<1>. QED  BY <1>2, <1>3, <1>4 DEF ComposerInv, TypeInv, ConversationUpdated, history

LEMMA MessagePersistedKeeps ==
    ASSUME ComposerInv, NEW c \in Convs, MessagePersisted(c)
    PROVE  ComposerInv'
<1>1. [conv |-> c, draft |-> saved[c]] \in Record
  BY DEF ComposerInv, TypeInv, RestOK, Record
<1>2. events' \in Seq(Record)
  BY <1>1 DEF MessagePersisted, ComposerInv, TypeInv, WorkOK
<1>3. BoxOK' /\ RestOK' /\ (Timed => Timed')
  BY DEF MessagePersisted, ComposerInv, TypeInv, BoxOK, RestOK, Timed, Busy, box, notice
<1>4. WorkOK'
  BY <1>2 DEF MessagePersisted, ComposerInv, TypeInv, WorkOK, box, work
<1>. QED  BY <1>3, <1>4 DEF ComposerInv, TypeInv, MessagePersisted

-----------------------------------------------------------------------------
LEMMA NextComposer == ComposerInv /\ [Next]_vars => ComposerInv'
<1>. SUFFICES ASSUME ComposerInv, [Next]_vars PROVE ComposerInv'
  OBVIOUS
<1>1. CASE UNCHANGED vars
  BY <1>1 DEF vars, box, notice, work, history, ComposerInv, TypeInv, BoxOK, RestOK,
              WorkOK, Timed
<1>2. CASE \E text \in Texts : Type(text)
  BY <1>2, TypeKeeps
<1>3. CASE \E c \in Convs : SetCurrentConversation(c) \/ MessagePersisted(c)
  BY <1>3, SelectKeeps, MessagePersistedKeeps
<1>4. CASE SaveDraft \/ Toggle \/ StopTyping
  BY <1>4, SaveDraftKeeps, ToggleKeeps, StopTypingKeeps
<1>5. CASE HandleSend \/ Sent \/ SendFails
  BY <1>5, HandleSendKeeps, SentKeeps, SendFailsKeeps
<1>6. CASE HandleUpload \/ Uploaded \/ UploadFails
  BY <1>6, HandleUploadKeeps, UploadedKeeps, UploadFailsKeeps
<1>7. CASE \E r \in saves : UpdateSettings(r) \/ Settled(r) \/ Cleared(r) \/ SettingsFail(r)
  BY <1>7, UpdateSettingsKeeps, SettledKeeps, ClearedKeeps, SettingsFailKeeps
<1>8. CASE ConversationUpdated
  BY <1>8, ConversationUpdatedKeeps
<1>. QED  BY <1>1, <1>2, <1>3, <1>4, <1>5, <1>6, <1>7, <1>8 DEF Next

\* Whatever the user types, selects and sends, and in whatever order answers, records
\* and failures come, the others are told of typing only in the conversation on screen
\* and while a timer is there to end it, until a send ends after a switch
\* (chat-window.tsx:127-164, :167-192).
THEOREM TypingAlwaysTimed == Spec => []TypingIsTimed
<1>1. ComposerInv => TypingIsTimed
  BY DEF ComposerInv, TypeInv, BoxOK, RestOK, Timed, TypingIsTimed, TypeOK
<1>. QED  BY InitComposer, NextComposer, <1>1, PTL DEF Spec

-----------------------------------------------------------------------------
(***************************************************************************)
(* The draft.  While nothing crosses, one thing is under way at a time: a  *)
(* send, an upload or a request and then its record, all of the            *)
(* conversation on screen, or the record of another's message.  Coming     *)
(* says that the client has yet to see the draft the service has.          *)
(***************************************************************************)
OneAtATime ==
    /\ \A r, q \in saves : r = q
    /\ Len(events) <= 1
    /\ \A r \in saves : r.conv = cur
    /\ send.pc # "idle" => upload.pc = "idle" /\ send.conv = cur
    /\ upload.pc # "idle" => upload.conv = cur
    /\ send.pc = "sending" \/ upload.pc = "uploading" => saves = {} /\ events = <<>>
    /\ send.pc = "clearing" => \E r \in saves : r.then = "send"
    /\ upload.pc = "clearing" => \E r \in saves : r.then = "upload"

Coming ==
    \/ \E r \in saves : r.pc = "served"
    \/ events # <<>> /\ Head(events).conv = cur

\* A request asks for what the input holds or for an empty draft, an answer and a
\* record carry what is stored.
AnswerOK(r) ==
    /\ r.pc = "asked" => events = <<>> /\ (r.keep <=> r.then = "toggle")
    /\ r.pc = "served" => r.draft = saved[cur]
    /\ r.then = "typed" /\ r.pc = "asked" => r.draft = input
    /\ r.then = "send" => send.pc = "clearing" /\ r.draft = 0
    /\ r.then = "upload" => upload.pc = "clearing" /\ r.draft = 0 /\ input = 0

Answers ==
    /\ events # <<>> => Head(events).draft = saved[Head(events).conv]
    /\ \A r \in saves : AnswerOK(r)

Copies == \A c \in Convs : shown[c] = saved[c] \/ (c = cur /\ Coming)

\* What is shown is what was typed, and what the timer, the request or the answer is
\* about to make the client's copy.
Input ==
    /\ cur # None /\ send.pc # "idle" => typed = 0
    /\ cur # None /\ send.pc = "idle" =>
           /\ input = typed
           /\ Coming => saved[cur] \in {shown[cur], input}
           /\ ~armed => \/ input = shown[cur]
                        \/ \E r \in saves : r.pc = "asked" /\ r.then = "typed"
                        \/ Coming /\ saved[cur] = input

Settling == OneAtATime /\ Answers /\ Copies /\ Input

DraftInv == ComposerInv /\ (~crossed => Settling)

\* What a new object does to the box.
LEMMA RenderBox ==
    ASSUME BoxOK, NEW ref, NEW sent, NEW c \in Convs, NEW draft, Render(c, draft, ref, sent)
    PROVE  /\ cur' = c
           /\ \A d \in Convs : shown'[d] = IF d = c THEN draft ELSE shown[d]
           /\ input' = IF c = cur /\ draft = shown[c] THEN input ELSE draft
           /\ armed' <=> input' # draft
BY DEF Render, Debounce, BoxOK

LEMMA UpdateBox ==
    ASSUME BoxOK, NEW ref, NEW sent, NEW c \in Convs, NEW draft, Update(c, draft, ref, sent)
    PROVE  /\ cur' = cur
           /\ \A d \in Convs : shown'[d] = IF d = c THEN draft ELSE shown[d]
           /\ c # cur => input' = input /\ (armed' <=> armed)
           /\ c = cur => /\ input' = IF draft = shown[c] THEN input ELSE draft
                         /\ armed' <=> input' # draft
<1>1. CASE c = cur
  BY <1>1, RenderBox DEF Update
<1>2. CASE c # cur
  BY <1>2 DEF Update, BoxOK
<1>. QED  BY <1>1, <1>2

\* Records, one at a time.
LEMMA RecordPutAndTaken ==
    ASSUME events \in Seq(Record)
    PROVE  /\ \A e \in Record : events = <<>> /\ events' = Append(events, e)
                  => events' # <<>> /\ Len(events') <= 1 /\ Head(events') = e
           /\ Len(events) <= 1 /\ events # <<>> /\ events' = Tail(events)
                  => events' = <<>> /\ Head(events) \in Record
OBVIOUS

(***************************************************************************)
(* What the user does, when nothing is under way.                          *)
(***************************************************************************)
LEMMA TypeSettles ==
    ASSUME ComposerInv, Settling, NEW text \in Texts, Type(text), ~crossed'
    PROVE  Settling'
<1>1. /\ cur \in Convs /\ cur' = cur /\ shown' = shown /\ input' = text /\ typed' = text
      /\ armed' = (text # shown[cur])
  BY NoneIsNoConv DEF Type, SetInput, ComposerInv, TypeInv, BoxOK
<1>2. /\ saves = {} /\ events = <<>> /\ send.pc = "idle" /\ upload.pc = "idle"
      /\ UNCHANGED <<saved, saves, events, send, upload>>
  BY DEF Type, Busy, work
<1>. QED  BY <1>1, <1>2 DEF Settling, OneAtATime, Answers, Copies, Coming, Input

LEMMA SelectSettles ==
    ASSUME ComposerInv, Settling, NEW c \in Convs, SetCurrentConversation(c), ~crossed'
    PROVE  Settling'
<1>1. /\ saves = {} /\ events = <<>> /\ send.pc = "idle" /\ upload.pc = "idle"
      /\ UNCHANGED <<saved, saves, events, send, upload>>
      /\ c # cur /\ typed' = shown[c] /\ Render(c, shown[c], typing, told)
  BY DEF SetCurrentConversation, Busy, work
<1>2. /\ cur' = c /\ input' = shown[c] /\ ~armed' /\ \A d \in Convs : shown'[d] = shown[d]
  BY <1>1, RenderBox DEF ComposerInv, TypeInv
<1>. QED  BY <1>1, <1>2 DEF Settling, OneAtATime, Answers, Copies, Coming, Input

LEMMA SaveDraftSettles ==
    ASSUME ComposerInv, Settling, SaveDraft, ~crossed'
    PROVE  Settling'
<1> DEFINE r == Request(cur, input, FALSE, "typed")
<1>1. /\ saves = {} /\ events = <<>> /\ send.pc = "idle" /\ upload.pc = "idle"
      /\ UNCHANGED <<cur, input, shown, saved, events, send, upload, typed>>
      /\ saves' = {r}
  BY DEF SaveDraft, Busy, work
<1>2. r.pc = "asked" /\ r.conv = cur /\ r.then = "typed" /\ r.draft = input /\ r.keep = FALSE
  BY DEF Request
<1>. HIDE DEF r
<1>. QED  BY <1>1, <1>2 DEF Settling, OneAtATime, Answers, AnswerOK, Copies, Coming, Input

LEMMA ToggleSettles ==
    ASSUME ComposerInv, Settling, Toggle, ~crossed'
    PROVE  Settling'
<1> DEFINE r == Request(cur, 0, TRUE, "toggle")
<1>1. /\ saves = {} /\ events = <<>> /\ send.pc = "idle" /\ upload.pc = "idle"
      /\ UNCHANGED <<cur, input, shown, armed, saved, events, send, upload, typed>>
      /\ saves' = {r}
  BY DEF Toggle, Busy, box, work
<1>2. r.pc = "asked" /\ r.conv = cur /\ r.then = "toggle" /\ r.keep = TRUE
  BY DEF Request
<1>. HIDE DEF r
<1>. QED  BY <1>1, <1>2 DEF Settling, OneAtATime, Answers, AnswerOK, Copies, Coming, Input

LEMMA HandleSendSettles ==
    ASSUME ComposerInv, Settling, HandleSend, ~crossed'
    PROVE  Settling'
<1>1. /\ saves = {} /\ events = <<>> /\ upload.pc = "idle"
      /\ UNCHANGED <<saved, saves, events, upload>> /\ typed' = 0
      /\ cur \in Convs /\ Render(cur, shown[cur], typing, told)
      /\ send' = [pc |-> "sending", conv |-> cur]
  BY DEF HandleSend, Busy, ComposerInv, TypeInv, BoxOK
<1>2. /\ cur' = cur /\ \A d \in Convs : shown'[d] = shown[d]
      /\ send'.pc = "sending" /\ send'.conv = cur
  BY <1>1, RenderBox DEF ComposerInv, TypeInv
<1>. QED  BY <1>1, <1>2 DEF Settling, OneAtATime, Answers, Copies, Coming, Input

LEMMA HandleUploadSettles ==
    ASSUME ComposerInv, Settling, HandleUpload, ~crossed'
    PROVE  Settling'
<1>1. /\ saves = {} /\ events = <<>> /\ send.pc = "idle"
      /\ UNCHANGED <<cur, input, shown, armed, saved, saves, events, send, typed>>
      /\ upload' = [pc |-> "uploading", conv |-> cur]
  <2>1. saves = {} /\ events = <<>> /\ send.pc = "idle"
    BY DEF HandleUpload, Busy
  <2>2. /\ UNCHANGED <<box, saved, saves, events, send, typed>>
        /\ upload' = [pc |-> "uploading", conv |-> cur]
    BY DEF HandleUpload
  <2>. QED  BY <2>1, <2>2 DEF box
<1>2. upload'.pc = "uploading" /\ upload'.conv = cur
  BY <1>1
<1>. QED  BY <1>1, <1>2 DEF Settling, OneAtATime, Answers, Copies, Coming, Input

LEMMA MessageSettles ==
    ASSUME ComposerInv, Settling, NEW c \in Convs, MessagePersisted(c), ~crossed'
    PROVE  Settling'
<1> DEFINE e == [conv |-> c, draft |-> saved[c]]
<1>1. /\ saves = {} /\ events = <<>> /\ send.pc = "idle" /\ upload.pc = "idle"
      /\ UNCHANGED <<cur, input, shown, armed, saved, saves, send, upload, typed>>
      /\ events' = Append(events, e)
  BY DEF MessagePersisted, Busy, box, work
<1>2. e \in Record /\ e.conv = c /\ e.draft = saved[c]
  BY DEF ComposerInv, TypeInv, RestOK, Record
<1>. HIDE DEF e
<1>3. events' # <<>> /\ Len(events') <= 1 /\ Head(events') = e
  BY <1>1, <1>2, RecordPutAndTaken DEF ComposerInv, TypeInv, WorkOK
<1>. QED  BY <1>1, <1>2, <1>3 DEF Settling, OneAtATime, Answers, Copies, Coming, Input

(***************************************************************************)
(* What is under way.                                                      *)
(***************************************************************************)
LEMMA SentSettles ==
    ASSUME ComposerInv, Settling, Sent, ~crossed'
    PROVE  Settling'
<1> DEFINE r == Request(cur, 0, FALSE, "send")
<1>1. /\ send.pc = "sending" /\ send.conv = cur /\ cur \in Convs
      /\ saves = {} /\ events = <<>> /\ upload.pc = "idle" /\ typed = 0
  BY NoneIsNoConv DEF Sent, Settling, OneAtATime, Input, ComposerInv, TypeInv, BoxOK, WorkOK
<1>2. /\ saves' = {r} /\ UNCHANGED <<saved, events, upload, typed>>
      /\ send' = [send EXCEPT !.pc = "clearing"]
      /\ \E ref, sent : Update(cur, shown[cur], ref, sent)
  BY <1>1 DEF Sent
<1>3. /\ cur' = cur /\ \A d \in Convs : shown'[d] = shown[d]
      /\ send'.pc = "clearing" /\ send'.conv = cur
  BY <1>1, <1>2, UpdateBox DEF ComposerInv, TypeInv, WorkOK, Task
<1>4. r.pc = "asked" /\ r.conv = cur /\ r.then = "send" /\ r.draft = 0 /\ r.keep = FALSE
  BY DEF Request
<1>. HIDE DEF r
<1>. QED  BY <1>1, <1>2, <1>3, <1>4 DEF Settling, OneAtATime, Answers, AnswerOK, Copies, Coming, Input

LEMMA UploadedSettles ==
    ASSUME ComposerInv, Settling, Uploaded, ~crossed'
    PROVE  Settling'
<1> DEFINE r == Request(cur, 0, FALSE, "upload")
<1>1. /\ upload.pc = "uploading" /\ upload.conv = cur /\ cur \in Convs
      /\ saves = {} /\ events = <<>> /\ send.pc = "idle" /\ input = 0
  BY NoneIsNoConv DEF Uploaded, Settling, OneAtATime, ComposerInv, TypeInv, BoxOK, WorkOK
<1>2. /\ saves' = {r} /\ UNCHANGED <<saved, events, send, typed>>
      /\ upload' = [upload EXCEPT !.pc = "clearing"]
      /\ Update(cur, shown[cur], typing, told)
  BY <1>1 DEF Uploaded
<1>3. /\ cur' = cur /\ (\A d \in Convs : shown'[d] = shown[d])
      /\ input' = 0 /\ (armed' <=> 0 # shown[cur])
      /\ upload'.pc = "clearing" /\ upload'.conv = cur
  BY <1>1, <1>2, UpdateBox DEF ComposerInv, TypeInv, WorkOK, Task
<1>4. r.pc = "asked" /\ r.conv = cur /\ r.then = "upload" /\ r.draft = 0 /\ r.keep = FALSE
  BY DEF Request
<1>. HIDE DEF r
<1>. QED  BY <1>1, <1>2, <1>3, <1>4 DEF Settling, OneAtATime, Answers, AnswerOK, Copies, Coming, Input

LEMMA UploadFailsSettles ==
    ASSUME ComposerInv, Settling, UploadFails, ~crossed'
    PROVE  Settling'
<1>1. /\ UNCHANGED <<cur, input, shown, armed, saved, saves, events, send, typed>>
      /\ upload.pc = "uploading" /\ upload'.pc = "idle"
  BY DEF UploadFails, box, history, Rest
<1>. QED  BY <1>1 DEF Settling, OneAtATime, Answers, AnswerOK, Copies, Coming, Input

\* The service stores the draft: from now on it is on its way to the client, twice.
LEMMA UpdateSettingsSettles ==
    ASSUME ComposerInv, Settling, NEW r \in saves, UpdateSettings(r), ~crossed'
    PROVE  Settling'
<1> DEFINE draft == IF r.keep THEN saved[r.conv] ELSE r.draft
           e == [conv |-> r.conv, draft |-> draft]
           q == [r EXCEPT !.pc = "served", !.draft = draft]
<1>1. /\ r \in Call /\ r.conv = cur /\ cur \in Convs /\ saves = {r} /\ events = <<>>
      /\ r.pc = "asked" /\ AnswerOK(r) /\ draft \in Texts
  BY DEF UpdateSettings, Settling, OneAtATime, Answers, AnswerOK, ComposerInv, TypeInv, WorkOK, RestOK, Call
<1>2. /\ e \in Record /\ e.conv = cur /\ e.draft = draft
      /\ q.pc = "served" /\ q.draft = draft /\ q.conv = cur /\ q.then = r.then /\ q.keep = r.keep
  BY <1>1 DEF Record, Call
<1>3. /\ UNCHANGED <<cur, input, shown, armed, send, upload, typed>>
      /\ saved' = [saved EXCEPT ![cur] = draft] /\ events' = Append(events, e) /\ saves' = {q}
  BY <1>1 DEF UpdateSettings, box, work, history
<1>4. /\ r.then = "toggle" => draft = saved[cur]
      /\ r.then = "typed" => draft = input
      /\ r.then = "send" => draft = 0 /\ send.pc = "clearing"
      /\ r.then = "upload" => draft = 0 /\ input = 0 /\ upload.pc = "clearing"
  BY <1>1 DEF AnswerOK
<1>. HIDE DEF draft, e, q
<1>5. events' # <<>> /\ Len(events') <= 1 /\ Head(events') = e
  BY <1>1, <1>2, <1>3, RecordPutAndTaken DEF ComposerInv, TypeInv, WorkOK
<1>6. saved'[cur] = draft /\ \A c \in Convs : c # cur => saved'[c] = saved[c]
  BY <1>1, <1>3 DEF ComposerInv, TypeInv, RestOK
<1>7. OneAtATime'
  BY <1>1, <1>2, <1>3, <1>5 DEF Settling, OneAtATime
<1>8. Answers'
  BY <1>2, <1>3, <1>4, <1>5, <1>6 DEF Answers, AnswerOK
<1>9. Coming' /\ Copies'
  BY <1>1, <1>2, <1>3, <1>6 DEF Settling, Copies, Coming
<1>10. Input'
  <2>1. shown[cur] = saved[cur] /\ ~Coming
    BY <1>1 DEF Settling, Copies, Coming
  <2>2. r.then \in {"typed", "toggle", "send", "upload"}
    BY <1>1 DEF Call
  <2>3. r.then = "send" => send.pc # "idle"
    BY <1>4
  <2>. QED  BY <1>1, <1>3, <1>4, <1>6, <1>9, <2>1, <2>2, <2>3 DEF Settling, Input
<1>. QED  BY <1>7, <1>8, <1>9, <1>10 DEF Settling

\* An answer makes the client's copy what the service has, and leaves no other.
LEMMA SettledSettles ==
    ASSUME ComposerInv, Settling, NEW r \in saves, Settled(r), ~crossed'
    PROVE  Settling'
<1>1. /\ r \in Call /\ r.conv = cur /\ cur \in Convs /\ saves = {r}
      /\ r.pc = "served" /\ r.then # "send" /\ r.draft = saved[cur] /\ AnswerOK(r)
  BY DEF Settled, Settling, OneAtATime, Answers, AnswerOK, ComposerInv, TypeInv, WorkOK, Call
<1>2. /\ saves' = {} /\ UNCHANGED <<saved, events, send, typed>>
      /\ upload' = IF r.then = "upload" THEN Rest ELSE upload
      /\ Update(cur, saved[cur], typing, told)
  BY <1>1 DEF Settled, history
<1>3. /\ cur' = cur
      /\ \A d \in Convs : shown'[d] = IF d = cur THEN saved[cur] ELSE shown[d]
      /\ input' = IF saved[cur] = shown[cur] THEN input ELSE saved[cur]
      /\ armed' <=> input' # saved[cur]
  BY <1>1, <1>2, UpdateBox DEF ComposerInv, TypeInv
<1>4. send.pc = "idle" /\ Coming
  BY <1>1 DEF Settling, OneAtATime, Coming, ComposerInv, TypeInv, WorkOK, Task
<1>5. upload'.pc = "idle"
  BY <1>1, <1>2, <1>4 DEF Settling, OneAtATime, ComposerInv, TypeInv, WorkOK, Task, Rest
<1>6. OneAtATime'
  BY <1>1, <1>2, <1>3, <1>4, <1>5 DEF Settling, OneAtATime
<1>7. Answers' /\ Copies'
  BY <1>1, <1>2, <1>3 DEF Settling, Answers, Copies, Coming
<1>8. Input'
  BY <1>1, <1>2, <1>3, <1>4 DEF Settling, Input
<1>. QED  BY <1>6, <1>7, <1>8 DEF Settling

LEMMA ClearedSettles ==
    ASSUME ComposerInv, Settling, NEW r \in saves, Cleared(r), ~crossed'
    PROVE  Settling'
<1>1. /\ r \in Call /\ r.conv = cur /\ cur \in Convs /\ saves = {r}
      /\ r.pc = "served" /\ r.draft = saved[cur] /\ r.draft = 0
      /\ send.pc = "clearing" /\ upload.pc = "idle" /\ typed = 0
  BY NoneIsNoConv DEF Cleared, Settling, OneAtATime, Answers, AnswerOK, Input, ComposerInv, TypeInv,
     WorkOK, Call
<1>2. /\ saves' = {} /\ UNCHANGED <<cur, saved, events, upload, typed>> /\ send'.pc = "idle"
      /\ shown' = [shown EXCEPT ![cur] = 0] /\ input' = 0
  BY <1>1 DEF Cleared, Rest, history
<1>3. \A d \in Convs : shown'[d] = IF d = cur THEN 0 ELSE shown[d]
  BY <1>2 DEF ComposerInv, TypeInv, BoxOK
<1>4. OneAtATime'
  BY <1>1, <1>2 DEF Settling, OneAtATime
<1>5. Answers' /\ Copies' /\ Input'
  BY <1>1, <1>2, <1>3 DEF Settling, Answers, Copies, Coming, Input
<1>. QED  BY <1>4, <1>5 DEF Settling

LEMMA ConversationUpdatedSettles ==
    ASSUME ComposerInv, Settling, ConversationUpdated, ~crossed'
    PROVE  Settling'
<1> DEFINE e == Head(events)
<1>1. /\ events # <<>> /\ events' = Tail(events)
      /\ UNCHANGED <<saved, saves, send, upload, typed>>
      /\ Update(e.conv, e.draft, typing, told)
  BY DEF ConversationUpdated, work, history
<1>2. events' = <<>> /\ e \in Record /\ e.conv \in Convs /\ e.draft = saved[e.conv]
  BY <1>1, RecordPutAndTaken DEF Settling, OneAtATime, Answers, ComposerInv, TypeInv, WorkOK, Record
<1>3. /\ cur' = cur
      /\ \A d \in Convs : shown'[d] = IF d = e.conv THEN saved[e.conv] ELSE shown[d]
      /\ e.conv # cur => input' = input /\ (armed' <=> armed)
      /\ e.conv = cur => /\ input' = IF saved[cur] = shown[cur] THEN input ELSE saved[cur]
                         /\ armed' <=> input' # saved[cur]
  BY <1>1, <1>2, UpdateBox DEF ComposerInv, TypeInv
<1>. HIDE DEF e
<1>4. /\ \A r \in saves : r.pc = "served"
      /\ send.pc # "sending" /\ upload.pc # "uploading"
  BY <1>1 DEF Settling, OneAtATime, Answers, AnswerOK, ComposerInv, TypeInv, WorkOK, Call
<1>5. OneAtATime'
  BY <1>1, <1>2, <1>3 DEF Settling, OneAtATime
<1>6. e.conv = cur => Coming
  BY <1>1 DEF Coming, e
<1>7. ASSUME NEW r \in saves, r.then = "upload" PROVE input' = 0
  <2>1. /\ input = 0 /\ r.draft = 0 /\ r.pc = "served" /\ saved[cur] = 0
    BY <1>4, <1>7 DEF Settling, Answers, AnswerOK
  <2>. QED  BY <2>1, <1>3
<1>8. Answers'
  BY <1>1, <1>2, <1>3, <1>4, <1>7 DEF Settling, Answers, AnswerOK
<1>9. Copies'
  BY <1>1, <1>2, <1>3 DEF Settling, Copies, Coming, e
<1>10. Input'
  <2>1. CASE e.conv # cur
    <3>1. Coming' <=> Coming
      BY <1>1, <1>2, <1>3, <2>1 DEF Coming, e
    <3>2. cur \in Convs => shown'[cur] = shown[cur]
      BY <1>3, <2>1
    <3>. QED  BY <1>1, <1>3, <2>1, <3>1, <3>2 DEF Settling, Input, ComposerInv, TypeInv, BoxOK
  <2>2. CASE e.conv = cur
    BY <1>1, <1>2, <1>3, <1>6, <2>2 DEF Settling, Input
  <2>. QED  BY <2>1, <2>2
<1>. QED  BY <1>5, <1>8, <1>9, <1>10 DEF Settling

-----------------------------------------------------------------------------
LEMMA CrossedStays ==
    ASSUME [Next]_vars, ~crossed' PROVE ~crossed
BY DEF Next, vars, history, Type, SetCurrentConversation, MessagePersisted, SaveDraft, Toggle, StopTyping,
   HandleSend, Sent, SendFails, HandleUpload, Uploaded, UploadFails, UpdateSettings, Settled, Cleared,
   SettingsFail, ConversationUpdated

LEMMA NextSettles ==
    ASSUME ComposerInv, Settling, [Next]_vars, ~crossed'
    PROVE  Settling'
<1>1. CASE UNCHANGED vars \/ StopTyping
  BY <1>1 DEF vars, StopTyping, box, work, history, Settling, OneAtATime, Answers, AnswerOK, Copies,
              Coming, Input
<1>2. CASE \E text \in Texts : Type(text)
  BY <1>2, TypeSettles
<1>3. CASE \E c \in Convs : SetCurrentConversation(c) \/ MessagePersisted(c)
  BY <1>3, SelectSettles, MessageSettles
<1>4. CASE SaveDraft \/ Toggle
  BY <1>4, SaveDraftSettles, ToggleSettles
<1>5. CASE HandleSend \/ Sent
  BY <1>5, HandleSendSettles, SentSettles
<1>6. CASE HandleUpload \/ Uploaded \/ UploadFails
  BY <1>6, HandleUploadSettles, UploadedSettles, UploadFailsSettles
<1>7. CASE \E r \in saves : UpdateSettings(r) \/ Settled(r) \/ Cleared(r)
  BY <1>7, UpdateSettingsSettles, SettledSettles, ClearedSettles
<1>8. CASE ConversationUpdated
  BY <1>8, ConversationUpdatedSettles
<1>9. CASE SendFails \/ \E r \in saves : SettingsFail(r)
  BY <1>9 DEF SendFails, SettingsFail
<1>. QED  BY <1>1, <1>2, <1>3, <1>4, <1>5, <1>6, <1>7, <1>8, <1>9 DEF Next

\* Whatever is typed, sent, uploaded and selected, in any of the orders that crossed
\* leaves, an answer and a record of one draft in either order: once nothing is under
\* way the input, the client's copy and the service hold the text typed last
\* (chat-window.tsx:101-125, :167-192, chat-store.tsx:449-466).
THEOREM DraftAlwaysSettles == Spec => []DraftSettles
<1>1. Init => DraftInv
  <2>. SUFFICES ASSUME Init PROVE DraftInv
    OBVIOUS
  <2>1. Settling
    BY DEF Init, Rest, Settling, OneAtATime, Answers, Copies, Coming, Input
  <2>. QED  BY <2>1, InitComposer DEF DraftInv
<1>2. DraftInv /\ [Next]_vars => DraftInv'
  BY NextComposer, CrossedStays, NextSettles DEF DraftInv
<1>3. DraftInv => DraftSettles
  <2>. SUFFICES ASSUME DraftInv, ~armed, ~Busy, ~crossed, cur # None
                PROVE  input = typed /\ shown[cur] = typed /\ saved[cur] = typed
    BY DEF DraftSettles
  <2>1. saves = {} /\ events = <<>> /\ send.pc = "idle" /\ cur \in Convs
    BY DEF Busy, DraftInv, ComposerInv, TypeInv, BoxOK
  <2>. QED  BY <2>1 DEF DraftInv, Settling, Copies, Coming, Input
<1>. QED  BY <1>1, <1>2, <1>3, PTL DEF Spec
=============================================================================
