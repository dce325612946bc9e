----------------------------- MODULE SocketHook -----------------------------
(***************************************************************************)
(* hooks/use-websocket.ts: the socket a page keeps while it shows a user,  *)
(* and the timeouts that open it again.  ClientSession says when there is  *)
(* a user and what its tokens are; here both change as they may there.     *)
(***************************************************************************)
EXTENDS Naturals, FiniteSets

CONSTANTS
    Slots,       \* WebSocket objects that may exist at a time
    MaxChanges,  \* bound: sign-ins, sign-outs and changes of the token
    MaxBreaks    \* bound: sockets broken by the network or the server

ASSUME SlotsAreNumbered == Slots \subseteq Nat \ {0} /\ IsFiniteSet(Slots)
ASSUME BoundsAreNat == MaxChanges \in Nat /\ MaxBreaks \in Nat

VARIABLES
    enabled,  \* there is a user
    token,    \* "none", "good" or "expired": the access token
    sock,     \* of each WebSocket object: "none" (no such object), "connecting",
              \* "doomed" (connecting with an expired token), "open", "closing"
    cur,      \* wsRef, 0 before the first
    up,       \* isConnected
    timer,    \* the timeout that reconnectTimeoutRef names is pending
    stray,    \* pending timeouts it named before
    changes, breaks,
    hasty     \* a connection was opened while an older socket was still there,
              \* closing (history)

session  == <<enabled, token, changes>>
sockets  == <<sock, cur>>
timers   == <<timer, stray>>
hookVars == <<session, sockets, up, timers, breaks, hasty>>

InUse == {"connecting", "doomed", "open"}

-----------------------------------------------------------------------------
\* wsRef.current.close(): the object stays until its onclose.
Closing == [i \in Slots |-> IF i = cur /\ sock[i] \in InUse THEN "closing" ELSE sock[i]]

\* Mutant of Connect: the socket that is there is not closed.
ConnectBeside(t) ==
    IF t = "none" THEN UNCHANGED <<sockets, timer, hasty>>
    ELSE \E i \in Slots :
            /\ sock[i] = "none"
            /\ \A j \in Slots : j < i => sock[j] # "none"
            /\ sock' = [sock EXCEPT ![i] = IF t = "good" THEN "connecting" ELSE "doomed"]
            /\ cur' = i
            /\ timer' = FALSE
            /\ hasty' = hasty

\* connect: nothing without a token; else the timeout is cleared, the socket that
\* is there closed and another made.
Connect(t) ==
    IF t = "none" THEN UNCHANGED <<sockets, timer, hasty>>
    ELSE \E i \in Slots :
            /\ sock[i] = "none"
            /\ \A j \in Slots : j < i => sock[j] # "none"
            /\ sock' = [Closing EXCEPT ![i] = IF t = "good" THEN "connecting" ELSE "doomed"]
            /\ cur' = i
            /\ timer' = FALSE
            /\ hasty' = (hasty \/ \E j \in Slots : Closing[j] = "closing")

Change == changes < MaxChanges /\ changes' = changes + 1

\* setUser of a login or a bootstrap: the effect connects.
SignIn ==
    /\ ~enabled
    /\ Change
    /\ enabled' = TRUE
    /\ token' = "good"
    /\ Connect("good")
    /\ UNCHANGED <<up, stray, breaks>>

\* The effect's cleanup clears the timeout and closes the socket; then, without a
\* user, setIsConnected(false).
SignOut ==
    /\ enabled
    /\ Change
    /\ enabled' = FALSE
    /\ token' = "none"
    /\ sock' = Closing
    /\ up' = FALSE
    /\ timer' = FALSE
    /\ UNCHANGED <<cur, stray, breaks, hasty>>

\* Time, a refresh and a refused refresh change the token under the hook; a
\* refresh that was in flight at a logout also brings tokens back without a user.
TokenChanges(t) ==
    /\ Change
    /\ \/ token = "good" /\ t = "expired"
       \/ token = "expired" /\ t \in {"good", "none"}
       \/ token = "none" /\ t = "good" /\ ~enabled
    /\ token' = t
    /\ UNCHANGED <<enabled, sockets, up, timers, breaks, hasty>>

\* onopen
Opened(i) ==
    /\ sock[i] = "connecting"
    /\ sock' = [sock EXCEPT ![i] = "open"]
    /\ up' = TRUE
    /\ UNCHANGED <<session, cur, timers, breaks, hasty>>

\* Mutant of OnClose: no other connection is scheduled.
OnCloseGivesUp(i) ==
    /\ sock' = [sock EXCEPT ![i] = "none"]
    /\ up' = FALSE
    /\ UNCHANGED timers

\* onclose of any socket made here, the current one or one before it; a timeout
\* that was pending is no longer named by the ref.
OnClose(i) ==
    /\ sock' = [sock EXCEPT ![i] = "none"]
    /\ up' = FALSE
    /\ stray' = IF timer THEN stray + 1 ELSE stray
    /\ timer' = TRUE

\* The closing handshake ends, or the service refuses the upgrade.
Closed(i) ==
    /\ sock[i] \in {"closing", "doomed"}
    /\ OnClose(i)
    /\ UNCHANGED <<session, cur, breaks, hasty>>

Breaks(i) ==
    /\ sock[i] \in {"connecting", "open"}
    /\ breaks < MaxBreaks
    /\ breaks' = breaks + 1
    /\ OnClose(i)
    /\ UNCHANGED <<session, cur, hasty>>

\* Five seconds after an onclose: connect, if there is a token by then; whether
\* there is a user is what it was when that socket was made.
TimerFires ==
    /\ timer
    /\ IF token = "none" THEN timer' = FALSE /\ UNCHANGED <<sockets, hasty>>
                         ELSE Connect(token)
    /\ UNCHANGED <<session, up, stray, breaks>>

StrayTimerFires ==
    /\ stray > 0
    /\ stray' = stray - 1
    /\ Connect(token)
    /\ UNCHANGED <<session, up, breaks>>

HookInit ==
    /\ enabled = FALSE
    /\ token = "none"
    /\ sock = [i \in Slots |-> "none"]
    /\ cur = 0
    /\ up = FALSE
    /\ timer = FALSE
    /\ stray = 0
    /\ changes = 0
    /\ breaks = 0
    /\ hasty = FALSE

HookNext ==
    \/ SignIn \/ SignOut
    \/ \E t \in {"none", "good", "expired"} : TokenChanges(t)
    \/ \E i \in Slots : Opened(i) \/ Closed(i) \/ Breaks(i)
    \/ TimerFires \/ StrayTimerFires

HookSpec == HookInit /\ [][HookNext]_hookVars

\* Handshakes end, timeouts fire.
FairHookSpec ==
    /\ HookSpec
    /\ \A i \in Slots : WF_hookVars(Opened(i)) /\ WF_hookVars(Closed(i))
    /\ WF_hookVars(TimerFires) /\ WF_hookVars(StrayTimerFires)

-----------------------------------------------------------------------------
\* At most one socket is not on its way out, it is the one wsRef names, and the
\* page says "connected" only while a socket is open or its closing is not yet
\* seen (use-websocket.ts:33-70).
OneSocket ==
    /\ \A i \in Slots : sock[i] \in InUse => i = cur
    /\ up => \E i \in Slots : sock[i] \in {"open", "closing"}
    /\ timer \in BOOLEAN /\ stray \in Nat

\* So it is, and an open socket shown as disconnected, and a timeout the ref no
\* longer names, come only of a connection made while an older socket was closing
\* (use-websocket.ts:59-67).
ShownAsItIs ==
    /\ OneSocket
    /\ ~hasty =>
          /\ stray = 0
          /\ \A i \in Slots : sock[i] = "open" => up
          /\ timer => \A i \in Slots : sock[i] \notin InUse \cup {"closing"}

\* Once the network, the user and the token leave it alone, a signed-in page with
\* a good token is connected and stays so, after any number of breaks.  It is not
\* claimed after a connection made in haste: then each onclose closes the socket
\* that replaced it, for good (use-websocket.ts:33-36, :59-67).
Settles == <>[](hasty \/ ~enabled \/ token # "good" \/ up)
=============================================================================
