------------------------------ MODULE Presence ------------------------------
(***************************************************************************)
(* Sockets of the realtime process: its hub (realtime/hub.go), the gauge   *)
(* of live sockets, and the set of online users in Redis                   *)
(* (presence/service.go) that message delivery consults, as ServeWS of     *)
(* realtime_controller.go drives them.  A socket stands for one goroutine  *)
(* in ServeWS; the broadcasting consumer is another goroutine.             *)
(***************************************************************************)
EXTENDS Integers, FiniteSets

CONSTANTS
    Users,      \* user ids
    Sockets,    \* websocket connections that may be made
    MaxCrashes  \* bound: crashes of the realtime process

ASSUME CrashesAreNat == MaxCrashes \in Nat

VARIABLES
    owner,   \* the user of a socket
    phase,   \* where ServeWS is for a socket: "unused", "upgraded", "added",
             \* "live", "closing" (the read loop has ended), "removed", "done"
    broken,  \* sockets whose peer is gone or that were closed by a broadcast
    hub,     \* the sockets in Hub.conns
    stale,   \* sockets a broadcast failed to write to and has yet to remove
    gauge,   \* chat_ws_connections
    online,  \* the Redis set presence:online
    crashes, \* crashes so far
    shared,  \* users who had two sockets at a time (history)
    missed   \* users of whom Redis missed a change (history)

history == <<crashes, shared, missed>>
vars == <<owner, phase, broken, hub, stale, gauge, online, history>>

ConnsOf(u) == {s \in hub : owner[s] = u}

\* A socket between its accept and the end of its handler.
Open(s) == phase[s] \notin {"unused", "done"}

-----------------------------------------------------------------------------
Init ==
    /\ owner \in [Sockets -> Users]
    /\ phase = [s \in Sockets |-> "unused"]
    /\ broken = {}
    /\ hub = {}
    /\ stale = {}
    /\ gauge = 0
    /\ online = {}
    /\ crashes = 0
    /\ shared = {}
    /\ missed = {}

Upgrade(s) ==
    /\ phase[s] = "unused"
    /\ phase' = [phase EXCEPT ![s] = "upgraded"]
    /\ shared' = IF \E t \in Sockets : owner[t] = owner[s] /\ Open(t)
                    THEN shared \cup {owner[s]} ELSE shared
    /\ UNCHANGED <<owner, broken, hub, stale, gauge, online, crashes, missed>>

\* Hub.Add
Add(s) ==
    /\ phase[s] = "upgraded"
    /\ hub' = hub \cup {s}
    /\ gauge' = gauge + 1
    /\ phase' = [phase EXCEPT ![s] = "added"]
    /\ UNCHANGED <<owner, broken, stale, online, history>>

MarkOnline(s) ==
    /\ phase[s] = "added"
    /\ online' = online \cup {owner[s]}
    /\ phase' = [phase EXCEPT ![s] = "live"]
    /\ UNCHANGED <<owner, broken, hub, stale, gauge, history>>

\* The tab closes, the network fails, or the pong deadline passes.
Break(s) ==
    /\ Open(s)
    /\ s \notin broken
    /\ broken' = broken \cup {s}
    /\ UNCHANGED <<owner, phase, hub, stale, gauge, online, history>>

\* ReadMessage fails and the deferred clean-up begins.
ReadFails(s) ==
    /\ phase[s] = "live"
    /\ s \in broken
    /\ phase' = [phase EXCEPT ![s] = "closing"]
    /\ UNCHANGED <<owner, broken, hub, stale, gauge, online, history>>

\* Mutant of Remove: the gauge is left alone.
RemoveUncounted(s) ==
    /\ hub' = hub \ {s}
    /\ gauge' = gauge

\* Hub.Remove returns at once for a user without sockets, and otherwise takes one
\* off the gauge whether or not this socket is still there.
Remove(s) ==
    /\ hub' = hub \ {s}
    /\ gauge' = IF ConnsOf(owner[s]) = {} THEN gauge ELSE gauge - 1

CleanUp(s) ==
    /\ phase[s] = "closing"
    /\ Remove(s)
    /\ phase' = [phase EXCEPT ![s] = "removed"]
    /\ UNCHANGED <<owner, broken, stale, online, history>>

\* Mutant of MarkOffline: the handler ends without it.
StayOnline(s) ==
    /\ phase[s] = "removed"
    /\ phase' = [phase EXCEPT ![s] = "done"]
    /\ UNCHANGED <<owner, broken, hub, stale, gauge, online, history>>

MarkOffline(s) ==
    /\ phase[s] = "removed"
    /\ online' = online \ {owner[s]}
    /\ phase' = [phase EXCEPT ![s] = "done"]
    /\ UNCHANGED <<owner, broken, hub, stale, gauge, history>>

\* Redis fails MarkOnline or MarkOffline, and ServeWS goes on: it drops the error.
RedisFails(s) ==
    /\ \/ phase[s] = "added" /\ phase' = [phase EXCEPT ![s] = "live"]
       \/ phase[s] = "removed" /\ phase' = [phase EXCEPT ![s] = "done"]
    /\ missed' = missed \cup {owner[s]}
    /\ UNCHANGED <<owner, broken, hub, stale, gauge, online, crashes, shared>>

\* Broadcast writes to a user's sockets under the read lock and collects those
\* whose write fails ...
Broadcast(u) ==
    /\ stale = {}
    /\ ConnsOf(u) \cap broken # {}
    /\ stale' = ConnsOf(u) \cap broken
    /\ UNCHANGED <<owner, phase, broken, hub, gauge, online, history>>

\* ... then removes and closes them one by one.
RemoveStale(s) ==
    /\ s \in stale
    /\ stale' = stale \ {s}
    /\ Remove(s)
    /\ broken' = broken \cup {s}
    /\ UNCHANGED <<owner, phase, online, history>>

\* The process dies with its memory; Redis keeps its set.
Crash ==
    /\ crashes < MaxCrashes
    /\ crashes' = crashes + 1
    /\ phase' = [s \in Sockets |-> IF Open(s) THEN "done" ELSE phase[s]]
    /\ hub' = {}
    /\ stale' = {}
    /\ gauge' = 0
    /\ UNCHANGED <<owner, broken, online, shared, missed>>

\* Mutant of Serve: no deadline ends the read loop of a broken socket.
ServeForever(s) == Add(s) \/ MarkOnline(s) \/ CleanUp(s) \/ MarkOffline(s) \/ RedisFails(s)

Serve(s) ==
    Add(s) \/ MarkOnline(s) \/ ReadFails(s) \/ CleanUp(s) \/ MarkOffline(s) \/ RedisFails(s)

Next ==
    \/ \E s \in Sockets : Upgrade(s) \/ Break(s) \/ Serve(s) \/ RemoveStale(s)
    \/ \E u \in Users : Broadcast(u)
    \/ Crash

Spec == Init /\ [][Next]_vars

\* Every goroutine runs on.
FairSpec == Spec /\ \A s \in Sockets : WF_vars(Serve(s)) /\ WF_vars(RemoveStale(s))

-----------------------------------------------------------------------------
TypeOK ==
    /\ owner \in [Sockets -> Users]
    /\ phase \in [Sockets -> {"unused", "upgraded", "added", "live", "closing", "removed", "done"}]
    /\ broken \in SUBSET Sockets
    /\ hub \in SUBSET Sockets
    /\ stale \in SUBSET Sockets
    /\ gauge \in Int
    /\ online \in SUBSET Users
    /\ crashes \in Nat
    /\ shared \in SUBSET Users
    /\ missed \in SUBSET Users

\* No handler or broadcast is between two of its steps.
Settled ==
    /\ \A s \in Sockets : phase[s] \in {"unused", "live", "done"}
    /\ stale = {}

Live(u) == \E s \in Sockets : owner[s] = u /\ phase[s] = "live"

\* Redis holds exactly the users that have a live socket
\* (realtime_controller.go:87-89), broadcasts and broken sockets included, for a
\* user who never has two sockets at a time, until a crash or a failure of Redis.
OneTabIsExact ==
    Settled /\ crashes = 0 =>
        \A u \in Users \ (shared \cup missed) : u \in online <=> Live(u)

\* Though a broadcast and the clean-up may both remove one socket, in any order
\* and with other sockets coming in between, the gauge never shows more sockets
\* than there are, and a socket whose handler has ended is in the hub no more: no
\* broadcast writes to it again (hub.go:38-49).
HubAgrees ==
    /\ TypeOK
    /\ gauge <= Cardinality(hub)
    /\ \A s \in hub : phase[s] \in {"added", "live", "closing"}

\* Nobody is left at the other end of any socket of u.
Deserted(u) == \A s \in Sockets : owner[s] = u /\ Open(s) => s \in broken

\* A user none of whose sockets works any more goes offline and stays so, however
\* the clean-ups of several sockets and the broadcasts that hit them interleave,
\* unless the process dies or Redis fails: ping and deadlines end every broken handler
\* (realtime_controller.go:73-99).
BrokenGoesOffline ==
    \A u \in Users :
        <>[](Deserted(u) /\ crashes = 0 /\ u \notin missed) => <>[](u \notin online)
=============================================================================
