--------------------------- MODULE Sockets_proofs ---------------------------
(***************************************************************************)
(* The two ends of the sockets.  Here the service's: the hub and the gauge *)
(* agree with the handlers, and Redis with the live sockets, for any       *)
(* users, sockets and crashes.  Further down, SocketHook: the page's.      *)
(*                                                                         *)
(* The cardinality of the hub bounds the gauge because the hub is finite,  *)
(* whatever the set of sockets, and because a handler adds a socket that   *)
(* is not there yet.                                                       *)
(***************************************************************************)
EXTENDS Presence, SocketHook, FiniteSetTheorems, TLAPS

HubInv == HubAgrees /\ IsFiniteSet(hub) /\ stale \subseteq Sockets

\* Hub.Remove of a socket, whoever calls it and whether or not it is there
\* (hub.go:38-49).
LEMMA RemoveKeepsBound ==
    ASSUME HubInv, NEW s \in Sockets, Remove(s)
    PROVE  /\ hub' \in SUBSET Sockets /\ IsFiniteSet(hub')
           /\ gauge' \in Int /\ gauge' <= Cardinality(hub')
<1>1. /\ hub' = hub \ {s} /\ hub \in SUBSET Sockets
      /\ IsFiniteSet(hub) /\ Cardinality(hub) \in Nat
      /\ gauge \in Int /\ gauge <= Cardinality(hub)
  BY FS_CardinalityType DEF HubInv, HubAgrees, TypeOK, Remove
<1>2. CASE s \in hub
  <2>1. /\ IsFiniteSet(hub \ {s})
        /\ Cardinality(hub \ {s}) = Cardinality(hub) - 1
    BY <1>1, <1>2, FS_RemoveElement
  <2>2. gauge' = gauge - 1
    BY <1>2 DEF Remove, ConnsOf
  <2>. QED  BY <1>1, <2>1, <2>2
<1>3. CASE s \notin hub
  <2>1. hub' = hub
    BY <1>1, <1>3
  <2>2. gauge' \in {gauge, gauge - 1}
    BY DEF Remove
  <2>. QED  BY <1>1, <2>1, <2>2
<1>. QED  BY <1>2, <1>3

LEMMA InitHub == Init => HubInv
<1>. SUFFICES ASSUME Init PROVE HubInv
  OBVIOUS
<1>1. IsFiniteSet({}) /\ Cardinality({}) = 0
  BY FS_EmptySet
<1>2. TypeOK
  BY DEF Init, TypeOK
<1>. QED  BY <1>1, <1>2 DEF Init, HubInv, HubAgrees

LEMMA AddKeeps ==
    ASSUME HubInv, NEW s \in Sockets, Add(s)
    PROVE  HubInv'
<1>1. /\ s \notin hub /\ IsFiniteSet(hub) /\ Cardinality(hub) \in Nat
      /\ gauge \in Int /\ gauge <= Cardinality(hub)
  BY FS_CardinalityType DEF Add, HubInv, HubAgrees, TypeOK
<1>2. /\ IsFiniteSet(hub \cup {s})
      /\ Cardinality(hub \cup {s}) = Cardinality(hub) + 1
  BY <1>1, FS_AddElement
<1>3. IsFiniteSet(hub') /\ gauge' <= Cardinality(hub')
  BY <1>1, <1>2 DEF Add
<1>4. TypeOK' /\ stale' \subseteq Sockets
  BY DEF Add, HubInv, HubAgrees, TypeOK, history
<1>5. \A t \in hub' : phase'[t] \in {"added", "live", "closing"}
  BY DEF Add, HubInv, HubAgrees, TypeOK
<1>. QED  BY <1>3, <1>4, <1>5 DEF HubInv, HubAgrees

LEMMA CleanUpKeeps ==
    ASSUME HubInv, NEW s \in Sockets, CleanUp(s)
    PROVE  HubInv'
<1>1. /\ hub' \in SUBSET Sockets /\ IsFiniteSet(hub')
      /\ gauge' \in Int /\ gauge' <= Cardinality(hub')
  BY RemoveKeepsBound DEF CleanUp
<1>2. TypeOK' /\ stale' \subseteq Sockets
  BY <1>1 DEF CleanUp, HubInv, HubAgrees, TypeOK, history
<1>3. \A t \in hub' : phase'[t] \in {"added", "live", "closing"}
  BY DEF CleanUp, Remove, HubInv, HubAgrees, TypeOK
<1>. QED  BY <1>1, <1>2, <1>3 DEF HubInv, HubAgrees

LEMMA RemoveStaleKeeps ==
    ASSUME HubInv, NEW s \in Sockets, RemoveStale(s)
    PROVE  HubInv'
<1>1. /\ hub' \in SUBSET Sockets /\ IsFiniteSet(hub')
      /\ gauge' \in Int /\ gauge' <= Cardinality(hub')
  BY RemoveKeepsBound DEF RemoveStale
<1>2. TypeOK' /\ stale' \subseteq Sockets
  BY <1>1 DEF RemoveStale, HubInv, HubAgrees, TypeOK, history
<1>3. \A t \in hub' : phase'[t] \in {"added", "live", "closing"}
  BY DEF RemoveStale, Remove, HubInv, HubAgrees, TypeOK
<1>. QED  BY <1>1, <1>2, <1>3 DEF HubInv, HubAgrees

LEMMA CrashKeeps == HubInv /\ Crash => HubInv'
<1>. SUFFICES ASSUME HubInv, Crash PROVE HubInv'
  OBVIOUS
<1>1. IsFiniteSet(hub') /\ Cardinality(hub') = 0
  BY FS_EmptySet DEF Crash
<1>2. TypeOK' /\ stale' \subseteq Sockets
  BY DEF Crash, HubInv, HubAgrees, TypeOK
<1>. QED  BY <1>1, <1>2 DEF Crash, HubInv, HubAgrees

\* A step that leaves the hub and the gauge alone, and no handler of the hub behind.
LEMMA QuietStep ==
    ASSUME HubInv, TypeOK', UNCHANGED <<hub, gauge>>, stale' \subseteq Sockets,
           \A s \in hub : phase'[s] \in {"added", "live", "closing"}
    PROVE  HubInv'
BY DEF HubInv, HubAgrees

LEMMA NextHub == HubInv /\ [Next]_vars => HubInv'
<1>. SUFFICES ASSUME HubInv, [Next]_vars PROVE HubInv'
  OBVIOUS
<1>1. CASE UNCHANGED vars
  BY <1>1 DEF vars, history, HubInv, HubAgrees, TypeOK
<1>2. ASSUME NEW s \in Sockets, Upgrade(s) \/ Break(s) PROVE HubInv'
  <2>1. TypeOK'
    BY <1>2 DEF Upgrade, Break, HubInv, HubAgrees, TypeOK, history
  <2>. QED
    BY <1>2, <2>1, QuietStep DEF Upgrade, Break, HubInv, HubAgrees, TypeOK
<1>3. ASSUME NEW s \in Sockets, MarkOnline(s) \/ ReadFails(s) \/ MarkOffline(s) \/ RedisFails(s)
      PROVE  HubInv'
  <2>1. TypeOK'
    BY <1>3 DEF MarkOnline, ReadFails, MarkOffline, RedisFails, HubInv, HubAgrees, TypeOK,
                history
  <2>2. UNCHANGED <<hub, gauge, stale>>
    BY <1>3 DEF MarkOnline, ReadFails, MarkOffline, RedisFails
  <2>3. \A t \in hub : phase'[t] \in {"added", "live", "closing"}
    BY <1>3 DEF MarkOnline, ReadFails, MarkOffline, RedisFails, HubInv, HubAgrees, TypeOK
  <2>. QED  BY <2>1, <2>2, <2>3, QuietStep DEF HubInv
<1>4. ASSUME NEW s \in Sockets, Add(s) \/ CleanUp(s) \/ RemoveStale(s) PROVE HubInv'
  BY <1>4, AddKeeps, CleanUpKeeps, RemoveStaleKeeps
<1>5. ASSUME NEW u \in Users, Broadcast(u) PROVE HubInv'
  <2>1. TypeOK' /\ stale' \subseteq Sockets
    BY <1>5 DEF Broadcast, ConnsOf, HubInv, HubAgrees, TypeOK, history
  <2>. QED  BY <1>5, <2>1, QuietStep DEF Broadcast, HubInv, HubAgrees
<1>6. CASE Crash
  BY <1>6, CrashKeeps
<1>. QED  BY <1>1, <1>2, <1>3, <1>4, <1>5, <1>6 DEF Next, Serve

\* However handlers and broadcasts remove sockets, twice or while others of the user
\* come, and whatever crashes: the gauge never shows more sockets than the hub has, and
\* the hub has none whose handler has ended (hub.go:38-49, realtime_controller.go:64-99).
THEOREM HubAlwaysAgrees == Spec => []HubAgrees
<1>1. HubInv => HubAgrees
  BY DEF HubInv
<1>. QED  BY InitHub, NextHub, <1>1, PTL DEF Spec
-----------------------------------------------------------------------------
(***************************************************************************)
(* Redis and the live sockets.  OneTabIsExact speaks of settled states     *)
(* only; what a step preserves is an account of every phase of a handler:  *)
(* Redis has the user from MarkOnline to MarkOffline.  It is exact because *)
(* a user who never had two sockets has at most one open handler, so no    *)
(* other handler's MarkOffline can take the user off.                      *)
(***************************************************************************)

\* Between MarkOnline and MarkOffline in ServeWS (realtime_controller.go:65-91).
Announced(s) == phase[s] \in {"live", "closing", "removed"}

\* A user who never had two sockets at a time has one open handler at most.
SoleHandler ==
    \A s, t \in Sockets :
        owner[s] = owner[t] /\ owner[s] \notin shared /\ Open(s) /\ Open(t) => s = t

\* Redis has exactly the users of the announced handlers, but for those excepted.
RedisFollows ==
    crashes = 0 =>
        \A u \in Users \ (shared \cup missed) :
            u \in online <=> \E s \in Sockets : owner[s] = u /\ Announced(s)

OnlineInv == TypeOK /\ SoleHandler /\ RedisFollows

LEMMA InitOnline == Init => OnlineInv
BY DEF Init, OnlineInv, TypeOK, SoleHandler, RedisFollows, Open, Announced

\* A step after which no handler is open that was not, and no more users are watched.
LEMMA NoNewHandler ==
    ASSUME OnlineInv, owner' = owner, shared' = shared,
           \A s \in Sockets : Open(s)' => Open(s)
    PROVE  SoleHandler'
BY DEF OnlineInv, SoleHandler, Open

\* A new socket of the user makes the user shared if another one is open
\* (realtime_controller.go:55-65).
LEMMA UpgradeKeepsSole ==
    ASSUME OnlineInv, NEW r \in Sockets, Upgrade(r)
    PROVE  SoleHandler'
<1>. SUFFICES ASSUME NEW s \in Sockets, NEW t \in Sockets,
                     owner'[s] = owner'[t], owner'[s] \notin shared', Open(s)', Open(t)'
              PROVE  s = t
  BY DEF SoleHandler
<1>1. owner' = owner /\ owner[s] \notin shared
  BY DEF Upgrade
<1>2. \A q \in Sockets : q # r => phase'[q] = phase[q]
  BY DEF Upgrade, OnlineInv, TypeOK
<1>3. ASSUME NEW q \in Sockets, q # r, owner[q] = owner[r], Open(q)
      PROVE  owner[r] \in shared'
  BY <1>3 DEF Upgrade, OnlineInv, TypeOK
<1>4. CASE s # r /\ t # r
  <2>1. Open(s) /\ Open(t)
    BY <1>2, <1>4 DEF Open
  <2>. QED  BY <1>1, <2>1 DEF OnlineInv, SoleHandler
<1>5. CASE s = r /\ t # r
  BY <1>1, <1>2, <1>3, <1>5 DEF Open
<1>6. CASE t = r /\ s # r
  BY <1>1, <1>2, <1>3, <1>6 DEF Open
<1>. QED  BY <1>4, <1>5, <1>6

\* A step that changes neither who is announced nor what Redis has, and excepts no user
\* less than before.
LEMMA SameAnnounced ==
    ASSUME OnlineInv, owner' = owner, online' = online, crashes' = crashes,
           shared \subseteq shared', missed \subseteq missed',
           \A s \in Sockets : Announced(s)' <=> Announced(s)
    PROVE  RedisFollows'
BY DEF OnlineInv, RedisFollows, Announced

LEMMA MarkOnlineKeeps ==
    ASSUME OnlineInv, NEW r \in Sockets, MarkOnline(r)
    PROVE  RedisFollows'
<1>. SUFFICES ASSUME crashes = 0, NEW u \in Users \ (shared \cup missed)
              PROVE  u \in online' <=> \E s \in Sockets : owner[s] = u /\ Announced(s)'
  BY DEF RedisFollows, MarkOnline, history, Announced
<1>1. u \in online <=> \E s \in Sockets : owner[s] = u /\ Announced(s)
  BY DEF OnlineInv, RedisFollows
<1>2. Announced(r)' /\ ~Announced(r) /\ online' = online \cup {owner[r]}
  BY DEF MarkOnline, Announced, OnlineInv, TypeOK
<1>3. \A s \in Sockets : s # r => (Announced(s)' <=> Announced(s))
  BY DEF MarkOnline, Announced, OnlineInv, TypeOK
<1>. QED  BY <1>1, <1>2, <1>3

\* The user's only handler takes the user off as it ends
\* (realtime_controller.go:90-91).
LEMMA MarkOfflineKeeps ==
    ASSUME OnlineInv, NEW r \in Sockets, MarkOffline(r)
    PROVE  RedisFollows'
<1>. SUFFICES ASSUME crashes = 0, NEW u \in Users \ (shared \cup missed)
              PROVE  u \in online' <=> \E s \in Sockets : owner[s] = u /\ Announced(s)'
  BY DEF RedisFollows, MarkOffline, history, Announced
<1>1. u \in online <=> \E s \in Sockets : owner[s] = u /\ Announced(s)
  BY DEF OnlineInv, RedisFollows
<1>2. Announced(r) /\ Open(r) /\ ~Announced(r)' /\ online' = online \ {owner[r]}
  BY DEF MarkOffline, Announced, Open, OnlineInv, TypeOK
<1>3. \A s \in Sockets : s # r => (Announced(s)' <=> Announced(s))
  BY DEF MarkOffline, Announced, OnlineInv, TypeOK
<1>4. CASE owner[r] = u
  <2>1. \A s \in Sockets : owner[s] = u /\ Announced(s) => s = r
    BY <1>2, <1>4 DEF OnlineInv, SoleHandler, Announced, Open
  <2>. QED  BY <1>2, <1>3, <1>4, <2>1
<1>5. CASE owner[r] # u
  BY <1>1, <1>2, <1>3, <1>5
<1>. QED  BY <1>4, <1>5

\* Redis fails the mark of a handler, and its user is excepted from then on
\* (realtime_controller.go:65,91).
LEMMA RedisFailsKeeps ==
    ASSUME OnlineInv, NEW r \in Sockets, RedisFails(r)
    PROVE  RedisFollows'
<1>. SUFFICES ASSUME crashes = 0, NEW u \in Users \ (shared \cup missed'), u \notin shared
              PROVE  u \in online <=> \E s \in Sockets : owner[s] = u /\ Announced(s)'
  BY DEF RedisFollows, RedisFails, Announced
<1>1. u \notin missed /\ owner[r] # u
  BY DEF RedisFails
<1>2. u \in online <=> \E s \in Sockets : owner[s] = u /\ Announced(s)
  BY <1>1 DEF OnlineInv, RedisFollows
<1>3. \A s \in Sockets : s # r => (Announced(s)' <=> Announced(s))
  BY DEF RedisFails, Announced, OnlineInv, TypeOK
<1>. QED  BY <1>1, <1>2, <1>3

\* Types are kept by every step; HubInv has them.
LEMMA NextOnline == HubInv /\ HubInv' /\ OnlineInv /\ [Next]_vars => OnlineInv'
<1>. SUFFICES ASSUME HubInv, HubInv', OnlineInv, [Next]_vars PROVE OnlineInv'
  OBVIOUS
<1>0. TypeOK'
  BY DEF HubInv, HubAgrees
<1>. SUFFICES SoleHandler' /\ RedisFollows'
  BY <1>0 DEF OnlineInv
<1>. USE DEF history
<1>1. CASE UNCHANGED vars
  BY <1>1, NoNewHandler, SameAnnounced DEF vars, Open, Announced
<1>2. ASSUME NEW s \in Sockets, Upgrade(s) PROVE SoleHandler' /\ RedisFollows'
  <2>1. \A t \in Sockets : Announced(t)' <=> Announced(t)
    BY <1>2 DEF Upgrade, Announced, OnlineInv, TypeOK
  <2>2. RedisFollows'
    BY <1>2, <2>1, SameAnnounced DEF Upgrade
  <2>. QED  BY <1>2, <2>2, UpgradeKeepsSole
<1>3. ASSUME NEW s \in Sockets, Add(s) \/ ReadFails(s) \/ CleanUp(s) \/ Break(s) \/ RemoveStale(s)
      PROVE  SoleHandler' /\ RedisFollows'
  <2>1. /\ owner' = owner /\ shared' = shared /\ online' = online
        /\ crashes' = crashes /\ missed' = missed
    BY <1>3 DEF Add, ReadFails, CleanUp, Break, RemoveStale
  <2>2. \A t \in Sockets : (Announced(t)' <=> Announced(t)) /\ (Open(t)' => Open(t))
    BY <1>3 DEF Add, ReadFails, CleanUp, Break, RemoveStale, Announced, Open, OnlineInv, TypeOK
  <2>. QED  BY <2>1, <2>2, NoNewHandler, SameAnnounced
<1>4. ASSUME NEW s \in Sockets, MarkOnline(s) \/ MarkOffline(s) \/ RedisFails(s)
      PROVE  SoleHandler' /\ RedisFollows'
  <2>1. owner' = owner /\ shared' = shared
    BY <1>4 DEF MarkOnline, MarkOffline, RedisFails
  <2>2. \A t \in Sockets : Open(t)' => Open(t)
    BY <1>4 DEF MarkOnline, MarkOffline, RedisFails, Open, OnlineInv, TypeOK
  <2>. QED  BY <1>4, <2>1, <2>2, NoNewHandler, MarkOnlineKeeps, MarkOfflineKeeps, RedisFailsKeeps
<1>5. ASSUME NEW u \in Users, Broadcast(u) PROVE SoleHandler' /\ RedisFollows'
  BY <1>5, NoNewHandler, SameAnnounced DEF Broadcast, Open, Announced
<1>6. CASE Crash
  <2>1. SoleHandler'
    <3>1. \A s \in Sockets : ~Open(s)'
      BY <1>6 DEF Crash, Open
    <3>. QED  BY <3>1 DEF SoleHandler
  <2>2. crashes' # 0
    BY <1>6 DEF Crash, OnlineInv, TypeOK
  <2>. QED  BY <2>1, <2>2 DEF RedisFollows
<1>. QED  BY <1>1, <1>2, <1>3, <1>4, <1>5, <1>6 DEF Next, Serve

\* For any number of users and sockets, and any interleaving of handlers, broken peers and
\* broadcasts: once everything has settled, Redis holds exactly the users with a live
\* socket, of those who never had two sockets at a time and of whom Redis missed nothing,
\* until the process crashes (realtime_controller.go:64-99, presence/service.go:24-30).
THEOREM RedisHasTheLiveUsers == Spec => []OneTabIsExact
<1>1. OnlineInv => OneTabIsExact
  <2>. SUFFICES ASSUME OnlineInv, Settled, crashes = 0, NEW u \in Users \ (shared \cup missed)
                PROVE  u \in online <=> Live(u)
    BY DEF OneTabIsExact
  <2>1. \A s \in Sockets : Announced(s) <=> phase[s] = "live"
    BY DEF Settled, Announced
  <2>. QED  BY <2>1 DEF OnlineInv, RedisFollows, Live
<1>2. Spec => [](HubInv /\ OnlineInv)
  <2>1. Init => HubInv /\ OnlineInv
    BY InitHub, InitOnline
  <2>2. HubInv /\ OnlineInv /\ [Next]_vars => HubInv' /\ OnlineInv'
    BY NextHub, NextOnline
  <2>. QED  BY <2>1, <2>2, PTL DEF Spec
<1>. QED  BY <1>1, <1>2, PTL

-----------------------------------------------------------------------------
(***************************************************************************)
(* The other end: SocketHook, for any number of WebSocket objects, changes *)
(* and breaks.  ShownAsItIs is not inductive: onclose of one socket would  *)
(* belie the mark of another.  Until a connection is made in haste there   *)
(* is one object at a time (OneObject).                                    *)
(***************************************************************************)
HookType ==
    /\ sock \in [Slots -> InUse \cup {"none", "closing"}]
    /\ up \in BOOLEAN
    /\ hasty \in BOOLEAN

OneObject == \A i, j \in Slots : sock[i] # "none" /\ sock[j] # "none" => i = j

SocketInv == HookType /\ ShownAsItIs /\ (~hasty => OneObject)

\* Closing leaves no object live and makes none.
LEMMA ClosingKills ==
    ASSUME HookType, OneSocket
    PROVE  /\ Closing \in [Slots -> {"none", "closing"}]
           /\ \A i \in Slots : Closing[i] = "none" <=> sock[i] = "none"
BY DEF HookType, OneSocket, Closing, InUse

\* connect, whoever calls it: the new object is the only one that is live, and the
\* only one there is unless another is still closing (use-websocket.ts:22-36).
LEMMA ConnectKeeps ==
    ASSUME SocketInv, NEW t, Connect(t), t # "none", UNCHANGED up,
           stray' \in Nat, ~hasty => stray' = 0
    PROVE  SocketInv'
<1>1. PICK i \in Slots :
        /\ sock[i] = "none"
        /\ sock' = [Closing EXCEPT ![i] = IF t = "good" THEN "connecting" ELSE "doomed"]
        /\ cur' = i
        /\ timer' = FALSE
        /\ hasty' = (hasty \/ \E j \in Slots : Closing[j] = "closing")
  BY DEF Connect
<1>2. /\ Closing \in [Slots -> {"none", "closing"}]
      /\ \A j \in Slots : Closing[j] = "none" <=> sock[j] = "none"
  BY ClosingKills DEF SocketInv, ShownAsItIs
<1>3. /\ sock'[i] \in {"connecting", "doomed"}
      /\ \A j \in Slots : j # i => sock'[j] = Closing[j]
  BY <1>1, <1>2
<1>4. HookType'
  BY <1>1, <1>2 DEF SocketInv, HookType, InUse
<1>5. OneSocket'
  <2>1. \A j \in Slots : sock'[j] \in InUse => j = cur'
    BY <1>1, <1>2, <1>3 DEF InUse
  <2>2. up' => \E j \in Slots : sock'[j] \in {"open", "closing"}
    <3>. SUFFICES ASSUME up PROVE \E j \in Slots : sock'[j] = "closing"
      OBVIOUS
    <3>1. PICK j \in Slots : sock[j] \in {"open", "closing"}
      BY DEF SocketInv, ShownAsItIs, OneSocket
    <3>2. j # i /\ Closing[j] = "closing"
      BY <1>1, <1>2, <3>1
    <3>. QED  BY <1>3, <3>2
  <2>. QED  BY <1>1, <2>1, <2>2 DEF OneSocket
<1>6. ~hasty' => /\ \A j \in Slots : j # i => sock'[j] = "none"
                 /\ stray' = 0 /\ timer' = FALSE
  BY <1>1, <1>2, <1>3 DEF SocketInv, HookType
<1>. QED  BY <1>3, <1>4, <1>5, <1>6 DEF SocketInv, ShownAsItIs, OneObject

\* onclose: the one object goes, and the one timeout comes (use-websocket.ts:59-67).
LEMMA OnCloseKeeps ==
    ASSUME SocketInv, NEW i \in Slots, sock[i] # "none", OnClose(i), UNCHANGED <<cur, hasty>>
    PROVE  SocketInv'
<1>1. /\ sock'[i] = "none"
      /\ \A j \in Slots : j # i => sock'[j] = sock[j]
      /\ HookType'
  BY DEF SocketInv, HookType, OnClose
<1>2. OneSocket'
  BY <1>1 DEF SocketInv, ShownAsItIs, OneSocket, OnClose, InUse
<1>3. ASSUME ~hasty
      PROVE  stray' = 0 /\ \A j \in Slots : sock'[j] = "none"
  <2>1. sock[i] \in InUse \cup {"closing"}
    BY DEF SocketInv, HookType
  <2>2. ~timer /\ stray = 0
    BY <1>3, <2>1 DEF SocketInv, ShownAsItIs
  <2>. QED  BY <1>1, <1>3, <2>2 DEF SocketInv, OneObject, OnClose
<1>. QED  BY <1>1, <1>2, <1>3 DEF SocketInv, ShownAsItIs, OneObject, InUse

LEMMA InitSocket == HookInit => SocketInv
<1>. SUFFICES ASSUME HookInit PROVE SocketInv
  OBVIOUS
<1>1. \A i \in Slots : sock[i] = "none"
  BY DEF HookInit
<1>2. HookType
  BY DEF HookInit, HookType
<1>. QED  BY <1>1, <1>2 DEF HookInit, SocketInv, ShownAsItIs, OneSocket, OneObject, InUse

LEMMA NextSocket == SocketInv /\ [HookNext]_hookVars => SocketInv'
<1>. SUFFICES ASSUME SocketInv, [HookNext]_hookVars PROVE SocketInv'
  OBVIOUS
<1>1. CASE SignIn
  BY <1>1, ConnectKeeps DEF SignIn, SocketInv, ShownAsItIs, OneSocket
<1>2. CASE SignOut
  <2>1. /\ sock' \in [Slots -> {"none", "closing"}]
        /\ \A j \in Slots : sock'[j] = "none" <=> sock[j] = "none"
    BY <1>2, ClosingKills DEF SignOut, SocketInv, ShownAsItIs
  <2>. QED  BY <1>2, <2>1 DEF SignOut, SocketInv, HookType, ShownAsItIs, OneSocket, OneObject, InUse
<1>3. CASE \E t \in {"none", "good", "expired"} : TokenChanges(t)
  BY <1>3 DEF TokenChanges, SocketInv, HookType, ShownAsItIs, OneSocket, OneObject, sockets, timers
<1>4. ASSUME NEW i \in Slots, Opened(i)
      PROVE  SocketInv'
  <2>1. /\ sock[i] = "connecting" /\ sock'[i] = "open"
        /\ \A j \in Slots : j # i => sock'[j] = sock[j]
        /\ HookType'
    BY <1>4 DEF Opened, SocketInv, HookType, InUse
  <2>. QED
    BY <1>4, <2>1 DEF Opened, SocketInv, ShownAsItIs, OneSocket, OneObject, timers, InUse
<1>5. ASSUME NEW i \in Slots, Closed(i) \/ Breaks(i)
      PROVE  SocketInv'
  BY <1>5, OnCloseKeeps DEF Closed, Breaks
<1>6. CASE TimerFires
  <2>1. CASE token = "none"
    BY <1>6, <2>1
    DEF TimerFires, SocketInv, HookType, ShownAsItIs, OneSocket, OneObject, sockets
  <2>2. CASE token # "none"
    BY <1>6, <2>2, ConnectKeeps DEF TimerFires, SocketInv, ShownAsItIs, OneSocket
  <2>. QED  BY <2>1, <2>2
<1>7. CASE StrayTimerFires
  <2>1. hasty /\ stray' \in Nat
    BY <1>7 DEF StrayTimerFires, SocketInv, HookType, ShownAsItIs, OneSocket
  <2>2. CASE token = "none"
    BY <1>7, <2>1, <2>2
    DEF StrayTimerFires, Connect, SocketInv, HookType, ShownAsItIs, OneSocket, sockets
  <2>3. CASE token # "none"
    BY <1>7, <2>1, <2>3, ConnectKeeps DEF StrayTimerFires
  <2>. QED  BY <2>2, <2>3
<1>8. CASE UNCHANGED hookVars
  BY <1>8 DEF hookVars, sockets, timers, SocketInv, HookType, ShownAsItIs, OneSocket, OneObject
<1>. QED  BY <1>1, <1>2, <1>3, <1>4, <1>5, <1>6, <1>7, <1>8 DEF HookNext

\* However sign-ins, token changes, breaks and timeouts interleave, a page keeps one
\* socket and its mark tells of it; until a connection is made while another socket is
\* still closing, also that it is open, and that only one timeout waits, for no socket
\* (use-websocket.ts:22-91).
THEOREM SocketShownAsItIs == HookSpec => []ShownAsItIs
<1>1. SocketInv => ShownAsItIs
  BY DEF SocketInv
<1>. QED  BY InitSocket, NextSocket, <1>1, PTL DEF HookSpec
=============================================================================
