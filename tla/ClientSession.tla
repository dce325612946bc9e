---------------------------- MODULE ClientSession ----------------------------
(***************************************************************************)
(* The signed-in session of one browser page: the token store and the      *)
(* single-flight refresh of lib/api.ts, the user kept by                   *)
(* lib/auth-context.tsx, the login page and the settings panel that call    *)
(* them, and the accounts and session keys of the auth service             *)
(* (auth/service.go).                                                      *)
(*                                                                         *)
(* A login or a refresh issues a pair of an access and a refresh token;    *)
(* pairs are numbered in the order they are issued, and 0 is no pair.  A   *)
(* session is named by the first pair issued in it.  Access tokens are     *)
(* never looked up, they expire; a refresh token is the Redis key of its   *)
(* session and is deleted when it is used.                                 *)
(***************************************************************************)
EXTENDS Naturals, Sequences, FiniteSets

CONSTANTS
    Users,      \* who may sign in on this page
    Calls,      \* API requests that may be in flight at a time
    Env,        \* what the environment does: "fail" (a request is not answered),
                \* "reload", "revoke" (another device signs the others out)
    MaxPairs,   \* bound: pairs issued
    MaxEvents,  \* bound: steps of the environment and saves of the profile together
    None        \* no user

ASSUME EnvIsKnown == Env \subseteq {"fail", "reload", "revoke"}
ASSUME BoundsAreNat == MaxPairs \in Nat /\ MaxEvents \in Nat
ASSUME NoneIsNoUser == None \notin Users

VARIABLES
    accounts, \* the users with a row in the users table
    pair,     \* the pairs issued, each as its user and its session
    keyed,    \* the refresh tokens that are keys in Redis
    record,   \* of each session, the refresh token its session key names; 0: no key
    expired,  \* the access tokens up to this pair's have expired
    revoker,  \* LogoutOthers of another device, at one session of this page's user
    token,    \* the pair in accessToken, refreshToken and sessionStorage
    user,     \* AuthProvider's user
    loading,  \* AuthProvider's isLoading
    listed,   \* the settings panel lists a session besides this page's
    call,     \* the requests in flight; shown: the panel that made it is still there
    refresh,  \* refreshPromise and the request behind it
    auth,     \* the register, login or logout request in flight
    events,   \* steps of the environment and saves of the profile
    sent,     \* refresh tokens this page has sent for a refresh (history)
    apart,    \* why the user and the tokens of this page may differ (history)
    ended     \* sessions ended while no refresh of theirs was under way (history)

service == <<accounts, pair, keyed, record>>
page    == <<token, user, loading, listed>>
pending == <<call, refresh, auth>>
history == <<sent, apart, ended>>
vars == <<service, expired, revoker, page, pending, events, history>>

Pairs == 1..MaxPairs

Quiet == [pc |-> "none", kind |-> "boot", token |-> 0, shown |-> FALSE]
NoRefresh == [pc |-> "none", with |-> 0, got |-> 0]
NoAuth == [pc |-> "none", user |-> None, with |-> 0]
NoRevoker == [pc |-> "none", session |-> 0, key |-> 0, clean |-> TRUE]

Outstanding == refresh.pc # "none" \/ \E c \in Calls : call[c].pc # "none"

Bounded == events < MaxEvents /\ events' = events + 1

Fault(e) == e \in Env /\ Bounded

Session(n) == pair[n].session

\* A refresh of session s has read its key and not issued its pair yet.
Refreshing(s) == refresh.pc \in {"delete", "issue"} /\ Session(refresh.with) = s

-----------------------------------------------------------------------------
(***************************************************************************)
(* The auth service.                                                       *)
(***************************************************************************)
\* issueSessionWithID: a pair for user u in session s, a new session if s is 0.
Issue(u, s) ==
    LET n == Len(pair) + 1
        id == IF s = 0 THEN n ELSE s IN
    /\ n <= MaxPairs
    /\ pair' = Append(pair, [user |-> u, session |-> id])
    /\ record' = [record EXCEPT ![id] = n]
    /\ keyed' = keyed \cup {n}

\* Only a pair that is still held can be presented again.
Held(n) == n \in {token, auth.with} \cup {call[c].token : c \in Calls}

\* Every access token lives as long (AccessTokenTTL): an older one has expired too.
AccessTokenExpires(n) ==
    /\ n > expired
    /\ Held(n)
    /\ expired' = n
    /\ UNCHANGED <<service, revoker, page, pending, events, history>>

\* LogoutOthers of another device reads the session key ...
RevokeReads(s) ==
    /\ revoker.pc = "none"
    /\ record[s] # 0
    /\ Fault("revoke")
    /\ revoker' = [pc |-> "delete", session |-> s, key |-> record[s], clean |-> ~Refreshing(s)]
    /\ UNCHANGED <<service, expired, page, pending, history>>

\* Mutant of DeleteSession: the refresh key stays until it times out.
DeleteRecordOnly(s, n) ==
    /\ keyed' = keyed
    /\ record' = [record EXCEPT ![s] = 0]

\* deleteSession
DeleteSession(s, n) ==
    /\ keyed' = keyed \ {n}
    /\ record' = [record EXCEPT ![s] = 0]

\* ... and deletes what it read.
RevokeDeletes ==
    /\ revoker.pc = "delete"
    /\ DeleteSession(revoker.session, revoker.key)
    /\ ended' = IF revoker.clean /\ ~Refreshing(revoker.session)
                  THEN ended \cup {revoker.session} ELSE ended
    /\ revoker' = NoRevoker
    /\ UNCHANGED <<accounts, pair, expired, page, pending, events, sent, apart>>

\* Refresh: read the key ...
RefreshReads ==
    /\ refresh.pc = "read"
    /\ refresh' = [refresh EXCEPT !.pc = IF refresh.with \in keyed THEN "delete" ELSE "refused"]
    /\ revoker' = IF Session(refresh.with) = revoker.session
                    THEN [revoker EXCEPT !.clean = FALSE] ELSE revoker
    /\ UNCHANGED <<service, expired, page, call, auth, events, history>>

\* ... delete it ...
RefreshDeletes ==
    /\ refresh.pc = "delete"
    /\ keyed' = keyed \ {refresh.with}
    /\ refresh' = [refresh EXCEPT !.pc = "issue"]
    /\ UNCHANGED <<accounts, pair, record, expired, revoker, page, call, auth, events,
                   history>>

\* ... and issue the next pair of the session.
RefreshIssues ==
    /\ refresh.pc = "issue"
    /\ Issue(pair[refresh.with].user, Session(refresh.with))
    /\ refresh' = [refresh EXCEPT !.pc = "answer", !.got = Len(pair) + 1]
    /\ UNCHANGED <<accounts, expired, revoker, page, call, auth, events, history>>

\* The request, its answer or a Redis command is lost: keys already deleted stay
\* deleted, a pair already issued is never known to the page.
RefreshBreaks ==
    /\ refresh.pc \in {"read", "delete", "issue", "answer"}
    /\ Fault("fail")
    /\ refresh' = [refresh EXCEPT !.pc = "refused"]
    /\ UNCHANGED <<service, expired, revoker, page, call, auth, history>>

-----------------------------------------------------------------------------
(***************************************************************************)
(* request of lib/api.ts.  "boot" is getCurrentUser of AuthProvider's      *)
(* bootstrap; the others are the settings panel's: "save" is updateProfile *)
(* and goes on as "me", refreshUser; "list" is getSessions and stands for  *)
(* every request of the page that refreshes an expired token and is sent   *)
(* once more; "others" is logoutOthers, which does neither and goes on as  *)
(* "list".                                                                 *)
(***************************************************************************)
Settle(c) == call' = [call EXCEPT ![c] = Quiet]

Ask(kind) == [pc |-> "sent", kind |-> kind, token |-> token, shown |-> TRUE]

\* The panel has a request of these kinds in flight: isSaving, isRevokingOthers.
Busy(kinds) == \E c \in Calls : call[c].pc # "none" /\ call[c].shown /\ call[c].kind \in kinds

Request(c, kind) ==
    /\ user # None
    /\ call[c].pc = "none"
    /\ call' = [call EXCEPT ![c] = Ask(kind)]
    /\ UNCHANGED <<service, expired, revoker, page, refresh, auth, history>>

\* handleSaveProfile, behind a button that is disabled while a save is in flight.
SaveProfile(c) ==
    /\ Bounded
    /\ ~Busy({"save", "me"})
    /\ Request(c, "save")

\* openSessions
OpenSessions(c) == Request(c, "list") /\ UNCHANGED events

\* handleLogoutOthers, disabled while one is in flight and while no other session
\* is listed.
LogoutOthers(c) == listed /\ ~Busy({"others"}) /\ Request(c, "others") /\ UNCHANGED events

Valid(n) == n > expired

\* The other sessions of the user of pair n: LogoutOthers ends them, ListSessions
\* lists them.
Others(n) == {s \in Pairs : /\ record[s] # 0
                            /\ pair[s].user = pair[n].user
                            /\ s # Session(n)}

\* The access token is good: a profile becomes the user, logoutOthers ends the
\* other sessions of the token's user.
Answered(c) ==
    LET r == call[c]
        others == Others(r.token) IN
    /\ r.pc \in {"sent", "again"}
    /\ Valid(r.token)
    /\ call' = [call EXCEPT ![c] =
          CASE r.kind = "save"   -> [Ask("me") EXCEPT !.shown = r.shown]
            [] r.kind = "others" -> [Ask("list") EXCEPT !.shown = r.shown]
            [] OTHER             -> Quiet]
    /\ loading' = IF r.kind = "boot" THEN FALSE ELSE loading
    /\ user' = IF r.kind \in {"boot", "me"} THEN pair[r.token].user ELSE user
    /\ listed' = IF r.kind = "list" /\ r.shown THEN others # {} ELSE listed
    /\ IF r.kind = "others"
         THEN /\ keyed' = keyed \ {record[s] : s \in others}
              /\ record' = [s \in Pairs |-> IF s \in others THEN 0 ELSE record[s]]
              /\ ended' = ended \cup {s \in others : ~Refreshing(s)}
         ELSE UNCHANGED <<keyed, record, ended>>
    /\ UNCHANGED <<accounts, pair, expired, revoker, token, refresh, auth, events, sent, apart>>

Refreshable(r) == r.pc = "sent" /\ r.kind # "others" /\ token # 0

\* Mutant of Await: every refused request sends a refresh of its own.
AwaitAlone(c) ==
    /\ call' = [call EXCEPT ![c].pc = "await"]
    /\ refresh' = [pc |-> "read", with |-> token, got |-> 0]
    /\ sent' = sent \cup {token}

\* refreshAccessToken: one refresh at a time, awaited by every refused request.
Await(c) ==
    /\ call' = [call EXCEPT ![c].pc = "await"]
    /\ IF refresh.pc = "none"
         THEN /\ refresh' = [pc |-> "read", with |-> token, got |-> 0]
              /\ sent' = sent \cup {token}
         ELSE UNCHANGED <<refresh, sent>>

\* 401: a refresh, or the end of the request; bootstrap then clears the tokens.
Unauthorized(c) ==
    LET r == call[c] IN
    /\ r.pc \in {"sent", "again"}
    /\ ~Valid(r.token)
    /\ IF Refreshable(r)
         THEN Await(c) /\ UNCHANGED <<token, loading>>
         ELSE /\ Settle(c)
              /\ token' = IF r.kind = "boot" THEN 0 ELSE token
              /\ loading' = IF r.kind = "boot" THEN FALSE ELSE loading
              /\ UNCHANGED <<refresh, sent>>
    /\ UNCHANGED <<service, expired, revoker, user, listed, auth, events, apart, ended>>

\* fetch throws: the tokens stay, also when it is bootstrap that fails.
RequestFails(c) ==
    LET r == call[c] IN
    /\ r.pc \in {"sent", "again"}
    /\ Fault("fail")
    /\ Settle(c)
    /\ loading' = IF r.kind = "boot" THEN FALSE ELSE loading
    /\ apart' = IF r.kind = "boot" THEN apart \cup {"unreached"} ELSE apart
    /\ UNCHANGED <<service, expired, revoker, token, user, listed, refresh, auth, sent, ended>>

\* The promise resolves: every awaiter saves the tokens and is sent once more.
RefreshAnswered ==
    /\ refresh.pc = "answer"
    /\ token' = refresh.got
    /\ call' = [c \in Calls |-> IF call[c].pc = "await"
                                  THEN [call[c] EXCEPT !.pc = "again", !.token = refresh.got]
                                  ELSE call[c]]
    /\ refresh' = NoRefresh
    /\ UNCHANGED <<service, expired, revoker, user, loading, listed, auth, events, history>>

\* It rejects, for whatever reason: every awaiter clears the tokens and fails;
\* the user is left as it is.
RefreshRefused ==
    LET waiting == {c \in Calls : call[c].pc = "await"} IN
    /\ refresh.pc = "refused"
    /\ token' = 0
    /\ apart' = apart \cup {"refused"}
    /\ call' = [c \in Calls |-> IF c \in waiting THEN Quiet ELSE call[c]]
    /\ loading' = IF \E c \in waiting : call[c].kind = "boot" THEN FALSE ELSE loading
    /\ refresh' = NoRefresh
    /\ UNCHANGED <<service, expired, revoker, user, listed, auth, events, sent, ended>>

-----------------------------------------------------------------------------
(***************************************************************************)
(* register, login and logout of AuthProvider, and a reload of the page.   *)
(***************************************************************************)
\* The user and the tokens agree again, unless something is still in flight.
Renewed == IF Outstanding THEN {"crossed"} ELSE {}

\* The login page is shown when nobody is signed in.
SignedOut == ~loading /\ user = None

\* Both forms are disabled while a request of either is in flight.
Submit(form, u) ==
    /\ SignedOut
    /\ auth.pc = "none"
    /\ auth' = [pc |-> form, user |-> u, with |-> 0]
    /\ UNCHANGED <<service, expired, revoker, page, call, refresh, events, history>>

Login(u) == Submit("login", u)

Register(u) == Submit("register", u)

\* The account is made; the page logs in to it.
Registered ==
    /\ auth.pc = "register"
    /\ auth.user \notin accounts
    /\ accounts' = accounts \cup {auth.user}
    /\ auth' = [auth EXCEPT !.pc = "login"]
    /\ UNCHANGED <<pair, keyed, record, expired, revoker, page, call, refresh, events, history>>

LoggedIn ==
    /\ auth.pc = "login"
    /\ auth.user \in accounts
    /\ Issue(auth.user, 0)
    /\ token' = Len(pair) + 1
    /\ user' = auth.user
    /\ apart' = Renewed
    /\ auth' = NoAuth
    /\ UNCHANGED <<accounts, expired, revoker, loading, listed, call, refresh, events, sent, ended>>

\* USERNAME_ALREADY_EXISTS, INVALID_CREDENTIALS
Refused ==
    /\ \/ auth.pc = "register" /\ auth.user \in accounts
       \/ auth.pc = "login" /\ auth.user \notin accounts
    /\ auth' = NoAuth
    /\ UNCHANGED <<service, expired, revoker, page, call, refresh, events, history>>

\* The request or its answer is lost: the account or the session may have been made,
\* and the page shows the form again.
LoginFails ==
    /\ auth.pc \in {"register", "login"}
    /\ Fault("fail")
    /\ \/ UNCHANGED service
       \/ /\ auth.pc = "register"
          /\ accounts' = accounts \cup {auth.user}
          /\ UNCHANGED <<pair, keyed, record>>
       \/ /\ auth.pc = "login" /\ auth.user \in accounts
          /\ Issue(auth.user, 0)
          /\ UNCHANGED accounts
    /\ auth' = NoAuth
    /\ UNCHANGED <<expired, revoker, page, call, refresh, history>>

Logout ==
    /\ user # None
    /\ auth.pc = "none"
    /\ auth' = [pc |-> "logout", user |-> None, with |-> token]
    /\ UNCHANGED <<service, expired, revoker, page, call, refresh, events, history>>

\* Nobody is signed in: the chat page, its settings panel with it, goes away.
Leave ==
    /\ user' = None
    /\ listed' = FALSE
    /\ call' = [c \in Calls |-> [call[c] EXCEPT !.shown = FALSE]]

\* Mutant of LoggedOut: the tokens stay in the page.
LoggedOutKeepsTokens ==
    /\ auth.pc = "logout"
    /\ Leave
    /\ apart' = Renewed
    /\ auth' = NoAuth
    /\ UNCHANGED <<service, expired, revoker, token, loading, refresh, events, sent, ended>>

\* The service ends the session when the access token is good and the refresh
\* token is still a key; whatever comes back, the page forgets user and tokens.
LoggedOut ==
    LET n == auth.with IN
    /\ auth.pc = "logout"
    /\ \/ /\ Valid(n) /\ n \in keyed
          /\ DeleteSession(Session(n), n)
          /\ ended' = IF Refreshing(Session(n)) THEN ended ELSE ended \cup {Session(n)}
          /\ UNCHANGED events
       \/ /\ ~(Valid(n) /\ n \in keyed)
          /\ UNCHANGED <<keyed, record, ended, events>>
       \/ /\ n # 0
          /\ Fault("fail")
          /\ UNCHANGED <<keyed, record, ended>>
    /\ token' = 0
    /\ Leave
    /\ apart' = Renewed
    /\ auth' = NoAuth
    /\ UNCHANGED <<accounts, pair, expired, revoker, loading, refresh, sent>>

\* initTokens and bootstrap: sessionStorage survives, nothing else does.  A refresh
\* the service has begun ends where it is.
Boot(c) ==
    /\ loading' = TRUE
    /\ call' = [d \in Calls |-> IF d = c THEN [Ask("boot") EXCEPT !.shown = FALSE]
                                         ELSE Quiet]
    /\ refresh' = NoRefresh
    /\ auth' = NoAuth
    /\ user' = None
    /\ listed' = FALSE
    /\ sent' = {}
    /\ apart' = {}

Reload(c) ==
    /\ Fault("reload")
    /\ Boot(c)
    /\ UNCHANGED <<service, expired, revoker, token, ended>>

Init ==
    /\ accounts \in {Users \ {u} : u \in Users}
    /\ pair = <<>>
    /\ keyed = {}
    /\ record = [s \in Pairs |-> 0]
    /\ expired = 0
    /\ revoker = NoRevoker
    /\ token = 0
    /\ user = None
    /\ loading = FALSE
    /\ listed = FALSE
    /\ call = [c \in Calls |-> Quiet]
    /\ refresh = NoRefresh
    /\ auth = NoAuth
    /\ events = 0
    /\ sent = {}
    /\ apart = {}
    /\ ended = {}

Exchange(c) == Answered(c) \/ Unauthorized(c)

Refresh == RefreshReads \/ RefreshDeletes \/ RefreshIssues \/ RefreshAnswered \/ RefreshRefused

Next ==
    \/ \E c \in Calls : Exchange(c) \/ RequestFails(c) \/ Reload(c)
    \/ \E c \in Calls : SaveProfile(c) \/ OpenSessions(c) \/ LogoutOthers(c)
    \/ Refresh \/ RefreshBreaks
    \/ \E u \in Users : Login(u) \/ Register(u)
    \/ Registered \/ LoggedIn \/ Refused \/ LoginFails \/ Logout \/ LoggedOut
    \/ \E n \in DOMAIN pair : AccessTokenExpires(n)
    \/ \E s \in Pairs : RevokeReads(s)
    \/ RevokeDeletes

Spec == Init /\ [][Next]_vars

-----------------------------------------------------------------------------
WellFormed ==
    /\ pair \in Seq([user : Users, session : Pairs])
    /\ keyed \subseteq Pairs /\ expired \in 0..MaxPairs /\ sent \subseteq Pairs
    /\ record \in [Pairs -> 0..MaxPairs]
    /\ token \in 0..Len(pair)
    /\ user \in Users \cup {None}
    /\ call \in [Calls -> [pc : {"none", "sent", "await", "again"},
                           kind : {"boot", "save", "me", "list", "others"},
                           token : 0..MaxPairs, shown : BOOLEAN]]
    /\ \A n \in DOMAIN pair : pair[n].user \in accounts
    /\ refresh.pc = "none" => \A c \in Calls : call[c].pc # "await"

\* The page shows a user exactly while it holds tokens of that user
\* (auth-context.tsx:38-89, api.ts:73-99); the exceptions are the three the code
\* has: an answer that was in flight across a login or logout ("crossed"), a
\* refused refresh that clears the tokens and leaves the user ("refused"), and a
\* bootstrap that could not reach the service ("unreached").
SessionAgrees ==
    /\ WellFormed
    /\ user # None /\ token # 0 /\ "crossed" \notin apart => pair[token].user = user
    /\ user # None /\ token = 0 => apart \cap {"crossed", "refused"} # {}
    /\ user = None /\ token # 0 /\ ~loading =>
          apart \cap {"crossed", "unreached"} # {}

\* A refresh token is sent for a refresh at most once by a page, however many
\* requests are refused together (refreshPromise, api.ts:127-150): the second use
\* would be refused and end the session.
RefreshedOnce ==
    [][refresh'.pc = "read" /\ refresh' # refresh => refresh'.with \notin sent]_vars

\* A session that was ended, by its logout or by another device, while no refresh
\* of it was under way is never refreshed again (service.go:94-162, :333-338).
EndedStaysEnded == \A n \in keyed : Session(n) \notin ended
=============================================================================
