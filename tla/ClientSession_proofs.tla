------------------------ MODULE ClientSession_proofs ------------------------
(***************************************************************************)
(* Proofs about ClientSession, for any users, requests, environment and    *)
(* number of pairs.                                                        *)
(*                                                                         *)
(* EndedStaysEnded is not inductive: a key of an ended session could come  *)
(* back from a refresh that has read its key already, or be missed by a    *)
(* sign-out that read the session key before.  KeyInv says that a session  *)
(* has one key at most and where a refresh has got to with it; EndInv,     *)
(* what a refresh or a sign-out between two of its Redis commands knows.   *)
(* SessionAgrees rests on FlowInv and UserInv: everything in flight is of  *)
(* the page's user unless a login or logout was crossed by an answer.      *)
(***************************************************************************)
EXTENDS ClientSession, TLAPS

\* The pairs issued, and 0 for none.
Known == 0..Len(pair)

\* The record of a request.
CallState == [pc : {"none", "sent", "await", "again"},
              kind : {"boot", "save", "me", "list", "others"},
              token : Known, shown : BOOLEAN]

\* The types of the auth service's state: keys and records name issued pairs, a
\* session's record one of its own.
ServiceType ==
    /\ accounts \subseteq Users
    /\ pair \in Seq([user : Users, session : Pairs]) /\ Len(pair) <= MaxPairs
    /\ \A n \in DOMAIN pair : pair[n].user \in accounts /\ Session(n) \in 1..n
    /\ keyed \subseteq DOMAIN pair
    /\ record \in [Pairs -> Known]
    /\ \A s \in Pairs : record[s] # 0 => Session(record[s]) = s
    /\ expired \in Known
    /\ revoker \in [pc : {"none", "delete"}, session : Known, key : Known, clean : BOOLEAN]
    /\ revoker.pc = "none" <=> revoker.session = 0

\* The types of the page's state: it holds and sends issued pairs only.
PageType ==
    /\ token \in Known
    /\ user \in Users \cup {None}
    /\ loading \in BOOLEAN
    /\ call \in [Calls -> CallState]
    /\ refresh \in [pc : {"none", "read", "delete", "issue", "answer", "refused"},
                    with : Known, got : Known]
    /\ refresh.pc # "none" => refresh.with # 0
    /\ refresh.pc = "answer" => refresh.got # 0
    /\ auth \in [pc : {"none", "register", "login", "logout"}, user : Users \cup {None}, with : Known]
    /\ auth.pc \in {"register", "login"} => auth.user \in Users
    /\ sent \subseteq DOMAIN pair
    /\ ended \subseteq DOMAIN pair

TypeInv == ServiceType /\ PageType

\* A session has one refresh key at most, the one its session key names if there is
\* one; a refresh that read the key deletes that one, and issues when none is left.
KeyInv ==
    /\ \A n \in keyed : record[Session(n)] \in {0, n}
    /\ \A m, n \in keyed : Session(m) = Session(n) => m = n
    /\ refresh.pc = "delete" => \A n \in keyed : Session(n) = Session(refresh.with) => n = refresh.with
    /\ refresh.pc = "issue" => \A n \in keyed : Session(n) # Session(refresh.with)

\* No ended session has a key or a refresh under way, and a sign-out that no refresh
\* has met will delete the only key its session has.
EndInv ==
    /\ \A n \in keyed : Session(n) \notin ended
    /\ refresh.pc \in {"delete", "issue"} => Session(refresh.with) \notin ended
    /\ revoker.clean /\ revoker.pc = "delete" =>
         /\ ~Refreshing(revoker.session)
         /\ \A n \in keyed : Session(n) = revoker.session => n = revoker.key

\* With no refresh under way the page's token was not sent; nor was the one it is
\* about to get.
SentInv ==
    /\ refresh.pc = "none" => token \notin sent
    /\ refresh.pc = "answer" => refresh.got \notin sent

\* The request is in flight.
Active(c) == call[c].pc # "none"

\* A refresh is under way exactly while a request awaits it, and the bootstrap is
\* under way, alone, exactly while the page loads.
FlowInv ==
    /\ \A c \in Calls : call[c].pc = "none" => call[c].token = 0
    /\ refresh.pc = "none" => refresh.with = 0
    /\ refresh.pc # "answer" => refresh.got = 0 \/ refresh.pc = "refused"
    /\ refresh.pc # "none" <=> \E c \in Calls : call[c].pc = "await"
    /\ loading = FALSE => \A c \in Calls : call[c].kind = "boot" => ~Active(c)
    /\ loading = TRUE =>
         /\ user = None /\ auth.pc = "none"
         /\ \E c \in Calls : /\ Active(c) /\ call[c].kind = "boot" /\ call[c].token = token
                             /\ \A d \in Calls \ {c} : ~Active(d)

\* The pairs the page holds, and holds to be of one user.
Holds == {token, refresh.with, refresh.got} \cup {call[c].token : c \in Calls}

\* They are all of user u.
OneUser(u) == \A n \in Holds : n # 0 => pair[n].user = u

\* Unless a login or logout was crossed by an answer.
UserInv ==
    /\ "crossed" \notin apart =>
         /\ \E u \in Users \cup {None} : OneUser(u) /\ user \in {None, u}
         /\ user = None /\ loading = FALSE => \A c \in Calls : ~Active(c)
         /\ user # None /\ token = 0 => "refused" \in apart
         /\ user = None /\ token # 0 /\ loading = FALSE => "unreached" \in apart

\* The inductive invariant.
SInv == TypeInv /\ KeyInv /\ EndInv /\ SentInv /\ FlowInv /\ UserInv

-----------------------------------------------------------------------------
\* What is known stays known, and issuing makes one more pair.
LEMMA IssueFacts ==
  ASSUME ServiceType, NEW u, NEW s \in Known, u \in Users, Issue(u, s)
  PROVE  /\ Len(pair) \in Nat /\ Len(pair) + 1 \in Pairs
         /\ DOMAIN pair = 1..Len(pair) /\ DOMAIN pair' = 1..(Len(pair) + 1)
         /\ Len(pair') = Len(pair) + 1 /\ Known' = 0..(Len(pair) + 1)
         /\ pair' \in Seq([user : Users, session : Pairs])
         /\ \A n \in DOMAIN pair : pair'[n] = pair[n]
         /\ pair'[Len(pair) + 1] = [user |-> u, session |-> IF s = 0 THEN Len(pair) + 1 ELSE s]
  <1>1. /\ pair \in Seq([user : Users, session : Pairs]) /\ Len(pair) \in Nat
        /\ Len(pair) + 1 \in Pairs
    BY BoundsAreNat DEF ServiceType, Issue, Pairs
  <1> DEFINE e == [user |-> u, session |-> IF s = 0 THEN Len(pair) + 1 ELSE s]
  <1>2. pair' = Append(pair, e)
    BY DEF Issue
  <1>3. e \in [user : Users, session : Pairs]
    BY <1>1, BoundsAreNat DEF Known, Pairs
  <1> HIDE DEF e
  <1>4. /\ DOMAIN pair = 1..Len(pair) /\ DOMAIN pair' = 1..(Len(pair) + 1)
        /\ Len(pair') = Len(pair) + 1 /\ pair' \in Seq([user : Users, session : Pairs])
        /\ \A n \in DOMAIN pair : pair'[n] = pair[n]
        /\ pair'[Len(pair) + 1] = e
    BY <1>1, <1>2, <1>3
  <1>5. Known' = 0..(Len(pair) + 1)
    BY <1>4 DEF Known
  <1> QED
    BY <1>1, <1>4, <1>5 DEF e

\* What a pair is known by.
LEMMA PairFacts ==
  ASSUME ServiceType
  PROVE  /\ Len(pair) \in Nat /\ DOMAIN pair = 1..Len(pair) /\ DOMAIN pair \subseteq Pairs
         /\ \A n \in DOMAIN pair : Session(n) \in 1..n /\ Session(n) \in Pairs /\ pair[n].user \in Users
         /\ \A s \in Pairs : record[s] # 0 => record[s] \in DOMAIN pair /\ s \in DOMAIN pair
  <1>1. Len(pair) \in Nat /\ DOMAIN pair = 1..Len(pair) /\ DOMAIN pair \subseteq Pairs
    BY BoundsAreNat DEF ServiceType, Pairs
  <1>2. \A n \in DOMAIN pair : Session(n) \in 1..n /\ Session(n) \in Pairs /\ pair[n].user \in Users
    BY <1>1, BoundsAreNat DEF ServiceType, Pairs
  <1>3. ASSUME NEW s \in Pairs, record[s] # 0 PROVE record[s] \in DOMAIN pair /\ s \in DOMAIN pair
    <2>1. record[s] \in DOMAIN pair /\ Session(record[s]) = s
      BY <1>1, <1>3 DEF ServiceType, Known
    <2> QED
      BY <1>1, <1>2, <2>1
  <1> QED
    BY <1>1, <1>2, <1>3

\* A new pair of a session there is, or of a new one.
LEMMA IssueType ==
  ASSUME ServiceType, NEW u \in accounts', NEW s \in Known, Issue(u, s),
         accounts \subseteq accounts', accounts' \subseteq Users, UNCHANGED <<expired, revoker>>
  PROVE  ServiceType'
  <1> DEFINE n == Len(pair) + 1
             id == IF s = 0 THEN n ELSE s
  <1>1. /\ Len(pair) \in Nat /\ n \in Pairs
        /\ DOMAIN pair = 1..Len(pair) /\ DOMAIN pair' = 1..n
        /\ Len(pair') = n /\ Known' = 0..n
        /\ pair' \in Seq([user : Users, session : Pairs])
        /\ \A k \in DOMAIN pair : pair'[k] = pair[k]
        /\ pair'[n] = [user |-> u, session |-> id]
    BY IssueFacts
  <1>2. record' = [record EXCEPT ![id] = n] /\ keyed' = keyed \cup {n} /\ n <= MaxPairs
    BY DEF Issue
  <1>3. id \in 1..n /\ id \in Pairs
    BY <1>1, BoundsAreNat DEF Known, Pairs
  <1> HIDE DEF n, id
  <1>4. DOMAIN pair \subseteq DOMAIN pair' /\ Known \subseteq Known' /\ n \in DOMAIN pair'
    BY <1>1 DEF Known, n
  <1>5. \A k \in DOMAIN pair' : k \in DOMAIN pair \/ k = n
    BY <1>1 DEF n
  <1>6. \A k \in DOMAIN pair' : pair'[k].user \in accounts' /\ pair'[k].session \in 1..k
    BY <1>1, <1>3, <1>5 DEF ServiceType, Session
  <1>7. keyed' \subseteq DOMAIN pair'
    BY <1>2, <1>4 DEF ServiceType
  <1>8. record' \in [Pairs -> Known']
    BY <1>1, <1>2, <1>4 DEF ServiceType
  <1>9. \A k \in Pairs : record'[k] # 0 => pair'[record'[k]].session = k
    <2> SUFFICES ASSUME NEW k \in Pairs, record'[k] # 0 PROVE pair'[record'[k]].session = k
      OBVIOUS
    <2>1. CASE k = id
      BY <1>1, <1>2, <2>1 DEF ServiceType
    <2>2. CASE k # id
      <3>1. record'[k] = record[k]
        BY <1>2, <2>2 DEF ServiceType
      <3> QED
        BY <1>1, <3>1, PairFacts DEF ServiceType, Session
    <2> QED
      BY <2>1, <2>2
  <1>10. expired' \in Known' /\ revoker' \in [pc : {"none", "delete"}, session : Known', key : Known', clean : BOOLEAN]
    BY <1>4 DEF ServiceType
  <1> QED
    BY <1>1, <1>2, <1>6, <1>7, <1>8, <1>9, <1>10 DEF ServiceType, Session

\* The steps that leave the service as it is.
PageStep ==
    \/ \E c \in Calls : Unauthorized(c) \/ RequestFails(c) \/ Reload(c)
    \/ \E c \in Calls : SaveProfile(c) \/ OpenSessions(c) \/ LogoutOthers(c)
    \/ RefreshAnswered \/ RefreshRefused \/ RefreshBreaks
    \/ \E u \in Users : Login(u) \/ Register(u)
    \/ Refused \/ Logout \/ UNCHANGED vars

\* They do.
LEMMA PageStepServes == PageStep => UNCHANGED <<service, expired, revoker, ended>>
  <1> USE DEF service, history, pending, vars
  <1>1. ASSUME NEW c \in Calls,
               Unauthorized(c) \/ RequestFails(c) \/ Reload(c) \/ SaveProfile(c) \/ OpenSessions(c) \/ LogoutOthers(c)
        PROVE  UNCHANGED <<service, expired, revoker, ended>>
    BY <1>1 DEF Unauthorized, RequestFails, Reload, Boot, SaveProfile, OpenSessions, LogoutOthers, Request
  <1>2. ASSUME RefreshAnswered \/ RefreshRefused \/ RefreshBreaks \/ Refused \/ Logout \/ UNCHANGED vars
        PROVE  UNCHANGED <<service, expired, revoker, ended>>
    BY <1>2 DEF RefreshAnswered, RefreshRefused, RefreshBreaks, Refused, Logout
  <1>3. ASSUME NEW u \in Users, Login(u) \/ Register(u) PROVE UNCHANGED <<service, expired, revoker, ended>>
    BY <1>3 DEF Login, Register, Submit
  <1> QED
    BY <1>1, <1>2, <1>3 DEF PageStep

\* The other steps.
ServiceStep ==
    \/ \E c \in Calls : Answered(c)
    \/ RefreshReads \/ RefreshDeletes \/ RefreshIssues
    \/ Registered \/ LoggedIn \/ LoginFails \/ LoggedOut
    \/ \E n \in DOMAIN pair : AccessTokenExpires(n)
    \/ \E s \in Pairs : RevokeReads(s)
    \/ RevokeDeletes

\* There are no other kinds of step.
LEMMA StepKinds == [Next]_vars => PageStep \/ ServiceStep
  BY DEF Next, Exchange, Refresh, PageStep, ServiceStep

\* Every step keeps the service's state typed.
LEMMA NextService == TypeInv /\ [Next]_vars => ServiceType'
  <1> SUFFICES ASSUME TypeInv, [Next]_vars PROVE ServiceType'
    OBVIOUS
  <1> USE DEF service, history
  <1>0. ServiceType /\ PageType
    BY DEF TypeInv
  <1>1. CASE PageStep
    <2>1. UNCHANGED <<accounts, pair, keyed, record, expired, revoker>>
      BY <1>1, PageStepServes
    <2> QED
      BY <1>0, <2>1 DEF ServiceType, Session, Known
  <1>2. ASSUME NEW c \in Calls, Answered(c) PROVE ServiceType'
    <2>1. UNCHANGED <<accounts, pair, expired, revoker>>
      BY <1>2 DEF Answered
    <2>2. keyed' \subseteq keyed /\ record' \in [Pairs -> Known] /\ \A s \in Pairs : record'[s] \in {0, record[s]}
      <3>1. 0 \in Known
        BY <1>0, PairFacts DEF Known
      <3> QED
        BY <1>0, <1>2, <3>1 DEF Answered, ServiceType
    <2> QED
      BY <1>0, <2>1, <2>2 DEF ServiceType, Session, Known
  <1>3. CASE RefreshReads \/ RefreshDeletes \/ Registered
    <2>1. UNCHANGED <<pair, record, expired>> /\ keyed' \subseteq keyed
      BY <1>3 DEF RefreshReads, RefreshDeletes, Registered
    <2>2. accounts \subseteq accounts' /\ accounts' \subseteq Users
      BY <1>0, <1>3 DEF RefreshReads, RefreshDeletes, Registered, ServiceType, PageType
    <2>3. revoker' = revoker \/ revoker' = [revoker EXCEPT !.clean = FALSE]
      BY <1>3 DEF RefreshReads, RefreshDeletes, Registered
    <2>4. /\ revoker' \in [pc : {"none", "delete"}, session : Known, key : Known, clean : BOOLEAN]
          /\ revoker'.pc = "none" <=> revoker'.session = 0
      BY <1>0, <2>3 DEF ServiceType
    <2> QED
      BY <1>0, <2>1, <2>2, <2>4 DEF ServiceType, Session, Known
  <1>4. CASE RefreshIssues
    <2>1. refresh.with \in DOMAIN pair
      BY <1>0, <1>4, PairFacts DEF RefreshIssues, PageType, Known
    <2>2. pair[refresh.with].user \in accounts /\ Session(refresh.with) \in Known
      BY <1>0, <2>1, PairFacts DEF ServiceType, Known
    <2> QED
      BY <1>0, <1>4, <2>2, IssueType DEF RefreshIssues, ServiceType
  <1>5. CASE LoggedIn
    <2>1. 0 \in Known
      BY <1>0, PairFacts DEF Known
    <2> QED
      BY <1>0, <1>5, <2>1, IssueType DEF LoggedIn, ServiceType
  <1>6. CASE LoginFails
    <2>1. 0 \in Known
      BY <1>0, PairFacts DEF Known
    <2>2. CASE UNCHANGED service
      BY <1>0, <1>6, <2>2 DEF LoginFails, ServiceType, Session, Known
    <2>3. CASE auth.pc = "register" /\ accounts' = accounts \cup {auth.user} /\ UNCHANGED <<pair, keyed, record>>
      BY <1>0, <1>6, <2>3 DEF LoginFails, ServiceType, PageType, Session, Known
    <2>4. CASE auth.user \in accounts /\ Issue(auth.user, 0) /\ UNCHANGED accounts
      BY <1>0, <1>6, <2>1, <2>4, IssueType DEF LoginFails, ServiceType
    <2> QED
      BY <1>6, <2>2, <2>3, <2>4 DEF LoginFails
  <1>7. CASE LoggedOut
    <2>1. UNCHANGED <<accounts, pair, expired, revoker>> /\ 0 \in Known
      BY <1>0, <1>7, PairFacts DEF LoggedOut, Known
    <2>2. keyed' \subseteq keyed /\ record' \in [Pairs -> Known] /\ \A s \in Pairs : record'[s] \in {0, record[s]}
      BY <1>0, <1>7, <2>1 DEF LoggedOut, DeleteSession, ServiceType
    <2> QED
      BY <1>0, <2>1, <2>2 DEF ServiceType, Session, Known
  <1>8. ASSUME NEW n \in DOMAIN pair, AccessTokenExpires(n) PROVE ServiceType'
    BY <1>0, <1>8, PairFacts DEF AccessTokenExpires, ServiceType, Session, Known
  <1>9. ASSUME NEW s \in Pairs, RevokeReads(s) PROVE ServiceType'
    <2>1. UNCHANGED <<accounts, pair, keyed, record, expired>>
      BY <1>9 DEF RevokeReads
    <2>2. /\ revoker' = [pc |-> "delete", session |-> s, key |-> record[s], clean |-> ~Refreshing(s)]
          /\ s \in Known /\ s # 0 /\ record[s] \in Known
      BY <1>0, <1>9, PairFacts DEF RevokeReads, Known
    <2>3. /\ revoker' \in [pc : {"none", "delete"}, session : Known, key : Known, clean : BOOLEAN]
          /\ revoker'.pc # "none" /\ revoker'.session # 0
      BY <2>2
    <2> QED
      BY <1>0, <2>1, <2>3 DEF ServiceType, Session, Known
  <1>10. CASE RevokeDeletes
    <2>1. UNCHANGED <<accounts, pair, expired>> /\ revoker' = NoRevoker /\ 0 \in Known
      BY <1>0, <1>10, PairFacts DEF RevokeDeletes, Known
    <2>2. keyed' \subseteq keyed /\ record' \in [Pairs -> Known] /\ \A s \in Pairs : record'[s] \in {0, record[s]}
      BY <1>0, <1>10, <2>1 DEF RevokeDeletes, DeleteSession, ServiceType
    <2>3. /\ revoker' \in [pc : {"none", "delete"}, session : Known, key : Known, clean : BOOLEAN]
          /\ revoker'.pc = "none" /\ revoker'.session = 0
      BY <2>1 DEF NoRevoker
    <2> QED
      BY <1>0, <2>1, <2>2, <2>3 DEF ServiceType, Session, Known
  <1> QED
    BY <1>1, <1>2, <1>3, <1>4, <1>5, <1>6, <1>7, <1>8, <1>9, <1>10, StepKinds DEF ServiceStep

\* A pair stays what it is.
LEMMA PairsStay ==
  ASSUME TypeInv, [Next]_vars
  PROVE  /\ Known \subseteq Known' /\ DOMAIN pair \subseteq DOMAIN pair'
         /\ \A n \in DOMAIN pair : pair'[n] = pair[n]
         /\ Len(pair) <= Len(pair') /\ 0 \in Known
  <1>0. ServiceType /\ PageType /\ Len(pair) \in Nat
    BY PairFacts DEF TypeInv
  <1>1. UNCHANGED pair \/ \E u \in Users : \E s \in Known : Issue(u, s)
    <2>1. CASE PageStep
      BY <2>1, PageStepServes DEF service
    <2>2. CASE RefreshIssues
      <3>1. refresh.with \in DOMAIN pair
        BY <1>0, <2>2, PairFacts DEF RefreshIssues, PageType, Known
      <3>2. pair[refresh.with].user \in Users /\ Session(refresh.with) \in Known
        BY <1>0, <3>1, PairFacts DEF Known
      <3> QED
        BY <2>2, <3>2 DEF RefreshIssues
    <2>3. CASE LoggedIn \/ LoginFails
      <3>1. 0 \in Known
        BY <1>0 DEF Known
      <3> QED
        BY <1>0, <2>3, <3>1 DEF LoggedIn, LoginFails, ServiceType, service
    <2> QED
      BY <2>1, <2>2, <2>3, StepKinds DEF ServiceStep, Answered, RefreshReads, RefreshDeletes, Registered,
         LoggedOut, AccessTokenExpires, RevokeReads, RevokeDeletes, service
  <1>2. CASE UNCHANGED pair
    BY <1>0, <1>2 DEF Known
  <1>3. ASSUME NEW u \in Users, NEW s \in Known, Issue(u, s)
        PROVE  /\ Known \subseteq Known' /\ DOMAIN pair \subseteq DOMAIN pair'
               /\ \A n \in DOMAIN pair : pair'[n] = pair[n]
               /\ Len(pair) <= Len(pair') /\ 0 \in Known
    <2>1. /\ DOMAIN pair = 1..Len(pair) /\ DOMAIN pair' = 1..(Len(pair) + 1)
          /\ Len(pair') = Len(pair) + 1 /\ \A n \in DOMAIN pair : pair'[n] = pair[n]
      BY <1>0, <1>3, IssueFacts
    <2>2. Known' = 0..(Len(pair) + 1) /\ Known = 0..Len(pair)
      BY <2>1 DEF Known
    <2> HIDE DEF Known
    <2> QED
      BY <1>0, <2>1, <2>2
  <1> QED
    BY <1>1, <1>2, <1>3

\* A step of the page's state, the pairs known before being known after.
LEMMA NextPage == TypeInv /\ [Next]_vars => PageType'
  <1> SUFFICES ASSUME TypeInv, [Next]_vars PROVE PageType'
    OBVIOUS
  <1> USE DEF service, history, page
  <1>0. ServiceType /\ PageType
    BY DEF TypeInv
  <1>1. /\ Known \subseteq Known' /\ DOMAIN pair \subseteq DOMAIN pair'
        /\ Len(pair) \in Nat /\ DOMAIN pair = 1..Len(pair) /\ 0 \in Known
        /\ \A n \in Known : n # 0 => n \in DOMAIN pair
    BY <1>0, PairFacts, PairsStay DEF Known
  <1>2. CallState \subseteq CallState' /\ Quiet \in CallState
    BY <1>1 DEF CallState, Quiet
  <1>3. NoRefresh \in [pc : {"none", "read", "delete", "issue", "answer", "refused"},
                       with : Known', got : Known']
    BY <1>1 DEF NoRefresh
  <1>4. NoAuth \in [pc : {"none", "register", "login", "logout"}, user : Users \cup {None}, with : Known']
    BY <1>1 DEF NoAuth
  <1>5. ASSUME NEW kind \in {"boot", "save", "me", "list", "others"}, NEW b \in BOOLEAN
        PROVE  Ask(kind) \in CallState /\ [Ask(kind) EXCEPT !.shown = b] \in CallState
    BY <1>0, <1>5 DEF Ask, CallState, PageType
  <1>6. /\ refresh \in [pc : {"none", "read", "delete", "issue", "answer", "refused"},
                        with : Known', got : Known']
        /\ auth \in [pc : {"none", "register", "login", "logout"}, user : Users \cup {None}, with : Known']
        /\ call \in [Calls -> CallState'] /\ token \in Known'
        /\ sent \subseteq DOMAIN pair' /\ ended \subseteq DOMAIN pair'
    BY <1>0, <1>1, <1>2 DEF PageType
  <1>7. ASSUME NEW c \in Calls, Answered(c) PROVE PageType'
    <2>1. call[c] \in CallState /\ call[c].token # 0
      BY <1>0, <1>7, <1>1 DEF Answered, Valid, PageType, ServiceType, Known
    <2>2. call[c].token \in DOMAIN pair
      BY <1>1, <2>1 DEF CallState
    <2>3. pair[call[c].token].user \in Users
      BY <1>0, <2>2, PairFacts
    <2>4. call' \in [Calls -> CallState']
      <3>1. [Ask("me") EXCEPT !.shown = call[c].shown] \in CallState'
        BY <1>2, <1>5, <2>1 DEF CallState
      <3>2. [Ask("list") EXCEPT !.shown = call[c].shown] \in CallState'
        BY <1>2, <1>5, <2>1 DEF CallState
      <3> DEFINE q == CASE call[c].kind = "save"   -> [Ask("me") EXCEPT !.shown = call[c].shown]
                        [] call[c].kind = "others" -> [Ask("list") EXCEPT !.shown = call[c].shown]
                        [] OTHER             -> Quiet
      <3>3. q \in CallState'
        BY <1>2, <3>1, <3>2
      <3>4. call' = [call EXCEPT ![c] = q]
        BY <1>7 DEF Answered
      <3> HIDE DEF q
      <3> QED
        BY <1>6, <3>3, <3>4
    <2>5. user' \in Users \cup {None} /\ loading' \in BOOLEAN
      BY <1>0, <1>7, <2>3 DEF Answered, PageType
    <2>6. ended' \subseteq DOMAIN pair'
      <3>1. \A s \in Others(call[c].token) : s \in DOMAIN pair
        BY <1>0, PairFacts DEF Others
      <3> QED
        BY <1>6, <1>1, <1>7, <3>1 DEF Answered
    <2> QED
      BY <1>0, <1>6, <1>7, <2>4, <2>5, <2>6 DEF Answered, PageType
  <1>8. ASSUME NEW c \in Calls, Unauthorized(c) PROVE PageType'
    <2>1. call' \in [Calls -> CallState']
      <3>1. [call[c] EXCEPT !.pc = "await"] \in CallState'
        BY <1>0, <1>2 DEF PageType, CallState
      <3>2. call' = [call EXCEPT ![c] = [call[c] EXCEPT !.pc = "await"]] \/ call' = [call EXCEPT ![c] = Quiet]
        BY <1>0, <1>8 DEF Unauthorized, Await, Settle, PageType
      <3> QED
        BY <1>2, <1>6, <3>1, <3>2
    <2>2. CASE Refreshable(call[c]) /\ refresh.pc = "none"
      <3>1. token \in DOMAIN pair /\ token \in Known'
        BY <1>0, <1>1, <2>2 DEF Refreshable, PageType
      <3>2. /\ refresh' = [pc |-> "read", with |-> token, got |-> 0] /\ sent' = sent \cup {token}
            /\ UNCHANGED <<pair, token, loading, user, auth, ended>>
        BY <1>8, <2>2 DEF Unauthorized, Await
      <3> QED
        BY <1>0, <1>1, <1>6, <2>1, <3>1, <3>2 DEF PageType
    <2>3. CASE ~(Refreshable(call[c]) /\ refresh.pc = "none")
      <3>1. /\ UNCHANGED <<pair, refresh, sent, user, auth, ended>>
            /\ token' \in {0, token} /\ loading' \in {FALSE, loading}
        BY <1>8, <2>3 DEF Unauthorized, Await
      <3> QED
        BY <1>0, <1>1, <1>6, <2>1, <3>1 DEF PageType
    <2> QED
      BY <2>2, <2>3
  <1>9. ASSUME NEW c \in Calls, RequestFails(c) PROVE PageType'
    BY <1>0, <1>2, <1>6, <1>9 DEF RequestFails, Settle, PageType
  <1>10. ASSUME NEW c \in Calls, Reload(c) PROVE PageType'
    <2>1. call' = [d \in Calls |-> IF d = c THEN [Ask("boot") EXCEPT !.shown = FALSE] ELSE Quiet]
      BY <1>10 DEF Reload, Boot
    <2>2. call' \in [Calls -> CallState']
      BY <1>2, <1>5, <2>1
    <2>3. /\ refresh' = NoRefresh /\ auth' = NoAuth /\ user' = None /\ loading' = TRUE /\ sent' = {}
          /\ UNCHANGED <<token, ended>>
      BY <1>10 DEF Reload, Boot
    <2> QED
      BY <1>0, <1>3, <1>4, <1>6, <2>2, <2>3 DEF PageType, NoRefresh, NoAuth
  <1>11. ASSUME NEW c \in Calls, SaveProfile(c) \/ OpenSessions(c) \/ LogoutOthers(c) PROVE PageType'
    <2>1. /\ \E kind \in {"save", "list", "others"} : call' = [call EXCEPT ![c] = Ask(kind)]
          /\ UNCHANGED <<page, refresh, auth, history>>
      BY <1>11 DEF SaveProfile, OpenSessions, LogoutOthers, Request
    <2>2. call' \in [Calls -> CallState']
      <3>1. \A kind \in {"save", "list", "others"} : Ask(kind) \in CallState'
        BY <1>2, <1>5
      <3> QED
        BY <1>6, <2>1, <3>1
    <2> QED
      BY <1>0, <1>6, <2>1, <2>2 DEF PageType
  <1>12. CASE RefreshReads \/ RefreshDeletes \/ RefreshBreaks
    <2>1. /\ \E s \in {"delete", "issue", "refused"} : refresh' = [refresh EXCEPT !.pc = s]
          /\ UNCHANGED <<page, call, auth, history>> /\ refresh.pc # "none"
      BY <1>12 DEF RefreshReads, RefreshDeletes, RefreshBreaks
    <2> QED
      BY <1>0, <1>6, <2>1 DEF PageType
  <1>13. CASE RefreshIssues
    <2>1. Len(pair) + 1 \in Known' /\ Len(pair) + 1 # 0
      <3>1. refresh.with \in DOMAIN pair
        BY <1>0, <1>1, <1>13 DEF RefreshIssues, PageType
      <3>2. pair[refresh.with].user \in Users /\ Session(refresh.with) \in Known
        BY <1>0, <3>1, PairFacts DEF Known
      <3>3. Issue(pair[refresh.with].user, Session(refresh.with))
        BY <1>13 DEF RefreshIssues
      <3>4. Len(pair') = Len(pair) + 1
        BY <1>0, <3>2, <3>3, IssueFacts
      <3> QED
        BY <1>1, <3>4 DEF Known
    <2>2. /\ refresh' = [refresh EXCEPT !.pc = "answer", !.got = Len(pair) + 1]
          /\ UNCHANGED <<page, call, auth, history>> /\ refresh.pc # "none"
      BY <1>13 DEF RefreshIssues
    <2>3. /\ refresh' \in [pc : {"none", "read", "delete", "issue", "answer", "refused"},
                          with : Known', got : Known']
          /\ refresh'.with # 0 /\ refresh'.got # 0
      BY <1>0, <1>6, <2>1, <2>2 DEF PageType
    <2> QED
      BY <1>0, <1>6, <2>2, <2>3 DEF PageType
  <1>14. CASE RefreshAnswered \/ RefreshRefused
    <2>1. call' \in [Calls -> CallState']
      <3>1. \A c \in Calls : call[c] \in CallState' /\ [call[c] EXCEPT !.pc = "again", !.token = refresh.got] \in CallState'
        BY <1>0, <1>2, <1>6 DEF CallState, PageType
      <3>2. \A c \in Calls : call'[c] \in {call[c], Quiet, [call[c] EXCEPT !.pc = "again", !.token = refresh.got]}
        BY <1>14 DEF RefreshAnswered, RefreshRefused
      <3>3. DOMAIN call' = Calls /\ call' = [c \in Calls |-> call'[c]]
        BY <1>14 DEF RefreshAnswered, RefreshRefused
      <3> QED
        BY <1>2, <3>1, <3>2, <3>3
    <2>2. /\ token' \in {0, refresh.got} /\ loading' \in {FALSE, loading} /\ refresh' = NoRefresh
          /\ UNCHANGED <<user, auth, sent, ended>>
      BY <1>14 DEF RefreshAnswered, RefreshRefused
    <2>3. token' \in Known'
      BY <1>1, <1>6, <2>2
    <2> QED
      BY <1>0, <1>3, <1>6, <2>1, <2>2, <2>3 DEF PageType, NoRefresh
  <1>15. ASSUME NEW u \in Users, Login(u) \/ Register(u) PROVE PageType'
    <2>1. /\ auth' \in {[pc |-> "login", user |-> u, with |-> 0], [pc |-> "register", user |-> u, with |-> 0]}
          /\ UNCHANGED <<page, call, refresh, history>>
      BY <1>15 DEF Login, Register, Submit
    <2> QED
      BY <1>0, <1>1, <1>6, <2>1 DEF PageType
  <1>16. CASE Registered \/ Refused
    <2>1. /\ auth' \in {[auth EXCEPT !.pc = "login"], NoAuth} /\ UNCHANGED <<page, call, refresh, history>>
          /\ auth' = NoAuth \/ auth.pc = "register"
      BY <1>16 DEF Registered, Refused
    <2> QED
      BY <1>0, <1>4, <1>6, <2>1 DEF PageType, NoAuth
  <1>17. CASE LoggedIn
    <2>1. Len(pair) + 1 \in Known'
      <3>1. auth.user \in Users /\ Issue(auth.user, 0)
        BY <1>0, <1>17 DEF LoggedIn, PageType
      <3>2. Len(pair') = Len(pair) + 1
        BY <1>0, <1>1, <3>1, IssueFacts
      <3> QED
        BY <1>1, <3>2 DEF Known
    <2>2. /\ token' = Len(pair) + 1 /\ user' = auth.user /\ auth' = NoAuth
          /\ UNCHANGED <<loading, call, refresh, sent, ended>>
      BY <1>17 DEF LoggedIn
    <2> QED
      BY <1>0, <1>4, <1>6, <2>1, <2>2 DEF PageType, NoAuth
  <1>18. CASE LoginFails
    <2>1. auth' = NoAuth /\ UNCHANGED <<page, call, refresh, history>>
      BY <1>18 DEF LoginFails
    <2> QED
      BY <1>0, <1>4, <1>6, <2>1 DEF PageType, NoAuth
  <1>19. CASE Logout
    <2>1. auth' = [pc |-> "logout", user |-> None, with |-> token] /\ UNCHANGED <<page, call, refresh, history>>
      BY <1>19 DEF Logout
    <2> QED
      BY <1>0, <1>6, <2>1 DEF PageType
  <1>20. CASE LoggedOut
    <2>1. /\ token' = 0 /\ user' = None /\ auth' = NoAuth /\ UNCHANGED <<pair, loading, refresh, sent>>
          /\ call' = [c \in Calls |-> [call[c] EXCEPT !.shown = FALSE]]
      BY <1>20 DEF LoggedOut, Leave
    <2>2. call' \in [Calls -> CallState']
      <3>1. \A c \in Calls : [call[c] EXCEPT !.shown = FALSE] \in CallState'
        BY <1>0, <1>2 DEF PageType, CallState
      <3> QED
        BY <2>1, <3>1
    <2>3. ended' \subseteq DOMAIN pair'
      <3>1. auth.with \in keyed => Session(auth.with) \in DOMAIN pair
        BY <1>0, PairFacts DEF ServiceType
      <3> QED
        BY <1>1, <1>6, <1>20, <3>1 DEF LoggedOut
    <2> QED
      BY <1>0, <1>1, <1>4, <1>6, <2>1, <2>2, <2>3 DEF PageType, NoAuth
  <1>21. ASSUME (\E n \in DOMAIN pair : AccessTokenExpires(n)) \/ (\E s \in Pairs : RevokeReads(s))
         PROVE  PageType'
    <2>1. UNCHANGED <<page, call, refresh, auth, history>>
      BY <1>21 DEF AccessTokenExpires, RevokeReads, pending
    <2> QED
      BY <1>0, <1>6, <2>1 DEF PageType
  <1>22. CASE RevokeDeletes
    <2>1. UNCHANGED <<page, call, refresh, auth, sent>> /\ ended' \subseteq ended \cup {revoker.session}
          /\ revoker.pc # "none"
      BY <1>22 DEF RevokeDeletes, pending
    <2>2. revoker.session \in DOMAIN pair
      BY <1>0, <1>1, <2>1 DEF ServiceType
    <2> QED
      BY <1>0, <1>1, <1>6, <2>1, <2>2 DEF PageType
  <1>23. CASE UNCHANGED vars
    BY <1>0, <1>6, <1>23 DEF PageType, vars, pending
  <1> QED
    BY <1>7, <1>8, <1>9, <1>10, <1>11, <1>12, <1>13, <1>14, <1>15, <1>16, <1>17, <1>18, <1>19, <1>20,
       <1>21, <1>22, <1>23 DEF Next, Exchange, Refresh

\* What such a step does to the refresh.
LEMMA PageStepRefresh ==
  ASSUME PageType, PageStep
  PROVE  refresh' = refresh \/ refresh'.pc \in {"none", "read", "refused"}
  <1> USE DEF pending
  <1>1. ASSUME NEW c \in Calls, Unauthorized(c) PROVE refresh' = refresh \/ refresh'.pc = "read"
    <2>1. refresh' = refresh \/ refresh' = [pc |-> "read", with |-> token, got |-> 0]
      BY <1>1 DEF Unauthorized, Await
    <2> QED
      BY <2>1
  <1>2. ASSUME NEW c \in Calls, Reload(c) PROVE refresh'.pc = "none"
    BY <1>2 DEF Reload, Boot, NoRefresh
  <1>3. ASSUME NEW c \in Calls,
               RequestFails(c) \/ SaveProfile(c) \/ OpenSessions(c) \/ LogoutOthers(c)
        PROVE  refresh' = refresh
    BY <1>3 DEF RequestFails, SaveProfile, OpenSessions, LogoutOthers, Request
  <1>4. ASSUME RefreshAnswered \/ RefreshRefused PROVE refresh'.pc = "none"
    <2>1. refresh' = NoRefresh
      BY <1>4 DEF RefreshAnswered, RefreshRefused
    <2> QED
      BY <2>1 DEF NoRefresh
  <1>5. ASSUME RefreshBreaks PROVE refresh'.pc = "refused"
    BY <1>5 DEF RefreshBreaks, PageType
  <1>6. ASSUME Refused \/ Logout \/ UNCHANGED vars PROVE refresh' = refresh
    BY <1>6 DEF Refused, Logout, vars
  <1>7. ASSUME NEW u \in Users, Login(u) \/ Register(u) PROVE refresh' = refresh
    BY <1>7 DEF Login, Register, Submit
  <1> QED
    BY <1>1, <1>2, <1>3, <1>4, <1>5, <1>6, <1>7 DEF PageStep

-----------------------------------------------------------------------------
\* A step that issues nothing, deletes keys at most, and leaves the refresh where it
\* is or ends it: nothing of what is said of the keys can break.
LEMMA KeysFewer ==
  ASSUME KeyInv, UNCHANGED pair, keyed' \subseteq keyed,
         \A n \in keyed : record'[Session(n)] \in {0, record[Session(n)]},
         refresh' = refresh \/ refresh'.pc \notin {"delete", "issue"}
  PROVE  KeyInv'
  <1>1. \A n \in keyed' : record'[pair'[n].session] \in {0, n}
    BY DEF KeyInv, Session
  <1>2. \A m, n \in keyed' : pair'[m].session = pair'[n].session => m = n
    BY DEF KeyInv, Session
  <1>3. refresh'.pc = "delete" =>
          \A n \in keyed' : pair'[n].session = pair'[refresh'.with].session => n = refresh'.with
    BY DEF KeyInv, Session
  <1>4. refresh'.pc = "issue" =>
          \A n \in keyed' : pair'[n].session # pair'[refresh'.with].session
    BY DEF KeyInv, Session
  <1> QED
    BY <1>1, <1>2, <1>3, <1>4 DEF KeyInv, Session

\* One key per session: a refresh takes the key away before it issues the next.
LEMMA NextKeys == TypeInv /\ TypeInv' /\ KeyInv /\ [Next]_vars => KeyInv'
  <1> SUFFICES ASSUME TypeInv, TypeInv', KeyInv, [Next]_vars PROVE KeyInv'
    OBVIOUS
  <1> USE DEF service, history, page, pending
  <1>0. /\ ServiceType /\ PageType /\ ServiceType'
        /\ Len(pair) \in Nat /\ DOMAIN pair = 1..Len(pair) /\ keyed \subseteq DOMAIN pair
        /\ \A n \in DOMAIN pair : Session(n) \in 1..n /\ Session(n) \in Pairs /\ Session(n) \in DOMAIN pair
        /\ \A n \in DOMAIN pair : n # Len(pair) + 1 /\ Session(n) # Len(pair) + 1
    BY PairFacts DEF TypeInv, ServiceType
  <1>1. CASE PageStep
    <2>1. UNCHANGED <<pair, keyed, record>>
      BY <1>1, PageStepServes
    <2>2. refresh' = refresh \/ refresh'.pc \in {"none", "read", "refused"}
      BY <1>0, <1>1, PageStepRefresh
    <2> QED
      BY <2>1, <2>2, KeysFewer
  <1>2. ASSUME NEW c \in Calls, Answered(c) PROVE KeyInv'
    <2>1. /\ UNCHANGED <<pair, refresh>> /\ keyed' \subseteq keyed
          /\ \A s \in Pairs : record'[s] \in {0, record[s]}
      BY <1>0, <1>2 DEF Answered
    <2> QED
      BY <1>0, <2>1, KeysFewer
  <1>3. CASE RefreshReads
    <2>1. /\ UNCHANGED <<pair, keyed, record>> /\ refresh'.with = refresh.with
          /\ refresh'.pc = "delete" => refresh.with \in keyed
          /\ refresh'.pc # "issue"
      BY <1>0, <1>3 DEF RefreshReads, PageType
    <2> QED
      BY <2>1 DEF KeyInv, Session
  <1>4. CASE RefreshDeletes
    <2>1. /\ UNCHANGED <<pair, record>> /\ keyed' = keyed \ {refresh.with}
          /\ refresh'.with = refresh.with /\ refresh.pc = "delete" /\ refresh'.pc = "issue"
      BY <1>0, <1>4 DEF RefreshDeletes, PageType
    <2> QED
      BY <2>1 DEF KeyInv, Session
  <1>5. ASSUME NEW u \in Users, NEW s \in Known, Issue(u, s), refresh'.pc \notin {"delete", "issue"},
               s # 0 => \A n \in keyed : Session(n) # s
        PROVE  KeyInv'
    <2> DEFINE k == Len(pair) + 1
               id == IF s = 0 THEN k ELSE s
    <2>1. /\ \A n \in DOMAIN pair : pair'[n] = pair[n]
          /\ pair'[k] = [user |-> u, session |-> id]
          /\ k \in Pairs
      BY <1>0, <1>5, IssueFacts
    <2>2. keyed' = keyed \cup {k} /\ record' = [record EXCEPT ![id] = k]
      BY <1>5 DEF Issue
    <2>3. id \in Pairs /\ \A n \in keyed : Session(n) # id /\ n # k
      <3>1. \A n \in keyed : n # k /\ Session(n) # k
        BY <1>0
      <3>2. s # 0 => s \in Pairs
        BY <1>0, BoundsAreNat DEF Known, Pairs, ServiceType
      <3> HIDE DEF k
      <3> QED
        BY <1>5, <2>1, <3>1, <3>2
    <2> HIDE DEF k, id
    <2>4. \A n \in keyed : pair'[n].session = Session(n) /\ record'[Session(n)] = record[Session(n)]
      BY <1>0, <2>1, <2>2, <2>3 DEF Session, ServiceType
    <2>5. pair'[k].session = id /\ record'[id] = k
      BY <1>0, <2>1, <2>2, <2>3 DEF ServiceType
    <2>6. \A n \in keyed' : record'[pair'[n].session] \in {0, n}
      BY <2>2, <2>4, <2>5 DEF KeyInv
    <2>7. \A m, n \in keyed' : pair'[m].session = pair'[n].session => m = n
      BY <2>2, <2>3, <2>4, <2>5 DEF KeyInv
    <2> QED
      BY <1>5, <2>6, <2>7 DEF KeyInv, Session
  <1>6. CASE RefreshIssues
    <2>1. refresh.with \in DOMAIN pair /\ refresh.pc = "issue" /\ refresh'.pc = "answer"
      BY <1>0, <1>6 DEF RefreshIssues, PageType, Known
    <2>2. pair[refresh.with].user \in Users /\ Session(refresh.with) \in Known
      BY <1>0, <2>1, PairFacts DEF Known
    <2>3. Issue(pair[refresh.with].user, Session(refresh.with))
      BY <1>6 DEF RefreshIssues
    <2>4. \A n \in keyed : Session(n) # Session(refresh.with)
      BY <2>1 DEF KeyInv
    <2> QED
      BY <1>5, <2>1, <2>2, <2>3, <2>4
  <1>7. CASE LoggedIn \/ LoginFails
    <2>1. auth.user \in Users /\ 0 \in Known /\ UNCHANGED refresh
      BY <1>0, <1>7 DEF LoggedIn, LoginFails, PageType, Known
    <2>2. CASE UNCHANGED <<pair, keyed, record>>
      BY <2>1, <2>2, KeysFewer
    <2>3. CASE Issue(auth.user, 0)
      <3>1. \A n \in keyed : Session(n) # Len(pair) + 1
        BY <1>0
      <3> DEFINE k == Len(pair) + 1
      <3>2. /\ \A n \in DOMAIN pair : pair'[n] = pair[n]
            /\ pair'[k] = [user |-> auth.user, session |-> k]
            /\ k \in Pairs
        BY <1>0, <2>1, <2>3, IssueFacts
      <3>3. keyed' = keyed \cup {k} /\ record' = [record EXCEPT ![k] = k]
        BY <2>3 DEF Issue
      <3>4. \A n \in keyed : n # k /\ n \in DOMAIN pair
        BY <1>0
      <3>5. refresh.pc \in {"delete", "issue"} => refresh.with \in DOMAIN pair /\ Session(refresh.with) # k
        BY <1>0 DEF PageType, Known
      <3> HIDE DEF k
      <3>6. \A n \in keyed : pair'[n].session = Session(n) /\ record'[Session(n)] = record[Session(n)]
        BY <1>0, <3>1, <3>2, <3>3, <3>4 DEF Session, ServiceType, k
      <3>7. pair'[k].session = k /\ record'[k] = k
        BY <1>0, <3>2, <3>3 DEF ServiceType
      <3>8. \A n \in keyed' : record'[pair'[n].session] \in {0, n}
        BY <3>3, <3>6, <3>7 DEF KeyInv
      <3>9. \A m, n \in keyed' : pair'[m].session = pair'[n].session => m = n
        BY <3>1, <3>3, <3>6, <3>7 DEF KeyInv, k
      <3>10. refresh.pc \in {"delete", "issue"} => pair'[refresh.with].session = Session(refresh.with)
        BY <3>2, <3>5 DEF Session
      <3>11. refresh'.pc = "delete" =>
               \A n \in keyed' : pair'[n].session = pair'[refresh'.with].session => n = refresh'.with
        BY <2>1, <3>3, <3>5, <3>6, <3>7, <3>10 DEF KeyInv
      <3>12. refresh'.pc = "issue" =>
               \A n \in keyed' : pair'[n].session # pair'[refresh'.with].session
        BY <2>1, <3>3, <3>5, <3>6, <3>7, <3>10 DEF KeyInv
      <3> QED
        BY <3>8, <3>9, <3>11, <3>12 DEF KeyInv, Session
    <2> QED
      BY <1>7, <2>2, <2>3 DEF LoggedIn, LoginFails
  <1>8. CASE Registered \/ (\E n \in DOMAIN pair : AccessTokenExpires(n)) \/ (\E s \in Pairs : RevokeReads(s))
    <2>1. UNCHANGED <<pair, keyed, record, refresh>>
      BY <1>8 DEF Registered, AccessTokenExpires, RevokeReads
    <2> QED
      BY <2>1, KeysFewer
  <1>9. CASE LoggedOut \/ RevokeDeletes
    <2>1. /\ UNCHANGED <<pair, refresh>> /\ keyed' \subseteq keyed
          /\ \A s \in Pairs : record'[s] \in {0, record[s]}
      BY <1>0, <1>9 DEF LoggedOut, RevokeDeletes, DeleteSession, ServiceType
    <2> QED
      BY <1>0, <2>1, KeysFewer
  <1> QED
    BY <1>1, <1>2, <1>3, <1>4, <1>6, <1>7, <1>8, <1>9, StepKinds DEF ServiceStep

\* A session ended at rest stays without a key: a refresh that could still issue one
\* was under way, and then the session does not count as ended at rest.
LEMMA NextEnded == TypeInv /\ TypeInv' /\ KeyInv /\ EndInv /\ [Next]_vars => EndInv'
  <1> SUFFICES ASSUME TypeInv, TypeInv', KeyInv, EndInv, [Next]_vars PROVE EndInv'
    OBVIOUS
  <1> USE DEF service, history, page, pending
  <1>0. /\ ServiceType /\ PageType
        /\ Len(pair) \in Nat /\ DOMAIN pair = 1..Len(pair) /\ keyed \subseteq DOMAIN pair
        /\ ended \subseteq DOMAIN pair
        /\ \A n \in DOMAIN pair : Session(n) \in Pairs /\ Session(n) \in DOMAIN pair
        /\ \A n \in Known : n # Len(pair) + 1
        /\ \A n \in Known : n # 0 => n \in DOMAIN pair
    <2>1. ServiceType /\ PageType
      BY DEF TypeInv
    <2>2. /\ Len(pair) \in Nat /\ DOMAIN pair = 1..Len(pair)
          /\ \A n \in DOMAIN pair : Session(n) \in Pairs /\ Session(n) \in DOMAIN pair
      BY <2>1, PairFacts
    <2>3. keyed \subseteq DOMAIN pair /\ ended \subseteq DOMAIN pair
      BY <2>1 DEF ServiceType, PageType
    <2> QED
      BY <2>1, <2>2, <2>3 DEF Known
  <1>1. CASE PageStep
    <2>1. UNCHANGED <<pair, keyed, revoker, ended>>
      BY <1>1, PageStepServes
    <2>2. refresh' = refresh \/ refresh'.pc \in {"none", "read", "refused"}
      BY <1>0, <1>1, PageStepRefresh
    <2> QED
      BY <2>1, <2>2 DEF EndInv, Refreshing, Session
  <1>2. ASSUME NEW c \in Calls, Answered(c) PROVE EndInv'
    <2> DEFINE others == Others(call[c].token)
    <2>1. \/ UNCHANGED <<keyed, ended>>
          \/ /\ keyed' = keyed \ {record[s] : s \in others}
             /\ ended' = ended \cup {s \in others : ~Refreshing(s)}
      BY <1>2 DEF Answered
    <2>2. UNCHANGED <<pair, refresh, revoker>>
      BY <1>2 DEF Answered
    <2>3. \A n \in keyed : Session(n) \in others => record[Session(n)] = n
      BY <1>0 DEF Others, KeyInv
    <2> HIDE DEF others
    <2>4. keyed' \subseteq keyed /\ \A n \in keyed' : Session(n) \notin ended'
      BY <2>1, <2>3 DEF EndInv
    <2>5. refresh.pc \in {"delete", "issue"} => Session(refresh.with) \notin ended'
      BY <2>1 DEF EndInv, Refreshing
    <2> QED
      BY <2>2, <2>4, <2>5 DEF EndInv, Refreshing, Session
  <1>3. CASE RefreshReads
    <2>1. /\ UNCHANGED <<pair, keyed, ended>> /\ refresh'.with = refresh.with
          /\ refresh'.pc = "delete" => refresh.with \in keyed
          /\ refresh'.pc \in {"delete", "refused"}
      BY <1>0, <1>3 DEF RefreshReads, PageType
    <2>2. /\ revoker'.pc = revoker.pc /\ revoker'.session = revoker.session /\ revoker'.key = revoker.key
          /\ revoker'.clean => revoker.clean /\ Session(refresh.with) # revoker.session
      BY <1>0, <1>3 DEF RefreshReads, ServiceType
    <2> QED
      BY <2>1, <2>2 DEF EndInv, Refreshing, Session
  <1>4. CASE RefreshDeletes
    <2>1. /\ UNCHANGED <<pair, revoker, ended>> /\ keyed' = keyed \ {refresh.with}
          /\ refresh'.with = refresh.with /\ refresh.pc = "delete" /\ refresh'.pc = "issue"
      BY <1>0, <1>4 DEF RefreshDeletes, PageType
    <2> QED
      BY <2>1 DEF EndInv, Refreshing, Session
  <1>5. CASE RefreshIssues
    <2> DEFINE k == Len(pair) + 1
               s == Session(refresh.with)
    <2>1. refresh.with \in DOMAIN pair /\ refresh.pc = "issue" /\ refresh'.pc = "answer"
      BY <1>0, <1>5 DEF RefreshIssues, PageType
    <2>2. pair[refresh.with].user \in Users /\ s \in Known /\ s # 0
      BY <1>0, <2>1, PairFacts DEF Known
    <2>3. Issue(pair[refresh.with].user, s) /\ UNCHANGED <<revoker, ended>>
      BY <1>5 DEF RefreshIssues
    <2>4. /\ \A n \in DOMAIN pair : pair'[n] = pair[n]
          /\ pair'[k].session = s /\ keyed' = keyed \cup {k}
      BY <1>0, <2>2, <2>3, IssueFacts DEF Issue
    <2>5. s \notin ended /\ (revoker.clean /\ revoker.pc = "delete" => s # revoker.session)
      BY <2>1 DEF EndInv, Refreshing
    <2> HIDE DEF k, s
    <2>6. \A n \in keyed' : pair'[n].session = s \/ (n \in keyed /\ pair'[n].session = Session(n))
      BY <1>0, <2>4 DEF Session
    <2> QED
      BY <2>1, <2>3, <2>5, <2>6 DEF EndInv, Refreshing, Session
  <1>6. CASE LoggedIn \/ LoginFails
    <2>1. auth.user \in Users /\ 0 \in Known /\ UNCHANGED <<refresh, revoker, ended>>
      BY <1>0, <1>6 DEF LoggedIn, LoginFails, PageType, Known
    <2>2. CASE UNCHANGED <<pair, keyed, record>>
      BY <2>1, <2>2 DEF EndInv, Refreshing, Session
    <2>3. CASE Issue(auth.user, 0)
      <3> DEFINE k == Len(pair) + 1
      <3>1. /\ \A n \in DOMAIN pair : pair'[n] = pair[n]
            /\ pair'[k].session = k /\ keyed' = keyed \cup {k}
        BY <1>0, <2>1, <2>3, IssueFacts DEF Issue
      <3>2. k \notin ended /\ k # revoker.session
        BY <1>0 DEF ServiceType, Known
      <3>3. refresh.pc \in {"delete", "issue"} => refresh.with \in DOMAIN pair
        BY <1>0 DEF PageType
      <3> HIDE DEF k
      <3>4. \A n \in keyed' : pair'[n].session = k \/ (n \in keyed /\ pair'[n].session = Session(n))
        BY <1>0, <3>1 DEF Session
      <3>5. refresh.pc \in {"delete", "issue"} => pair'[refresh.with].session = Session(refresh.with)
        BY <3>1, <3>3 DEF Session
      <3> QED
        BY <2>1, <3>2, <3>4, <3>5 DEF EndInv, Refreshing, Session
    <2> QED
      BY <1>6, <2>2, <2>3 DEF LoggedIn, LoginFails
  <1>7. CASE Registered \/ (\E n \in DOMAIN pair : AccessTokenExpires(n))
    <2>1. UNCHANGED <<pair, keyed, refresh, revoker, ended>>
      BY <1>7 DEF Registered, AccessTokenExpires
    <2> QED
      BY <2>1 DEF EndInv, Refreshing, Session
  <1>8. ASSUME NEW s \in Pairs, RevokeReads(s) PROVE EndInv'
    <2>1. /\ UNCHANGED <<pair, keyed, refresh, ended>> /\ record[s] # 0
          /\ revoker'.session = s /\ revoker'.key = record[s] /\ revoker'.clean = ~Refreshing(s)
      BY <1>8 DEF RevokeReads
    <2>2. \A n \in keyed : Session(n) = s => n = record[s]
      BY <2>1 DEF KeyInv
    <2> QED
      BY <2>1, <2>2 DEF EndInv, Refreshing, Session
  <1>9. CASE RevokeDeletes
    <2>1. /\ UNCHANGED <<pair, refresh>> /\ keyed' = keyed \ {revoker.key} /\ revoker'.pc = "none"
          /\ \/ ended' = ended
             \/ /\ revoker.clean /\ revoker.pc = "delete" /\ ~Refreshing(revoker.session)
                /\ ended' = ended \cup {revoker.session}
      BY <1>9 DEF RevokeDeletes, DeleteSession, NoRevoker
    <2> QED
      BY <2>1 DEF EndInv, Refreshing, Session
  <1>10. CASE LoggedOut
    <2> DEFINE n == auth.with
    <2>1. /\ UNCHANGED <<pair, refresh, revoker>>
          /\ \/ UNCHANGED <<keyed, ended>>
             \/ /\ n \in keyed /\ keyed' = keyed \ {n}
                /\ ended' = IF Refreshing(Session(n)) THEN ended ELSE ended \cup {Session(n)}
      BY <1>10 DEF LoggedOut, DeleteSession
    <2> HIDE DEF n
    <2>2. \A m \in keyed' : m \in keyed /\ Session(m) \notin ended'
      BY <2>1 DEF EndInv, KeyInv
    <2>3. refresh.pc \in {"delete", "issue"} => Session(refresh.with) \notin ended'
      BY <2>1 DEF EndInv, Refreshing
    <2> QED
      BY <2>1, <2>2, <2>3 DEF EndInv, Refreshing, Session
  <1> QED
    BY <1>1, <1>2, <1>3, <1>4, <1>5, <1>6, <1>7, <1>8, <1>9, <1>10, StepKinds DEF ServiceStep

\* What a refresh sends is not sent again: the page's token changes whenever a
\* refresh ends.
LEMMA NextSent == TypeInv /\ SentInv /\ [Next]_vars => SentInv'
  <1> SUFFICES ASSUME TypeInv, SentInv, [Next]_vars PROVE SentInv'
    OBVIOUS
  <1> USE DEF service, history, page, pending
  <1>0. /\ PageType /\ Len(pair) \in Nat /\ 0 \notin sent /\ Len(pair) + 1 \notin sent
    BY PairFacts DEF TypeInv, PageType
  <1>1. ASSUME NEW c \in Calls, Unauthorized(c) PROVE SentInv'
    <2>1. \/ /\ UNCHANGED <<token, sent>>
             /\ refresh' = [pc |-> "read", with |-> token, got |-> 0] \/ UNCHANGED refresh
          \/ /\ sent' = sent \cup {token} /\ UNCHANGED token
             /\ refresh' = [pc |-> "read", with |-> token, got |-> 0]
          \/ UNCHANGED <<refresh, sent>> /\ token' \in {0, token}
      BY <1>1 DEF Unauthorized, Await
    <2> QED
      BY <1>0, <2>1 DEF SentInv
  <1>2. ASSUME NEW c \in Calls, Reload(c) PROVE SentInv'
    BY <1>2 DEF Reload, Boot, SentInv, NoRefresh
  <1>3. CASE RefreshAnswered \/ RefreshRefused
    <2>1. refresh' = NoRefresh /\ sent' = sent /\ token' \notin sent
      BY <1>0, <1>3 DEF RefreshAnswered, RefreshRefused, SentInv
    <2> QED
      BY <2>1 DEF SentInv, NoRefresh
  <1>4. CASE RefreshReads \/ RefreshDeletes \/ RefreshBreaks
    <2>1. /\ \E s \in {"delete", "issue", "refused"} : refresh' = [refresh EXCEPT !.pc = s]
          /\ UNCHANGED <<sent, token>>
      BY <1>4 DEF RefreshReads, RefreshDeletes, RefreshBreaks
    <2> QED
      BY <1>0, <2>1 DEF SentInv, PageType
  <1>5. CASE RefreshIssues
    <2>1. refresh'.pc = "answer" /\ refresh'.got = Len(pair) + 1 /\ sent' = sent
      BY <1>0, <1>5 DEF RefreshIssues, PageType
    <2> QED
      BY <1>0, <2>1 DEF SentInv
  <1>6. CASE LoggedIn \/ LoggedOut
    <2>1. UNCHANGED <<refresh, sent>> /\ token' \in {0, Len(pair) + 1}
      BY <1>6 DEF LoggedIn, LoggedOut
    <2> QED
      BY <1>0, <2>1 DEF SentInv
  <1>7. ASSUME NEW c \in Calls,
               Answered(c) \/ RequestFails(c) \/ SaveProfile(c) \/ OpenSessions(c) \/ LogoutOthers(c)
        PROVE  SentInv'
    BY <1>7 DEF Answered, RequestFails, SaveProfile, OpenSessions, LogoutOthers, Request, SentInv
  <1>8. ASSUME NEW u \in Users, Login(u) \/ Register(u) PROVE SentInv'
    BY <1>8 DEF Login, Register, Submit, SentInv
  <1>9. CASE Registered \/ Refused \/ LoginFails \/ Logout \/ RevokeDeletes \/ UNCHANGED vars
    BY <1>9 DEF Registered, Refused, LoginFails, Logout, RevokeDeletes, SentInv, vars
  <1>10. ASSUME (\E n \in DOMAIN pair : AccessTokenExpires(n)) \/ (\E s \in Pairs : RevokeReads(s))
         PROVE  SentInv'
    BY <1>10 DEF AccessTokenExpires, RevokeReads, SentInv
  <1> QED
    BY <1>1, <1>2, <1>3, <1>4, <1>5, <1>6, <1>7, <1>8, <1>9, <1>10 DEF Next, Exchange, Refresh

-----------------------------------------------------------------------------
\* A request in flight while the page loads is the bootstrap, and alone; later none is.
LEMMA LoadingFacts ==
  ASSUME PageType, FlowInv, NEW c \in Calls, Active(c)
  PROVE  /\ loading = TRUE => /\ call[c].kind = "boot" /\ call[c].token = token /\ user = None
                              /\ \A d \in Calls \ {c} : ~Active(d)
         /\ loading = FALSE => call[c].kind # "boot"
         /\ loading \in BOOLEAN
  BY DEF FlowInv, PageType

\* Requests and the refresh depend on each other as one promise does.
LEMMA NextFlow == TypeInv /\ FlowInv /\ [Next]_vars => FlowInv'
  <1> SUFFICES ASSUME TypeInv, FlowInv, [Next]_vars PROVE FlowInv'
    OBVIOUS
  <1> USE DEF service, history, page, pending
  <1>0. PageType /\ call \in [Calls -> CallState] /\ loading \in BOOLEAN
    BY DEF TypeInv, PageType
  <1>1. ASSUME NEW c \in Calls, NEW q, call' = [call EXCEPT ![c] = q],
               call[c].pc \in {"sent", "again"}, q.pc \in {"none", "sent"}, q.pc = "none" => q.token = 0,
               loading' = (IF call[c].kind = "boot" THEN FALSE ELSE loading),
               q.kind = "boot" => q.pc = "none", call[c].kind = "boot" => q.pc = "none",
               UNCHANGED <<refresh, auth>>
        PROVE  FlowInv'
    <2>1. Active(c)
      BY <1>1 DEF Active
    <2>2. call'[c] = q /\ \A d \in Calls \ {c} : call'[d] = call[d]
      BY <1>0, <1>1
    <2>3. /\ loading = TRUE => call[c].kind = "boot" /\ \A d \in Calls \ {c} : ~Active(d)
          /\ loading = FALSE => call[c].kind # "boot"
      BY <1>0, <2>1, LoadingFacts
    <2>4. loading' = FALSE
      BY <1>0, <1>1, <2>3
    <2>5. \A d \in Calls : call'[d].kind = "boot" => call'[d].pc = "none"
      BY <1>0, <1>1, <2>2, <2>3 DEF FlowInv, Active
    <2>6. \A d \in Calls : call'[d].pc = "none" => call'[d].token = 0
      BY <1>1, <2>2 DEF FlowInv
    <2>7. (\E d \in Calls : call'[d].pc = "await") <=> (\E d \in Calls : call[d].pc = "await")
      BY <1>1, <2>2
    <2> QED
      BY <1>1, <2>4, <2>5, <2>6, <2>7 DEF FlowInv, Active
  <1>2. ASSUME NEW c \in Calls, Answered(c) PROVE FlowInv'
    <2> DEFINE q == CASE call[c].kind = "save"   -> [Ask("me") EXCEPT !.shown = call[c].shown]
                      [] call[c].kind = "others" -> [Ask("list") EXCEPT !.shown = call[c].shown]
                      [] OTHER             -> Quiet
    <2>1. /\ call' = [call EXCEPT ![c] = q] /\ call[c].pc \in {"sent", "again"}
          /\ loading' = (IF call[c].kind = "boot" THEN FALSE ELSE loading)
          /\ UNCHANGED <<refresh, auth>>
      BY <1>2 DEF Answered
    <2>2. \/ q = Quiet
          \/ q.pc = "sent" /\ q.kind \in {"me", "list"} /\ call[c].kind \in {"save", "others"}
      BY DEF Ask
    <2>3. q.pc \in {"none", "sent"} /\ (q.pc = "none" => q.token = 0)
          /\ (q.kind = "boot" => q.pc = "none") /\ (call[c].kind = "boot" => q.pc = "none")
      BY <2>2 DEF Quiet
    <2> HIDE DEF q
    <2> QED
      BY <1>1, <2>1, <2>3
  <1>3. ASSUME NEW c \in Calls, Unauthorized(c) PROVE FlowInv'
    <2>1. CASE Refreshable(call[c])
      <3>1. /\ call' = [call EXCEPT ![c].pc = "await"] /\ UNCHANGED <<token, loading, user, auth>>
            /\ refresh' = IF refresh.pc = "none" THEN [pc |-> "read", with |-> token, got |-> 0] ELSE refresh
            /\ call[c].pc = "sent"
        BY <1>3, <2>1 DEF Unauthorized, Await, Refreshable
      <3>2. /\ call'[c].pc = "await" /\ call'[c].kind = call[c].kind /\ call'[c].token = call[c].token
            /\ \A d \in Calls \ {c} : call'[d] = call[d]
        BY <1>0, <3>1 DEF CallState
      <3>3. Active(c)
        BY <3>1 DEF Active
      <3>4. /\ refresh'.pc # "none" /\ (refresh'.pc # "answer" => refresh'.got = 0 \/ refresh'.pc = "refused")
        BY <3>1 DEF FlowInv
      <3>5. \A d \in Calls : /\ call'[d].pc = "none" => call'[d].token = 0
                            /\ (call'[d].pc # "none" <=> Active(d))
                            /\ call'[d].kind = call[d].kind
        BY <3>2, <3>3 DEF FlowInv, Active
      <3>6. \E d \in Calls : call'[d].pc = "await"
        BY <3>2
      <3> QED
        BY <3>1, <3>2, <3>3, <3>4, <3>5, <3>6, <1>0, LoadingFacts DEF FlowInv, Active
    <2>2. CASE ~Refreshable(call[c])
      <3>1. /\ call' = [call EXCEPT ![c] = Quiet] /\ call[c].pc \in {"sent", "again"}
            /\ loading' = (IF call[c].kind = "boot" THEN FALSE ELSE loading) /\ UNCHANGED <<refresh, auth>>
        BY <1>3, <2>2 DEF Unauthorized, Settle
      <3> QED
        BY <1>1, <3>1 DEF Quiet
    <2> QED
      BY <2>1, <2>2
  <1>4. ASSUME NEW c \in Calls, RequestFails(c) PROVE FlowInv'
    <2>1. /\ call' = [call EXCEPT ![c] = Quiet] /\ call[c].pc \in {"sent", "again"}
          /\ loading' = (IF call[c].kind = "boot" THEN FALSE ELSE loading) /\ UNCHANGED <<refresh, auth>>
      BY <1>4 DEF RequestFails, Settle
    <2> QED
      BY <1>1, <2>1 DEF Quiet
  <1>5. ASSUME NEW c \in Calls, Reload(c) PROVE FlowInv'
    <2>1. /\ call' = [d \in Calls |-> IF d = c THEN [Ask("boot") EXCEPT !.shown = FALSE] ELSE Quiet]
          /\ refresh' = NoRefresh /\ auth' = NoAuth /\ user' = None /\ loading' = TRUE /\ token' = token
      BY <1>5 DEF Reload, Boot
    <2>2. /\ call'[c].pc = "sent" /\ call'[c].kind = "boot" /\ call'[c].token = token
          /\ \A d \in Calls \ {c} : call'[d].pc = "none" /\ call'[d].token = 0
      BY <2>1 DEF Ask, Quiet
    <2>3. refresh'.pc = "none" /\ refresh'.with = 0 /\ refresh'.got = 0 /\ auth'.pc = "none"
      BY <2>1 DEF NoRefresh, NoAuth
    <2>4. \A d \in Calls : call'[d].pc = "none" => call'[d].token = 0
      BY <2>2
    <2>5. ~\E d \in Calls : call'[d].pc = "await"
      BY <2>2
    <2> QED
      BY <2>1, <2>2, <2>3, <2>4, <2>5 DEF FlowInv, Active
  <1>6. ASSUME NEW c \in Calls, SaveProfile(c) \/ OpenSessions(c) \/ LogoutOthers(c) PROVE FlowInv'
    <2>1. /\ \E kind \in {"save", "list", "others"} : call' = [call EXCEPT ![c] = Ask(kind)]
          /\ UNCHANGED <<token, user, loading, refresh, auth>> /\ user # None /\ call[c].pc = "none"
      BY <1>6 DEF SaveProfile, OpenSessions, LogoutOthers, Request
    <2>2. /\ call'[c].pc = "sent" /\ call'[c].kind # "boot"
          /\ \A d \in Calls \ {c} : call'[d] = call[d]
      BY <1>0, <2>1 DEF Ask
    <2>3. loading = FALSE
      BY <1>0, <2>1 DEF FlowInv
    <2>4. (\E d \in Calls : call'[d].pc = "await") <=> (\E d \in Calls : call[d].pc = "await")
      BY <2>1, <2>2
    <2> QED
      BY <2>1, <2>2, <2>3, <2>4 DEF FlowInv, Active
  <1>7. CASE RefreshReads \/ RefreshDeletes \/ RefreshBreaks \/ RefreshIssues
    <2>1. refresh'.pc # "none" /\ refresh.pc # "none"
          /\ (refresh'.pc # "answer" => refresh'.got = 0 \/ refresh'.pc = "refused")
      BY <1>0, <1>7 DEF RefreshReads, RefreshDeletes, RefreshBreaks, RefreshIssues, PageType, FlowInv
    <2>2. UNCHANGED <<token, user, loading, call, auth>>
      BY <1>7 DEF RefreshReads, RefreshDeletes, RefreshBreaks, RefreshIssues
    <2> QED
      BY <2>1, <2>2 DEF FlowInv, Active
  <1>8. CASE RefreshAnswered
    <2>1. /\ \A c \in Calls : IF call[c].pc = "await"
                             THEN call'[c] = [call[c] EXCEPT !.pc = "again", !.token = refresh.got]
                             ELSE call'[c] = call[c]
          /\ refresh.pc = "answer" /\ token' = refresh.got /\ refresh' = NoRefresh
          /\ UNCHANGED <<user, loading, auth>>
      BY <1>8 DEF RefreshAnswered
    <2>2. ASSUME NEW c \in Calls
          PROVE  /\ call'[c].kind = call[c].kind /\ call'[c].pc # "await"
                 /\ call'[c].pc = "none" => call'[c].token = 0
                 /\ Active(c)' <=> Active(c)
                 /\ call[c].pc = "await" => call'[c].token = refresh.got
      BY <1>0, <2>1 DEF CallState, FlowInv, Active
    <2>3. refresh'.pc = "none" /\ refresh'.with = 0 /\ refresh'.got = 0
      BY <2>1 DEF NoRefresh
    <2>4. PICK w \in Calls : call[w].pc = "await"
      BY <2>1 DEF FlowInv
    <2>5. loading = TRUE => /\ call[w].kind = "boot" /\ user = None /\ \A d \in Calls \ {w} : ~Active(d)
      BY <1>0, <2>4, LoadingFacts DEF Active
    <2>6. Active(w)
      BY <2>4 DEF Active
    <2>7. loading' = FALSE => \A c \in Calls : call'[c].kind = "boot" => ~Active(c)'
      BY <2>1, <2>2 DEF FlowInv
    <2>8. loading' = TRUE => /\ user' = None /\ auth'.pc = "none"
                            /\ Active(w)' /\ call'[w].kind = "boot" /\ call'[w].token = token'
                            /\ \A d \in Calls \ {w} : ~Active(d)'
      BY <2>1, <2>2, <2>4, <2>5, <2>6 DEF FlowInv
    <2> QED
      BY <2>2, <2>3, <2>7, <2>8 DEF FlowInv
  <1>9. CASE RefreshRefused
    <2>1. /\ \A c \in Calls : call'[c] = IF call[c].pc = "await" THEN Quiet ELSE call[c]
          /\ refresh.pc = "refused" /\ refresh' = NoRefresh /\ UNCHANGED <<user, auth>>
          /\ loading' = IF \E c \in Calls : call[c].pc = "await" /\ call[c].kind = "boot" THEN FALSE ELSE loading
      BY <1>9 DEF RefreshRefused
    <2>3. refresh'.pc = "none" /\ refresh'.with = 0 /\ refresh'.got = 0
      BY <2>1 DEF NoRefresh
    <2>4. PICK w \in Calls : call[w].pc = "await"
      BY <2>1 DEF FlowInv
    <2>5. loading = TRUE => /\ call[w].kind = "boot" /\ \A d \in Calls \ {w} : ~Active(d)
      BY <1>0, <2>4, LoadingFacts DEF Active
    <2>6. ASSUME NEW c \in Calls
          PROVE  /\ call'[c].pc # "await"
                 /\ call'[c].pc = "none" => call'[c].token = 0
                 /\ Active(c)' => Active(c) /\ call'[c] = call[c] /\ c # w
      BY <2>1, <2>4 DEF FlowInv, Active, Quiet
    <2>7. loading' = FALSE
      BY <1>0, <2>1, <2>4, <2>5
    <2>8. ASSUME NEW c \in Calls, Active(c)' PROVE call'[c].kind # "boot"
      <3>1. Active(c) /\ call'[c] = call[c] /\ c # w
        BY <2>6, <2>8
      <3>2. loading = FALSE
        BY <1>0, <2>5, <3>1
      <3> QED
        BY <3>1, <3>2 DEF FlowInv
    <2> QED
      BY <2>3, <2>6, <2>7, <2>8 DEF FlowInv
  <1>10. CASE LoggedOut
    <2>1. /\ \A c \in Calls : call'[c] = [call[c] EXCEPT !.shown = FALSE]
          /\ UNCHANGED <<loading, refresh>> /\ auth.pc = "logout"
      BY <1>10 DEF LoggedOut, Leave
    <2>2. \A c \in Calls : call'[c].pc = call[c].pc /\ call'[c].kind = call[c].kind /\ call'[c].token = call[c].token
      BY <1>0, <2>1 DEF CallState
    <2>3. loading = FALSE
      BY <1>0, <2>1 DEF FlowInv
    <2> QED
      BY <2>1, <2>2, <2>3 DEF FlowInv, Active
  <1>11. ASSUME Registered \/ Refused \/ LoggedIn \/ LoginFails \/ Logout
                \/ (\E u \in Users : Login(u) \/ Register(u))
         PROVE  FlowInv'
    <2>1. UNCHANGED <<loading, call, refresh>>
      BY <1>11 DEF Registered, Refused, LoggedIn, LoginFails, Logout, Login, Register, Submit
    <2>2. auth.pc # "none" \/ loading = FALSE \/ user # None
      BY <1>0, <1>11 DEF Registered, Refused, LoggedIn, LoginFails, Logout, Login, Register, Submit, SignedOut
    <2>3. loading = FALSE
      BY <1>0, <2>2 DEF FlowInv
    <2> QED
      BY <2>1, <2>3 DEF FlowInv, Active
  <1>12. ASSUME (\E n \in DOMAIN pair : AccessTokenExpires(n)) \/ (\E s \in Pairs : RevokeReads(s))
                \/ RevokeDeletes \/ UNCHANGED vars
         PROVE  FlowInv'
    <2>1. UNCHANGED <<token, user, loading, call, refresh, auth>>
      BY <1>12 DEF AccessTokenExpires, RevokeReads, RevokeDeletes, vars
    <2> QED
      BY <2>1 DEF FlowInv, Active
  <1> QED
    BY <1>2, <1>3, <1>4, <1>5, <1>6, <1>7, <1>8, <1>9, <1>10, <1>11, <1>12 DEF Next, Exchange, Refresh

\* What the page holds less, or the same, is still of one user.
LEMMA HoldsLess ==
  ASSUME TypeInv, [Next]_vars, NEW u, OneUser(u), Holds' \subseteq Holds \cup {0}
  PROVE  OneUser(u)'
  <1>1. \A n \in Holds : n # 0 => n \in DOMAIN pair
    <2>1. Holds \subseteq Known
      BY DEF Holds, TypeInv, PageType, CallState
    <2> QED
      BY <2>1, PairFacts DEF Known, TypeInv
  <1> QED
    BY <1>1, PairsStay DEF OneUser

\* Unless a login or logout crossed an answer, what the page holds is its user's.
LEMMA NextUser == TypeInv /\ TypeInv' /\ FlowInv /\ FlowInv' /\ UserInv /\ [Next]_vars => UserInv'
  <1> SUFFICES ASSUME TypeInv, TypeInv', FlowInv, FlowInv', UserInv, [Next]_vars, "crossed" \notin apart'
               PROVE  /\ \E u \in Users \cup {None} : OneUser(u)' /\ user' \in {None, u}
                      /\ user' = None /\ loading' = FALSE => \A c \in Calls : ~Active(c)'
                      /\ user' # None /\ token' = 0 => "refused" \in apart'
                      /\ user' = None /\ token' # 0 /\ loading' = FALSE => "unreached" \in apart'
    BY DEF UserInv
  <1> USE DEF service, history, page, pending
  <1> DEFINE Goal == /\ \E u \in Users \cup {None} : OneUser(u)' /\ user' \in {None, u}
                     /\ user' = None /\ loading' = FALSE => \A c \in Calls : ~Active(c)'
                     /\ user' # None /\ token' = 0 => "refused" \in apart'
                     /\ user' = None /\ token' # 0 /\ loading' = FALSE => "unreached" \in apart'
  <1>0. /\ PageType /\ call \in [Calls -> CallState] /\ loading \in BOOLEAN
        /\ ServiceType /\ Len(pair) \in Nat
    BY PairFacts DEF TypeInv, PageType
  <1>1. ASSUME "crossed" \notin apart
        PROVE  /\ \E u \in Users \cup {None} : OneUser(u) /\ user \in {None, u}
               /\ user = None /\ loading = FALSE => \A c \in Calls : ~Active(c)
               /\ user # None /\ token = 0 => "refused" \in apart
               /\ user = None /\ token # 0 /\ loading = FALSE => "unreached" \in apart
    BY <1>1 DEF UserInv
  <1>2. ASSUME NEW c \in Calls, Answered(c) PROVE Goal
    <2>1. Active(c) /\ "crossed" \notin apart /\ UNCHANGED <<token, refresh, apart>>
      BY <1>2 DEF Answered, Active
    <2>2. PICK u \in Users \cup {None} : OneUser(u) /\ user \in {None, u}
      BY <1>1, <2>1
    <2>3. call[c].token \in Holds /\ call[c].token # 0 /\ call[c].token \in Known
      <3>1. call[c].token > expired /\ expired \in Known
        BY <1>0, <1>2 DEF Answered, Valid, ServiceType
      <3> QED
        BY <1>0, <3>1 DEF CallState, Holds, Known
    <2>4. pair[call[c].token].user = u /\ u \in Users
      <3>1. call[c].token \in DOMAIN pair
        BY <1>0, <2>3, PairFacts DEF Known
      <3> QED
        BY <1>0, <2>2, <2>3, <3>1, PairFacts DEF OneUser
    <2>5. user' = IF call[c].kind \in {"boot", "me"} THEN u ELSE user
      BY <1>2, <2>4 DEF Answered
    <2>6. OneUser(u)'
      <3>1. \A d \in Calls : call'[d].token \in {call[d].token, token, 0}
        BY <1>0, <1>2 DEF Answered, Ask, Quiet
      <3>2. Holds' \subseteq Holds \cup {0}
        BY <2>1, <3>1 DEF Holds
      <3> QED
        BY <2>2, <3>2, HoldsLess
    <2>7. user' # None
      <3>1. CASE call[c].kind \in {"boot", "me"}
        BY <2>4, <2>5, <3>1, NoneIsNoUser
      <3>2. CASE call[c].kind \notin {"boot", "me"}
        BY <1>0, <1>1, <2>1, <2>5, <3>2, LoadingFacts
      <3> QED
        BY <3>1, <3>2
    <2>8. token = 0 => "refused" \in apart
      BY <1>0, <1>1, <2>1, <2>3, LoadingFacts
    <2> QED
      BY <2>1, <2>2, <2>5, <2>6, <2>7, <2>8
  <1>3. ASSUME NEW c \in Calls, Unauthorized(c) PROVE Goal
    <2>1. /\ Active(c) /\ "crossed" \notin apart /\ UNCHANGED <<user, apart>>
      BY <1>3 DEF Unauthorized, Active
    <2>2. PICK u \in Users \cup {None} : OneUser(u) /\ user \in {None, u}
      BY <1>1, <2>1
    <2>3. token' = 0 \/ token' = token
      BY <1>3 DEF Unauthorized
    <2>4. OneUser(u)'
      <3>1. \A d \in Calls : call'[d].token \in {call[d].token, 0}
        <4>1. call' = [call EXCEPT ![c] = Quiet] \/ call' = [call EXCEPT ![c] = [call[c] EXCEPT !.pc = "await"]]
          BY <1>0, <1>3 DEF Unauthorized, Await, Settle
        <4>2. [call[c] EXCEPT !.pc = "await"].token = call[c].token /\ Quiet.token = 0
          BY <1>0 DEF CallState, Quiet
        <4> QED
          BY <1>0, <4>1, <4>2
      <3>2. refresh' = refresh \/ refresh' = [pc |-> "read", with |-> token, got |-> 0]
        BY <1>3 DEF Unauthorized, Await
      <3>3. refresh'.with \in {refresh.with, token, 0} /\ refresh'.got \in {refresh.got, 0}
        BY <3>2
      <3>4. Holds' \subseteq Holds \cup {0}
        BY <2>3, <3>1, <3>3 DEF Holds
      <3> QED
        BY <2>2, <3>4, HoldsLess
    <2>5. CASE call[c].kind = "boot" /\ ~Refreshable(call[c])
      <3>1. /\ token' = 0 /\ \A d \in Calls \ {c} : call'[d] = call[d]
            /\ call'[c] = Quiet
        BY <1>0, <1>3, <2>5 DEF Unauthorized, Settle
      <3>2. user = None /\ \A d \in Calls \ {c} : ~Active(d)
        BY <1>0, <2>1, <2>5, LoadingFacts
      <3> QED
        BY <2>1, <2>2, <2>4, <3>1, <3>2 DEF Active, Quiet
    <2>6. CASE ~(call[c].kind = "boot" /\ ~Refreshable(call[c]))
      <3>1. UNCHANGED <<token, loading>>
        BY <1>3, <2>6 DEF Unauthorized
      <3>2. ~(user = None /\ loading = FALSE)
        BY <1>1, <2>1
      <3> QED
        BY <1>0, <1>1, <2>1, <2>2, <2>4, <3>1, <3>2
    <2> QED
      BY <2>5, <2>6
  <1>4. ASSUME NEW c \in Calls, RequestFails(c) PROVE Goal
    <2>1. /\ Active(c) /\ "crossed" \notin apart /\ UNCHANGED <<user, token, refresh>>
          /\ call' = [call EXCEPT ![c] = Quiet]
          /\ apart' = IF call[c].kind = "boot" THEN apart \cup {"unreached"} ELSE apart
          /\ loading' = IF call[c].kind = "boot" THEN FALSE ELSE loading
      BY <1>4 DEF RequestFails, Active, Settle
    <2>2. PICK u \in Users \cup {None} : OneUser(u) /\ user \in {None, u}
      BY <1>1, <2>1
    <2>4. OneUser(u)'
      <3>1. \A d \in Calls : call'[d].token \in {call[d].token, 0}
        BY <1>0, <2>1 DEF Quiet
      <3>4. Holds' \subseteq Holds \cup {0}
        BY <2>1, <3>1 DEF Holds
      <3> QED
        BY <2>2, <3>4, HoldsLess
    <2>5. CASE call[c].kind = "boot"
      <3>2. user = None /\ \A d \in Calls \ {c} : ~Active(d)
        BY <1>0, <2>1, <2>5, LoadingFacts
      <3> QED
        BY <1>0, <2>1, <2>2, <2>4, <2>5, <3>2 DEF Active, Quiet
    <2>6. CASE call[c].kind # "boot"
      <3>2. user # None
        BY <1>0, <1>1, <2>1, <2>6, LoadingFacts
      <3> QED
        BY <1>1, <2>1, <2>2, <2>4, <2>6, <3>2
    <2> QED
      BY <2>5, <2>6
  <1>5. ASSUME NEW c \in Calls, Reload(c) PROVE Goal
    <2>1. /\ call' = [d \in Calls |-> IF d = c THEN [Ask("boot") EXCEPT !.shown = FALSE] ELSE Quiet]
          /\ refresh' = NoRefresh /\ user' = None /\ loading' = TRUE /\ token' = token /\ pair' = pair
      BY <1>5 DEF Reload, Boot
    <2>2. \A d \in Calls : call'[d].token \in {0, token}
      BY <2>1 DEF Ask, Quiet
    <2>3. refresh'.with = 0 /\ refresh'.got = 0
      BY <2>1 DEF NoRefresh
    <2>4. Holds' \subseteq {0, token}
      BY <2>1, <2>2, <2>3 DEF Holds
    <2> DEFINE u == IF token = 0 THEN None ELSE pair[token].user
    <2>5. u \in Users \cup {None}
      BY <1>0, PairFacts DEF PageType, Known
    <2>6. OneUser(u)'
      BY <2>1, <2>4 DEF OneUser
    <2> QED
      BY <2>1, <2>5, <2>6
  <1>6. ASSUME NEW c \in Calls, SaveProfile(c) \/ OpenSessions(c) \/ LogoutOthers(c) PROVE Goal
    <2>1. /\ \E kind \in {"save", "list", "others"} : call' = [call EXCEPT ![c] = Ask(kind)]
          /\ UNCHANGED <<token, user, loading, refresh, apart>> /\ user # None
      BY <1>6 DEF SaveProfile, OpenSessions, LogoutOthers, Request
    <2>2. PICK u \in Users \cup {None} : OneUser(u) /\ user \in {None, u}
      BY <1>1, <2>1
    <2>3. \A d \in Calls : call'[d].token \in {call[d].token, token}
      BY <1>0, <2>1 DEF Ask
    <2>4. Holds' \subseteq Holds \cup {0}
      BY <2>1, <2>3 DEF Holds
    <2>5. OneUser(u)'
      BY <2>2, <2>4, HoldsLess
    <2> QED
      BY <1>1, <2>1, <2>2, <2>5
  <1>7. CASE RefreshReads \/ RefreshDeletes \/ RefreshBreaks
    <2>1. /\ refresh'.with = refresh.with /\ refresh'.got = refresh.got
          /\ UNCHANGED <<token, user, loading, call, apart>>
      BY <1>0, <1>7 DEF RefreshReads, RefreshDeletes, RefreshBreaks, PageType
    <2>2. PICK u \in Users \cup {None} : OneUser(u) /\ user \in {None, u}
      BY <1>1, <2>1
    <2>4. Holds' \subseteq Holds \cup {0}
      BY <2>1 DEF Holds
    <2>5. OneUser(u)'
      BY <2>2, <2>4, HoldsLess
    <2> QED
      BY <1>0, <1>1, <2>1, <2>2, <2>5 DEF Active
  <1>8. CASE RefreshIssues
    <2>1. /\ refresh'.with = refresh.with /\ refresh'.got = Len(pair) + 1
          /\ UNCHANGED <<token, user, loading, call, apart>>
      BY <1>0, <1>8 DEF RefreshIssues, PageType
    <2>2. PICK u \in Users \cup {None} : OneUser(u) /\ user \in {None, u}
      BY <1>1, <2>1
    <2>3. refresh.with \in DOMAIN pair /\ refresh.with \in Holds /\ refresh.with # 0
      BY <1>0, <1>8, PairFacts DEF RefreshIssues, PageType, Known, Holds
    <2>4. pair[refresh.with].user = u /\ u \in Users /\ Session(refresh.with) \in Known
      BY <1>0, <2>2, <2>3, PairFacts DEF OneUser, Known
    <2>5. pair'[Len(pair) + 1].user = u
      <3>1. Issue(u, Session(refresh.with))
        BY <1>8, <2>4 DEF RefreshIssues
      <3> PICK s \in Known : s = Session(refresh.with)
        BY <2>4
      <3>2. pair'[Len(pair) + 1] = [user |-> u, session |-> IF s = 0 THEN Len(pair) + 1 ELSE s]
        BY <1>0, <2>4, <3>1, IssueFacts
      <3> QED
        BY <3>2
    <2>6. Holds' \subseteq Holds \cup {Len(pair) + 1}
      BY <2>1 DEF Holds
    <2>7. Holds \subseteq Known
      BY <1>0 DEF Holds, PageType, CallState
    <2>8. \A n \in Holds : n # 0 => n \in DOMAIN pair
      BY <1>0, <2>7, PairFacts DEF Known
    <2>9. OneUser(u)'
      BY <2>2, <2>5, <2>6, <2>8, PairsStay DEF OneUser
    <2> QED
      BY <1>0, <1>1, <2>1, <2>2, <2>9 DEF Active
  <1>9. CASE RefreshAnswered
    <2>1. /\ \A c \in Calls : IF call[c].pc = "await"
                             THEN call'[c] = [call[c] EXCEPT !.pc = "again", !.token = refresh.got]
                             ELSE call'[c] = call[c]
          /\ refresh.pc = "answer" /\ token' = refresh.got /\ refresh' = NoRefresh
          /\ UNCHANGED <<user, loading, apart>>
      BY <1>9 DEF RefreshAnswered
    <2>2. PICK u \in Users \cup {None} : OneUser(u) /\ user \in {None, u}
      BY <1>1, <2>1
    <2>3. \A c \in Calls : call'[c].token \in {call[c].token, refresh.got}
      BY <1>0, <2>1 DEF CallState
    <2>4. refresh'.with = 0 /\ refresh'.got = 0
      BY <2>1 DEF NoRefresh
    <2>5. Holds' \subseteq Holds \cup {0}
      BY <2>1, <2>3, <2>4 DEF Holds
    <2>6. OneUser(u)'
      BY <2>2, <2>5, HoldsLess
    <2>7. PICK w \in Calls : Active(w)
      BY <2>1 DEF FlowInv, Active
    <2>8. token' # 0 /\ ~(user = None /\ loading = FALSE)
      BY <1>0, <1>1, <2>1, <2>7 DEF PageType
    <2> QED
      BY <1>0, <2>1, <2>2, <2>6, <2>8
  <1>10. CASE RefreshRefused
    <2>1. /\ \A c \in Calls : call'[c] = IF call[c].pc = "await" THEN Quiet ELSE call[c]
          /\ refresh.pc = "refused" /\ token' = 0 /\ refresh' = NoRefresh /\ user' = user
          /\ apart' = apart \cup {"refused"}
          /\ loading' = IF \E c \in Calls : call[c].pc = "await" /\ call[c].kind = "boot" THEN FALSE ELSE loading
      BY <1>10 DEF RefreshRefused
    <2>2. PICK u \in Users \cup {None} : OneUser(u) /\ user \in {None, u}
      BY <1>1, <2>1
    <2>3. \A c \in Calls : call'[c].token \in {call[c].token, 0}
      BY <2>1 DEF Quiet
    <2>4. refresh'.with = 0 /\ refresh'.got = 0
      BY <2>1 DEF NoRefresh
    <2>5. Holds' \subseteq Holds \cup {0}
      BY <2>1, <2>3, <2>4 DEF Holds
    <2>6. OneUser(u)'
      BY <2>2, <2>5, HoldsLess
    <2>7. PICK w \in Calls : call[w].pc = "await"
      BY <2>1 DEF FlowInv
    <2>8. user = None => loading = TRUE /\ \A d \in Calls \ {w} : ~Active(d)
      BY <1>0, <1>1, <2>1, <2>7, LoadingFacts DEF Active
    <2>9. user = None => \A c \in Calls : ~Active(c)'
      BY <2>1, <2>7, <2>8 DEF Active, Quiet
    <2> QED
      BY <2>1, <2>2, <2>6, <2>9
  <1>11. ASSUME ~Outstanding
         PROVE  /\ refresh.with = 0 /\ refresh.got = 0 /\ \A c \in Calls : call[c].token = 0 /\ ~Active(c)
    BY <1>11 DEF Outstanding, FlowInv, Active
  <1>12. CASE LoggedIn
    <2>1. /\ ~Outstanding /\ token' = Len(pair) + 1 /\ user' = auth.user /\ UNCHANGED <<call, refresh>>
          /\ auth.user \in Users /\ Issue(auth.user, 0) /\ 0 \in Known
      BY <1>0, <1>12 DEF LoggedIn, Renewed, PageType, Known
    <2>2. Holds' \subseteq {0, Len(pair) + 1}
      BY <1>11, <2>1 DEF Holds
    <2> PICK u \in Users : u = auth.user
      BY <2>1
    <2>3. pair'[Len(pair) + 1].user = u
      <3>1. \E s : pair'[Len(pair) + 1] = [user |-> u, session |-> s]
        BY <1>0, <2>1, IssueFacts
      <3> QED
        BY <3>1
    <2>4. OneUser(u)'
      BY <2>2, <2>3 DEF OneUser
    <2>5. Len(pair) + 1 # 0 /\ user' = u /\ u # None
      BY <1>0, <2>1, NoneIsNoUser
    <2> QED
      BY <2>1, <2>4, <2>5
  <1>13. CASE LoggedOut
    <2>1. /\ ~Outstanding /\ token' = 0 /\ user' = None /\ refresh' = refresh
          /\ \A c \in Calls : call'[c] = [call[c] EXCEPT !.shown = FALSE]
      BY <1>13 DEF LoggedOut, Renewed, Leave
    <2>2. \A c \in Calls : call'[c].token = 0 /\ ~Active(c)'
      BY <1>0, <1>11, <2>1 DEF Active, CallState
    <2>3. Holds' \subseteq {0}
      BY <1>11, <2>1, <2>2 DEF Holds
    <2>4. OneUser(None)'
      BY <2>3 DEF OneUser
    <2> QED
      BY <2>1, <2>2, <2>4
  <1>14. ASSUME Registered \/ Refused \/ LoginFails \/ Logout \/ RevokeDeletes \/ UNCHANGED vars
                \/ (\E u \in Users : Login(u) \/ Register(u))
                \/ (\E n \in DOMAIN pair : AccessTokenExpires(n)) \/ (\E s \in Pairs : RevokeReads(s))
         PROVE  Goal
    <2>1. UNCHANGED <<token, user, loading, call, refresh, apart>>
      BY <1>14 DEF Registered, Refused, LoginFails, Logout, Login, Register, Submit, AccessTokenExpires,
                   RevokeReads, RevokeDeletes, vars
    <2>2. PICK u \in Users \cup {None} : OneUser(u) /\ user \in {None, u}
      BY <1>1, <2>1
    <2>3. Holds' = Holds
      BY <2>1 DEF Holds
    <2>4. OneUser(u)'
      BY <2>2, <2>3, HoldsLess
    <2> QED
      BY <1>0, <1>1, <2>1, <2>2, <2>4 DEF Active
  <1> QED
    BY <1>2, <1>3, <1>4, <1>5, <1>6, <1>7, <1>8, <1>9, <1>10, <1>12, <1>13, <1>14 DEF Next, Exchange, Refresh

-----------------------------------------------------------------------------
\* A page nobody has signed in to.
LEMMA InitSession == Init => SInv
  <1> SUFFICES ASSUME Init PROVE SInv
    OBVIOUS
  <1>1. Len(pair) = 0 /\ Known = {0} /\ DOMAIN pair = {}
    BY DEF Init, Known
  <1>2. ServiceType
    BY <1>1, BoundsAreNat DEF Init, ServiceType, NoRevoker
  <1>3. PageType
    <2>1. Quiet \in CallState
      BY <1>1 DEF Quiet, CallState
    <2>2. call \in [Calls -> CallState]
      BY <2>1 DEF Init
    <2>3. /\ refresh \in [pc : {"none", "read", "delete", "issue", "answer", "refused"},
                          with : Known, got : Known]
          /\ refresh.pc = "none"
      BY <1>1 DEF Init, NoRefresh
    <2>4. /\ auth \in [pc : {"none", "register", "login", "logout"}, user : Users \cup {None}, with : Known]
          /\ auth.pc = "none"
      BY <1>1 DEF Init, NoAuth
    <2>5. token \in Known /\ user = None /\ loading = FALSE /\ sent = {} /\ ended = {}
      BY <1>1 DEF Init
    <2> QED
      BY <2>2, <2>3, <2>4, <2>5 DEF PageType
  <1>4. KeyInv /\ EndInv /\ SentInv
    BY DEF Init, KeyInv, EndInv, SentInv, NoRefresh, NoRevoker
  <1>5. \A c \in Calls : call[c].pc = "none" /\ call[c].token = 0
    BY DEF Init, Quiet
  <1>6. FlowInv
    BY <1>5 DEF Init, FlowInv, NoRefresh, Active
  <1>7. UserInv
    <2>1. Holds \subseteq {0}
      BY <1>5 DEF Init, Holds, NoRefresh
    <2>2. OneUser(None)
      BY <2>1 DEF OneUser
    <2>3. user = None /\ token = 0
      BY DEF Init
    <2> QED
      BY <1>5, <2>2, <2>3 DEF UserInv, Active
  <1> QED
    BY <1>2, <1>3, <1>4, <1>6, <1>7 DEF SInv, TypeInv

\* The invariant holds in every state of the page and the service.
LEMMA SessionInductive == Spec => []SInv
  <1>1. SInv /\ [Next]_vars => SInv'
    <2> SUFFICES ASSUME SInv, [Next]_vars PROVE SInv'
      OBVIOUS
    <2>1. TypeInv'
      BY NextService, NextPage DEF SInv, TypeInv
    <2>2. KeyInv' /\ EndInv' /\ SentInv' /\ FlowInv'
      BY <2>1, NextKeys, NextEnded, NextSent, NextFlow DEF SInv
    <2>3. UserInv'
      BY <2>1, <2>2, NextUser DEF SInv
    <2> QED
      BY <2>1, <2>2, <2>3 DEF SInv
  <1> QED
    BY InitSession, <1>1, PTL DEF Spec

\* A session ended at rest is over, whatever refreshes, logouts and other devices do
\* at once: no step can give it a refresh token again (service.go:94-162, :333-338).
THEOREM EndedForGood == Spec => []EndedStaysEnded
  <1>1. SInv => EndedStaysEnded
    BY DEF SInv, EndInv, EndedStaysEnded
  <1> QED
    BY SessionInductive, <1>1, PTL

\* However many requests are refused together, the page spends a refresh token once
\* (api.ts:127-150).
THEOREM TokenSpentOnce == Spec => RefreshedOnce
  <1>1. SInv /\ [Next]_vars => [refresh'.pc = "read" /\ refresh' # refresh => refresh'.with \notin sent]_vars
    <2> SUFFICES ASSUME SInv, Next, refresh'.pc = "read", refresh' # refresh PROVE refresh'.with \notin sent
      BY DEF vars
    <2> USE DEF service, history, page, pending
    <2>0. PageType
      BY DEF SInv, TypeInv
    <2>1. ASSUME NEW c \in Calls, Unauthorized(c) PROVE refresh'.with \notin sent
      <3>1. refresh.pc = "none" /\ refresh' = [pc |-> "read", with |-> token, got |-> 0]
        BY <2>1 DEF Unauthorized, Await
      <3> QED
        BY <3>1 DEF SInv, SentInv
    <2>2. ASSUME NEW c \in Calls, Reload(c) PROVE FALSE
      BY <2>2 DEF Reload, Boot, NoRefresh
    <2>3. ASSUME RefreshAnswered \/ RefreshRefused PROVE FALSE
      <3>1. refresh' = NoRefresh
        BY <2>3 DEF RefreshAnswered, RefreshRefused
      <3> QED
        BY <3>1 DEF NoRefresh
    <2>4. ASSUME RefreshReads \/ RefreshDeletes \/ RefreshBreaks \/ RefreshIssues PROVE FALSE
      BY <2>0, <2>4 DEF RefreshReads, RefreshDeletes, RefreshBreaks, RefreshIssues, PageType
    <2>5. ASSUME NEW c \in Calls,
                 Answered(c) \/ RequestFails(c) \/ SaveProfile(c) \/ OpenSessions(c) \/ LogoutOthers(c)
          PROVE  FALSE
      BY <2>5 DEF Answered, RequestFails, SaveProfile, OpenSessions, LogoutOthers, Request
    <2>6. ASSUME NEW u \in Users, Login(u) \/ Register(u) PROVE FALSE
      BY <2>6 DEF Login, Register, Submit
    <2>7. ASSUME Registered \/ Refused \/ LoggedIn \/ LoginFails \/ Logout \/ LoggedOut \/ RevokeDeletes
                 \/ (\E n \in DOMAIN pair : AccessTokenExpires(n)) \/ (\E s \in Pairs : RevokeReads(s))
          PROVE  FALSE
      BY <2>7 DEF Registered, Refused, LoggedIn, LoginFails, Logout, LoggedOut, RevokeDeletes,
                  AccessTokenExpires, RevokeReads
    <2> QED
      BY <2>1, <2>2, <2>3, <2>4, <2>5, <2>6, <2>7 DEF Next, Exchange, Refresh
  <1> QED
    BY SessionInductive, <1>1, PTL DEF Spec, RefreshedOnce

\* The user shown is the one whose tokens the page holds, but for the three reasons
\* the code has for them to part (auth-context.tsx:38-89, api.ts:73-99).
THEOREM PageShowsItsUser == Spec => []SessionAgrees
  <1>1. SInv => SessionAgrees
    <2> SUFFICES ASSUME SInv PROVE SessionAgrees
      OBVIOUS
    <2>0. ServiceType /\ PageType /\ FlowInv /\ UserInv
      BY DEF SInv, TypeInv
    <2>1. Len(pair) \in Nat /\ DOMAIN pair = 1..Len(pair) /\ DOMAIN pair \subseteq Pairs
      BY <2>0, PairFacts
    <2>2. Known \subseteq 0..MaxPairs
      BY <2>0, <2>1, BoundsAreNat DEF Known, ServiceType
    <2>3. WellFormed
      <3>1. /\ pair \in Seq([user : Users, session : Pairs])
            /\ keyed \subseteq Pairs /\ expired \in 0..MaxPairs /\ sent \subseteq Pairs
            /\ \A n \in DOMAIN pair : pair[n].user \in accounts
        BY <2>0, <2>1, <2>2 DEF ServiceType, PageType
      <3>2. record \in [Pairs -> 0..MaxPairs]
        BY <2>0, <2>2 DEF ServiceType
      <3>3. token \in 0..Len(pair) /\ user \in Users \cup {None}
        BY <2>0 DEF PageType, Known
      <3>4. call \in [Calls -> [pc : {"none", "sent", "await", "again"},
                               kind : {"boot", "save", "me", "list", "others"},
                               token : 0..MaxPairs, shown : BOOLEAN]]
        BY <2>0, <2>2 DEF PageType, CallState
      <3>5. refresh.pc = "none" => \A c \in Calls : call[c].pc # "await"
        BY <2>0 DEF FlowInv
      <3> QED
        BY <3>1, <3>2, <3>3, <3>4, <3>5 DEF WellFormed
    <2>4. ASSUME user # None, token # 0, "crossed" \notin apart PROVE pair[token].user = user
      BY <2>0, <2>4 DEF UserInv, OneUser, Holds
    <2>5. ASSUME user # None, token = 0 PROVE apart \cap {"crossed", "refused"} # {}
      BY <2>0, <2>5 DEF UserInv
    <2>6. ASSUME user = None, token # 0, ~loading PROVE apart \cap {"crossed", "unreached"} # {}
      <3>1. loading = FALSE
        BY <2>0, <2>6 DEF PageType
      <3> QED
        BY <2>0, <2>6, <3>1 DEF UserInv
    <2> QED
      BY <2>3, <2>4, <2>5, <2>6 DEF SessionAgrees
  <1> QED
    BY SessionInductive, <1>1, PTL
=============================================================================
