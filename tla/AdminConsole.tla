----------------------------- MODULE AdminConsole -----------------------------
(***************************************************************************)
(* One browser tab of the admin console (frontend/app/admin and            *)
(* lib/admin-api.ts) and what the API answers it (app/admin/service.go,    *)
(* the retry jobs and the configuration of app/ai).  Every page starts by  *)
(* asking who the admin is, and by the answer stays, or sends the admin to *)
(* the login form or to the form for the new password.  A page that was    *)
(* left goes on with what it had begun, and may still move the tab.        *)
(*                                                                         *)
(* "report" stands for the three pages with a full page load for a         *)
(* redirect: the audit list and the diagnostics of a message and of a      *)
(* conversation.                                                           *)
(***************************************************************************)
EXTENDS Naturals, FiniteSets

CONSTANTS
    Jobs,      \* the retry jobs of the AI bot
    Slots,     \* bound: the requests under way at once
    MaxLogins, \* bound: tokens issued to this tab
    MaxMoves,  \* bound: links followed, pages reloaded, requests clicked
    MaxEdits,  \* bound: texts typed over one another
    MaxFaults  \* bound: failing requests, expired tokens, changes made elsewhere

\* A page always has room for its first request.
ASSUME SlotsExist == Slots # {}

ASSUME BoundsAreNat == {MaxLogins, MaxMoves, MaxEdits, MaxFaults} \subseteq Nat

VARIABLES
    must,    \* admin_users.must_change_password
    alive,   \* the tokens the API accepts
    jobs,    \* the status of every retry job
    stored,  \* config/ai.yaml: which text it holds
    token,   \* the token in sessionStorage and in the module, 0 for none
    page,    \* the page on screen and what it shows
    ai,      \* the state of the AI page
    calls,   \* the requests under way, of this page and of those left
    timers,  \* the intervals running for the monitor page
    logins,  \* tokens issued
    moves,   \* moves of the user so far
    faults,  \* faults so far
    slipped, \* something befell the tab since the page on screen was opened (history)
    strays   \* intervals set by a monitor page that had been left (history)

server == <<must, alive, jobs, stored, logins>>
budget == <<moves, faults>>
consoleVars == <<server, token, page, ai, calls, timers, budget, slipped, strays>>

Pages == {"login", "force", "home", "ai", "monitor", "report"}
Loaders == {"ai", "monitor", "report"}
Filters == {"all", "pending", "completed", "exhausted"}
Over == {"completed", "exhausted"}
Status == Over \cup {"pending"}
Row == [job : Jobs, status : Status]

\* here: the page that sent it is still on screen.  clears: when a cleanup was
\* clicked, the detail shown was of a status to be cleaned up.  sole: when a save
\* was clicked, no save of a page left was under way (history).  got: the rows of a
\* list, or the row of a detail.
NoCall == [kind |-> "none", page |-> "login", here |-> FALSE, tok |-> 0, reply |-> "none",
           filter |-> "all", ids |-> {}, clears |-> FALSE, sole |-> FALSE, got |-> {}, text |-> 0]

FreshAI == [filter |-> "all", rows |-> {}, fresh |-> TRUE, detail |-> {}, form |-> 0, clean |-> FALSE]

\* Slots differ in nothing: which free one a request takes does not matter.
Free == LET free == {s \in Slots : calls[s].kind = "none"}
        IN IF free = {} THEN {} ELSE {CHOOSE s \in free : TRUE}
Mine(kinds) == {s \in Slots : calls[s].here /\ calls[s].kind \in kinds}
On(p) == page = [at |-> p, phase |-> "shown"]

Move == moves < MaxMoves /\ moves' = moves + 1 /\ UNCHANGED faults
Failure == faults < MaxFaults /\ faults' = faults + 1 /\ UNCHANGED moves

(***************************************************************************)
(* request of admin-api.ts, and the pages' first request                   *)
(***************************************************************************)
Request(k, p) == [NoCall EXCEPT !.kind = k, !.page = p, !.here = TRUE, !.tok = token]

Send(s, c) == calls' = [calls EXCEPT ![s] = c]

\* A 401 of a request with a token drops the token, whichever it is by now.
TokenAfter(c) == IF c.reply = "refused" /\ c.kind # "login" THEN 0 ELSE token

\* The cleanup of the monitor page ends its interval, if it has been set.
TimersAfterLeaving(hard) ==
    IF hard THEN 0 ELSE IF On("monitor") THEN timers - 1 ELSE timers

\* Page p opens in place of the page on screen: initAdminToken, then getAdminMe in
\* slot s.  hard: the whole page is loaded anew, and nothing of the former goes on.
Open(s, p, tk, hard) ==
    /\ token' = tk
    /\ page' = [at |-> p, phase |-> "boot"]
    /\ ai' = FreshAI
    /\ calls' = [x \in Slots |->
                    IF x = s THEN [Request("me", p) EXCEPT !.tok = tk]
                    ELSE IF hard THEN NoCall ELSE [calls[x] EXCEPT !.here = FALSE]]
    /\ timers' = TimersAfterLeaving(hard)
    /\ strays' = IF hard THEN 0 ELSE strays
    /\ slipped' = FALSE

Hard(p) == p = "report"

ConsoleInit ==
    /\ must \in BOOLEAN
    /\ alive \in {{}, {1}}
    /\ jobs \in [Jobs -> Status]
    /\ stored = 0
    /\ logins = 1
    /\ token \in {0, 1}
    /\ \E p \in Pages : page = [at |-> p, phase |-> "boot"]
    /\ ai = FreshAI
    /\ calls = [s \in Slots |->
                   IF s = CHOOSE x \in Slots : TRUE THEN Request("me", page.at) ELSE NoCall]
    /\ timers = 0 /\ strays = 0 /\ moves = 0 /\ faults = 0 /\ slipped = FALSE

(***************************************************************************)
(* The API                                                                 *)
(***************************************************************************)
\* Middleware(true) guards everything but /auth.
Verdict(c) ==
    IF c.tok \notin alive THEN "refused"
    ELSE IF c.kind = "me" THEN (IF must THEN "must" ELSE "ok")
    ELSE IF must THEN "forbidden" ELSE "ok"

Reply(s, c) == calls' = [calls EXCEPT ![s] = c]
Waiting(s, kinds) == calls[s].kind \in kinds /\ calls[s].reply = "none"
TabWaits == UNCHANGED <<token, page, ai, timers, slipped, strays>>

ServeMe(s) ==
    /\ Waiting(s, {"me"})
    /\ Reply(s, [calls[s] EXCEPT !.reply = Verdict(calls[s])])
    /\ UNCHANGED <<server, budget>> /\ TabWaits

\* Service.Login.  A wrong name or password is a 401 for which no token is dropped.
ServeLogin(s) ==
    /\ Waiting(s, {"login"})
    /\ \/ /\ logins < MaxLogins
          /\ logins' = logins + 1
          /\ alive' = alive \cup {logins + 1}
          /\ Reply(s, [calls[s] EXCEPT !.reply = IF must THEN "must" ELSE "ok", !.tok = logins + 1])
       \/ /\ Reply(s, [calls[s] EXCEPT !.reply = "refused"])
          /\ UNCHANGED <<logins, alive>>
    /\ UNCHANGED <<must, jobs, stored, budget>> /\ TabWaits

\* Service.ChangePassword.  A wrong current password is a 401 too.
ServeChange(s) ==
    /\ Waiting(s, {"change"})
    /\ \/ /\ calls[s].tok \in alive
          /\ must' = FALSE
          /\ Reply(s, [calls[s] EXCEPT !.reply = "ok"])
       \/ /\ must' = must
          /\ Reply(s, [calls[s] EXCEPT !.reply = "refused"])
    /\ UNCHANGED <<alive, jobs, stored, logins, budget>> /\ TabWaits

Listing(f) == {[job |-> j, status |-> jobs[j]] :
                  j \in {i \in Jobs : jobs[i] \in Status /\ (f = "all" \/ jobs[i] = f)}}

\* What the first load of a page, the poll, the audit list and the message lookup read
\* is left out, but for the AI page's: its jobs and its configuration.  The rebuilding
\* of the search index is left out too.
ServeRead(s) ==
    /\ Waiting(s, {"load", "poll", "logs", "log", "reindex", "resolve", "list", "detail"})
    /\ LET c == calls[s]
           gone == c.kind = "detail" /\ \E j \in c.ids : jobs[j] = "gone"
       IN Reply(s, [c EXCEPT
            !.reply = IF Verdict(c) = "ok" /\ gone THEN "error" ELSE Verdict(c),
            !.got = IF Verdict(c) # "ok" \/ gone \/ c.page # "ai" THEN {}
                    ELSE IF c.kind = "detail" THEN {r \in Listing("all") : r.job \in c.ids}
                    ELSE Listing(c.filter),
            !.text = IF c.page = "ai" THEN stored ELSE 0])
    /\ UNCHANGED <<server, budget>> /\ TabWaits

\* RetryJobNow, RetryJobs and CleanupRetryJobs: a job that was deleted stays deleted,
\* which only RetryJobNow looks at.
ServeJobs(s) ==
    /\ Waiting(s, {"retry", "batch", "cleanup"})
    /\ LET c == calls[s]
           gone == c.kind = "retry" /\ \E j \in c.ids : jobs[j] = "gone"
           done == Verdict(c) = "ok" /\ ~gone
       IN /\ Reply(s, [c EXCEPT !.reply = IF gone /\ Verdict(c) = "ok" THEN "error" ELSE Verdict(c)])
          /\ jobs' = [j \in Jobs |->
                IF done /\ c.kind # "cleanup" /\ j \in c.ids /\ jobs[j] # "gone" THEN "pending"
                ELSE IF done /\ c.kind = "cleanup" /\ jobs[j] \in Over THEN "gone"
                ELSE jobs[j]]
    /\ UNCHANGED <<must, alive, stored, logins, budget>> /\ TabWaits

ServeSave(s) ==
    /\ Waiting(s, {"save"})
    /\ Reply(s, [calls[s] EXCEPT !.reply = Verdict(calls[s])])
    /\ stored' = IF Verdict(calls[s]) = "ok" THEN calls[s].text ELSE stored
    /\ UNCHANGED <<must, alive, jobs, logins, budget>> /\ TabWaits

\* The request fails on its way, or the service behind it.
ServeNothing(s) ==
    /\ calls[s].kind # "none" /\ calls[s].reply = "none"
    /\ Failure
    /\ Reply(s, [calls[s] EXCEPT !.reply = "error"])
    /\ slipped' = TRUE
    /\ UNCHANGED <<server, token, page, ai, timers, strays>>

\* processRetryJobs settles a job.
JobEnds(j) ==
    /\ jobs[j] = "pending"
    /\ \E st \in Over : jobs' = [jobs EXCEPT ![j] = st]
    /\ UNCHANGED <<must, alive, stored, logins, calls, budget>> /\ TabWaits

\* Twelve hours pass, or the admin sets the password in another tab.
Elsewhere ==
    /\ Failure
    /\ \/ \E t \in alive : alive' = alive \ {t} /\ UNCHANGED must
       \/ must /\ must' = FALSE /\ UNCHANGED alive
    /\ slipped' = TRUE
    /\ UNCHANGED <<jobs, stored, logins, token, page, ai, calls, timers, strays>>

(***************************************************************************)
(* The first answer of a page                                              *)
(***************************************************************************)
Denied == {"refused", "forbidden", "error"}

\* The effects of the login page, of the password page and of the others.
LoginTo(reply) == IF reply \in Denied THEN "stay" ELSE IF reply = "must" THEN "force" ELSE "home"
ForceTo(reply) == IF reply \in Denied THEN "login" ELSE IF reply = "must" THEN "stay" ELSE "home"
PageTo(reply) == IF reply \in Denied THEN "login" ELSE IF reply = "must" THEN "force" ELSE "stay"

\* Mutant of Destination: the home page looks at no must_change_password.
DestinationUnchecked(p, reply) ==
    CASE p = "login" -> LoginTo(reply)
      [] p = "force" -> ForceTo(reply)
      [] OTHER -> IF reply \in Denied THEN "login" ELSE "stay"

\* Mutant of Destination: the login page takes a token for a session that may enter.
DestinationLoops(p, reply) ==
    CASE p = "login" -> IF reply \in Denied THEN "stay" ELSE "home"
      [] p = "force" -> ForceTo(reply)
      [] OTHER -> IF reply = "ok" THEN "stay" ELSE "login"

\* Where page p goes by the answer about the admin.
Destination(p, reply) == CASE p = "login" -> LoginTo(reply)
                           [] p = "force" -> ForceTo(reply)
                           [] OTHER -> PageTo(reply)

Answered(s, kinds) == calls[s].kind \in kinds /\ calls[s].reply # "none"
End(s) == calls' = [calls EXCEPT ![s] = NoCall]
Slip(c) == slipped' = (slipped \/ (c.reply = "refused" /\ c.kind # "login"))

\* The effect of every page: away, on to the page's data, or shown.
MeAnswered(s) ==
    /\ Answered(s, {"me"})
    /\ LET c == calls[s]
           to == Destination(c.page, c.reply)
       IN \/ to # "stay" /\ Open(s, to, TokenAfter(c), Hard(c.page))
          \/ /\ to = "stay" /\ c.page \in Loaders
             /\ Send(s, [Request("load", c.page) EXCEPT !.here = c.here])
             /\ UNCHANGED <<token, page, ai, timers, strays, slipped>>
          \/ /\ to = "stay" /\ c.page \notin Loaders
             /\ End(s)
             /\ page' = IF c.here THEN [page EXCEPT !.phase = "shown"] ELSE page
             /\ token' = TokenAfter(c)
             /\ slipped' = IF c.here /\ c.page = "login" THEN slipped
                           ELSE slipped \/ c.reply = "refused"
             /\ UNCHANGED <<ai, timers, strays>>
    /\ UNCHANGED <<server, budget>>

\* The page's data came, or the page gives up.  The monitor page sets its
\* interval even when it was left meanwhile.
LoadAnswered(s) ==
    /\ Answered(s, {"load"})
    /\ LET c == calls[s]
       IN \/ c.reply # "ok" /\ Open(s, "login", TokenAfter(c), Hard(c.page))
          \/ /\ c.reply = "ok"
             /\ End(s)
             /\ page' = IF c.here THEN [page EXCEPT !.phase = "shown"] ELSE page
             /\ ai' = IF c.here /\ c.page = "ai"
                      THEN [ai EXCEPT !.rows = c.got, !.form = c.text] ELSE ai
             /\ timers' = IF c.page = "monitor" THEN timers + 1 ELSE timers
             /\ strays' = IF c.page = "monitor" /\ ~c.here THEN strays + 1 ELSE strays
             /\ UNCHANGED <<token, slipped>>
    /\ UNCHANGED <<server, budget>>

(***************************************************************************)
(* The forms, the home page, the monitor page                              *)
(***************************************************************************)
\* A link or a reload.
Visit(p) ==
    /\ Move
    /\ \E s \in Free, hard \in BOOLEAN : Open(s, p, token, hard)
    /\ UNCHANGED server

\* A button of page p that sends a request; it is disabled while one of `with` runs.
Click(p, with, c) ==
    /\ On(p) /\ Mine(with) = {}
    /\ Move
    /\ \E s \in Free : Send(s, c)
    /\ UNCHANGED <<server, token, page, timers, slipped, strays>>

SubmitLogin == Click("login", {"login"}, Request("login", "login")) /\ UNCHANGED ai
SubmitPassword == Click("force", {"change"}, Request("change", "force")) /\ UNCHANGED ai
ResolveMessage == Click("home", {"resolve"}, Request("resolve", "home")) /\ UNCHANGED ai
Reindex == Click("home", {"reindex"}, Request("reindex", "home")) /\ UNCHANGED ai

\* load of the audit page, by its button or a row: nothing is disabled meanwhile.
LoadAudit == Click("report", {}, Request("logs", "report")) /\ UNCHANGED ai

Logout ==
    /\ On("home")
    /\ Move
    /\ \E s \in Free : Open(s, "login", 0, FALSE)
    /\ UNCHANGED server

LoginAnswered(s) ==
    /\ Answered(s, {"login"})
    /\ LET c == calls[s]
       IN \/ /\ c.reply \in {"ok", "must"}
             /\ Open(s, Destination("login", c.reply), c.tok, FALSE)
          \/ /\ c.reply \notin {"ok", "must"}
             /\ End(s)
             /\ UNCHANGED <<token, page, ai, timers, slipped, strays>>
    /\ UNCHANGED <<server, budget>>

\* The new password is set, or the message found: on to the next page, also when
\* the page that asked was left.
OnwardAnswered(s) ==
    /\ Answered(s, {"change", "resolve"})
    /\ LET c == calls[s]
       IN \/ /\ c.reply = "ok"
             /\ Open(s, IF c.kind = "change" THEN "home" ELSE "report", token, FALSE)
          \/ /\ c.reply # "ok"
             /\ End(s) /\ token' = TokenAfter(c) /\ Slip(c)
             /\ UNCHANGED <<page, ai, timers, strays>>
    /\ UNCHANGED <<server, budget>>

Poll ==
    /\ timers > 0
    /\ \A s \in Slots : calls[s].kind # "poll"
    /\ \E s \in Free : Send(s, Request("poll", "monitor"))
    /\ UNCHANGED <<server, token, page, ai, timers, budget, slipped, strays>>

\* A failing poll, audit log or rebuilding is left at that: nothing catches it.
PollAnswered(s) ==
    /\ Answered(s, {"poll", "log", "reindex"})
    /\ End(s) /\ token' = TokenAfter(calls[s]) /\ Slip(calls[s])
    /\ UNCHANGED <<server, page, ai, timers, budget, strays>>

\* The rows of the audit list, then the detail of the row asked for or of the first
\* row, if there is one.
AuditAnswered(s) ==
    /\ Answered(s, {"logs"})
    /\ LET c == calls[s]
       IN /\ token' = TokenAfter(c) /\ Slip(c)
          /\ \/ End(s)
             \/ c.reply = "ok" /\ Send(s, [Request("log", "report") EXCEPT !.here = c.here])
    /\ UNCHANGED <<server, page, ai, timers, budget, strays>>

(***************************************************************************)
(* The AI page                                                             *)
(***************************************************************************)
JobCalls == {"retry", "batch", "cleanup", "list"}

\* Mutant of ListCall: the refresh asks by the filter of the last rendering.
ListCallOfLast(f) == [Request("list", "ai") EXCEPT !.filter = ai.filter]

\* loadRetryJobs(status)
ListCall(f) == [Request("list", "ai") EXCEPT !.filter = f]

\* handleRefreshJobs, by its own button or by one of the filters.
RefreshJobs(f) ==
    /\ Click("ai", JobCalls, ListCall(f))
    /\ ai' = [ai EXCEPT !.filter = f]

\* retryAIJobNow, retryAIJobs, cleanupAIRetryJobs; the listing that follows is by the
\* filter of this rendering.
JobCall(k, ids) == [Request(k, "ai") EXCEPT !.ids = ids, !.filter = ai.filter]

\* The jobs with a button to retry them, in the list or in the detail card.
Retryable == {r.job : r \in ai.rows \cup ai.detail}

\* handleRetryJob
RetryJob == \E j \in Retryable : Click("ai", JobCalls, JobCall("retry", {j})) /\ UNCHANGED ai

\* handleRetryVisibleJobs
RetryVisibleJobs ==
    LET settled == {r.job : r \in {x \in ai.rows : x.status # "pending"}} IN
    /\ settled # {}
    /\ Click("ai", JobCalls, JobCall("batch", settled))
    /\ UNCHANGED ai

\* handleCleanupJobs
CleanupJobs ==
    /\ Click("ai", JobCalls, [JobCall("cleanup", {}) EXCEPT
                !.clears = \E r \in ai.detail : r.status \in Over])
    /\ UNCHANGED ai

\* handleSelectRetryJob
SelectJob ==
    \E r \in ai.rows :
        /\ Click("ai", {"detail"}, [Request("detail", "ai") EXCEPT !.ids = {r.job}])
        /\ UNCHANGED ai

\* A field of the configuration is edited: the form holds one text after another.
Edit ==
    /\ On("ai") /\ ai.form < MaxEdits
    /\ ai' = [ai EXCEPT !.form = @ + 1, !.clean = FALSE]
    /\ UNCHANGED <<server, token, page, calls, timers, budget, slipped, strays>>

\* handleSave
SaveConfig ==
    /\ Click("ai", {"save"}, [Request("save", "ai") EXCEPT
                !.text = ai.form, !.sole = \A s \in Slots : calls[s].kind # "save"])
    /\ UNCHANGED ai

\* The jobs were reset or deleted, and the list follows; of a page left too.
JobsAnswered(s) ==
    /\ Answered(s, {"retry", "batch", "cleanup"})
    /\ LET c == calls[s]
       IN /\ token' = TokenAfter(c) /\ Slip(c)
          /\ IF c.reply = "ok" THEN Send(s, [ListCall(c.filter) EXCEPT !.here = c.here]) ELSE End(s)
          /\ ai' = IF c.here /\ c.reply = "ok" /\ c.clears THEN [ai EXCEPT !.detail = {}] ELSE ai
    /\ UNCHANGED <<server, page, timers, budget, strays>>

\* setConfig(answer): the text that was saved, over what was typed meanwhile.
Saved(c) == [ai EXCEPT !.form = c.text, !.clean = c.sole]

AIAnswered(s) ==
    /\ Answered(s, {"list", "detail", "save"})
    /\ LET c == calls[s]
           ok == c.here /\ c.reply = "ok"
       IN /\ End(s) /\ token' = TokenAfter(c) /\ Slip(c)
          /\ ai' = IF ok /\ c.kind = "list" THEN [ai EXCEPT !.rows = c.got, !.fresh = TRUE]
                   ELSE IF ok /\ c.kind = "detail" THEN [ai EXCEPT !.detail = c.got]
                   ELSE IF ok /\ c.kind = "save" THEN Saved(c)
                   ELSE IF c.here /\ c.kind = "list" THEN [ai EXCEPT !.fresh = FALSE] ELSE ai
    /\ UNCHANGED <<server, page, timers, budget, strays>>

-----------------------------------------------------------------------------
Serve(s) == ServeMe(s) \/ ServeLogin(s) \/ ServeChange(s) \/ ServeRead(s)
            \/ ServeJobs(s) \/ ServeSave(s)
Deliver(s) == MeAnswered(s) \/ LoadAnswered(s) \/ LoginAnswered(s) \/ OnwardAnswered(s)
              \/ PollAnswered(s) \/ AuditAnswered(s) \/ JobsAnswered(s) \/ AIAnswered(s)
User == (\E p \in Pages : Visit(p)) \/ SubmitLogin \/ SubmitPassword \/ ResolveMessage \/ Reindex
        \/ LoadAudit \/ Logout
        \/ (\E f \in Filters : RefreshJobs(f)) \/ RetryJob \/ RetryVisibleJobs \/ CleanupJobs \/ SelectJob
        \/ Edit \/ SaveConfig

ConsoleNext ==
    \/ \E s \in Slots : Serve(s) \/ Deliver(s) \/ ServeNothing(s)
    \/ User \/ Poll \/ Elsewhere
    \/ \E j \in Jobs : JobEnds(j)

\* Requests are answered, and the browser runs what awaits them.
Fairness == \A s \in Slots : WF_consoleVars(Serve(s)) /\ WF_consoleVars(Deliver(s))

ConsoleSpec == ConsoleInit /\ [][ConsoleNext]_consoleVars

FairConsole == ConsoleSpec /\ Fairness

-----------------------------------------------------------------------------
Quiet == \A s \in Slots : calls[s].kind \notin {"me", "load", "login", "change"}

\* The admin ends where the account stands: with no request about it under way and
\* nothing gone wrong since the page was opened, the data pages are shown to an
\* admin whose token is accepted and who has set a password, the password form to
\* one who has yet to, the login form to nobody with a token that works (the
\* effects of the pages; login/page.tsx:20, force-change-password/page.tsx:22).
InPlace ==
    Quiet /\ ~slipped =>
        /\ page.phase = "shown"
        /\ page.at \notin {"login", "force"} => token \in alive /\ ~must
        /\ page.at = "force" => token \in alive /\ must
        /\ page.at = "login" => token \notin alive

\* The monitor page polls while it is on screen and no longer, but for the intervals
\* of pages left before their first answer (monitor/page.tsx:15-50).  The AI page
\* shows what the server has where it says so: the rows are of the filter that is
\* highlighted unless the last listing failed, and once a save was answered and
\* nothing typed since, the form is the configuration stored (ai/page.tsx:29-131).
PageAgrees ==
    /\ timers = strays + (IF On("monitor") THEN 1 ELSE 0)
    /\ On("ai") =>
          /\ ai.fresh /\ Mine(JobCalls) = {} =>
                \A r \in ai.rows : ai.filter \in {"all", r.status}
          /\ ai.clean /\ Mine({"save"}) = {} => ai.form = stored

\* No page loads for ever and no two pages send the admin to and fro: the page on
\* screen comes to show something.
PageSettles == (page.phase = "boot") ~> (page.phase = "shown")
=============================================================================
