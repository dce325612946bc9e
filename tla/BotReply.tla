------------------------------- MODULE BotReply -------------------------------
(***************************************************************************)
(* The answers of the AI bot.  A message to the bot starts a goroutine     *)
(* that asks the provider up to three times (chat/message_service.go);     *)
(* what it cannot answer becomes a retry job, a row that two goroutines of *)
(* ai/service.go work on: one pass at start-up, and a pass every five      *)
(* seconds.  The admin console resets and deletes jobs meanwhile.          *)
(***************************************************************************)
EXTENDS Naturals, FiniteSets

CONSTANTS
    Turns,    \* the users' messages to the bot, each with its answer to come
    MaxEvents \* bound: crashes, admin requests and failing writes

ASSUME EventsAreNat == MaxEvents \in Nat

VARIABLES
    inline,    \* the goroutine of startBotReply for each turn
    job,       \* the row of ai_retry_jobs that a turn got, if it got one
    worker,    \* the two goroutines of Service.Start
    replies,   \* answers stored, per turn
    notices,   \* "the assistant is unavailable" messages stored, per turn
    events,    \* crashes, admin requests and failed writes so far
    disturbed, \* which of them befell a turn (history)
    fails      \* failed attempts of a job since it was created or reset, up to 3 (history)

messages == <<replies, notices>>
vars == <<inline, job, worker, messages, events, disturbed, fails>>

Workers == {"startup", "ticker"}
Settled == {"completed", "exhausted"}
Live == Settled \cup {"pending"}  \* deleted_at IS NULL

\* due: next_attempt_at has come.
Job == [status : Live \cup {"none", "deleted"}, attempts : 0..3, due : BOOLEAN]

\* batch: the jobs still to do of those the pass listed, each with the
\* attempt_count it had then.  cur: the one whose row is to be updated.
Listed == [turn : Turns, attempts : 0..3]
Worker == [pc : {"fresh", "idle", "ended", "next", "complete", "backoff", "notice", "exhaust"},
           batch : SUBSET Listed, cur : SUBSET Listed]

Has(w, t) == \E j \in worker[w].batch \cup worker[w].cur : j.turn = t

Event == events < MaxEvents /\ events' = events + 1

Mark(ts, kind) ==
    disturbed' = [t \in Turns |-> disturbed[t] \cup (IF t \in ts THEN {kind} ELSE {})]

\* A write about turn t fails, or fails after it took effect; nobody looks at the error.
Fault(t) == Event /\ Mark({t}, "fault")
NoFault == UNCHANGED <<events, disturbed>>

-----------------------------------------------------------------------------
\* Jobs may be left over from before the last start.
Init ==
    /\ inline \in [Turns -> {[pc |-> "none", tries |-> 0], [pc |-> "done", tries |-> 3]}]
    /\ job \in [Turns -> {[status |-> "none", attempts |-> 0, due |-> FALSE]}
                         \cup [status : {"pending"}, attempts : 0..2, due : {FALSE}]]
    /\ \A t \in Turns : inline[t].pc = "done" <=> job[t].status = "pending"
    /\ worker = [w \in Workers |-> [pc |-> IF w = "startup" THEN "fresh" ELSE "idle",
                                    batch |-> {}, cur |-> {}]]
    /\ replies = [t \in Turns |-> 0]
    /\ notices = [t \in Turns |-> 0]
    /\ events = 0
    /\ disturbed = [t \in Turns |-> {}]
    /\ fails = [t \in Turns |-> job[t].attempts]

(***************************************************************************)
(* startBotReply                                                           *)
(***************************************************************************)
\* Nobody asks when the lookup of the bot fails.
Ask(t) ==
    /\ inline[t].pc = "none"
    /\ \/ inline' = [inline EXCEPT ![t].pc = "asking"] /\ NoFault
       \/ inline' = [inline EXCEPT ![t].pc = "done"] /\ Fault(t)
    /\ UNCHANGED <<job, worker, messages, fails>>

\* Mutant of AskFails: a goroutine that stops before its third try makes no job.
AskFailsQuietly(t) ==
    /\ inline[t].pc = "asking"
    /\ inline' = [inline EXCEPT ![t].tries = @ + 1,
                                ![t].pc = IF inline[t].tries < 2 THEN "done" ELSE "enqueue"]
    /\ UNCHANGED <<job, worker, messages, events, disturbed, fails>>

\* GenerateReply fails.  The goroutine tries again unless it was the third time
\* or its deadline has passed.
AskFails(t) ==
    /\ inline[t].pc = "asking"
    /\ \/ inline[t].tries < 2 /\ inline' = [inline EXCEPT ![t].tries = @ + 1]
       \/ inline' = [inline EXCEPT ![t].tries = @ + 1, ![t].pc = "enqueue"]
    /\ UNCHANGED <<job, worker, messages, events, disturbed, fails>>

\* The answer comes and is stored.  When that fails nothing is left of it: the
\* error is dropped and no job is made.
AskAnswered(t) ==
    /\ inline[t].pc = "asking"
    /\ inline' = [inline EXCEPT ![t].pc = "done"]
    /\ \/ replies' = [replies EXCEPT ![t] = @ + 1] /\ NoFault
       \/ replies' = replies /\ Fault(t)
    /\ UNCHANGED <<job, worker, notices, fails>>

NewJob == [status |-> "pending", attempts |-> 0, due |-> FALSE]

EnqueueRetryJob(t) ==
    /\ inline[t].pc = "enqueue"
    /\ inline' = [inline EXCEPT ![t].pc = "done"]
    /\ \/ job' = [job EXCEPT ![t] = NewJob] /\ NoFault
       \/ job' = job /\ Fault(t)
    /\ UNCHANGED <<worker, messages, fails>>

(***************************************************************************)
(* processRetryJobs                                                        *)
(***************************************************************************)
Ready(t) == job[t].status = "pending" /\ job[t].due

\* Where a goroutine is when it has done its pass.
AtRest(w) == IF w = "startup" THEN "ended" ELSE "idle"

\* The pass goes on with the next job it listed, or is done.
Proceed(w) ==
    worker' = [worker EXCEPT ![w].cur = {},
                             ![w].pc = IF worker[w].batch = {} THEN AtRest(w) ELSE "next"]

\* ListPendingAIRetryJobs
ListJobs(w) ==
    LET due == {t \in Turns : Ready(t)} IN
    /\ worker[w].pc \in {"fresh", "idle"}
    /\ due # {} \/ worker[w].pc = "fresh"
    /\ worker' = [worker EXCEPT ![w] =
           [pc |-> IF due = {} THEN AtRest(w) ELSE "next", cur |-> {},
            batch |-> {[turn |-> t, attempts |-> job[t].attempts] : t \in due}]]
    /\ Mark({t \in due : \E v \in Workers \ {w} : Has(v, t)}, "crossed")
    /\ UNCHANGED <<inline, job, messages, events, fails>>

\* The start-up pass finds no reply handler: main.go sets it after Start.
SkipPass ==
    /\ worker["startup"].pc = "fresh"
    /\ worker' = [worker EXCEPT !["startup"].pc = "ended"]
    /\ UNCHANGED <<inline, job, messages, events, disturbed, fails>>

\* Mutant of LastAttempt: it gives up one attempt early.
SecondLastAttempt(j) == j.attempts + 2 >= 3

LastAttempt(j) == j.attempts + 1 >= 3

\* The worker turns to job j and finds out how it ends.
Turn(w, j, label) ==
    worker' = [worker EXCEPT ![w] = [pc |-> label, batch |-> @.batch \ {j}, cur |-> {j}]]

\* GenerateReply and replyFn succeed.
Answer(w) ==
    /\ worker[w].pc = "next"
    /\ \E j \in worker[w].batch :
         /\ Turn(w, j, "complete")
         /\ replies' = [replies EXCEPT ![j.turn] = @ + 1]
    /\ UNCHANGED <<inline, job, notices, events, disturbed, fails>>

\* GenerateReply fails, or replyFn does: before the reply is stored, or after it,
\* in the fan-out of persistAndFanoutMessage.
AttemptFails(w) ==
    /\ worker[w].pc = "next"
    /\ \E j \in worker[w].batch :
         /\ Turn(w, j, IF LastAttempt(j) THEN "notice" ELSE "backoff")
         /\ fails' = [fails EXCEPT ![j.turn] = IF @ = 3 THEN 3 ELSE @ + 1]
         /\ \/ replies' = replies /\ NoFault
            \/ replies' = [replies EXCEPT ![j.turn] = @ + 1] /\ Fault(j.turn)
    /\ UNCHANGED <<inline, job, notices>>

\* UpdateAIRetryJob, whose error is dropped; a deleted row is left alone.
Update(t, row) ==
    \/ /\ job' = IF job[t].status \in Live THEN [job EXCEPT ![t] = row] ELSE job
       /\ NoFault
    \/ job' = job /\ Fault(t)

\* Mutant of Complete: the job is not updated.
CompleteWithoutUpdate(w) ==
    /\ worker[w].pc = "complete"
    /\ Proceed(w)
    /\ UNCHANGED <<inline, job, messages, events, disturbed, fails>>

Complete(w) ==
    /\ worker[w].pc = "complete"
    /\ \E j \in worker[w].cur : Update(j.turn, [job[j.turn] EXCEPT !.status = "completed"])
    /\ Proceed(w)
    /\ UNCHANGED <<inline, messages, fails>>

\* The status stays what it is.
Backoff(w) ==
    /\ worker[w].pc = "backoff"
    /\ \E j \in worker[w].cur :
         Update(j.turn, [job[j.turn] EXCEPT !.attempts = j.attempts + 1, !.due = FALSE])
    /\ Proceed(w)
    /\ UNCHANGED <<inline, messages, fails>>

\* The user is told, unless the message cannot be stored or the bot is switched off,
\* which counts as a fault.
Notice(w) ==
    /\ worker[w].pc = "notice"
    /\ worker' = [worker EXCEPT ![w].pc = "exhaust"]
    /\ \E j \in worker[w].cur :
         \/ notices' = [notices EXCEPT ![j.turn] = @ + 1] /\ NoFault
         \/ notices' = notices /\ Fault(j.turn)
    /\ UNCHANGED <<inline, job, replies, fails>>

Exhaust(w) ==
    /\ worker[w].pc = "exhaust"
    /\ \E j \in worker[w].cur :
         Update(j.turn, [job[j.turn] EXCEPT !.status = "exhausted", !.attempts = j.attempts + 1])
    /\ Proceed(w)
    /\ UNCHANGED <<inline, messages, fails>>

(***************************************************************************)
(* Time, the admin console, crashes                                        *)
(***************************************************************************)
\* next_attempt_at comes.
FallDue(t) ==
    /\ job[t].status = "pending"
    /\ ~job[t].due
    /\ job' = [job EXCEPT ![t].due = TRUE]
    /\ UNCHANGED <<inline, worker, messages, events, disturbed, fails>>

\* RetryJobNow and RetryJobs: any live job starts afresh, whatever a worker is
\* doing with it.
RetryJobs(ts) ==
    /\ Event
    /\ \A t \in ts : job[t].status \in Live
    /\ job' = [t \in Turns |-> IF t \in ts THEN [NewJob EXCEPT !.due = TRUE] ELSE job[t]]
    /\ fails' = [t \in Turns |-> IF t \in ts THEN 0 ELSE fails[t]]
    /\ disturbed' = [t \in Turns |->
           IF t \notin ts THEN disturbed[t]
           ELSE disturbed[t] \cup {"reset"}
                \cup (IF \E w \in Workers : Has(w, t) THEN {"stale"} ELSE {})]
    /\ UNCHANGED <<inline, worker, messages>>

\* CleanupRetryJobs; the daily clean-up of old settled jobs is one of these.
CleanupRetryJobs(statuses) ==
    /\ Event
    /\ job' = [t \in Turns |-> IF job[t].status \in statuses
                               THEN [job[t] EXCEPT !.status = "deleted"] ELSE job[t]]
    /\ UNCHANGED <<inline, worker, messages, disturbed, fails>>

\* The API process dies and starts again: the goroutines of turns are gone, the
\* rows stay.
Crash ==
    /\ Event
    /\ inline' = [t \in Turns |-> IF inline[t].pc = "none" THEN inline[t]
                                  ELSE [inline[t] EXCEPT !.pc = "done"]]
    /\ worker' = [w \in Workers |-> [pc |-> IF w = "startup" THEN "fresh" ELSE "idle",
                                     batch |-> {}, cur |-> {}]]
    /\ Mark({t \in Turns : inline[t].pc \in {"asking", "enqueue"}
                           \/ \E w \in Workers : Has(w, t)}, "crash")
    /\ UNCHANGED <<job, messages, fails>>

-----------------------------------------------------------------------------
InlineStep(t) == AskFails(t) \/ AskAnswered(t) \/ EnqueueRetryJob(t)

WorkerStep(w) ==
    ListJobs(w) \/ Answer(w) \/ AttemptFails(w) \/ Complete(w) \/ Backoff(w)
    \/ Notice(w) \/ Exhaust(w)

Next ==
    \/ \E t \in Turns : Ask(t) \/ InlineStep(t) \/ FallDue(t)
    \/ \E w \in Workers : WorkerStep(w)
    \/ SkipPass
    \/ \E ts \in SUBSET Turns \ {{}} : RetryJobs(ts)
    \/ \E statuses \in SUBSET Live \ {{}} : CleanupRetryJobs(statuses)
    \/ Crash

Spec == Init /\ [][Next]_vars

\* Goroutines run on and time passes; the provider need not ever answer.
FairSpec ==
    /\ Spec
    /\ \A t \in Turns : WF_vars(InlineStep(t)) /\ WF_vars(FallDue(t))
    /\ \A w \in Workers : WF_vars(WorkerStep(w))

-----------------------------------------------------------------------------
TypeOK ==
    /\ inline \in [Turns -> [pc : {"none", "asking", "enqueue", "done"}, tries : 0..3]]
    /\ job \in [Turns -> Job]
    /\ worker \in [Workers -> Worker]
    /\ replies \in [Turns -> Nat] /\ notices \in [Turns -> Nat]
    /\ events \in Nat
    /\ disturbed \in [Turns -> SUBSET {"fault", "crossed", "reset", "stale", "crash"}]
    /\ fails \in [Turns -> 0..3]

\* A turn is answered once, by its goroutine or by its job, or the user is told
\* that there is no answer, once; not both.  Two passes that list a job together, a
\* crash in mid-attempt, a failing write and an admin who resets the job may each
\* break this.
AnsweredOnce ==
    /\ TypeOK
    /\ \A t \in Turns : disturbed[t] = {} => replies[t] + notices[t] <= 1

\* A job is given up only after three failed attempts since it was made or reset,
\* also when passes cross, writes fail and the process dies (ai/service.go:580-592);
\* but for one that was reset while a worker held its old attempt_count.
GivesUpAfterThree ==
    \A t \in Turns : job[t].status = "exhausted" /\ "stale" \notin disturbed[t] => fails[t] = 3

\* A message to the bot gets its answer or the notice in the end, whatever the
\* provider does, unless the process dies or a write fails meanwhile or an admin
\* deletes the job (message_service.go:378-379).
EveryTurnEnds ==
    \A t \in Turns :
        inline[t].pc = "asking" ~> \/ replies[t] + notices[t] > 0
                                   \/ disturbed[t] \cap {"crash", "fault"} # {}
                                   \/ job[t].status = "deleted"
=============================================================================
