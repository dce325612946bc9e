------------------------ MODULE BotAndConsole_proofs ------------------------
(***************************************************************************)
(* The bot and the console that oversees it.  First BotReply, for any      *)
(* number of turns, crashes, resets, clean-ups and failing writes: a job   *)
(* is given up only after three failed attempts (GivesUpAfterThree), and a *)
(* turn is answered once (AnsweredOnce).  Further down AdminConsole.       *)
(*                                                                         *)
(* GivesUpAfterThree is not inductive: a worker writes what it decided by  *)
(* the attempt_count it read when it listed the job.  CountInv says that   *)
(* such a count, and that of the row, is never more than the failures so   *)
(* far, unless the job was reset meanwhile.  OnceInv is for AnsweredOnce.  *)
(***************************************************************************)
EXTENDS BotReply, AdminConsole, TLAPS

\* What a worker holds, and which counts it can hold where.
WorkerOK(w) ==
    /\ worker[w].batch \subseteq Listed
    /\ worker[w].cur \subseteq Listed
    /\ \A j \in worker[w].batch : j.attempts <= 2
    /\ worker[w].pc = "backoff" => \A j \in worker[w].cur : j.attempts <= 1
    /\ worker[w].pc \in {"notice", "exhaust"} => \A j \in worker[w].cur : j.attempts = 2

JobType ==
    /\ job \in [Turns -> Job]
    /\ \A t \in Turns : job[t].status = "pending" => job[t].attempts <= 2
    /\ worker \in [Workers -> Worker]
    /\ \A w \in Workers : WorkerOK(w)
    /\ fails \in [Turns -> 0..3]
    /\ disturbed \in [Turns -> SUBSET {"fault", "crossed", "reset", "stale", "crash"}]

Fresh(t) == "stale" \notin disturbed[t]

RowCount(t) ==
    /\ job[t].attempts <= fails[t]
    /\ job[t].status = "exhausted" => fails[t] = 3

WorkerCount(w) ==
    /\ \A j \in worker[w].batch : Fresh(j.turn) => j.attempts <= fails[j.turn]
    /\ worker[w].pc = "backoff" =>
          \A j \in worker[w].cur : Fresh(j.turn) => j.attempts + 1 <= fails[j.turn]
    /\ worker[w].pc \in {"notice", "exhaust"} =>
          \A j \in worker[w].cur : Fresh(j.turn) => fails[j.turn] = 3

CountInv ==
    /\ \A t \in Turns : Fresh(t) => RowCount(t)
    /\ \A w \in Workers : WorkerCount(w)

JobInv == JobType /\ CountInv

LEMMA MarkKeeps ==
    ASSUME JobType, NEW ts, NEW kind \in {"fault", "crossed", "crash"}, Mark(ts, kind)
    PROVE  /\ disturbed' \in [Turns -> SUBSET {"fault", "crossed", "reset", "stale", "crash"}]
           /\ \A t \in Turns : Fresh(t) <=> Fresh(t)'
BY DEF JobType, Mark, Fresh

LEMMA FaultKeeps ==
    ASSUME JobType, NEW t \in Turns, NoFault \/ Fault(t)
    PROVE  /\ disturbed' \in [Turns -> SUBSET {"fault", "crossed", "reset", "stale", "crash"}]
           /\ \A u \in Turns : Fresh(u) <=> Fresh(u)'
BY MarkKeeps DEF JobType, Fault, NoFault, Fresh

\* Rows and what workers start with, field by field.
LEMMA JobRecord ==
    ASSUME NEW s \in Live \cup {"none", "deleted"}, NEW n \in 0..3, NEW d \in BOOLEAN
    PROVE  /\ [status |-> s, attempts |-> n, due |-> d] \in Job
           /\ [status |-> s, attempts |-> n, due |-> d].status = s
           /\ [status |-> s, attempts |-> n, due |-> d].attempts = n
BY DEF Job

LEMMA IdleRecord ==
    ASSUME NEW l
    PROVE  /\ [pc |-> l, batch |-> {}, cur |-> {}].pc = l
           /\ [pc |-> l, batch |-> {}, cur |-> {}].batch = {}
           /\ [pc |-> l, batch |-> {}, cur |-> {}].cur = {}
OBVIOUS

\* The jobs left over from before the start.
LEMMA InitRows ==
    ASSUME Init
    PROVE  /\ job \in [Turns -> Job]
           /\ \A t \in Turns : job[t].status \in {"none", "pending"} /\ job[t].attempts \in 0..2
<1> DEFINE rows == {[status |-> "none", attempts |-> 0, due |-> FALSE]}
                      \cup [status : {"pending"}, attempts : 0..2, due : {FALSE}]
<1>1. ASSUME NEW r \in rows
      PROVE  r \in Job /\ r.status \in {"none", "pending"} /\ r.attempts \in 0..2
  <2>1. CASE r = [status |-> "none", attempts |-> 0, due |-> FALSE]
    <3>1. "none" \in Live \cup {"none", "deleted"} /\ 0 \in 0..3 /\ 0 \in 0..2 /\ FALSE \in BOOLEAN
      OBVIOUS
    <3>. QED  BY <2>1, <3>1, JobRecord
  <2>2. CASE r \in [status : {"pending"}, attempts : 0..2, due : {FALSE}]
    <3>1. PICK n \in 0..2 : r = [status |-> "pending", attempts |-> n, due |-> FALSE]
      BY <2>2, Zenon
    <3>2. "pending" \in Live \cup {"none", "deleted"} /\ n \in 0..3 /\ FALSE \in BOOLEAN
      BY DEF Live
    <3>. QED  BY <3>1, <3>2, JobRecord
  <2>. QED  BY <1>1, <2>1, <2>2
<1>2. job \in [Turns -> rows]
  BY DEF Init
<1>. HIDE DEF rows
<1>. QED  BY <1>1, <1>2

LEMMA InitJob == Init => JobInv
<1>. SUFFICES ASSUME Init PROVE JobInv
  OBVIOUS
<1>1. /\ job \in [Turns -> Job]
      /\ \A t \in Turns : job[t].status \in {"none", "pending"} /\ job[t].attempts \in 0..2
  BY InitRows
<1>2. \A w \in Workers : worker[w] = [pc |-> IF w = "startup" THEN "fresh" ELSE "idle",
                                      batch |-> {}, cur |-> {}]
  BY DEF Init
<1>3. worker \in [Workers -> Worker]
  BY DEF Init, Worker
<1>4. \A t \in Turns : fails[t] = job[t].attempts /\ disturbed[t] = {}
  BY DEF Init
<1>5. fails \in [Turns -> 0..3] /\ disturbed \in [Turns -> SUBSET {"fault", "crossed", "reset", "stale", "crash"}]
  BY <1>1 DEF Init
<1>6. JobType
  BY <1>1, <1>2, <1>3, <1>5 DEF JobType, WorkerOK
<1>7. \A t \in Turns : RowCount(t)
  BY <1>1, <1>4 DEF RowCount
<1>8. \A w \in Workers : WorkerCount(w)
  <2>1. \A w \in Workers : /\ worker[w].batch = {} /\ worker[w].cur = {}
                           /\ worker[w].pc \notin {"backoff", "notice", "exhaust"}
    BY <1>2, IdleRecord
  <2>. QED  BY <2>1 DEF WorkerCount
<1>9. CountInv
  BY <1>7, <1>8 DEF CountInv
<1>. QED  BY <1>6, <1>9 DEF JobInv

-----------------------------------------------------------------------------
(***************************************************************************)
(* The goroutine of a turn.                                                *)
(***************************************************************************)
\* Steps that change neither a row nor what a worker holds.
LEMMA QuietKeeps ==
    ASSUME JobInv, UNCHANGED <<job, worker, fails>>,
           disturbed' \in [Turns -> SUBSET {"fault", "crossed", "reset", "stale", "crash"}],
           \A t \in Turns : Fresh(t) <=> Fresh(t)'
    PROVE  JobInv'
<1>1. JobType'
  BY DEF JobInv, JobType, WorkerOK
<1>2. \A w \in Workers : \A j \in worker[w].batch \cup worker[w].cur : j.turn \in Turns
  BY DEF JobInv, JobType, WorkerOK, Listed
<1>3. CountInv'
  BY <1>2 DEF JobInv, CountInv, RowCount, WorkerCount
<1>. QED  BY <1>1, <1>3 DEF JobInv

LEMMA EnqueueKeeps ==
    ASSUME JobInv, NEW t \in Turns, EnqueueRetryJob(t)
    PROVE  JobInv'
<1>1. /\ disturbed' \in [Turns -> SUBSET {"fault", "crossed", "reset", "stale", "crash"}]
      /\ \A u \in Turns : Fresh(u) <=> Fresh(u)'
  BY FaultKeeps DEF EnqueueRetryJob, JobInv
<1>2. CASE job' = job
  BY <1>1, <1>2, QuietKeeps DEF EnqueueRetryJob
<1>3. CASE job' = [job EXCEPT ![t] = NewJob]
  <2>1. JobType'
    BY <1>1, <1>3 DEF EnqueueRetryJob, JobInv, JobType, WorkerOK, NewJob, Job, Live
  <2>2. \A u \in Turns : Fresh(u)' => RowCount(u)'
    BY <1>1, <1>3 DEF EnqueueRetryJob, JobInv, JobType, CountInv, RowCount, NewJob
  <2>3. \A w \in Workers : WorkerCount(w)'
    BY <1>1 DEF EnqueueRetryJob, JobInv, JobType, CountInv, WorkerCount, WorkerOK, Listed
  <2>. QED  BY <2>1, <2>2, <2>3 DEF JobInv, CountInv
<1>. QED  BY <1>2, <1>3 DEF EnqueueRetryJob

(***************************************************************************)
(* The workers.                                                            *)
(***************************************************************************)
\* A worker that has gone on holds the rest of its batch and nothing else.
LEMMA ProceedKeeps ==
    ASSUME JobType, NEW w \in Workers, Proceed(w)
    PROVE  /\ worker' \in [Workers -> Worker]
           /\ \A v \in Workers \ {w} : worker'[v] = worker[v]
           /\ worker'[w].batch = worker[w].batch /\ worker'[w].cur = {}
           /\ worker'[w].pc \in {"next", "ended", "idle"}
BY DEF JobType, Proceed, Worker, AtRest

\* A row is written by the worker that holds its job.
LEMMA UpdateKeeps ==
    ASSUME JobInv, NEW w \in Workers, NEW j \in worker[w].cur, NEW row \in Job,
           Update(j.turn, row), Proceed(w), UNCHANGED fails,
           row.status = "pending" => row.attempts <= 2,
           Fresh(j.turn) => /\ row.attempts <= fails[j.turn]
                            /\ row.status = "exhausted" => fails[j.turn] = 3
    PROVE  JobInv'
<1>1. j.turn \in Turns
  BY DEF JobInv, JobType, WorkerOK, Listed
<1>2. /\ disturbed' \in [Turns -> SUBSET {"fault", "crossed", "reset", "stale", "crash"}]
      /\ \A t \in Turns : Fresh(t) <=> Fresh(t)'
  BY <1>1, FaultKeeps DEF Update, JobInv
<1>3. /\ worker' \in [Workers -> Worker]
      /\ \A v \in Workers \ {w} : worker'[v] = worker[v]
      /\ worker'[w].batch = worker[w].batch /\ worker'[w].cur = {}
      /\ worker'[w].pc \in {"next", "ended", "idle"}
  BY ProceedKeeps DEF JobInv
<1>4. job' = job \/ job' = [job EXCEPT ![j.turn] = row]
  BY DEF Update
<1>5. \A v \in Workers : WorkerOK(v)'
  BY <1>3 DEF JobInv, JobType, WorkerOK
<1>6. JobType'
  BY <1>1, <1>2, <1>3, <1>4, <1>5 DEF JobInv, JobType
<1>7. \A t \in Turns : Fresh(t)' => RowCount(t)'
  BY <1>1, <1>2, <1>4 DEF JobInv, JobType, CountInv, RowCount
<1>8. \A v \in Workers : WorkerCount(v)'
  BY <1>2, <1>3 DEF JobInv, JobType, WorkerOK, Listed, CountInv, WorkerCount
<1>. QED  BY <1>6, <1>7, <1>8 DEF JobInv, CountInv

\* What the writes make of a row.
LEMMA RowIsJob ==
    ASSUME NEW r \in Job, NEW n \in 0..3
    PROVE  /\ [r EXCEPT !.attempts = n, !.due = FALSE] \in Job
           /\ [r EXCEPT !.attempts = n, !.due = FALSE].attempts = n
           /\ [r EXCEPT !.attempts = n, !.due = FALSE].status = r.status
BY DEF Job

LEMMA CompleteKeeps ==
    ASSUME JobInv, NEW w \in Workers, Complete(w)
    PROVE  JobInv'
<1>1. PICK j \in worker[w].cur : Update(j.turn, [job[j.turn] EXCEPT !.status = "completed"])
  BY DEF Complete
<1>2. j.turn \in Turns
  BY DEF JobInv, JobType, WorkerOK, Listed
<1> DEFINE row == [job[j.turn] EXCEPT !.status = "completed"]
<1>3. row \in Job /\ row.attempts = job[j.turn].attempts /\ row.status = "completed"
  BY <1>2 DEF JobInv, JobType, Job, Live, Settled
<1>4. Fresh(j.turn) => row.attempts <= fails[j.turn]
  BY <1>2, <1>3 DEF JobInv, CountInv, RowCount
<1>. QED  BY <1>1, <1>3, <1>4, UpdateKeeps DEF Complete

LEMMA BackoffKeeps ==
    ASSUME JobInv, NEW w \in Workers, Backoff(w)
    PROVE  JobInv'
<1>1. PICK j \in worker[w].cur :
        Update(j.turn, [job[j.turn] EXCEPT !.attempts = j.attempts + 1, !.due = FALSE])
  BY DEF Backoff
<1>2. /\ j.turn \in Turns /\ j.attempts \in 0..3 /\ j.attempts <= 1
      /\ Fresh(j.turn) => j.attempts + 1 <= fails[j.turn]
  BY DEF Backoff, JobInv, JobType, WorkerOK, Listed, CountInv, WorkerCount
<1> DEFINE row == [job[j.turn] EXCEPT !.attempts = j.attempts + 1, !.due = FALSE]
<1>3. /\ row \in Job /\ row.attempts = j.attempts + 1
      /\ row.status = job[j.turn].status
  <2>1. job[j.turn] \in Job /\ j.attempts + 1 \in 0..3
    BY <1>2 DEF JobInv, JobType
  <2>. QED  BY <2>1, RowIsJob
<1>4. Fresh(j.turn) => (row.status = "exhausted" => fails[j.turn] = 3)
  BY <1>2, <1>3 DEF JobInv, CountInv, RowCount
<1>. HIDE DEF row
<1>5. Update(j.turn, row) /\ Proceed(w) /\ UNCHANGED fails
  BY <1>1 DEF Backoff, row
<1>. QED  BY <1>2, <1>3, <1>4, <1>5, UpdateKeeps

LEMMA ExhaustKeeps ==
    ASSUME JobInv, NEW w \in Workers, Exhaust(w)
    PROVE  JobInv'
<1>1. PICK j \in worker[w].cur :
        Update(j.turn, [job[j.turn] EXCEPT !.status = "exhausted", !.attempts = j.attempts + 1])
  BY DEF Exhaust
<1>2. /\ j.turn \in Turns /\ j.attempts = 2
      /\ Fresh(j.turn) => fails[j.turn] = 3
  BY DEF Exhaust, JobInv, JobType, WorkerOK, Listed, CountInv, WorkerCount
<1> DEFINE row == [job[j.turn] EXCEPT !.status = "exhausted", !.attempts = j.attempts + 1]
<1>3. row \in Job /\ row.attempts = 3 /\ row.status = "exhausted"
  <2>1. PICK s \in Live : s = "exhausted"
    BY DEF Live, Settled
  <2>2. PICK n \in 0..3 : n = 3 /\ n = j.attempts + 1
    BY <1>2
  <2>3. job[j.turn] \in Job
    BY <1>2 DEF JobInv, JobType
  <2>4. row = [job[j.turn] EXCEPT !.status = s, !.attempts = n]
    BY <2>1, <2>2
  <2>. HIDE DEF row
  <2>5. row \in Job /\ row.attempts = n /\ row.status = s
    BY <2>3, <2>4 DEF Job
  <2>. QED  BY <2>1, <2>2, <2>5
<1>. HIDE DEF row
<1>4. Update(j.turn, row) /\ Proceed(w) /\ UNCHANGED fails
  BY <1>1 DEF Exhaust, row
<1>. QED  BY <1>2, <1>3, <1>4, UpdateKeeps

\* What the pass lists has the counts of the rows.
LEMMA ListKeeps ==
    ASSUME JobInv, NEW w \in Workers, ListJobs(w)
    PROVE  JobInv'
<1> DEFINE due == {t \in Turns : Ready(t)}
           batch == {[turn |-> t, attempts |-> job[t].attempts] : t \in due}
<1>1. /\ disturbed' \in [Turns -> SUBSET {"fault", "crossed", "reset", "stale", "crash"}]
      /\ \A t \in Turns : Fresh(t) <=> Fresh(t)'
  BY MarkKeeps DEF ListJobs, JobInv
<1>2. /\ batch \subseteq Listed
      /\ \A j \in batch : j.attempts <= 2 /\ j.attempts = job[j.turn].attempts
  BY DEF JobInv, JobType, Job, Listed, Ready
<1>. HIDE DEF batch
<1>3. worker' = [worker EXCEPT ![w] =
         [pc |-> IF due = {} THEN AtRest(w) ELSE "next", cur |-> {}, batch |-> batch]]
  BY DEF ListJobs, batch
<1>4. /\ worker'[w].batch = batch /\ worker'[w].cur = {}
      /\ worker'[w].pc \in {"next", "ended", "idle"}
      /\ \A v \in Workers \ {w} : worker'[v] = worker[v]
      /\ worker' \in [Workers -> Worker]
  BY <1>2, <1>3 DEF JobInv, JobType, Worker, AtRest
<1>5. \A v \in Workers : WorkerOK(v)'
  BY <1>2, <1>4 DEF JobInv, JobType, WorkerOK
<1>6. JobType'
  BY <1>1, <1>4, <1>5 DEF ListJobs, JobInv, JobType
<1>7. \A t \in Turns : Fresh(t)' => RowCount(t)'
  BY <1>1 DEF ListJobs, JobInv, CountInv, RowCount
<1>8. \A v \in Workers : WorkerCount(v)'
  BY <1>1, <1>2, <1>4
  DEF ListJobs, JobInv, JobType, WorkerOK, Listed, CountInv, RowCount, WorkerCount
<1>. QED  BY <1>6, <1>7, <1>8 DEF JobInv, CountInv

\* A worker takes a job of its batch and finds out how it ends.
LEMMA TurnKeeps ==
    ASSUME JobType, NEW w \in Workers, NEW j \in worker[w].batch,
           NEW label \in {"complete", "backoff", "notice"}, Turn(w, j, label)
    PROVE  /\ worker' \in [Workers -> Worker]
           /\ \A v \in Workers \ {w} : worker'[v] = worker[v]
           /\ worker'[w].batch = worker[w].batch \ {j} /\ worker'[w].cur = {j}
           /\ worker'[w].pc = label
           /\ j.turn \in Turns /\ j.attempts \in 0..2 /\ j \in Listed
BY DEF JobType, Turn, Worker, WorkerOK, Listed

LEMMA AnswerKeeps ==
    ASSUME JobInv, NEW w \in Workers, Answer(w)
    PROVE  JobInv'
<1>1. PICK j \in worker[w].batch : Turn(w, j, "complete")
  BY DEF Answer
<1>2. /\ worker' \in [Workers -> Worker]
      /\ \A v \in Workers \ {w} : worker'[v] = worker[v]
      /\ worker'[w].batch = worker[w].batch \ {j} /\ worker'[w].cur = {j}
      /\ worker'[w].pc = "complete"
      /\ j.turn \in Turns /\ j.attempts \in 0..2 /\ j \in Listed
  BY <1>1, TurnKeeps DEF JobInv
<1>3. JobType'
  BY <1>2 DEF Answer, JobInv, JobType, WorkerOK
<1>4. CountInv'
  BY <1>2 DEF Answer, JobInv, CountInv, RowCount, WorkerCount, Fresh
<1>. QED  BY <1>3, <1>4 DEF JobInv

\* The failure is counted before the worker acts on it.
LEMMA AttemptKeeps ==
    ASSUME JobInv, NEW w \in Workers, AttemptFails(w)
    PROVE  JobInv'
<1>1. PICK j \in worker[w].batch :
         /\ Turn(w, j, IF LastAttempt(j) THEN "notice" ELSE "backoff")
         /\ fails' = [fails EXCEPT ![j.turn] = IF @ = 3 THEN 3 ELSE @ + 1]
         /\ NoFault \/ Fault(j.turn)
  BY DEF AttemptFails
<1> DEFINE label == IF LastAttempt(j) THEN "notice" ELSE "backoff"
<1>2. /\ worker' \in [Workers -> Worker]
      /\ \A v \in Workers \ {w} : worker'[v] = worker[v]
      /\ worker'[w].batch = worker[w].batch \ {j} /\ worker'[w].cur = {j}
      /\ worker'[w].pc = label
      /\ j.turn \in Turns /\ j.attempts \in 0..2 /\ j \in Listed
  BY <1>1, TurnKeeps DEF JobInv
<1>3. /\ disturbed' \in [Turns -> SUBSET {"fault", "crossed", "reset", "stale", "crash"}]
      /\ \A t \in Turns : Fresh(t) <=> Fresh(t)'
  BY <1>1, <1>2, FaultKeeps DEF JobInv
<1>4. /\ fails' \in [Turns -> 0..3] /\ fails \in [Turns -> 0..3]
      /\ \A t \in Turns : fails[t] <= fails'[t]
      /\ fails'[j.turn] = 3 \/ fails'[j.turn] = fails[j.turn] + 1
  BY <1>1, <1>2 DEF JobInv, JobType
<1>5. Fresh(j.turn) => j.attempts <= fails[j.turn]
  BY DEF JobInv, CountInv, WorkerCount
<1>6. /\ label = "notice" => j.attempts = 2
      /\ label = "backoff" => j.attempts <= 1
      /\ label = "notice" \/ label = "backoff"
  BY <1>2 DEF LastAttempt
<1>7. /\ Fresh(j.turn) /\ label = "notice" => fails'[j.turn] = 3
      /\ Fresh(j.turn) /\ label = "backoff" => j.attempts + 1 <= fails'[j.turn]
  BY <1>2, <1>4, <1>5, <1>6
<1>. HIDE DEF label
<1>8. \A v \in Workers : WorkerOK(v)'
  BY <1>2, <1>6 DEF JobInv, JobType, WorkerOK
<1>9. JobType'
  BY <1>2, <1>3, <1>4, <1>8 DEF AttemptFails, JobInv, JobType
<1>10. \A t \in Turns : Fresh(t)' => RowCount(t)'
  <2>. SUFFICES ASSUME NEW t \in Turns, Fresh(t)' PROVE RowCount(t)'
    OBVIOUS
  <2>1. job' = job /\ job[t].attempts \in 0..3 /\ RowCount(t)
    BY <1>3 DEF AttemptFails, JobInv, JobType, Job, CountInv
  <2>2. fails[t] \in 0..3 /\ fails'[t] \in 0..3 /\ fails[t] <= fails'[t]
    BY <1>4
  <2>. QED  BY <2>1, <2>2 DEF RowCount
<1>11. \A v \in Workers : WorkerCount(v)'
  <2>1. ASSUME NEW v \in Workers \ {w} PROVE WorkerCount(v)'
    <3>1. /\ WorkerCount(v) /\ worker'[v] = worker[v]
          /\ worker[v].batch \subseteq Listed /\ worker[v].cur \subseteq Listed
      BY <1>2, <2>1 DEF JobInv, JobType, WorkerOK, CountInv
    <3>. QED  BY <1>3, <1>4, <3>1 DEF WorkerCount, Listed
  <2>2. WorkerCount(w)'
    <3>1. /\ worker[w].batch \subseteq Listed
          /\ \A k \in worker[w].batch : Fresh(k.turn) => k.attempts <= fails[k.turn]
      BY DEF JobInv, JobType, WorkerOK, CountInv, WorkerCount
    <3>2. \A k \in worker'[w].batch : Fresh(k.turn)' => k.attempts <= fails'[k.turn]
      BY <1>2, <1>3, <1>4, <3>1 DEF Listed
    <3>. QED  BY <1>2, <1>3, <1>6, <1>7, <3>2 DEF WorkerCount
  <2>. QED  BY <2>1, <2>2
<1>. QED  BY <1>9, <1>10, <1>11 DEF JobInv, CountInv

LEMMA NoticeKeeps ==
    ASSUME JobInv, NEW w \in Workers, Notice(w)
    PROVE  JobInv'
<1>1. PICK j \in worker[w].cur : NoFault \/ Fault(j.turn)
  BY DEF Notice
<1>2. /\ disturbed' \in [Turns -> SUBSET {"fault", "crossed", "reset", "stale", "crash"}]
      /\ \A t \in Turns : Fresh(t) <=> Fresh(t)'
  BY <1>1, FaultKeeps DEF JobInv, JobType, WorkerOK, Listed
<1>3. /\ worker' \in [Workers -> Worker]
      /\ \A v \in Workers \ {w} : worker'[v] = worker[v]
      /\ worker'[w].batch = worker[w].batch /\ worker'[w].cur = worker[w].cur
      /\ worker[w].pc = "notice" /\ worker'[w].pc = "exhaust"
  BY DEF Notice, JobInv, JobType, Worker
<1>4. JobType'
  BY <1>2, <1>3 DEF Notice, JobInv, JobType, WorkerOK
<1>5. CountInv'
  BY <1>2, <1>3 DEF Notice, JobInv, JobType, WorkerOK, Listed, CountInv, RowCount, WorkerCount
<1>. QED  BY <1>4, <1>5 DEF JobInv

(***************************************************************************)
(* Time, the admin and crashes.                                            *)
(***************************************************************************)
LEMMA FallDueKeeps ==
    ASSUME JobInv, NEW t \in Turns, FallDue(t)
    PROVE  JobInv'
<1>1. job' = [job EXCEPT ![t].due = TRUE] /\ job \in [Turns -> Job]
  BY DEF FallDue, JobInv, JobType
<1>2. /\ job' \in [Turns -> Job]
      /\ \A u \in Turns : job'[u].status = job[u].status /\ job'[u].attempts = job[u].attempts
  BY <1>1 DEF Job
<1>3. JobType'
  BY <1>2 DEF FallDue, JobInv, JobType, WorkerOK
<1>4. CountInv'
  BY <1>2 DEF FallDue, JobInv, CountInv, RowCount, WorkerCount, Fresh
<1>. QED  BY <1>3, <1>4 DEF JobInv

\* A reset forgets the failures; a worker that has the job is stale from then on.
LEMMA RetryJobsKeeps ==
    ASSUME JobInv, NEW ts \in SUBSET Turns, RetryJobs(ts)
    PROVE  JobInv'
<1>1. /\ fails' \in [Turns -> 0..3]
      /\ disturbed' \in [Turns -> SUBSET {"fault", "crossed", "reset", "stale", "crash"}]
      /\ worker' = worker
  BY DEF RetryJobs, JobInv, JobType
<1>2. /\ job' \in [Turns -> Job]
      /\ \A t \in Turns : IF t \in ts THEN job'[t].status = "pending" /\ job'[t].attempts = 0
                                      ELSE job'[t] = job[t]
  <2>1. /\ [NewJob EXCEPT !.due = TRUE] \in Job
        /\ [NewJob EXCEPT !.due = TRUE].status = "pending"
        /\ [NewJob EXCEPT !.due = TRUE].attempts = 0
    <3>1. "pending" \in Live \cup {"none", "deleted"} /\ 0 \in 0..3
      BY DEF Live
    <3>2. NewJob \in Job /\ NewJob.status = "pending" /\ NewJob.attempts = 0
      BY <3>1, JobRecord DEF NewJob
    <3>3. \A r \in Job : /\ [r EXCEPT !.due = TRUE] \in Job
                         /\ [r EXCEPT !.due = TRUE].status = r.status
                         /\ [r EXCEPT !.due = TRUE].attempts = r.attempts
      BY DEF Job
    <3>. QED  BY <3>2, <3>3
  <2>. QED  BY <2>1 DEF RetryJobs, JobInv, JobType
<1>3. \A t \in Turns : Fresh(t)' =>
         /\ Fresh(t)
         /\ t \in ts => \A w \in Workers : ~Has(w, t)
         /\ t \notin ts => fails'[t] = fails[t]
  BY DEF RetryJobs, Fresh
<1>4. JobType'
  BY <1>1, <1>2 DEF JobInv, JobType, WorkerOK
<1>5. \A t \in Turns : Fresh(t)' => RowCount(t)'
  BY <1>1, <1>2, <1>3 DEF JobInv, CountInv, RowCount
<1>6. ASSUME NEW w \in Workers PROVE WorkerCount(w)'
  <2>1. \A j \in worker[w].batch \cup worker[w].cur :
           /\ j.turn \in Turns
           /\ Fresh(j.turn)' => Fresh(j.turn) /\ fails'[j.turn] = fails[j.turn]
    BY <1>3 DEF JobInv, JobType, WorkerOK, Listed, Has
  <2>. QED  BY <1>1, <2>1 DEF JobInv, CountInv, WorkerCount
<1>. QED  BY <1>4, <1>5, <1>6 DEF JobInv, CountInv

LEMMA CleanupKeeps ==
    ASSUME JobInv, NEW statuses, CleanupRetryJobs(statuses)
    PROVE  JobInv'
<1>1. /\ job' \in [Turns -> Job]
      /\ \A t \in Turns : /\ job'[t].status \in {job[t].status, "deleted"}
                          /\ job'[t].attempts = job[t].attempts
  BY DEF CleanupRetryJobs, JobInv, JobType, Job
<1>2. JobType'
  BY <1>1 DEF CleanupRetryJobs, JobInv, JobType, WorkerOK
<1>3. CountInv'
  BY <1>1 DEF CleanupRetryJobs, JobInv, CountInv, RowCount, WorkerCount, Fresh
<1>. QED  BY <1>2, <1>3 DEF JobInv

LEMMA CrashKeeps == JobInv /\ Crash => JobInv'
<1>. SUFFICES ASSUME JobInv, Crash PROVE JobInv'
  OBVIOUS
<1>1. /\ disturbed' \in [Turns -> SUBSET {"fault", "crossed", "reset", "stale", "crash"}]
      /\ \A t \in Turns : Fresh(t) <=> Fresh(t)'
  BY MarkKeeps DEF Crash, JobInv
<1>2. /\ worker' \in [Workers -> Worker]
      /\ \A w \in Workers : /\ worker'[w].batch = {} /\ worker'[w].cur = {}
                            /\ worker'[w].pc \in {"fresh", "idle"}
  BY DEF Crash, Worker
<1>3. JobType'
  BY <1>1, <1>2 DEF Crash, JobInv, JobType, WorkerOK
<1>4. CountInv'
  BY <1>1, <1>2 DEF Crash, JobInv, CountInv, RowCount, WorkerCount
<1>. QED  BY <1>3, <1>4 DEF JobInv

-----------------------------------------------------------------------------
LEMMA NextJob == JobInv /\ [Next]_vars => JobInv'
<1>. SUFFICES ASSUME JobInv, [Next]_vars PROVE JobInv'
  OBVIOUS
<1>1. CASE UNCHANGED vars \/ SkipPass
  <2>1. UNCHANGED <<job, fails, disturbed>>
    BY <1>1 DEF vars, SkipPass
  <2>2. CASE UNCHANGED vars
    BY <2>2, QuietKeeps DEF vars, JobInv, JobType, Fresh
  <2>3. CASE SkipPass
    <3>1. /\ worker' \in [Workers -> Worker]
          /\ \A w \in Workers : /\ worker'[w].batch = worker[w].batch
                                /\ worker'[w].cur = worker[w].cur
                                /\ worker'[w].pc \in {worker[w].pc, "ended"}
      BY <2>3 DEF SkipPass, JobInv, JobType, Worker, Workers
    <3>2. JobType'
      BY <2>1, <3>1 DEF JobInv, JobType, WorkerOK
    <3>3. CountInv'
      BY <2>1, <3>1 DEF JobInv, CountInv, RowCount, WorkerCount, Fresh
    <3>. QED  BY <3>2, <3>3 DEF JobInv
  <2>. QED  BY <1>1, <2>2, <2>3
<1>2. ASSUME NEW t \in Turns, Ask(t) \/ AskFails(t) \/ AskAnswered(t) PROVE JobInv'
  <2>1. UNCHANGED <<job, worker, fails>> /\ (NoFault \/ Fault(t))
    BY <1>2 DEF Ask, AskFails, AskAnswered, NoFault
  <2>. QED  BY <2>1, FaultKeeps, QuietKeeps DEF JobInv
<1>3. ASSUME NEW t \in Turns, EnqueueRetryJob(t) \/ FallDue(t) PROVE JobInv'
  BY <1>3, EnqueueKeeps, FallDueKeeps
<1>4. ASSUME NEW w \in Workers, WorkerStep(w) PROVE JobInv'
  BY <1>4, ListKeeps, AnswerKeeps, AttemptKeeps, CompleteKeeps, BackoffKeeps, NoticeKeeps,
     ExhaustKeeps DEF WorkerStep
<1>5. ASSUME NEW ts \in SUBSET Turns \ {{}}, RetryJobs(ts) PROVE JobInv'
  BY <1>5, RetryJobsKeeps
<1>6. ASSUME NEW statuses \in SUBSET Live \ {{}}, CleanupRetryJobs(statuses) PROVE JobInv'
  BY <1>6, CleanupKeeps
<1>7. CASE Crash
  BY <1>7, CrashKeeps
<1>. QED  BY <1>1, <1>2, <1>3, <1>4, <1>5, <1>6, <1>7 DEF Next, InlineStep

\* Whatever passes cross, writes fail, jobs are cleaned up and processes die, a job is
\* exhausted only after three failed attempts since it was made or reset, unless it was
\* reset while a worker held it (ai/service.go:560-601).
THEOREM JobsGetThreeAttempts == Spec => []GivesUpAfterThree
<1>1. JobInv => GivesUpAfterThree
  BY DEF JobInv, CountInv, RowCount, Fresh, GivesUpAfterThree
<1>. QED  BY InitJob, NextJob, <1>1, PTL DEF Spec
-----------------------------------------------------------------------------
(***************************************************************************)
(* One answer or one notice.  A turn passes from its goroutine to its job, *)
(* and the job from one worker to another.  OnceInv says who may still     *)
(* speak for an undisturbed turn: nobody has while the goroutine asks,     *)
(* while a pending job waits, and while a worker has it in its batch; one  *)
(* worker holds it at most; and one that has spoken is about to write the  *)
(* row, which then is pending no more.                                     *)
(***************************************************************************)
Total(t) == replies[t] + notices[t]

\* Worker w has answered turn t or told the user, and the row is next.
Ending(w, t) ==
    worker[w].pc \in {"complete", "exhaust"} /\ \E j \in worker[w].cur : j.turn = t

\* A worker turns to one job at a time, and holds none twice.
HoldsOnce(w) ==
    /\ worker[w].pc \in {"fresh", "idle", "ended"} => worker[w].batch = {}
    /\ worker[w].pc \in {"fresh", "idle", "ended", "next"} => worker[w].cur = {}
    /\ \A j, k \in worker[w].cur : j = k
    /\ \A j, k \in worker[w].batch : j.turn = k.turn => j = k
    /\ \A j \in worker[w].batch, k \in worker[w].cur : j.turn # k.turn

SpokenOnce(t) ==
    /\ Total(t) <= 1
    /\ inline[t].pc # "done" => job[t].status = "none" /\ Total(t) = 0
    /\ job[t].status = "pending" /\ (\A w \in Workers : ~Ending(w, t)) => Total(t) = 0
    /\ \A w \in Workers : Has(w, t) =>
          /\ job[t].status \in {"pending", "deleted"}
          /\ ~Ending(w, t) => Total(t) = 0
          /\ \A v \in Workers : Has(v, t) => v = w

InlineType ==
    /\ inline \in [Turns -> [pc : {"none", "asking", "enqueue", "done"}, tries : 0..3]]
    /\ \A t \in Turns : inline[t].pc \in {"none", "asking"} => inline[t].tries <= 2

TalkType ==
    /\ InlineType
    /\ replies \in [Turns -> Nat] /\ notices \in [Turns -> Nat]
    /\ events \in Nat

Calm(t) == disturbed[t] = {}

OnceInv ==
    /\ TalkType
    /\ \A w \in Workers : HoldsOnce(w)
    /\ \A t \in Turns : Calm(t) => SpokenOnce(t)

\* A turn that is calm after a step was calm before it and is not among the marked.
LEMMA MarkCalm ==
    ASSUME JobType, NEW ts, NEW kind, Mark(ts, kind), NEW t \in Turns, Calm(t)'
    PROVE  Calm(t) /\ t \notin ts
BY DEF JobType, Mark, Calm

LEMMA FaultCalm ==
    ASSUME JobType, NEW t \in Turns, NEW u, NoFault \/ Fault(u), Calm(t)'
    PROVE  Calm(t) /\ (t = u => NoFault)
<1>1. CASE NoFault
  BY <1>1 DEF NoFault, Calm
<1>2. CASE Fault(u)
  BY <1>2, MarkCalm DEF Fault
<1>. QED  BY <1>1, <1>2

LEMMA EventsKeep ==
    ASSUME TalkType, NEW u, NoFault \/ Fault(u)
    PROVE  events' \in Nat
BY DEF TalkType, Fault, Event, NoFault

LEMMA EndingHas ==
    ASSUME NEW w, NEW t, Ending(w, t)
    PROVE  Has(w, t)
BY DEF Ending, Has

\* A worker that is left alone holds what it held.
LEMMA SameWorker ==
    ASSUME NEW w, worker'[w] = worker[w]
    PROVE  /\ HoldsOnce(w) => HoldsOnce(w)'
           /\ \A t : (Has(w, t)' <=> Has(w, t)) /\ (Ending(w, t)' <=> Ending(w, t))
BY DEF HoldsOnce, Has, Ending

\* A step in which nobody speaks for turn t, no worker gets it and the row keeps its status.
LEMMA TurnFrame ==
    ASSUME NEW t \in Turns, SpokenOnce(t),
           Total(t)' = Total(t), job'[t].status = job[t].status,
           inline'[t].pc # "done" => inline[t].pc # "done",
           \A w \in Workers : (Has(w, t)' => Has(w, t)) /\ (Ending(w, t)' <=> Ending(w, t))
    PROVE  SpokenOnce(t)'
BY DEF SpokenOnce

LEMMA InitOnce == Init => OnceInv
<1>. SUFFICES ASSUME Init PROVE OnceInv
  OBVIOUS
<1>1. \A t \in Turns : /\ inline[t].pc \in {"none", "done"}
                       /\ inline[t].pc # "done" => inline[t].tries = 0
                       /\ inline[t].pc = "done" <=> job[t].status = "pending"
                       /\ job[t].status \in {"none", "pending"}
  <2>1. ASSUME NEW t \in Turns
        PROVE  inline[t].pc \in {"none", "done"} /\ (inline[t].pc # "done" => inline[t].tries = 0)
    <3>1. inline[t] \in {[pc |-> "none", tries |-> 0], [pc |-> "done", tries |-> 3]}
      BY DEF Init
    <3>. QED  BY <3>1
  <2>2. \A t \in Turns : job[t].status \in {"none", "pending"}
    BY InitRows
  <2>3. \A t \in Turns : inline[t].pc = "done" <=> job[t].status = "pending"
    BY DEF Init
  <2>. QED  BY <2>1, <2>2, <2>3
<1>2. inline \in [Turns -> [pc : {"none", "asking", "enqueue", "done"}, tries : 0..3]]
  BY DEF Init
<1>3. replies = [t \in Turns |-> 0] /\ notices = [t \in Turns |-> 0] /\ events = 0
  BY DEF Init
<1>4. \A w \in Workers : worker[w].batch = {} /\ worker[w].cur = {}
  <2>1. \A w \in Workers : worker[w] = [pc |-> IF w = "startup" THEN "fresh" ELSE "idle",
                                        batch |-> {}, cur |-> {}]
    BY DEF Init
  <2>. QED  BY <2>1, IdleRecord
<1>5. TalkType
  BY <1>1, <1>2, <1>3 DEF TalkType, InlineType
<1>6. \A w \in Workers : HoldsOnce(w)
  BY <1>4 DEF HoldsOnce
<1>7. \A t \in Turns : SpokenOnce(t)
  BY <1>1, <1>3, <1>4 DEF SpokenOnce, Total, Has
<1>. QED  BY <1>5, <1>6, <1>7 DEF OnceInv

(***************************************************************************)
(* The goroutine of a turn.                                                *)
(***************************************************************************)
\* Steps of the goroutine r of which nobody hears anything.
LEMMA InlineQuiet ==
    ASSUME JobInv, OnceInv, NEW r \in Turns, NoFault \/ Fault(r), InlineType',
           UNCHANGED <<job, worker, messages>>,
           \A t \in Turns : inline'[t].pc # "done" => inline[t].pc # "done"
    PROVE  OnceInv'
<1>1. TalkType'
  BY EventsKeep DEF OnceInv, TalkType, messages
<1>2. \A w \in Workers : HoldsOnce(w)'
  BY SameWorker DEF OnceInv
<1>3. ASSUME NEW t \in Turns, Calm(t)' PROVE SpokenOnce(t)'
  <2>1. SpokenOnce(t)
    BY <1>3, FaultCalm DEF OnceInv, JobInv
  <2>2. Total(t)' = Total(t) /\ job'[t].status = job[t].status
    BY DEF Total, messages
  <2>. QED  BY <2>1, <2>2, SameWorker, TurnFrame
<1>. QED  BY <1>1, <1>2, <1>3 DEF OnceInv

LEMMA AskOnce ==
    ASSUME JobInv, OnceInv, NEW r \in Turns, Ask(r) \/ AskFails(r)
    PROVE  OnceInv'
<1>1. InlineType'
  BY DEF Ask, AskFails, OnceInv, TalkType, InlineType
<1>2. \A t \in Turns : inline'[t].pc # "done" => inline[t].pc # "done"
  BY DEF Ask, AskFails, OnceInv, TalkType, InlineType
<1>3. NoFault \/ Fault(r)
  BY DEF Ask, AskFails, NoFault
<1>. QED  BY <1>1, <1>2, <1>3, InlineQuiet DEF Ask, AskFails

\* The goroutine is done once it has stored its answer (message_service.go:382-385).
LEMMA AnsweredKeeps ==
    ASSUME JobInv, OnceInv, NEW r \in Turns, AskAnswered(r)
    PROVE  OnceInv'
<1>1. InlineType' /\ inline[r].pc = "asking" /\ inline'[r].pc = "done"
  BY DEF AskAnswered, OnceInv, TalkType, InlineType
<1>2. NoFault \/ Fault(r)
  BY DEF AskAnswered
<1>3. TalkType'
  BY <1>1, <1>2, EventsKeep DEF AskAnswered, OnceInv, TalkType
<1>4. \A w \in Workers : HoldsOnce(w)'
  BY SameWorker DEF AskAnswered, OnceInv
<1>5. ASSUME NEW t \in Turns, Calm(t)' PROVE SpokenOnce(t)'
  <2>1. SpokenOnce(t) /\ replies[t] \in Nat /\ notices[t] \in Nat
    BY <1>2, <1>5, FaultCalm DEF OnceInv, JobInv, TalkType
  <2>2. \A w \in Workers : (Has(w, t)' <=> Has(w, t)) /\ (Ending(w, t)' <=> Ending(w, t))
    BY SameWorker DEF AskAnswered
  <2>3. CASE t = r
    <3>1. job[t].status = "none" /\ Total(t) = 0 /\ \A w \in Workers : ~Has(w, t)
      BY <1>1, <2>1, <2>3 DEF SpokenOnce
    <3>2. Total(t)' <= 1 /\ job' = job
      BY <2>1, <2>3, <3>1 DEF Total, AskAnswered, OnceInv, TalkType
    <3>. QED  BY <1>1, <2>2, <2>3, <3>1, <3>2 DEF SpokenOnce
  <2>4. CASE t # r
    <3>1. Total(t)' = Total(t) /\ job' = job /\ inline'[t] = inline[t]
      BY <2>4 DEF Total, AskAnswered, OnceInv, TalkType, InlineType
    <3>. QED  BY <2>1, <2>2, <3>1, TurnFrame
  <2>. QED  BY <2>3, <2>4
<1>. QED  BY <1>3, <1>4, <1>5 DEF OnceInv

\* The job takes the turn over when the goroutine has given up without a word.
LEMMA EnqueueOnce ==
    ASSUME JobInv, OnceInv, NEW r \in Turns, EnqueueRetryJob(r)
    PROVE  OnceInv'
<1>1. InlineType' /\ inline[r].pc = "enqueue" /\ inline'[r].pc = "done"
  BY DEF EnqueueRetryJob, OnceInv, TalkType, InlineType
<1>2. NoFault \/ Fault(r)
  BY DEF EnqueueRetryJob
<1>3. TalkType'
  BY <1>1, <1>2, EventsKeep DEF EnqueueRetryJob, OnceInv, TalkType, messages
<1>4. \A w \in Workers : HoldsOnce(w)'
  BY SameWorker DEF EnqueueRetryJob, OnceInv
<1>5. ASSUME NEW t \in Turns, Calm(t)' PROVE SpokenOnce(t)'
  <2>1. SpokenOnce(t) /\ Total(t)' = Total(t)
    BY <1>2, <1>5, FaultCalm DEF OnceInv, JobInv, EnqueueRetryJob, messages, Total
  <2>2. \A w \in Workers : (Has(w, t)' <=> Has(w, t)) /\ (Ending(w, t)' <=> Ending(w, t))
    BY SameWorker DEF EnqueueRetryJob
  <2>3. CASE t = r
    <3>1. Total(t) = 0 /\ \A w \in Workers : ~Has(w, t)
      BY <1>1, <2>1, <2>3 DEF SpokenOnce
    <3>. QED  BY <1>1, <2>1, <2>2, <2>3, <3>1 DEF SpokenOnce
  <2>4. CASE t # r
    <3>1. job'[t] = job[t] /\ inline'[t] = inline[t]
      BY <2>4 DEF EnqueueRetryJob, OnceInv, TalkType, InlineType, JobInv, JobType
    <3>. QED  BY <2>1, <2>2, <3>1, TurnFrame
  <2>. QED  BY <2>3, <2>4
<1>. QED  BY <1>3, <1>4, <1>5 DEF OnceInv

(***************************************************************************)
(* The workers.                                                            *)
(***************************************************************************)
\* A job that is listed while the other worker holds it is marked as crossed.
LEMMA ListOnce ==
    ASSUME JobInv, OnceInv, NEW w \in Workers, ListJobs(w)
    PROVE  OnceInv'
<1> DEFINE due == {t \in Turns : Ready(t)}
           batch == {[turn |-> t, attempts |-> job[t].attempts] : t \in due}
           crossed == {t \in due : \E v \in Workers \ {w} : Has(v, t)}
<1>1. worker' = [worker EXCEPT ![w] =
         [pc |-> IF due = {} THEN AtRest(w) ELSE "next", cur |-> {}, batch |-> batch]]
  BY DEF ListJobs
<1>2. /\ \A j, k \in batch : j.turn = k.turn => j = k
      /\ \A t : (\E j \in batch : j.turn = t) <=> t \in due
      /\ due = {} => batch = {}
  <2> DEFINE entry(t) == [turn |-> t, attempts |-> job[t].attempts]
  <2>1. \A t : entry(t).turn = t
    OBVIOUS
  <2>2. batch = {entry(t) : t \in due}
    OBVIOUS
  <2>. HIDE DEF entry, batch, due
  <2>. QED  BY <2>1, <2>2
<1>3. Mark(crossed, "crossed")
  BY DEF ListJobs
<1>. HIDE DEF batch, crossed
<1>4. /\ worker'[w].batch = batch /\ worker'[w].cur = {}
      /\ worker'[w].pc = IF due = {} THEN AtRest(w) ELSE "next"
      /\ \A v \in Workers \ {w} : worker'[v] = worker[v]
  BY <1>1 DEF JobInv, JobType
<1>5. /\ worker[w].batch = {} /\ worker[w].cur = {}
  BY DEF ListJobs, OnceInv, HoldsOnce
<1>6. TalkType'
  BY DEF ListJobs, OnceInv, TalkType, InlineType, messages
<1>7. \A v \in Workers : HoldsOnce(v)'
  <2>1. HoldsOnce(w)'
    BY <1>2, <1>4 DEF HoldsOnce, AtRest
  <2>. QED  BY <1>4, <2>1, SameWorker DEF OnceInv
<1>8. ASSUME NEW t \in Turns, Calm(t)' PROVE SpokenOnce(t)'
  <2>1. Calm(t) /\ t \notin crossed
    BY <1>3, <1>8, MarkCalm DEF JobInv
  <2>2. SpokenOnce(t) /\ Total(t)' = Total(t) /\ job' = job /\ inline' = inline
    BY <2>1 DEF OnceInv, ListJobs, messages, Total
  <2>3. ~Has(w, t) /\ ~Ending(w, t) /\ ~Ending(w, t)' /\ (Has(w, t)' <=> t \in due)
    BY <1>2, <1>4, <1>5 DEF Has, Ending
  <2>4. \A v \in Workers \ {w} : (Has(v, t)' <=> Has(v, t)) /\ (Ending(v, t)' <=> Ending(v, t))
    BY <1>4, SameWorker
  <2>5. CASE t \in due
    <3>1. \A v \in Workers \ {w} : ~Has(v, t)
      BY <2>1, <2>5 DEF crossed
    <3>2. \A v \in Workers : ~Ending(v, t)
      BY <2>3, <3>1, EndingHas
    <3>3. job[t].status = "pending" /\ Total(t) = 0
      BY <2>2, <2>5, <3>2 DEF Ready, SpokenOnce
    <3>. QED  BY <2>2, <2>3, <2>4, <3>1, <3>3 DEF SpokenOnce
  <2>6. CASE t \notin due
    BY <2>2, <2>3, <2>4, <2>6, TurnFrame
  <2>. QED  BY <2>5, <2>6
<1>. QED  BY <1>6, <1>7, <1>8 DEF OnceInv

\* What a worker holds once it has turned to job j of its batch.
LEMMA TurnHolds ==
    ASSUME JobInv, OnceInv, NEW w \in Workers, worker[w].pc = "next",
           NEW j \in worker[w].batch,
           NEW label \in {"complete", "backoff", "notice"}, Turn(w, j, label)
    PROVE  /\ \A v \in Workers : HoldsOnce(v)'
           /\ \A v \in Workers \ {w}, t \in Turns :
                 (Has(v, t)' <=> Has(v, t)) /\ (Ending(v, t)' <=> Ending(v, t))
           /\ \A t \in Turns : (Has(w, t)' <=> Has(w, t)) /\ ~Ending(w, t)
           /\ \A t \in Turns : Ending(w, t)' <=> t = j.turn /\ label = "complete"
           /\ j.turn \in Turns /\ Has(w, j.turn)
<1>1. /\ \A v \in Workers \ {w} : worker'[v] = worker[v]
      /\ worker'[w].batch = worker[w].batch \ {j} /\ worker'[w].cur = {j}
      /\ worker'[w].pc = label /\ j.turn \in Turns
  BY TurnKeeps DEF JobInv
<1>2. HoldsOnce(w) /\ worker[w].cur = {}
  BY DEF OnceInv, HoldsOnce
<1>3. HoldsOnce(w)'
  BY <1>1, <1>2 DEF HoldsOnce
<1>4. \A t \in Turns : (Has(w, t)' <=> Has(w, t)) /\ ~Ending(w, t)
  BY <1>1, <1>2 DEF Has, Ending
<1>5. \A t \in Turns : Ending(w, t)' <=> t = j.turn /\ label = "complete"
  BY <1>1 DEF Ending
<1>. QED  BY <1>1, <1>3, <1>4, <1>5, SameWorker DEF OnceInv, Has

\* Only a worker that holds a job nobody spoke for answers it.
LEMMA AnswerOnce ==
    ASSUME JobInv, OnceInv, NEW w \in Workers, Answer(w)
    PROVE  OnceInv'
<1>1. PICK j \in worker[w].batch : /\ Turn(w, j, "complete")
                                   /\ replies' = [replies EXCEPT ![j.turn] = @ + 1]
  BY DEF Answer
<1>2. /\ \A v \in Workers : HoldsOnce(v)'
      /\ \A v \in Workers \ {w}, t \in Turns :
            (Has(v, t)' <=> Has(v, t)) /\ (Ending(v, t)' <=> Ending(v, t))
      /\ \A t \in Turns : (Has(w, t)' <=> Has(w, t)) /\ ~Ending(w, t)
      /\ \A t \in Turns : Ending(w, t)' <=> t = j.turn
      /\ j.turn \in Turns /\ Has(w, j.turn)
  BY <1>1, TurnHolds DEF Answer
<1>3. /\ replies \in [Turns -> Nat] /\ notices \in [Turns -> Nat]
      /\ job' = job /\ inline' = inline /\ notices' = notices /\ disturbed' = disturbed
  BY DEF Answer, OnceInv, TalkType
<1>4. TalkType'
  BY <1>1, <1>2, <1>3 DEF Answer, OnceInv, TalkType, InlineType
<1>5. ASSUME NEW t \in Turns, Calm(t)' PROVE SpokenOnce(t)'
  <2>1. SpokenOnce(t)
    BY <1>3, <1>5 DEF OnceInv, Calm
  <2>2. CASE t = j.turn
    <3>1. /\ Total(t) = 0 /\ job[t].status \in {"pending", "deleted"}
          /\ \A v \in Workers : Has(v, t) => v = w
      BY <1>2, <2>1, <2>2 DEF SpokenOnce
    <3>2. Total(t)' <= 1
      BY <1>1, <1>3, <2>2, <3>1 DEF Total
    <3>3. inline[t].pc = "done"
      BY <2>1, <3>1 DEF SpokenOnce
    <3>. QED  BY <1>2, <1>3, <2>2, <3>1, <3>2, <3>3 DEF SpokenOnce
  <2>3. CASE t # j.turn
    <3>1. Total(t)' = Total(t)
      BY <1>1, <1>3, <2>3 DEF Total
    <3>. QED  BY <1>2, <1>3, <2>1, <2>3, <3>1, TurnFrame
  <2>. QED  BY <2>2, <2>3
<1>. QED  BY <1>2, <1>4, <1>5 DEF OnceInv

\* An attempt that fails leaves no reply, or the turn is marked.
LEMMA AttemptOnce ==
    ASSUME JobInv, OnceInv, NEW w \in Workers, AttemptFails(w)
    PROVE  OnceInv'
<1>1. PICK j \in worker[w].batch :
         /\ Turn(w, j, IF LastAttempt(j) THEN "notice" ELSE "backoff")
         /\ \/ replies' = replies /\ NoFault
            \/ replies' = [replies EXCEPT ![j.turn] = @ + 1] /\ Fault(j.turn)
  BY DEF AttemptFails
<1>2. PICK label \in {"notice", "backoff"} : Turn(w, j, label)
  BY <1>1
<1>3. /\ \A v \in Workers : HoldsOnce(v)'
      /\ \A v \in Workers \ {w}, t \in Turns :
            (Has(v, t)' <=> Has(v, t)) /\ (Ending(v, t)' <=> Ending(v, t))
      /\ \A t \in Turns : (Has(w, t)' <=> Has(w, t)) /\ ~Ending(w, t)
      /\ \A t \in Turns : ~Ending(w, t)'
      /\ j.turn \in Turns /\ Has(w, j.turn)
  BY <1>2, TurnHolds DEF AttemptFails
<1>4. /\ replies \in [Turns -> Nat] /\ notices \in [Turns -> Nat]
      /\ job' = job /\ inline' = inline /\ notices' = notices
  BY DEF AttemptFails, OnceInv, TalkType
<1>5. TalkType'
  <2>1. events' \in Nat
    BY <1>1, EventsKeep DEF OnceInv
  <2>2. replies' \in [Turns -> Nat]
    BY <1>1, <1>3, <1>4
  <2>. QED  BY <1>4, <2>1, <2>2 DEF OnceInv, TalkType, InlineType
<1>6. ASSUME NEW t \in Turns, Calm(t)' PROVE SpokenOnce(t)'
  <2>1. Calm(t) /\ (t = j.turn => NoFault)
    BY <1>1, <1>6, FaultCalm DEF JobInv
  <2>2. SpokenOnce(t)
    BY <2>1 DEF OnceInv
  <2>3. Total(t)' = Total(t)
    <3>1. CASE replies' = replies
      BY <1>4, <3>1 DEF Total
    <3>2. CASE replies' = [replies EXCEPT ![j.turn] = @ + 1] /\ Fault(j.turn)
      <4>1. t # j.turn
        BY <1>6, <3>2, MarkCalm DEF Fault, JobInv
      <4>. QED  BY <1>4, <3>2, <4>1 DEF Total
    <3>. QED  BY <1>1, <3>1, <3>2
  <2>. QED  BY <1>3, <1>4, <2>2, <2>3, TurnFrame
<1>. QED  BY <1>3, <1>5, <1>6 DEF OnceInv

\* The user is told of a job nobody spoke for.
LEMMA NoticeOnce ==
    ASSUME JobInv, OnceInv, NEW w \in Workers, Notice(w)
    PROVE  OnceInv'
<1>1. PICK j \in worker[w].cur :
         \/ notices' = [notices EXCEPT ![j.turn] = @ + 1] /\ NoFault
         \/ notices' = notices /\ Fault(j.turn)
  BY DEF Notice
<1>2. /\ worker[w].pc = "notice" /\ worker'[w].pc = "exhaust"
      /\ worker'[w].batch = worker[w].batch /\ worker'[w].cur = worker[w].cur
      /\ \A v \in Workers \ {w} : worker'[v] = worker[v]
      /\ j.turn \in Turns
  BY DEF Notice, JobInv, JobType, Worker, WorkerOK, Listed
<1>3. /\ replies \in [Turns -> Nat] /\ notices \in [Turns -> Nat]
      /\ job' = job /\ inline' = inline /\ replies' = replies
  BY DEF Notice, OnceInv, TalkType
<1>4. TalkType'
  <2>1. events' \in Nat
    BY <1>1, EventsKeep DEF OnceInv
  <2>2. notices' \in [Turns -> Nat]
    BY <1>1, <1>2, <1>3
  <2>. QED  BY <1>3, <2>1, <2>2 DEF OnceInv, TalkType, InlineType
<1>5. \A v \in Workers : HoldsOnce(v)'
  <2>1. HoldsOnce(w)'
    BY <1>2 DEF OnceInv, HoldsOnce
  <2>. QED  BY <1>2, <2>1, SameWorker DEF OnceInv
<1>6. ASSUME NEW t \in Turns, Calm(t)' PROVE SpokenOnce(t)'
  <2>1. Calm(t) /\ (t = j.turn => NoFault)
    BY <1>1, <1>6, FaultCalm DEF JobInv
  <2>2. SpokenOnce(t)
    BY <2>1 DEF OnceInv
  <2>3. \A v \in Workers \ {w} : (Has(v, t)' <=> Has(v, t)) /\ (Ending(v, t)' <=> Ending(v, t))
    BY <1>2, SameWorker
  <2>4. (Has(w, t)' <=> Has(w, t)) /\ ~Ending(w, t)
    BY <1>2 DEF Has, Ending
  <2>5. Ending(w, t)' <=> t = j.turn
    <3>1. \A k \in worker[w].cur : k = j
      BY DEF OnceInv, HoldsOnce
    <3>. QED  BY <1>2, <3>1 DEF Ending
  <2>6. CASE t = j.turn
    <3>1. Has(w, t)
      BY <2>6 DEF Has
    <3>2. /\ Total(t) = 0 /\ job[t].status \in {"pending", "deleted"}
          /\ \A v \in Workers : Has(v, t) => v = w
      BY <2>2, <2>4, <3>1 DEF SpokenOnce
    <3>3. inline[t].pc = "done"
      BY <2>2, <3>2 DEF SpokenOnce
    <3>4. Total(t)' <= 1
      BY <1>1, <1>3, <2>6, <3>2 DEF Total
    <3>. QED  BY <1>3, <2>3, <2>4, <2>5, <2>6, <3>2, <3>3, <3>4 DEF SpokenOnce
  <2>7. CASE t # j.turn
    <3>1. Total(t)' = Total(t)
      BY <1>1, <1>3, <2>7 DEF Total
    <3>. QED  BY <1>3, <2>2, <2>3, <2>4, <2>5, <2>7, <3>1, TurnFrame
  <2>. QED  BY <2>6, <2>7
<1>. QED  BY <1>4, <1>5, <1>6 DEF OnceInv

\* The row of the job a worker had turned to is written, and the worker goes on.  What
\* is needed of the row: it waits no more, or nobody has spoken for the turn.
LEMMA WriteOnce ==
    ASSUME JobInv, OnceInv, NEW w \in Workers, NEW j \in worker[w].cur, NEW row,
           Update(j.turn, row), Proceed(w), UNCHANGED <<inline, messages>>,
           row.status = "pending" => ~Ending(w, j.turn)
    PROVE  OnceInv'
<1>1. j.turn \in Turns /\ Has(w, j.turn)
  BY DEF JobInv, JobType, WorkerOK, Listed, Has
<1>2. /\ \A v \in Workers \ {w} : worker'[v] = worker[v]
      /\ worker'[w].batch = worker[w].batch /\ worker'[w].cur = {}
      /\ worker'[w].pc = IF worker[w].batch = {} THEN AtRest(w) ELSE "next"
  BY DEF JobInv, JobType, Proceed, Worker
<1>3. NoFault \/ Fault(j.turn)
  BY DEF Update
<1>4. TalkType'
  BY <1>3, EventsKeep DEF OnceInv, TalkType, InlineType, messages
<1>5. \A v \in Workers : HoldsOnce(v)'
  <2>1. HoldsOnce(w)'
    BY <1>2 DEF OnceInv, HoldsOnce, AtRest
  <2>. QED  BY <1>2, <2>1, SameWorker DEF OnceInv
<1>6. ASSUME NEW t \in Turns, Calm(t)' PROVE SpokenOnce(t)'
  <2>1. Calm(t) /\ (t = j.turn => NoFault)
    BY <1>3, <1>6, FaultCalm DEF JobInv
  <2>2. SpokenOnce(t) /\ Total(t)' = Total(t)
    BY <2>1 DEF OnceInv, Total, messages
  <2>3. \A v \in Workers \ {w} : (Has(v, t)' <=> Has(v, t)) /\ (Ending(v, t)' <=> Ending(v, t))
    BY <1>2, SameWorker
  <2>4. (Has(w, t)' => Has(w, t)) /\ ~Ending(w, t)'
    BY <1>2 DEF Has, Ending
  <2>5. CASE t = j.turn
    <3>1. /\ job[t].status \in {"pending", "deleted"} /\ inline[t].pc = "done"
          /\ \A v \in Workers : Has(v, t) => v = w
          /\ ~Ending(w, t) => Total(t) = 0
      BY <1>1, <2>2, <2>5 DEF SpokenOnce
    <3>2. ~Has(w, t)'
      BY <1>2, <2>5 DEF Has, OnceInv, HoldsOnce
    <3>3. \A v \in Workers : ~Has(v, t)'
      BY <2>3, <3>1, <3>2
    <3>4. job'[t].status = "pending" => Total(t) = 0
      <4>1. CASE job[t].status = "pending"
        <5>1. job'[t] = row
          <6>1. job' = [job EXCEPT ![t] = row]
            <7>1. ~Fault(j.turn)
              BY <1>6, <2>5, MarkCalm DEF Fault, JobInv
            <7>. QED  BY <2>5, <4>1, <7>1 DEF Update, Live
          <6>. QED  BY <6>1 DEF JobInv, JobType
        <5>. QED  BY <2>5, <3>1, <5>1
      <4>2. CASE job[t].status = "deleted"
        <5>1. job' = job
          BY <2>5, <4>2 DEF Update, Live, Settled
        <5>. QED  BY <4>2, <5>1
      <4>. QED  BY <3>1, <4>1, <4>2
    <3>. QED  BY <2>2, <3>1, <3>3, <3>4 DEF SpokenOnce
  <2>6. CASE t # j.turn
    <3>1. job'[t] = job[t]
      BY <1>1, <2>6 DEF Update, JobInv, JobType
    <3>2. ~Ending(w, t)
      <4>1. \A k \in worker[w].cur : k = j
        BY DEF OnceInv, HoldsOnce
      <4>. QED  BY <2>6, <4>1 DEF Ending
    <3>. QED  BY <2>2, <2>3, <2>4, <3>1, <3>2, TurnFrame
  <2>. QED  BY <2>5, <2>6
<1>. QED  BY <1>4, <1>5, <1>6 DEF OnceInv

LEMMA WritesOnce ==
    ASSUME JobInv, OnceInv, NEW w \in Workers, Complete(w) \/ Backoff(w) \/ Exhaust(w)
    PROVE  OnceInv'
<1>1. CASE Complete(w)
  <2>1. PICK j \in worker[w].cur : Update(j.turn, [job[j.turn] EXCEPT !.status = "completed"])
    BY <1>1 DEF Complete
  <2>2. [job[j.turn] EXCEPT !.status = "completed"].status # "pending"
    BY DEF JobInv, JobType, WorkerOK, Listed, Job
  <2>. QED  BY <1>1, <2>1, <2>2, WriteOnce DEF Complete, messages
<1>2. CASE Backoff(w)
  <2>1. PICK j \in worker[w].cur :
           Update(j.turn, [job[j.turn] EXCEPT !.attempts = j.attempts + 1, !.due = FALSE])
    BY <1>2 DEF Backoff
  <2>2. ~Ending(w, j.turn)
    BY <1>2 DEF Backoff, Ending
  <2>. QED  BY <1>2, <2>1, <2>2, WriteOnce DEF Backoff, messages
<1>3. CASE Exhaust(w)
  <2>1. PICK j \in worker[w].cur :
           Update(j.turn, [job[j.turn] EXCEPT !.status = "exhausted", !.attempts = j.attempts + 1])
    BY <1>3 DEF Exhaust
  <2>2. [job[j.turn] EXCEPT !.status = "exhausted", !.attempts = j.attempts + 1].status # "pending"
    BY DEF JobInv, JobType, WorkerOK, Listed, Job
  <2>. QED  BY <1>3, <2>1, <2>2, WriteOnce DEF Exhaust, messages
<1>. QED  BY <1>1, <1>2, <1>3

(***************************************************************************)
(* Time, the admin and crashes.                                            *)
(***************************************************************************)
\* Steps that touch rows only: those of calm turns keep their status or are deleted, and
\* none that never was comes to be.
LEMMA RowsOnce ==
    ASSUME JobInv, OnceInv, UNCHANGED <<inline, worker, messages>>, events' \in Nat,
           \A t \in Turns : Calm(t)' =>
               /\ Calm(t)
               /\ \/ job'[t].status = job[t].status
                  \/ job[t].status # "none" /\ job'[t].status = "deleted"
    PROVE  OnceInv'
<1>1. TalkType'
  BY DEF OnceInv, TalkType, InlineType, messages
<1>2. \A w \in Workers : HoldsOnce(w)'
  BY SameWorker DEF OnceInv
<1>3. ASSUME NEW t \in Turns, Calm(t)' PROVE SpokenOnce(t)'
  <2>1. SpokenOnce(t) /\ Total(t)' = Total(t)
    BY <1>3 DEF OnceInv, messages, Total
  <2>2. \A w \in Workers : (Has(w, t)' <=> Has(w, t)) /\ (Ending(w, t)' <=> Ending(w, t))
    BY SameWorker
  <2>. QED  BY <1>3, <2>1, <2>2 DEF SpokenOnce
<1>. QED  BY <1>1, <1>2, <1>3 DEF OnceInv

LEMMA AdminOnce ==
    ASSUME JobInv, OnceInv,
           \/ \E t \in Turns : FallDue(t)
           \/ \E ts \in SUBSET Turns : RetryJobs(ts)
           \/ \E statuses \in SUBSET Live : CleanupRetryJobs(statuses)
    PROVE  OnceInv'
<1>1. ASSUME NEW t \in Turns, FallDue(t) PROVE OnceInv'
  <2>1. \A u \in Turns : job'[u].status = job[u].status
    BY <1>1 DEF FallDue, JobInv, JobType, Job
  <2>2. events' \in Nat /\ disturbed' = disturbed
    BY <1>1 DEF FallDue, OnceInv, TalkType
  <2>. QED  BY <1>1, <2>1, <2>2, RowsOnce DEF FallDue, Calm
<1>2. ASSUME NEW ts \in SUBSET Turns, RetryJobs(ts) PROVE OnceInv'
  <2>1. \A t \in Turns : Calm(t)' => Calm(t) /\ t \notin ts
    BY <1>2 DEF RetryJobs, Calm
  <2>2. \A t \in Turns : t \notin ts => job'[t] = job[t]
    BY <1>2 DEF RetryJobs
  <2>3. events' \in Nat
    BY <1>2 DEF RetryJobs, Event, OnceInv, TalkType
  <2>. QED  BY <1>2, <2>1, <2>2, <2>3, RowsOnce DEF RetryJobs
<1>3. ASSUME NEW statuses \in SUBSET Live, CleanupRetryJobs(statuses) PROVE OnceInv'
  <2>1. \A t \in Turns : \/ job'[t].status = job[t].status
                         \/ job[t].status # "none" /\ job'[t].status = "deleted"
    BY <1>3 DEF CleanupRetryJobs, JobInv, JobType, Job, Live, Settled
  <2>2. events' \in Nat /\ disturbed' = disturbed
    BY <1>3 DEF CleanupRetryJobs, Event, OnceInv, TalkType
  <2>. QED  BY <1>3, <2>1, <2>2, RowsOnce DEF CleanupRetryJobs, Calm
<1>. QED  BY <1>1, <1>2, <1>3

\* A crash marks every turn somebody was at work on.
LEMMA CrashOnce == JobInv /\ OnceInv /\ Crash => OnceInv'
<1>. SUFFICES ASSUME JobInv, OnceInv, Crash PROVE OnceInv'
  OBVIOUS
<1> DEFINE hit == {t \in Turns : inline[t].pc \in {"asking", "enqueue"}
                                 \/ \E w \in Workers : Has(w, t)}
<1>1. Mark(hit, "crash") /\ UNCHANGED <<job, messages>>
  BY DEF Crash
<1>2. \A w \in Workers : /\ worker'[w].batch = {} /\ worker'[w].cur = {}
  BY DEF Crash
<1>3. InlineType' /\ \A t \in Turns : inline'[t].pc # "done" => inline[t].pc = "none"
  BY DEF Crash, OnceInv, TalkType, InlineType
<1>4. TalkType'
  BY <1>3 DEF Crash, Event, OnceInv, TalkType, messages
<1>5. \A w \in Workers : HoldsOnce(w)'
  BY <1>2 DEF HoldsOnce
<1>6. ASSUME NEW t \in Turns, Calm(t)' PROVE SpokenOnce(t)'
  <2>1. Calm(t) /\ t \notin hit
    BY <1>1, <1>6, MarkCalm DEF JobInv
  <2>2. SpokenOnce(t) /\ \A w \in Workers : ~Has(w, t) /\ ~Ending(w, t)
    BY <2>1, EndingHas DEF OnceInv
  <2>3. Total(t)' = Total(t) /\ \A w \in Workers : ~Has(w, t)'
    BY <1>1, <1>2 DEF Total, messages, Has
  <2>. QED  BY <1>1, <1>3, <2>2, <2>3 DEF SpokenOnce
<1>. QED  BY <1>4, <1>5, <1>6 DEF OnceInv

LEMMA NextOnce == JobInv /\ OnceInv /\ [Next]_vars => OnceInv'
<1>. SUFFICES ASSUME JobInv, OnceInv, [Next]_vars PROVE OnceInv'
  OBVIOUS
<1>1. CASE UNCHANGED vars
  <2>1. \A t \in Turns : (Calm(t)' => Calm(t)) /\ job'[t].status = job[t].status
    BY <1>1 DEF vars, Calm
  <2>2. events' \in Nat /\ UNCHANGED <<inline, worker, messages>>
    BY <1>1 DEF vars, OnceInv, TalkType, messages
  <2>. QED  BY <2>1, <2>2, RowsOnce
<1>2. CASE SkipPass
  <2>1. /\ worker'["ticker"] = worker["ticker"]
        /\ worker["startup"].pc = "fresh" /\ worker'["startup"].pc = "ended"
        /\ worker'["startup"].batch = worker["startup"].batch
        /\ worker'["startup"].cur = worker["startup"].cur
    BY <1>2 DEF SkipPass, JobInv, JobType, Worker, Workers
  <2>2. \A w \in Workers : HoldsOnce(w)'
    BY <2>1, SameWorker DEF OnceInv, HoldsOnce, Workers
  <2>3. ASSUME NEW t \in Turns, Calm(t)' PROVE SpokenOnce(t)'
    <3>1. SpokenOnce(t) /\ Total(t)' = Total(t) /\ job' = job /\ inline' = inline
      BY <1>2, <2>3 DEF SkipPass, OnceInv, Calm, Total, messages
    <3>2. \A w \in Workers : (Has(w, t)' <=> Has(w, t)) /\ (Ending(w, t)' <=> Ending(w, t))
      BY <2>1 DEF Has, Ending, Workers
    <3>. QED  BY <3>1, <3>2, TurnFrame
  <2>4. TalkType'
    BY <1>2 DEF SkipPass, OnceInv, TalkType, InlineType, messages
  <2>. QED  BY <2>2, <2>3, <2>4 DEF OnceInv
<1>3. ASSUME NEW t \in Turns, Ask(t) \/ AskFails(t) PROVE OnceInv'
  BY <1>3, AskOnce
<1>4. ASSUME NEW t \in Turns, AskAnswered(t) \/ EnqueueRetryJob(t) PROVE OnceInv'
  BY <1>4, AnsweredKeeps, EnqueueOnce
<1>5. ASSUME NEW w \in Workers, WorkerStep(w) PROVE OnceInv'
  BY <1>5, ListOnce, AnswerOnce, AttemptOnce, NoticeOnce, WritesOnce DEF WorkerStep
<1>6. CASE \/ \E t \in Turns : FallDue(t)
           \/ \E ts \in SUBSET Turns : RetryJobs(ts)
           \/ \E statuses \in SUBSET Live : CleanupRetryJobs(statuses)
  BY <1>6, AdminOnce
<1>7. CASE Crash
  BY <1>7, CrashOnce
<1>. QED
  <2>1. CASE Next
    BY <2>1, <1>2, <1>3, <1>4, <1>5, <1>6, <1>7 DEF Next, InlineStep
  <2>. QED  BY <1>1, <2>1

\* For any number of messages to the bot: a turn that no fault, crash or reset befell and
\* that two passes did not list together has at most one answer or notice, and never both,
\* whoever gave it (message_service.go:362-402, ai/service.go:560-601).
THEOREM OneAnswerPerTurn == Spec => []AnsweredOnce
<1>1. JobInv /\ OnceInv => AnsweredOnce
  <2>. SUFFICES ASSUME JobInv, OnceInv PROVE AnsweredOnce
    OBVIOUS
  <2>1. TypeOK
    BY DEF JobInv, JobType, OnceInv, TalkType, InlineType, TypeOK
  <2>. QED  BY <2>1 DEF OnceInv, SpokenOnce, Total, Calm, AnsweredOnce
<1>2. Spec => [](JobInv /\ OnceInv)
  <2>1. Init => JobInv /\ OnceInv
    BY InitJob, InitOnce
  <2>2. JobInv /\ OnceInv /\ [Next]_vars => JobInv' /\ OnceInv'
    BY NextJob, NextOnce
  <2>. QED  BY <2>1, <2>2, PTL DEF Spec
<1>. QED  BY <1>1, <1>2, PTL

(***************************************************************************)
(* AdminConsole.  InPlace and PageAgrees follow from ConsoleInv, which     *)
(* says which requests the page on screen may have under way (CallsFit),   *)
(* what their answers are worth when they are read (PlaceTrue, RowsFit,    *)
(* FormFits), and that a page that was left can no longer touch what the   *)
(* page on screen shows, but for opening another.                          *)
(***************************************************************************)
Kinds == {"none", "me", "load", "login", "change", "resolve", "reindex", "logs", "log", "poll",
          "list", "retry", "batch", "cleanup", "detail", "save"}
Replies == {"none", "ok", "must", "refused", "forbidden", "error"}
Call == [kind : Kinds, page : Pages, here : BOOLEAN, tok : Nat, reply : Replies, filter : Filters,
         ids : SUBSET Jobs, clears : BOOLEAN, sole : BOOLEAN, got : SUBSET Row, text : Nat]
AIState == [filter : Filters, rows : SUBSET Row, fresh : BOOLEAN, detail : SUBSET Row,
            form : Nat, clean : BOOLEAN]

ConsoleType ==
    /\ must \in BOOLEAN /\ logins \in Nat /\ stored \in Nat
    /\ token \in 0..logins /\ alive \subseteq 1..logins
    /\ page \in [at : Pages, phase : {"boot", "shown"}]
    /\ ai \in AIState
    /\ calls \in [Slots -> Call]
    /\ \A s \in Slots : calls[s].tok \in 0..logins
    /\ strays \in Nat /\ slipped \in BOOLEAN

\* What a page asks before it shows anything.
First == {"me", "load"}
\* The pages that send a request.
PageOfKind(k) == CASE k \in JobCalls \cup {"detail", "save"} -> {"ai"}
                   [] k \in {"logs", "log"} -> {"report"}
                   [] k = "load" -> Loaders
                   [] OTHER -> Pages

\* A request of the page on screen knows the page it is of, and is its first
\* requests while it opens and the others once it is shown.
CallFits(c) ==
    /\ c.page \in PageOfKind(c.kind)
    /\ c.here /\ c.kind # "poll" =>
          /\ c.kind # "none" /\ c.page = page.at
          /\ page.phase = IF c.kind \in First THEN "boot" ELSE "shown"

\* A page has one first request under way until it is shown.
CallsFit ==
    /\ \A s \in Slots : CallFits(calls[s])
    /\ \A s \in Mine(First), t \in Mine(First) : s = t
    /\ page.phase = "boot" => Mine(First) # {}

\* The first part of PageAgrees.
TimersFit == timers = strays + (IF On("monitor") THEN 1 ELSE 0)

\* The password was set, and the page that asked has yet to hear of it: until then
\* the form for it may be on screen though nothing is to be set any more.
Changed == \E s \in Slots : calls[s].kind = "change" /\ calls[s].reply = "ok"
Enters == token \in alive /\ ~must
MustSet == token \in alive /\ (must \/ Changed)

\* What the answer to a first request says of the account is still so when it is read.
FirstTrue(c) ==
    c.here /\ c.kind \in First =>
        /\ c.tok = token
        /\ c.kind = "me" =>
              /\ c.reply \in {"none", "ok", "must", "refused"}
              /\ c.reply = "ok" => Enters
              /\ c.reply = "must" => MustSet
              /\ c.reply = "refused" => token \notin alive
        /\ c.kind = "load" => Enters

\* Unless something befell the tab since the page was opened, the page stands where the
\* account does, or will by the answer it awaits.
PlaceTrue ==
    ~slipped =>
        /\ \A s \in Slots : FirstTrue(calls[s])
        /\ page.phase = "shown" =>
              /\ page.at \notin {"login", "force"} => Enters
              /\ page.at = "force" => MustSet
              /\ page.at = "login" => token \notin alive

\* The rows are of the filter.
Fits(f, rows) == \A r \in rows : f \in {"all", r.status}

\* One request about the jobs at a time, whose listing is by the filter highlighted.
RowsFit ==
    /\ page.phase = "boot" => ai.filter = "all" /\ ~ai.clean
    /\ \A s \in Mine(JobCalls), t \in Mine(JobCalls) : s = t
    /\ \A s \in Mine(JobCalls) : calls[s].filter = ai.filter
    /\ \A s \in Slots : calls[s].kind = "list" => Fits(calls[s].filter, calls[s].got)
    /\ On("ai") /\ ai.fresh /\ Mine({"list"}) = {} => Fits(ai.filter, ai.rows)

\* A clean form is the configuration stored, and a save under way would store it again; a
\* save without another under way stores what its answer puts into the form.
FormFits ==
    /\ ai.clean => /\ ai.form = stored
                   /\ \A s \in Slots : calls[s].kind = "save" => calls[s].here /\ calls[s].text = stored
    /\ \A s \in Mine({"save"}) : calls[s].sole =>
          /\ \A t \in Slots : calls[t].kind = "save" => t = s
          /\ calls[s].reply = "ok" => calls[s].text = stored

ConsoleInv == ConsoleType /\ CallsFit /\ TimersFit /\ PlaceTrue /\ RowsFit /\ FormFits

USE DEF First

LEMMA EmptyCall == NoCall \in Call
BY DEF NoCall, Call, Kinds, Pages, Replies, Filters

LEMMA RequestIs ==
    ASSUME ConsoleType, NEW k \in Kinds, NEW p \in Pages
    PROVE  LET c == Request(k, p) IN
           /\ c \in Call /\ c.kind = k /\ c.page = p /\ c.here /\ c.tok = token
           /\ c.reply = "none" /\ c.filter = "all" /\ c.got = {} /\ c.text = 0
           /\ ~c.clears /\ ~c.sole /\ c.ids = {}
<1>1. token \in Nat
  BY DEF ConsoleType
<1> QED BY <1>1, EmptyCall DEF Request, NoCall, Call, Replies, Filters

LEMMA ListCallIs ==
    ASSUME ConsoleType, NEW f \in Filters
    PROVE  LET c == ListCall(f) IN
           /\ c \in Call /\ c.kind = "list" /\ c.page = "ai" /\ c.here /\ c.tok = token
           /\ c.reply = "none" /\ c.filter = f /\ c.got = {} /\ ~c.sole
<1>1. "list" \in Kinds /\ "ai" \in Pages
  BY DEF Kinds, Pages
<1> QED BY <1>1, RequestIs DEF ListCall, Call

LEMMA InitConsole == ConsoleInit => ConsoleInv
<1>. SUFFICES ASSUME ConsoleInit PROVE ConsoleInv
  OBVIOUS
<1>. DEFINE o == CHOOSE x \in Slots : TRUE
<1>1. o \in Slots
  BY SlotsExist
<1>2. PICK p \in Pages : page = [at |-> p, phase |-> "boot"]
  BY DEF ConsoleInit
<1>3. token \in Nat /\ "me" \in Kinds
  BY DEF ConsoleInit, Kinds
<1>4. calls = [s \in Slots |-> IF s = o THEN Request("me", p) ELSE NoCall]
  BY <1>2 DEF ConsoleInit
<1>5. /\ Request("me", p) \in Call /\ Request("me", p).kind = "me" /\ Request("me", p).page = p
      /\ Request("me", p).here /\ Request("me", p).tok = token /\ Request("me", p).reply = "none"
  BY <1>3, EmptyCall DEF Request, NoCall, Call
<1>6. NoCall \in Call /\ NoCall.kind = "none" /\ NoCall.page = "login" /\ ~NoCall.here /\ NoCall.tok = 0
  BY EmptyCall DEF NoCall
<1>. HIDE DEF o
<1>7. calls[o] = Request("me", p) /\ \A s \in Slots : s # o => calls[s] = NoCall
  BY <1>1, <1>4
<1>8. ConsoleType
  <2>1. ai \in AIState
    BY DEF ConsoleInit, FreshAI, AIState, Filters
  <2>2. calls \in [Slots -> Call] /\ \A s \in Slots : calls[s].tok \in 0..logins
    BY <1>4, <1>5, <1>6, <1>7 DEF ConsoleInit
  <2>3. must \in BOOLEAN /\ slipped \in BOOLEAN
    BY DEF ConsoleInit
  <2>4. page \in [at : Pages, phase : {"boot", "shown"}]
    BY <1>2
  <2>5. /\ logins = 1 /\ stored = 0 /\ strays = 0 /\ token \in {0, 1}
        /\ alive \in {{}, {1}}
    BY DEF ConsoleInit
  <2>6. logins \in Nat /\ stored \in Nat /\ strays \in Nat /\ token \in 0..logins
    BY <2>5
  <2>7. alive \subseteq 1..logins
    BY <2>5
  <2> QED BY <2>1, <2>2, <2>3, <2>4, <2>6, <2>7 DEF ConsoleType
<1>9. CallsFit
  <2>1. "login" \in Pages
    BY DEF Pages
  <2> QED BY <1>1, <1>2, <1>5, <1>6, <1>7, <2>1 DEF CallsFit, CallFits, PageOfKind, Mine, JobCalls
<1>10. TimersFit
  BY <1>2 DEF ConsoleInit, TimersFit, On
<1>11. PlaceTrue
  BY <1>2, <1>5, <1>6, <1>7 DEF PlaceTrue, FirstTrue
<1>12. RowsFit
  BY <1>2, <1>5, <1>6, <1>7 DEF ConsoleInit, RowsFit, FreshAI, Mine, JobCalls, On
<1>13. FormFits
  BY <1>2, <1>5, <1>6, <1>7 DEF ConsoleInit, FormFits, FreshAI, Mine
<1> QED BY <1>8, <1>9, <1>10, <1>11, <1>12, <1>13 DEF ConsoleInv

LEMMA OpenKeeps ==
    ASSUME ConsoleInv, NEW o \in Slots, NEW p \in Pages, NEW tk \in 0..logins, NEW hard \in BOOLEAN,
           Open(o, p, tk, hard), UNCHANGED server
    PROVE  ConsoleInv'
<1>. DEFINE new == [Request("me", p) EXCEPT !.tok = tk]
            rest(s) == IF hard THEN NoCall ELSE [calls[s] EXCEPT !.here = FALSE]
<1>1. ConsoleType /\ logins \in Nat /\ tk \in Nat /\ calls \in [Slots -> Call]
  BY DEF ConsoleInv, ConsoleType
<1>2. /\ new \in Call /\ new.kind = "me" /\ new.page = p /\ new.here /\ new.tok = tk
      /\ new.reply = "none"
  <2>1. "me" \in Kinds
    BY DEF Kinds
  <2> QED BY <1>1, <2>1, RequestIs DEF Call
<1>3. ASSUME NEW s \in Slots
      PROVE  /\ rest(s) \in Call /\ ~rest(s).here /\ rest(s).tok \in 0..logins
             /\ rest(s).page \in PageOfKind(rest(s).kind)
             /\ rest(s).kind = "list" => Fits(rest(s).filter, rest(s).got)
  <2>1. CASE hard
    BY <2>1, <1>1, EmptyCall DEF NoCall, PageOfKind, JobCalls, Pages
  <2>2. CASE ~hard
    <3>1. /\ calls[s] \in Call /\ calls[s].tok \in 0..logins /\ CallFits(calls[s])
          /\ calls[s].kind = "list" => Fits(calls[s].filter, calls[s].got)
      BY <1>1 DEF ConsoleInv, ConsoleType, CallsFit, RowsFit
    <3>2. /\ rest(s) \in Call /\ ~rest(s).here /\ rest(s).tok = calls[s].tok
          /\ rest(s).page = calls[s].page /\ rest(s).kind = calls[s].kind
          /\ rest(s).filter = calls[s].filter /\ rest(s).got = calls[s].got
      BY <2>2, <3>1 DEF Call
    <3> QED BY <3>1, <3>2 DEF CallFits
  <2> QED BY <2>1, <2>2
<1>4. calls' = [s \in Slots |-> IF s = o THEN new ELSE rest(s)]
  BY DEF Open
<1>. HIDE DEF new, rest
<1>5. calls'[o] = new /\ \A s \in Slots : s # o => calls'[s] = rest(s)
  BY <1>4
<1>6. /\ page' = [at |-> p, phase |-> "boot"] /\ token' = tk /\ slipped' = FALSE
      /\ must' = must /\ alive' = alive /\ logins' = logins /\ stored' = stored
      /\ ai' = FreshAI
  BY DEF Open, server
<1>7. ConsoleType'
  <2>1. ai' \in AIState
    BY <1>6 DEF FreshAI, AIState, Filters
  <2>2. calls' \in [Slots -> Call] /\ \A s \in Slots : calls'[s].tok \in 0..logins
    BY <1>2, <1>3, <1>4, <1>5
  <2>3. strays' \in Nat
    BY <1>1 DEF Open, ConsoleType
  <2> QED BY <1>1, <1>6, <2>1, <2>2, <2>3 DEF ConsoleType
<1>8. CallsFit'
  <2>1. ASSUME NEW s \in Slots PROVE CallFits(calls[s])'
    BY <1>2, <1>3, <1>5, <1>6 DEF CallFits, PageOfKind, JobCalls
  <2>2. \A s \in Slots : s # o => ~calls'[s].here
    BY <1>3, <1>5
  <2>3. Mine(First)' = {o}
    BY <1>2, <1>5, <2>2 DEF Mine
  <2> QED BY <2>1, <2>3 DEF CallsFit
<1>9. TimersFit'
  BY <1>6 DEF Open, TimersFit, TimersAfterLeaving, On, ConsoleInv, ConsoleType
<1>10. PlaceTrue'
  BY <1>2, <1>3, <1>5, <1>6 DEF PlaceTrue, FirstTrue
<1>11. RowsFit'
  BY <1>2, <1>3, <1>5, <1>6 DEF RowsFit, FreshAI, Mine, JobCalls, On
<1>12. FormFits'
  BY <1>2, <1>3, <1>5, <1>6 DEF FormFits, FreshAI, Mine
<1> QED BY <1>7, <1>8, <1>9, <1>10, <1>11, <1>12 DEF ConsoleInv

LEMMA ReplyKeeps ==
    ASSUME ConsoleInv, NEW s \in Slots, NEW d \in Call,
           d.tok \in 0..logins', logins' \in Nat, logins' >= logins,
           UNCHANGED <<token, page, ai, timers, strays>>,
           calls' = [calls EXCEPT ![s] = d],
           d.kind = calls[s].kind, d.page = calls[s].page, d.here = calls[s].here,
           d.filter = calls[s].filter, d.kind = "list" => Fits(d.filter, d.got)
    PROVE  /\ calls' \in [Slots -> Call] /\ \A t \in Slots : calls'[t].tok \in 0..logins'
           /\ CallsFit' /\ TimersFit' /\ RowsFit'
<1>1. calls \in [Slots -> Call] /\ logins \in Nat /\ \A t \in Slots : calls[t].tok \in 0..logins
  BY DEF ConsoleInv, ConsoleType
<1>2. calls'[s] = d /\ \A t \in Slots : t # s => calls'[t] = calls[t]
  BY <1>1
<1>3. \A t \in Slots : /\ calls'[t].kind = calls[t].kind /\ calls'[t].page = calls[t].page
                       /\ calls'[t].here = calls[t].here /\ calls'[t].filter = calls[t].filter
  BY <1>2
<1>4. ASSUME NEW K PROVE Mine(K)' = Mine(K)
  BY <1>3 DEF Mine
<1>5. calls' \in [Slots -> Call]
  BY <1>1
<1>6. \A t \in Slots : calls'[t].tok \in 0..logins'
  BY <1>1, <1>2
<1>7. CallsFit'
  <2>1. \A t \in Slots : CallFits(calls[t]) => CallFits(calls[t])'
    BY <1>3 DEF CallFits
  <2>2. Mine(First)' = Mine(First)
    BY <1>4
  <2> QED BY <2>1, <2>2 DEF CallsFit, ConsoleInv
<1>8. TimersFit'
  BY DEF TimersFit, On, ConsoleInv
<1>9. RowsFit'
  <2>1. Mine(JobCalls)' = Mine(JobCalls) /\ Mine({"list"})' = Mine({"list"})
    BY <1>4 DEF JobCalls
  <2>2. \A t \in Mine(JobCalls) : t \in Slots
    BY DEF Mine
  <2>3. RowsFit
    BY DEF ConsoleInv
  <2>4. \A t \in Slots : calls'[t].kind = "list" => Fits(calls'[t].filter, calls'[t].got)
    BY <1>2, <2>3 DEF RowsFit
  <2> QED BY <1>3, <2>1, <2>2, <2>3, <2>4 DEF RowsFit, On
<1> QED BY <1>5, <1>6, <1>7, <1>8, <1>9

LEMMA ReplyPlace ==
    ASSUME ConsoleInv, NEW s \in Slots, NEW d \in Call,
           UNCHANGED <<token, page, slipped>>,
           calls' = [calls EXCEPT ![s] = d], calls[s].reply = "none",
           d.kind = calls[s].kind, d.page = calls[s].page, d.here = calls[s].here,
           token \in alive' <=> token \in alive,
           must' => must,
           must /\ ~must' => d.kind = "change" /\ d.reply = "ok",
           ~slipped => FirstTrue(d)'
    PROVE  PlaceTrue'
<1>1. calls \in [Slots -> Call] /\ must \in BOOLEAN /\ PlaceTrue
  BY DEF ConsoleInv, ConsoleType
<1>2. calls'[s] = d /\ \A t \in Slots : t # s => calls'[t] = calls[t]
  BY <1>1
<1>3. Changed => Changed'
  BY <1>2 DEF Changed
<1>4. must /\ ~must' => Changed'
  BY <1>2 DEF Changed
<1>5. (Enters => Enters') /\ (MustSet => MustSet')
  BY <1>1, <1>3, <1>4 DEF Enters, MustSet
<1>6. ASSUME ~slipped, NEW t \in Slots PROVE FirstTrue(calls[t])'
  <2>1. CASE t = s
    BY <1>2, <1>6, <2>1 DEF FirstTrue
  <2>2. CASE t # s
    BY <1>1, <1>2, <1>5, <1>6, <2>2 DEF FirstTrue, PlaceTrue
  <2> QED BY <2>1, <2>2
<1> QED BY <1>1, <1>5, <1>6 DEF PlaceTrue

LEMMA ReplyForm ==
    ASSUME ConsoleInv, NEW s \in Slots, NEW d \in Call,
           UNCHANGED <<ai, page>>,
           calls' = [calls EXCEPT ![s] = d],
           d.kind = calls[s].kind, d.here = calls[s].here, d.sole = calls[s].sole,
           d.kind = "save" => d.text = calls[s].text,
           \/ stored' = stored /\ (d.kind = "save" => d.reply # "ok")
           \/ stored' = d.text /\ d.kind = "save"
    PROVE  FormFits'
<1>1. calls \in [Slots -> Call] /\ FormFits
  BY DEF ConsoleInv, ConsoleType
<1>2. calls'[s] = d /\ \A t \in Slots : t # s => calls'[t] = calls[t]
  BY <1>1
<1>3. Mine({"save"})' = Mine({"save"})
  BY <1>2 DEF Mine
<1>4. \A t \in Slots : calls'[t].kind = "save" <=> calls[t].kind = "save"
  BY <1>2
<1>5. ai.clean => /\ ai.form = stored' /\ stored' = stored
                  /\ \A t \in Slots : calls'[t].kind = "save" => calls'[t].here /\ calls'[t].text = stored'
  BY <1>1, <1>2 DEF FormFits
<1>6. ASSUME NEW t \in Mine({"save"}), calls'[t].sole
      PROVE  /\ \A u \in Slots : calls'[u].kind = "save" => u = t
             /\ calls'[t].reply = "ok" => calls'[t].text = stored'
  <2>1. t \in Slots /\ calls[t].kind = "save"
    BY DEF Mine
  <2>2. \A u \in Slots : calls[u].kind = "save" => u = t
    BY <1>1, <1>2, <1>6, <2>1 DEF FormFits
  <2>3. calls'[t].reply = "ok" => calls'[t].text = stored'
    BY <1>1, <1>2, <1>6, <2>1, <2>2 DEF FormFits
  <2> QED BY <1>4, <2>2, <2>3
<1> QED BY <1>3, <1>5, <1>6 DEF FormFits

LEMMA VerdictIs ==
    ASSUME NEW c \in Call
    PROVE  /\ Verdict(c) \in {"refused", "must", "ok", "forbidden"}
           /\ Verdict(c) = "refused" <=> c.tok \notin alive
           /\ Verdict(c) = "ok" => c.tok \in alive /\ ~must
           /\ Verdict(c) = "must" => c.kind = "me" /\ must
           /\ Verdict(c) = "forbidden" => c.kind # "me" /\ must
BY DEF Verdict

\* A request gets its answer, and nothing of the tab moves.
LEMMA ServedKeeps ==
    ASSUME ConsoleInv, NEW s \in Slots, NEW d \in Call, calls[s].reply = "none",
           UNCHANGED <<token, page, ai, timers, slipped, strays, alive, must, logins>>,
           calls' = [calls EXCEPT ![s] = d],
           d.kind = calls[s].kind, d.page = calls[s].page, d.here = calls[s].here,
           d.tok = calls[s].tok, d.filter = calls[s].filter, d.sole = calls[s].sole,
           d.kind = "list" => Fits(d.filter, d.got),
           d.kind = "save" => d.text = calls[s].text,
           stored' \in Nat,
           \/ stored' = stored /\ (d.kind = "save" => d.reply # "ok")
           \/ stored' = d.text /\ d.kind = "save",
           d.kind = "me" => d.reply = Verdict(calls[s])
    PROVE  ConsoleInv'
<1>1. ConsoleType
  BY DEF ConsoleInv
<1>2. calls[s] \in Call /\ calls[s].tok \in 0..logins /\ logins \in Nat
  BY <1>1 DEF ConsoleType
<1>3. /\ calls' \in [Slots -> Call] /\ \A t \in Slots : calls'[t].tok \in 0..logins'
      /\ CallsFit' /\ TimersFit' /\ RowsFit'
  <2>1. logins' \in Nat /\ logins' >= logins /\ d.tok \in 0..logins'
    BY <1>2
  <2> QED BY <2>1, ReplyKeeps
<1>4. ~slipped => FirstTrue(d)'
  <2>1. SUFFICES ASSUME ~slipped, d.here, d.kind \in First PROVE FirstTrue(d)'
    BY DEF FirstTrue
  <2>2. FirstTrue(calls[s])
    BY <2>1 DEF ConsoleInv, PlaceTrue
  <2>3. CASE d.kind = "me"
    BY <1>2, <2>1, <2>2, <2>3, VerdictIs DEF FirstTrue, Enters, MustSet
  <2>4. CASE d.kind = "load"
    BY <2>1, <2>2, <2>4 DEF FirstTrue, Enters
  <2> QED BY <2>1, <2>3, <2>4
<1>5. PlaceTrue'
  BY <1>4, ReplyPlace
<1>6. FormFits'
  BY ReplyForm
<1>7. ConsoleType'
  BY <1>1, <1>3 DEF ConsoleType
<1> QED BY <1>3, <1>5, <1>6, <1>7 DEF ConsoleInv

LEMMA ServeMeKeeps ==
    ASSUME ConsoleInv, NEW s \in Slots, ServeMe(s)
    PROVE  ConsoleInv'
<1>. DEFINE d == [calls[s] EXCEPT !.reply = Verdict(calls[s])]
<1>1. calls[s] \in Call /\ stored \in Nat
  BY DEF ConsoleInv, ConsoleType
<1>2. calls[s].kind = "me" /\ calls[s].reply = "none" /\ calls' = [calls EXCEPT ![s] = d]
  BY DEF ServeMe, Waiting, Reply
<1>3. /\ d \in Call /\ d.kind = "me" /\ d.page = calls[s].page /\ d.here = calls[s].here
      /\ d.tok = calls[s].tok /\ d.filter = calls[s].filter /\ d.sole = calls[s].sole
      /\ d.reply = Verdict(calls[s])
  BY <1>1, <1>2, VerdictIs DEF Call, Replies
<1>. HIDE DEF d
<1> QED BY <1>1, <1>2, <1>3, ServedKeeps DEF ServeMe, TabWaits, server

LEMMA ServeReadKeeps ==
    ASSUME ConsoleInv, NEW s \in Slots, ServeRead(s)
    PROVE  ConsoleInv'
<1>1. PICK r, g, x :
          /\ r \in Replies /\ g \subseteq Row /\ x \in Nat
          /\ calls[s].kind = "list" => Fits(calls[s].filter, g)
          /\ calls' = [calls EXCEPT ![s] = [calls[s] EXCEPT !.reply = r, !.got = g, !.text = x]]
  <2>. DEFINE c == calls[s]
              gone == c.kind = "detail" /\ \E j \in c.ids : jobs[j] = "gone"
              r == IF Verdict(c) = "ok" /\ gone THEN "error" ELSE Verdict(c)
              g == IF Verdict(c) # "ok" \/ gone \/ c.page # "ai" THEN {}
                   ELSE IF c.kind = "detail" THEN {i \in Listing("all") : i.job \in c.ids}
                   ELSE Listing(c.filter)
              x == IF c.page = "ai" THEN stored ELSE 0
  <2>1. calls[s] \in Call /\ stored \in Nat
    BY DEF ConsoleInv, ConsoleType
  <2>2. \A f : Listing(f) \subseteq Row /\ Fits(f, Listing(f))
    BY DEF Listing, Row, Fits
  <2>3. calls' = [calls EXCEPT ![s] = [calls[s] EXCEPT !.reply = r, !.got = g, !.text = x]]
    BY DEF ServeRead, Reply
  <2>4. r \in Replies
    BY <2>1, VerdictIs DEF Replies
  <2>5. g \subseteq Row
    BY <2>2
  <2>6. calls[s].kind = "list" => Fits(calls[s].filter, g)
    BY <2>2 DEF Fits
  <2>7. x \in Nat
    BY <2>1
  <2>. HIDE DEF r, g, x
  <2> QED BY <2>3, <2>4, <2>5, <2>6, <2>7
<1>. DEFINE d == [calls[s] EXCEPT !.reply = r, !.got = g, !.text = x]
<1>2. calls[s] \in Call /\ stored \in Nat
  BY DEF ConsoleInv, ConsoleType
<1>3. /\ calls[s].kind \in {"load", "poll", "logs", "log", "reindex", "resolve", "list", "detail"}
      /\ calls[s].reply = "none"
  BY DEF ServeRead, Waiting
<1>4. /\ d \in Call /\ d.kind = calls[s].kind /\ d.page = calls[s].page /\ d.here = calls[s].here
      /\ d.tok = calls[s].tok /\ d.filter = calls[s].filter /\ d.sole = calls[s].sole
      /\ d.got = g
  BY <1>1, <1>2 DEF Call
<1>5. calls' = [calls EXCEPT ![s] = d]
  BY <1>1
<1>. HIDE DEF d
<1> QED BY <1>1, <1>2, <1>3, <1>4, <1>5, ServedKeeps DEF ServeRead, TabWaits, server

LEMMA ServeJobsKeeps ==
    ASSUME ConsoleInv, NEW s \in Slots, ServeJobs(s)
    PROVE  ConsoleInv'
<1>1. calls[s] \in Call /\ stored \in Nat
  BY DEF ConsoleInv, ConsoleType
<1>2. calls[s].kind \in {"retry", "batch", "cleanup"} /\ calls[s].reply = "none"
  BY DEF ServeJobs, Waiting
<1>3. PICK r \in Replies : calls' = [calls EXCEPT ![s] = [calls[s] EXCEPT !.reply = r]]
  BY <1>1, VerdictIs DEF ServeJobs, Reply, Replies
<1>. DEFINE d == [calls[s] EXCEPT !.reply = r]
<1>4. /\ d \in Call /\ d.kind = calls[s].kind /\ d.page = calls[s].page /\ d.here = calls[s].here
      /\ d.tok = calls[s].tok /\ d.filter = calls[s].filter /\ d.sole = calls[s].sole
  BY <1>1 DEF Call
<1>5. calls' = [calls EXCEPT ![s] = d]
  BY <1>3
<1>. HIDE DEF d
<1> QED BY <1>1, <1>2, <1>4, <1>5, ServedKeeps DEF ServeJobs, TabWaits

LEMMA ServeSaveKeeps ==
    ASSUME ConsoleInv, NEW s \in Slots, ServeSave(s)
    PROVE  ConsoleInv'
<1>. DEFINE d == [calls[s] EXCEPT !.reply = Verdict(calls[s])]
<1>1. calls[s] \in Call /\ stored \in Nat
  BY DEF ConsoleInv, ConsoleType
<1>2. calls[s].kind = "save" /\ calls[s].reply = "none" /\ calls' = [calls EXCEPT ![s] = d]
  BY DEF ServeSave, Waiting, Reply
<1>3. /\ d \in Call /\ d.kind = "save" /\ d.page = calls[s].page /\ d.here = calls[s].here
      /\ d.tok = calls[s].tok /\ d.filter = calls[s].filter /\ d.sole = calls[s].sole
      /\ d.reply = Verdict(calls[s]) /\ d.text = calls[s].text
  BY <1>1, <1>2, VerdictIs DEF Call, Replies
<1>4. stored' = IF d.reply = "ok" THEN d.text ELSE stored
  BY <1>3 DEF ServeSave
<1>5. d.text \in Nat
  BY <1>3 DEF Call
<1>. HIDE DEF d
<1>6. /\ stored' \in Nat
      /\ \/ stored' = stored /\ (d.kind = "save" => d.reply # "ok")
         \/ stored' = d.text /\ d.kind = "save"
  BY <1>1, <1>3, <1>4, <1>5
<1> QED BY <1>1, <1>2, <1>3, <1>6, ServedKeeps DEF ServeSave, TabWaits

LEMMA ServeLoginKeeps ==
    ASSUME ConsoleInv, NEW s \in Slots, ServeLogin(s)
    PROVE  ConsoleInv'
<1>1. ConsoleType /\ calls[s] \in Call /\ calls[s].tok \in 0..logins /\ logins \in Nat
  BY DEF ConsoleInv, ConsoleType
<1>2. calls[s].kind = "login" /\ calls[s].reply = "none"
  BY DEF ServeLogin, Waiting
<1>3. PICK d \in Call :
          /\ calls' = [calls EXCEPT ![s] = d]
          /\ d.kind = calls[s].kind /\ d.page = calls[s].page /\ d.here = calls[s].here
          /\ d.filter = calls[s].filter /\ d.sole = calls[s].sole
          /\ \/ logins' = logins + 1 /\ alive' = alive \cup {logins + 1} /\ d.tok = logins + 1
             \/ logins' = logins /\ alive' = alive /\ d.tok = calls[s].tok
  <2>1. CASE logins' = logins + 1 /\ alive' = alive \cup {logins + 1} /\
             Reply(s, [calls[s] EXCEPT !.reply = IF must THEN "must" ELSE "ok", !.tok = logins + 1])
    <3>. DEFINE r == IF must THEN "must" ELSE "ok"
                e == [calls[s] EXCEPT !.reply = r, !.tok = logins + 1]
    <3>1. r \in Replies /\ logins + 1 \in Nat
      BY <1>1 DEF Replies
    <3>2. calls' = [calls EXCEPT ![s] = e]
      BY <2>1 DEF Reply
    <3>. HIDE DEF r
    <3>3. /\ e \in Call /\ e.kind = calls[s].kind /\ e.page = calls[s].page /\ e.here = calls[s].here
          /\ e.filter = calls[s].filter /\ e.sole = calls[s].sole /\ e.tok = logins + 1
      BY <1>1, <3>1 DEF Call
    <3>. HIDE DEF e
    <3> QED BY <2>1, <3>2, <3>3
  <2>2. CASE Reply(s, [calls[s] EXCEPT !.reply = "refused"]) /\ UNCHANGED <<logins, alive>>
    <3>. DEFINE e == [calls[s] EXCEPT !.reply = "refused"]
    <3>1. calls' = [calls EXCEPT ![s] = e]
      BY <2>2 DEF Reply
    <3>2. /\ e \in Call /\ e.kind = calls[s].kind /\ e.page = calls[s].page /\ e.here = calls[s].here
          /\ e.filter = calls[s].filter /\ e.sole = calls[s].sole /\ e.tok = calls[s].tok
      BY <1>1 DEF Call, Replies
    <3>. HIDE DEF e
    <3> QED BY <2>2, <3>1, <3>2
  <2> QED BY <2>1, <2>2 DEF ServeLogin
<1>6. logins' \in Nat /\ logins' >= logins /\ d.tok \in 0..logins' /\ token \in 0..logins'
  BY <1>1, <1>3 DEF ConsoleType
<1>7. alive' \subseteq 1..logins' /\ (token \in alive' <=> token \in alive)
  <2>1. alive \subseteq 1..logins /\ token \in 0..logins
    BY <1>1 DEF ConsoleType
  <2>2. \A k \in 1..logins : k \in 1..(logins + 1)
    BY <1>1
  <2>3. logins + 1 \in 1..(logins + 1) /\ token # logins + 1
    BY <1>1, <2>1
  <2> QED BY <1>3, <2>1, <2>2, <2>3
<1>8. UNCHANGED <<must, stored, token, page, ai, timers, slipped, strays>>
  BY DEF ServeLogin, TabWaits
<1>9. /\ calls' \in [Slots -> Call] /\ \A t \in Slots : calls'[t].tok \in 0..logins'
      /\ CallsFit' /\ TimersFit' /\ RowsFit'
  BY <1>2, <1>3, <1>6, <1>8, ReplyKeeps
<1>10. PlaceTrue'
  <2>1. FirstTrue(d)'
    BY <1>2, <1>3 DEF FirstTrue
  <2> QED BY <1>2, <1>3, <1>7, <1>8, <2>1, ReplyPlace
<1>11. FormFits'
  BY <1>2, <1>3, <1>8, ReplyForm
<1>12. ConsoleType'
  BY <1>1, <1>6, <1>7, <1>8, <1>9 DEF ConsoleType
<1> QED BY <1>9, <1>10, <1>11, <1>12 DEF ConsoleInv

LEMMA ServeChangeKeeps ==
    ASSUME ConsoleInv, NEW s \in Slots, ServeChange(s)
    PROVE  ConsoleInv'
<1>1. ConsoleType /\ calls[s] \in Call /\ calls[s].tok \in 0..logins /\ logins \in Nat
  BY DEF ConsoleInv, ConsoleType
<1>2. calls[s].kind = "change" /\ calls[s].reply = "none"
  BY DEF ServeChange, Waiting
<1>3. PICK d \in Call :
          /\ calls' = [calls EXCEPT ![s] = d]
          /\ d.kind = calls[s].kind /\ d.page = calls[s].page /\ d.here = calls[s].here
          /\ d.tok = calls[s].tok /\ d.filter = calls[s].filter /\ d.sole = calls[s].sole
          /\ must' = must \/ (must' = FALSE /\ d.reply = "ok")
  <2>. DEFINE e(r) == [calls[s] EXCEPT !.reply = r]
  <2>1. ASSUME NEW r \in {"ok", "refused"}
        PROVE  /\ e(r) \in Call /\ e(r).kind = calls[s].kind /\ e(r).page = calls[s].page
               /\ e(r).here = calls[s].here /\ e(r).tok = calls[s].tok /\ e(r).reply = r
               /\ e(r).filter = calls[s].filter /\ e(r).sole = calls[s].sole
    BY <1>1 DEF Call, Replies
  <2>2. \/ calls' = [calls EXCEPT ![s] = e("ok")] /\ must' = FALSE
        \/ calls' = [calls EXCEPT ![s] = e("refused")] /\ must' = must
    BY DEF ServeChange, Reply
  <2>. HIDE DEF e
  <2> QED BY <2>1, <2>2
<1>6. UNCHANGED <<alive, stored, logins, token, page, ai, timers, slipped, strays>>
  BY DEF ServeChange, TabWaits
<1>7. /\ calls' \in [Slots -> Call] /\ \A t \in Slots : calls'[t].tok \in 0..logins'
      /\ CallsFit' /\ TimersFit' /\ RowsFit'
  <2>1. logins' \in Nat /\ logins' >= logins /\ d.tok \in 0..logins'
    BY <1>1, <1>3, <1>6
  <2> QED BY <1>2, <1>3, <1>6, <2>1, ReplyKeeps
<1>8. must' \in BOOLEAN /\ (must' => must) /\ (must /\ ~must' => d.kind = "change" /\ d.reply = "ok")
  <2>1. must \in BOOLEAN
    BY <1>1 DEF ConsoleType
  <2>2. CASE must' = must
    BY <2>1, <2>2
  <2>3. CASE must' = FALSE /\ d.reply = "ok"
    BY <1>2, <1>3, <2>1, <2>3
  <2> QED BY <1>3, <2>2, <2>3
<1>9. PlaceTrue'
  <2>1. FirstTrue(d)'
    BY <1>2, <1>3 DEF FirstTrue
  <2> QED BY <1>2, <1>3, <1>6, <1>8, <2>1, ReplyPlace
<1>10. FormFits'
  BY <1>2, <1>3, <1>6, ReplyForm
<1>11. ConsoleType'
  BY <1>1, <1>6, <1>7, <1>8 DEF ConsoleType
<1> QED BY <1>7, <1>9, <1>10, <1>11 DEF ConsoleInv

LEMMA ServeNothingKeeps ==
    ASSUME ConsoleInv, NEW s \in Slots, ServeNothing(s)
    PROVE  ConsoleInv'
<1>. DEFINE d == [calls[s] EXCEPT !.reply = "error"]
<1>1. ConsoleType /\ calls[s] \in Call /\ calls[s].tok \in 0..logins /\ logins \in Nat
  BY DEF ConsoleInv, ConsoleType
<1>2. /\ calls[s].reply = "none" /\ calls' = [calls EXCEPT ![s] = d] /\ slipped'
      /\ UNCHANGED <<must, alive, stored, logins, token, page, ai, timers, strays>>
  BY DEF ServeNothing, Reply, server
<1>3. /\ d \in Call /\ d.kind = calls[s].kind /\ d.page = calls[s].page /\ d.here = calls[s].here
      /\ d.tok = calls[s].tok /\ d.filter = calls[s].filter /\ d.sole = calls[s].sole
      /\ d.reply = "error" /\ d.text = calls[s].text /\ d.got = calls[s].got
  BY <1>1 DEF Call, Replies
<1>. HIDE DEF d
<1>4. d.kind = "list" => Fits(d.filter, d.got)
  BY <1>3 DEF ConsoleInv, RowsFit
<1>5. /\ calls' \in [Slots -> Call] /\ \A t \in Slots : calls'[t].tok \in 0..logins'
      /\ CallsFit' /\ TimersFit' /\ RowsFit'
  <2>1. logins' \in Nat /\ logins' >= logins /\ d.tok \in 0..logins'
    BY <1>1, <1>2, <1>3
  <2> QED BY <1>2, <1>3, <1>4, <2>1, ReplyKeeps
<1>6. PlaceTrue'
  BY <1>2 DEF PlaceTrue
<1>7. FormFits'
  BY <1>2, <1>3, ReplyForm
<1>8. ConsoleType'
  <2>1. slipped' \in BOOLEAN
    BY DEF ServeNothing
  <2> QED BY <1>1, <1>2, <1>5, <2>1 DEF ConsoleType
<1> QED BY <1>5, <1>6, <1>7, <1>8 DEF ConsoleInv

LEMMA FreeIs == \A s \in Free : s \in Slots /\ calls[s].kind = "none"
BY DEF Free

\* A button of the page on screen sends request c.
LEMMA ClickKeeps ==
    ASSUME ConsoleInv, NEW p \in Pages, NEW with, NEW c \in Call, Click(p, with, c),
           c.here, c.page = p, c.kind \notin First \cup {"none", "poll"},
           p \in PageOfKind(c.kind), c.tok \in 0..logins, c.reply = "none", c.got = {},
           c.kind \in JobCalls => with = JobCalls /\ c.filter = ai'.filter,
           c.kind = "save" => /\ with = {"save"} /\ c.text = ai.form
                              /\ c.sole => \A s \in Slots : calls[s].kind # "save",
           ai' \in AIState, ai'.clean = ai.clean, ai'.rows = ai.rows, ai'.fresh = ai.fresh,
           ai'.form = ai.form, ai'.filter = ai.filter \/ c.kind = "list"
    PROVE  ConsoleInv'
<1>1. PICK o \in Slots : calls[o].kind = "none" /\ calls' = [calls EXCEPT ![o] = c]
  BY FreeIs DEF Click, Send
<1>2. /\ page = [at |-> p, phase |-> "shown"] /\ Mine(with) = {}
      /\ UNCHANGED <<must, alive, stored, logins, token, page, timers, slipped, strays>>
  BY DEF Click, On, server
<1>3. ConsoleType /\ calls \in [Slots -> Call] /\ page.at = p /\ page.phase = "shown"
  BY <1>2 DEF ConsoleInv, ConsoleType
<1>4. calls'[o] = c /\ \A s \in Slots : s # o => calls'[s] = calls[s]
  BY <1>1, <1>3
<1>5. ConsoleType'
  <2>1. calls' \in [Slots -> Call]
    BY <1>1, <1>3
  <2>2. \A s \in Slots : calls'[s].tok \in 0..logins
    BY <1>3, <1>4 DEF ConsoleType
  <2> QED BY <1>2, <1>3, <2>1, <2>2 DEF ConsoleType
<1>6. ~calls[o].here
  BY <1>1 DEF ConsoleInv, CallsFit, CallFits
<1>7. ASSUME NEW K, c.kind \notin K PROVE Mine(K)' = Mine(K)
  BY <1>4, <1>6, <1>7 DEF Mine
<1>8. ASSUME NEW K, c.kind \in K PROVE Mine(K)' = Mine(K) \cup {o}
  BY <1>4, <1>6, <1>8 DEF Mine
<1>9. CallsFit'
  <2>1. ASSUME NEW s \in Slots PROVE CallFits(calls[s])'
    <3>1. CASE s = o
      BY <1>2, <1>3, <1>4, <3>1 DEF CallFits
    <3>2. CASE s # o
      BY <1>2, <1>4, <3>2 DEF CallFits, ConsoleInv, CallsFit
    <3> QED BY <3>1, <3>2
  <2>2. Mine(First)' = Mine(First)
    BY <1>7
  <2> QED BY <1>2, <2>1, <2>2 DEF CallsFit, ConsoleInv
<1>10. TimersFit'
  BY <1>2 DEF ConsoleInv, TimersFit, On
<1>11. PlaceTrue'
  <2>1. Changed => Changed'
    BY <1>1, <1>4 DEF Changed
  <2>2. (Enters => Enters') /\ (MustSet => MustSet')
    BY <1>2, <2>1 DEF Enters, MustSet
  <2>3. ASSUME ~slipped, NEW s \in Slots PROVE FirstTrue(calls[s])'
    <3>1. CASE s = o
      BY <1>4, <3>1 DEF FirstTrue
    <3>2. CASE s # o
      BY <1>2, <1>4, <2>2, <2>3, <3>2 DEF FirstTrue, ConsoleInv, PlaceTrue
    <3> QED BY <3>1, <3>2
  <2> QED BY <1>2, <2>2, <2>3 DEF PlaceTrue, ConsoleInv
<1>12. RowsFit'
  <2>1. RowsFit /\ page.phase = "shown"
    BY <1>3 DEF ConsoleInv
  <2>2. \A s \in Slots : calls'[s].kind = "list" => Fits(calls'[s].filter, calls'[s].got)
    BY <1>4, <2>1 DEF RowsFit, Fits
  <2>3. /\ \A s \in Mine(JobCalls)', t \in Mine(JobCalls)' : s = t
        /\ \A s \in Mine(JobCalls)' : calls'[s].filter = ai'.filter
    <3>1. CASE c.kind \in JobCalls
      <4>1. Mine(JobCalls)' = {o}
        BY <1>2, <1>8, <3>1
      <4> QED BY <1>4, <3>1, <4>1
    <3>2. CASE c.kind \notin JobCalls
      <4>1. Mine(JobCalls)' = Mine(JobCalls) /\ o \notin Mine(JobCalls) /\ Mine(JobCalls) \subseteq Slots
        BY <1>6, <1>7, <3>2 DEF Mine
      <4>2. ai'.filter = ai.filter
        BY <3>2 DEF JobCalls
      <4> QED BY <1>4, <2>1, <4>1, <4>2 DEF RowsFit
    <3> QED BY <3>1, <3>2
  <2>4. On("ai")' /\ ai'.fresh /\ Mine({"list"})' = {} => Fits(ai'.filter, ai'.rows)
    <3>1. CASE c.kind = "list"
      BY <1>8, <3>1
    <3>2. CASE c.kind # "list"
      BY <1>2, <1>7, <2>1, <3>2 DEF RowsFit, On
    <3> QED BY <3>1, <3>2
  <2> QED BY <1>2, <2>1, <2>2, <2>3, <2>4 DEF RowsFit
<1>13. FormFits'
  <2>1. FormFits
    BY DEF ConsoleInv
  <2>2. ai'.clean => /\ ai'.form = stored'
                     /\ \A s \in Slots : calls'[s].kind = "save" => calls'[s].here /\ calls'[s].text = stored'
    BY <1>2, <1>4, <2>1 DEF FormFits
  <2>3. ASSUME NEW s \in Mine({"save"})', calls'[s].sole
        PROVE  /\ \A t \in Slots : calls'[t].kind = "save" => t = s
               /\ calls'[s].reply = "ok" => calls'[s].text = stored'
    <3>1. CASE s = o
      BY <1>4, <2>3, <3>1 DEF Mine
    <3>2. CASE s # o
      <4>1. s \in Mine({"save"}) /\ calls'[s] = calls[s]
        BY <1>4, <2>3, <3>2 DEF Mine
      <4>2. c.kind # "save"
        BY <1>2, <4>1
      <4> QED BY <1>2, <1>4, <2>1, <2>3, <4>1, <4>2 DEF FormFits
    <3> QED BY <3>1, <3>2
  <2> QED BY <2>2, <2>3 DEF FormFits
<1> QED BY <1>5, <1>9, <1>10, <1>11, <1>12, <1>13 DEF ConsoleInv

\* An answered request ends, and request d follows it or none.
LEMMA EndKeeps ==
    ASSUME ConsoleInv, NEW s \in Slots, NEW d \in Call, calls' = [calls EXCEPT ![s] = d],
           calls[s].kind \notin First, ~(calls[s].kind = "change" /\ calls[s].reply = "ok"),
           \/ d = NoCall
           \/ /\ d.kind \in {"list", "log"} /\ calls[s].kind # "poll" /\ d.here = calls[s].here
              /\ d.page \in PageOfKind(d.kind) /\ d.page = calls[s].page /\ d.got = {}
              /\ d.tok \in 0..logins
              /\ d.kind = "list" => calls[s].kind \in JobCalls /\ d.filter = calls[s].filter,
           token' = TokenAfter(calls[s]), Slip(calls[s]),
           UNCHANGED <<server, page, timers, strays>>,
           ai' \in AIState, ai'.filter = ai.filter, page.phase = "boot" => ~ai'.clean,
           IF calls[s].here /\ calls[s].kind = "list"
           THEN ai'.fresh => Fits(ai.filter, ai'.rows)
           ELSE ai'.rows = ai.rows /\ (ai'.fresh => ai.fresh)
    PROVE  /\ ConsoleType' /\ CallsFit' /\ TimersFit' /\ PlaceTrue' /\ RowsFit'
           /\ (ai'.clean => ai.clean /\ ai'.form = ai.form) => FormFits'
<1>1. ConsoleType /\ calls \in [Slots -> Call] /\ logins \in Nat
  BY DEF ConsoleInv, ConsoleType
<1>2. calls'[s] = d /\ \A t \in Slots : t # s => calls'[t] = calls[t]
  BY <1>1
<1>3. /\ NoCall.kind = "none" /\ ~NoCall.here /\ NoCall.page \in Pages /\ NoCall.tok = 0
  BY DEF NoCall, Pages
<1>4. UNCHANGED <<must, alive, stored, logins, page, timers, strays>>
  BY DEF server
<1>5. token' \in {0, token} /\ slipped' \in BOOLEAN /\ (~slipped' => ~slipped /\ token' = token)
  BY <1>1 DEF TokenAfter, Slip, ConsoleType
<1>6. d.kind \in {"none", "list", "log"} /\ (d.here => calls[s].here) /\ d.tok \in 0..logins
  BY <1>1, <1>3
<1>7. ConsoleType'
  <2>1. calls' \in [Slots -> Call]
    BY <1>1
  <2>2. \A t \in Slots : calls'[t].tok \in 0..logins
    BY <1>1, <1>2, <1>6 DEF ConsoleType
  <2>3. token' \in 0..logins
    BY <1>1, <1>5 DEF ConsoleType
  <2> QED BY <1>1, <1>4, <1>5, <2>1, <2>2, <2>3 DEF ConsoleType
<1>8. CallsFit'
  <2>1. ASSUME NEW t \in Slots PROVE CallFits(calls[t])'
    <3>1. CASE t # s
      BY <1>2, <1>4, <3>1 DEF CallFits, ConsoleInv, CallsFit
    <3>2. CASE t = s /\ d = NoCall
      BY <1>2, <1>3, <3>2 DEF CallFits, PageOfKind, JobCalls
    <3>3. CASE t = s /\ d # NoCall
      <4>1. CallFits(calls[s])
        BY DEF ConsoleInv, CallsFit
      <4>2. d.kind \in {"list", "log"} /\ calls[s].kind # "poll" /\ d.here = calls[s].here
            /\ d.page \in PageOfKind(d.kind) /\ d.page = calls[s].page
        BY <3>3
      <4> QED BY <1>2, <1>4, <3>3, <4>1, <4>2 DEF CallFits
    <3> QED BY <3>1, <3>2, <3>3
  <2>2. Mine(First)' = Mine(First)
    BY <1>2, <1>6 DEF Mine
  <2> QED BY <1>4, <2>1, <2>2 DEF CallsFit, ConsoleInv
<1>9. TimersFit'
  BY <1>4 DEF ConsoleInv, TimersFit, On
<1>10. PlaceTrue'
  <2>1. Changed => Changed'
    BY <1>2 DEF Changed
  <2>2. SUFFICES ASSUME ~slipped, ~slipped', token' = token PROVE PlaceTrue'
    BY <1>5 DEF PlaceTrue
  <2>3. (Enters => Enters') /\ (MustSet => MustSet')
    BY <1>4, <2>1, <2>2 DEF Enters, MustSet
  <2>4. ASSUME NEW t \in Slots PROVE FirstTrue(calls[t])'
    <3>1. CASE t = s
      BY <1>2, <1>6, <3>1 DEF FirstTrue
    <3>2. CASE t # s
      BY <1>2, <1>4, <2>2, <2>3, <3>2 DEF FirstTrue, ConsoleInv, PlaceTrue
    <3> QED BY <3>1, <3>2
  <2> QED BY <1>4, <2>2, <2>3, <2>4 DEF PlaceTrue, ConsoleInv
<1>11. RowsFit'
  <2>1. RowsFit
    BY DEF ConsoleInv
  <2>2. \A t \in Slots : calls'[t].kind = "list" => Fits(calls'[t].filter, calls'[t].got)
    BY <1>2, <1>3, <2>1 DEF RowsFit, Fits
  <2>3. Mine(JobCalls)' \subseteq Mine(JobCalls)
    BY <1>2, <1>3 DEF Mine, JobCalls
  <2>4. \A t \in Mine(JobCalls)' : calls'[t].filter = ai'.filter
    <3>1. TAKE t \in Mine(JobCalls)'
    <3>2. t \in Mine(JobCalls) /\ t \in Slots /\ calls[t].filter = ai.filter
      BY <2>1, <2>3 DEF RowsFit, Mine
    <3>3. calls'[t].filter = calls[t].filter
      BY <1>2, <1>3, <3>1 DEF Mine, JobCalls
    <3> QED BY <3>2, <3>3
  <2>5. On("ai")' /\ ai'.fresh /\ Mine({"list"})' = {} => Fits(ai'.filter, ai'.rows)
    <3>1. CASE calls[s].here /\ calls[s].kind = "list"
      BY <3>1
    <3>2. CASE ~(calls[s].here /\ calls[s].kind = "list")
      <4>1. Mine({"list"})' = {} => Mine({"list"}) = {}
        BY <1>2, <3>2 DEF Mine
      <4> QED BY <1>4, <2>1, <3>2, <4>1 DEF RowsFit, On
    <3> QED BY <3>1, <3>2
  <2> QED BY <1>4, <2>1, <2>2, <2>3, <2>4, <2>5 DEF RowsFit
<1>12. ASSUME ai'.clean => ai.clean /\ ai'.form = ai.form PROVE FormFits'
  <2>1. \A t \in Slots : calls'[t].kind = "save" => t # s /\ calls'[t] = calls[t]
    BY <1>2, <1>6
  <2>2. Mine({"save"})' \subseteq Mine({"save"})
    BY <2>1 DEF Mine
  <2>3. \A t \in Mine({"save"})' : t \in Slots /\ calls'[t].kind = "save"
    BY DEF Mine
  <2> QED BY <1>4, <1>12, <2>1, <2>2, <2>3 DEF FormFits, ConsoleInv
<1> QED BY <1>7, <1>8, <1>9, <1>10, <1>11, <1>12

LEMMA DestinationIs ==
    ASSUME NEW p \in Pages, NEW r \in Replies \ {"none"}
    PROVE  /\ Destination(p, r) \in Pages \cup {"stay"}
           /\ p \in Loaders /\ Destination(p, r) = "stay" => r = "ok"
           /\ p = "home" /\ Destination(p, r) = "stay" => r = "ok"
           /\ p = "force" /\ Destination(p, r) = "stay" => r = "must"
           /\ p = "login" /\ Destination(p, r) = "stay" => r \in Denied
BY DEF Destination, LoginTo, ForceTo, PageTo, Denied, Pages, Loaders, Replies

\* The first request of a page of data got its answer, and its second is sent.
LEMMA SecondKeeps ==
    ASSUME ConsoleInv, NEW s \in Slots, NEW d \in Call, calls' = [calls EXCEPT ![s] = d],
           calls[s].kind = "me", calls[s].reply = "ok", calls[s].page \in Loaders,
           d.kind = "load", d.page = calls[s].page, d.here = calls[s].here, d.tok = token,
           UNCHANGED <<server, token, page, ai, timers, strays, slipped>>
    PROVE  ConsoleInv'
<1>1. ConsoleType /\ calls \in [Slots -> Call]
  BY DEF ConsoleInv, ConsoleType
<1>2. calls'[s] = d /\ \A t \in Slots : t # s => calls'[t] = calls[t]
  BY <1>1
<1>3. UNCHANGED <<must, alive, stored, logins>>
  BY DEF server
<1>4. ConsoleType'
  <2>1. calls' \in [Slots -> Call] /\ \A t \in Slots : calls'[t].tok \in 0..logins
    BY <1>1, <1>2 DEF ConsoleType
  <2> QED BY <1>1, <1>3, <2>1 DEF ConsoleType
<1>5. Mine(First)' = Mine(First) /\ Mine(JobCalls)' = Mine(JobCalls)
      /\ Mine({"list"})' = Mine({"list"}) /\ Mine({"save"})' = Mine({"save"})
  BY <1>2 DEF Mine, JobCalls
<1>6. CallsFit'
  <2>1. ASSUME NEW t \in Slots PROVE CallFits(calls[t])'
    <3>1. CallFits(calls[t])
      BY DEF ConsoleInv, CallsFit
    <3>2. CASE t = s
      BY <1>2, <3>1, <3>2 DEF CallFits, PageOfKind, JobCalls
    <3>3. CASE t # s
      BY <1>2, <3>1, <3>3 DEF CallFits
    <3> QED BY <3>2, <3>3
  <2> QED BY <1>5, <2>1 DEF CallsFit, ConsoleInv
<1>7. TimersFit'
  BY DEF ConsoleInv, TimersFit, On
<1>8. PlaceTrue'
  <2>1. Changed => Changed'
    BY <1>2 DEF Changed
  <2>2. (Enters => Enters') /\ (MustSet => MustSet')
    BY <1>3, <2>1 DEF Enters, MustSet
  <2>3. ASSUME ~slipped, NEW t \in Slots PROVE FirstTrue(calls[t])'
    <3>1. FirstTrue(calls[t])
      BY <2>3 DEF ConsoleInv, PlaceTrue
    <3>2. CASE t = s
      BY <1>2, <2>2, <3>1, <3>2 DEF FirstTrue
    <3>3. CASE t # s
      BY <1>2, <1>3, <2>2, <3>1, <3>3 DEF FirstTrue
    <3> QED BY <3>2, <3>3
  <2> QED BY <1>3, <2>2, <2>3 DEF PlaceTrue, ConsoleInv
<1>9. RowsFit'
  <2>1. \A t \in Mine(JobCalls) : t \in Slots /\ t # s
    BY DEF Mine, JobCalls
  <2>2. \A t \in Slots : calls'[t].kind = "list" => t # s
    BY <1>2
  <2> QED BY <1>2, <1>5, <2>1, <2>2 DEF RowsFit, ConsoleInv, On
<1>10. FormFits'
  <2>1. \A t \in Slots : calls'[t].kind = "save" => t # s /\ calls'[t] = calls[t]
    BY <1>2
  <2>2. \A t \in Mine({"save"}) : t \in Slots /\ calls'[t] = calls[t]
    BY <1>2 DEF Mine
  <2> QED BY <1>3, <1>5, <2>1, <2>2 DEF FormFits, ConsoleInv
<1> QED BY <1>4, <1>6, <1>7, <1>8, <1>9, <1>10 DEF ConsoleInv

\* The last of a page's first requests ends, and the page is shown if it is still on screen.
LEMMA ShownKeeps ==
    ASSUME ConsoleInv, NEW s \in Slots, calls' = [calls EXCEPT ![s] = NoCall],
           calls[s].kind \in First,
           page' = IF calls[s].here THEN [page EXCEPT !.phase = "shown"] ELSE page,
           UNCHANGED server, token' \in {token, 0}, slipped' \in BOOLEAN, slipped => slipped',
           ~calls[s].here /\ ~slipped' => token' = token,
           calls[s].here /\ ~slipped' =>
               \/ page.at \notin {"login", "force"} /\ Enters /\ token' = token
               \/ page.at = "force" /\ MustSet /\ token' = token
               \/ page.at = "login" /\ token' \notin alive,
           ai' \in AIState, ai'.filter = ai.filter, ai'.clean = ai.clean, ai'.fresh = ai.fresh,
           ~calls[s].here => ai' = ai,
           strays' \in Nat, timers' = strays' + (IF On("monitor") THEN 1 ELSE 0)'
    PROVE  ConsoleInv'
<1>1. /\ ConsoleType /\ calls \in [Slots -> Call] /\ logins \in Nat
      /\ page \in [at : Pages, phase : {"boot", "shown"}]
  BY DEF ConsoleInv, ConsoleType
<1>2. calls'[s] = NoCall /\ \A t \in Slots : t # s => calls'[t] = calls[t]
  BY <1>1
<1>3. UNCHANGED <<must, alive, stored, logins>>
  BY DEF server
<1>4. /\ NoCall.kind = "none" /\ ~NoCall.here /\ NoCall.page \in Pages /\ NoCall.tok = 0
      /\ NoCall \in Call
  BY EmptyCall DEF NoCall, Pages
<1>5. /\ page' \in [at : Pages, phase : {"boot", "shown"}] /\ page'.at = page.at
      /\ calls[s].here => page'.phase = "shown" /\ page.phase = "boot" /\ calls[s].page = page.at
      /\ ~calls[s].here => page' = page
  <2>1. CallFits(calls[s])
    BY DEF ConsoleInv, CallsFit
  <2> QED BY <1>1, <2>1 DEF CallFits
<1>6. ConsoleType'
  <2>1. calls' \in [Slots -> Call]
    BY <1>1, <1>4
  <2>2. \A t \in Slots : calls'[t].tok \in 0..logins
    BY <1>1, <1>2, <1>4 DEF ConsoleType
  <2>3. token' \in 0..logins
    BY <1>1 DEF ConsoleType
  <2> QED BY <1>1, <1>3, <1>5, <2>1, <2>2, <2>3 DEF ConsoleType
<1>7. Mine(First)' = Mine(First) \ {s}
  BY <1>2, <1>4 DEF Mine
<1>8. /\ Mine(JobCalls)' = Mine(JobCalls) /\ Mine({"list"})' = Mine({"list"})
      /\ Mine({"save"})' = Mine({"save"})
  BY <1>2, <1>4 DEF Mine, JobCalls
<1>9. calls[s].here => Mine(First) = {s} /\ Mine(First)' = {}
  <2>1. calls[s].here => s \in Mine(First)
    BY DEF Mine
  <2> QED BY <1>7, <2>1 DEF ConsoleInv, CallsFit
<1>10. ~calls[s].here => Mine(First)' = Mine(First)
  BY <1>7 DEF Mine
<1>11. CallsFit'
  <2>1. ASSUME NEW t \in Slots PROVE CallFits(calls[t])'
    <3>1. CallFits(calls[t])
      BY DEF ConsoleInv, CallsFit
    <3>2. CASE t = s
      BY <1>2, <1>4, <3>2 DEF CallFits, PageOfKind, JobCalls
    <3>3. CASE t # s /\ ~calls[s].here
      BY <1>2, <1>5, <3>1, <3>3 DEF CallFits
    <3>4. CASE t # s /\ calls[s].here
      <4>1. t \notin Mine(First)
        BY <1>9, <3>4
      <4>2. ~(calls[t].here /\ calls[t].kind # "poll")
        BY <1>5, <3>1, <3>4, <4>1 DEF CallFits, Mine
      <4> QED BY <1>2, <3>1, <3>4, <4>2 DEF CallFits
    <3> QED BY <3>2, <3>3, <3>4
  <2>2. CASE calls[s].here
    BY <1>5, <1>9, <2>1, <2>2 DEF CallsFit
  <2>3. CASE ~calls[s].here
    BY <1>5, <1>10, <2>1, <2>3 DEF CallsFit, ConsoleInv
  <2> QED BY <2>2, <2>3
<1>12. TimersFit'
  BY DEF TimersFit
<1>13. PlaceTrue'
  <2>1. SUFFICES ASSUME ~slipped', ~slipped PROVE PlaceTrue'
    BY DEF PlaceTrue
  <2>2. Changed => Changed'
    BY <1>2 DEF Changed
  <2>3. token' = token => (Enters => Enters') /\ (MustSet => MustSet')
    BY <1>3, <2>2 DEF Enters, MustSet
  <2>4. ASSUME NEW t \in Slots PROVE FirstTrue(calls[t])'
    <3>1. CASE t \in Mine(First)'
      <4>1. ~calls[s].here /\ token' = token /\ t # s
        BY <1>7, <1>9, <2>1, <3>1
      <4> QED BY <1>2, <1>3, <2>1, <2>3, <4>1 DEF FirstTrue, ConsoleInv, PlaceTrue
    <3>2. CASE t \notin Mine(First)'
      BY <3>2 DEF FirstTrue, Mine
    <3> QED BY <3>1, <3>2
  <2>5. CASE calls[s].here
    BY <1>3, <1>5, <2>1, <2>3, <2>4, <2>5 DEF PlaceTrue
  <2>6. CASE ~calls[s].here
    BY <1>3, <1>5, <2>1, <2>3, <2>4, <2>6 DEF PlaceTrue, ConsoleInv
  <2> QED BY <2>5, <2>6
<1>14. RowsFit'
  <2>1. RowsFit
    BY DEF ConsoleInv
  <2>2. \A t \in Slots : calls'[t].kind = "list" => t # s /\ calls'[t] = calls[t]
    BY <1>2, <1>4
  <2>3. \A t \in Mine(JobCalls) : t \in Slots /\ calls'[t] = calls[t]
    BY <1>2 DEF Mine, JobCalls
  <2>4. CASE calls[s].here
    <3>1. ai'.filter = "all" /\ page'.phase # "boot"
      BY <1>5, <2>1, <2>4 DEF RowsFit
    <3>2. \A t \in Slots : calls'[t].kind = "list" => Fits(calls'[t].filter, calls'[t].got)
      BY <2>1, <2>2 DEF RowsFit
    <3>3. \A t \in Mine(JobCalls)' : calls'[t].filter = ai'.filter
      BY <1>8, <2>1, <2>3 DEF RowsFit
    <3> QED BY <1>8, <2>1, <3>1, <3>2, <3>3 DEF RowsFit, Fits
  <2>5. CASE ~calls[s].here
    BY <1>5, <1>8, <2>1, <2>2, <2>3, <2>5 DEF RowsFit, On
  <2> QED BY <2>4, <2>5
<1>15. FormFits'
  <2>1. \A t \in Slots : calls'[t].kind = "save" => t # s /\ calls'[t] = calls[t]
    BY <1>2, <1>4
  <2>2. \A t \in Mine({"save"}) : t \in Slots /\ calls'[t] = calls[t]
    BY <1>2 DEF Mine
  <2>3. ai'.clean => ai.clean /\ ai' = ai
    BY <1>5 DEF ConsoleInv, RowsFit
  <2> QED BY <1>3, <1>8, <2>1, <2>2, <2>3 DEF FormFits, ConsoleInv
<1> QED BY <1>6, <1>11, <1>12, <1>13, <1>14, <1>15 DEF ConsoleInv

LEMMA MeAnsweredKeeps ==
    ASSUME ConsoleInv, NEW s \in Slots, MeAnswered(s)
    PROVE  ConsoleInv'
<1>. DEFINE c == calls[s]
            to == Destination(c.page, c.reply)
<1>1. ConsoleType /\ c \in Call /\ c.tok \in 0..logins /\ token \in 0..logins /\ logins \in Nat
  BY DEF ConsoleInv, ConsoleType
<1>2. c.kind = "me" /\ c.reply \in Replies \ {"none"} /\ c.page \in Pages /\ c.here \in BOOLEAN
  BY <1>1 DEF MeAnswered, Answered, Call
<1>3. TokenAfter(c) \in {token, 0} /\ TokenAfter(c) \in 0..logins
  BY <1>1 DEF TokenAfter
<1>4. /\ to \in Pages \cup {"stay"}
      /\ c.page \in Loaders /\ to = "stay" => c.reply = "ok"
      /\ c.page = "home" /\ to = "stay" => c.reply = "ok"
      /\ c.page = "force" /\ to = "stay" => c.reply = "must"
      /\ c.page = "login" /\ to = "stay" => c.reply \in Denied
  BY <1>2, DestinationIs
<1>5. UNCHANGED server
  BY DEF MeAnswered
<1>6. CASE to # "stay" /\ Open(s, to, TokenAfter(c), Hard(c.page))
  <2>1. Hard(c.page) \in BOOLEAN
    BY DEF Hard
  <2> QED BY <1>3, <1>4, <1>5, <1>6, <2>1, OpenKeeps
<1>7. CASE /\ to = "stay" /\ c.page \in Loaders
           /\ Send(s, [Request("load", c.page) EXCEPT !.here = c.here])
           /\ UNCHANGED <<token, page, ai, timers, strays, slipped>>
  <2>. DEFINE d == [Request("load", c.page) EXCEPT !.here = c.here]
  <2>1. "load" \in Kinds
    BY DEF Kinds
  <2>2. /\ d \in Call /\ d.kind = "load" /\ d.page = c.page /\ d.here = c.here /\ d.tok = token
    BY <1>1, <1>2, <2>1, RequestIs DEF Call
  <2>3. calls' = [calls EXCEPT ![s] = d]
    BY <1>7 DEF Send
  <2>. HIDE DEF d, to
  <2> QED BY <1>2, <1>4, <1>5, <1>7, <2>2, <2>3, SecondKeeps
<1>8. CASE /\ to = "stay" /\ c.page \notin Loaders
           /\ End(s)
           /\ page' = IF c.here THEN [page EXCEPT !.phase = "shown"] ELSE page
           /\ token' = TokenAfter(c)
           /\ slipped' = IF c.here /\ c.page = "login" THEN slipped
                         ELSE slipped \/ c.reply = "refused"
           /\ UNCHANGED <<ai, timers, strays>>
  <2>1. c.page \in {"login", "force", "home"}
    BY <1>2, <1>8 DEF Loaders, Pages
  <2>2. calls' = [calls EXCEPT ![s] = NoCall]
    BY <1>8 DEF End
  <2>3. slipped \in BOOLEAN /\ slipped' \in BOOLEAN /\ (slipped => slipped')
    BY <1>1, <1>8 DEF ConsoleType
  <2>4. ~c.here /\ ~slipped' => token' = token
    BY <1>1, <1>2, <1>8 DEF TokenAfter
  <2>5. c.here => c.page = page.at /\ page.phase = "boot"
    BY <1>2 DEF ConsoleInv, CallsFit, CallFits
  <2>6. ASSUME c.here, ~slipped'
        PROVE  \/ page.at \notin {"login", "force"} /\ Enters /\ token' = token
               \/ page.at = "force" /\ MustSet /\ token' = token
               \/ page.at = "login" /\ token' \notin alive
    <3>1. ~slipped /\ FirstTrue(c)
      BY <2>3, <2>6 DEF ConsoleInv, PlaceTrue
    <3>2. CASE c.page = "home"
      BY <1>2, <1>4, <1>8, <2>5, <2>6, <3>1, <3>2 DEF FirstTrue, TokenAfter
    <3>3. CASE c.page = "force"
      BY <1>2, <1>4, <1>8, <2>5, <2>6, <3>1, <3>3 DEF FirstTrue, TokenAfter
    <3>4. CASE c.page = "login"
      <4>1. c.reply = "refused"
        BY <1>2, <1>4, <1>8, <2>6, <3>1, <3>4 DEF FirstTrue, Denied
      <4>2. token' = 0 /\ 0 \notin alive
        BY <1>1, <1>2, <1>8, <4>1 DEF TokenAfter, ConsoleType
      <4> QED BY <2>5, <2>6, <3>4, <4>2
    <3> QED BY <2>1, <3>2, <3>3, <3>4
  <2>7. timers' = strays' + (IF On("monitor") THEN 1 ELSE 0)'
    <3>1. On("monitor")' <=> On("monitor")
      <4>1. CASE c.here
        <5>1. page.at # "monitor" /\ page'.at = page.at
          BY <1>1, <1>8, <2>1, <2>5, <4>1 DEF ConsoleType
        <5> QED BY <5>1 DEF On
      <4>2. CASE ~c.here
        BY <1>8, <4>2 DEF On
      <4> QED BY <4>1, <4>2
    <3> QED BY <1>8, <3>1 DEF ConsoleInv, TimersFit
  <2>8. ai' \in AIState /\ strays' \in Nat
    BY <1>1, <1>8 DEF ConsoleType
  <2>. HIDE DEF to
  <2> QED BY <1>2, <1>3, <1>5, <1>8, <2>2, <2>3, <2>4, <2>6, <2>7, <2>8, ShownKeeps
<1> QED BY <1>6, <1>7, <1>8 DEF MeAnswered

LEMMA LoadAnsweredKeeps ==
    ASSUME ConsoleInv, NEW s \in Slots, LoadAnswered(s)
    PROVE  ConsoleInv'
<1>. DEFINE c == calls[s]
<1>1. ConsoleType /\ c \in Call /\ token \in 0..logins /\ logins \in Nat
  BY DEF ConsoleInv, ConsoleType
<1>2. c.kind = "load" /\ c.reply # "none" /\ c.here \in BOOLEAN /\ c.got \subseteq Row /\ c.text \in Nat
  BY <1>1 DEF LoadAnswered, Answered, Call
<1>3. UNCHANGED server
  BY DEF LoadAnswered
<1>4. CASE c.reply # "ok" /\ Open(s, "login", TokenAfter(c), Hard(c.page))
  <2>1. Hard(c.page) \in BOOLEAN /\ "login" \in Pages /\ TokenAfter(c) \in 0..logins
    BY <1>1 DEF Hard, Pages, TokenAfter
  <2> QED BY <1>3, <1>4, <2>1, OpenKeeps
<1>5. CASE /\ c.reply = "ok"
           /\ End(s)
           /\ page' = IF c.here THEN [page EXCEPT !.phase = "shown"] ELSE page
           /\ ai' = IF c.here /\ c.page = "ai"
                    THEN [ai EXCEPT !.rows = c.got, !.form = c.text] ELSE ai
           /\ timers' = IF c.page = "monitor" THEN timers + 1 ELSE timers
           /\ strays' = IF c.page = "monitor" /\ ~c.here THEN strays + 1 ELSE strays
           /\ UNCHANGED <<token, slipped>>
  <2>1. calls' = [calls EXCEPT ![s] = NoCall]
    BY <1>5 DEF End
  <2>2. c.page \in Loaders /\ (c.here => c.page = page.at /\ page.phase = "boot")
    BY <1>2 DEF ConsoleInv, CallsFit, CallFits, PageOfKind, JobCalls
  <2>3. c.here /\ ~slipped => page.at \notin {"login", "force"} /\ Enters
    <3>1. ~slipped => FirstTrue(c)
      BY DEF ConsoleInv, PlaceTrue
    <3> QED BY <1>2, <2>2, <3>1 DEF FirstTrue, Loaders
  <2>4. /\ ai' \in AIState /\ ai'.filter = ai.filter /\ ai'.clean = ai.clean /\ ai'.fresh = ai.fresh
        /\ ~c.here => ai' = ai
    <3>1. ai \in AIState
      BY <1>1 DEF ConsoleType
    <3> QED BY <1>2, <1>5, <3>1 DEF AIState
  <2>5. strays' \in Nat /\ timers' = strays' + (IF On("monitor") THEN 1 ELSE 0)'
    <3>1. strays \in Nat /\ timers = strays + (IF On("monitor") THEN 1 ELSE 0)
      BY <1>1 DEF ConsoleInv, TimersFit, ConsoleType
    <3>2. page \in [at : Pages, phase : {"boot", "shown"}]
      BY <1>1 DEF ConsoleType
    <3>3. CASE c.here
      <4>1. ~On("monitor") /\ (On("monitor")' <=> c.page = "monitor")
        BY <1>5, <2>2, <3>2, <3>3 DEF On
      <4> QED BY <1>5, <3>1, <3>3, <4>1
    <3>4. CASE ~c.here
      <4>1. On("monitor")' <=> On("monitor")
        BY <1>5, <3>4 DEF On
      <4> QED BY <1>5, <3>1, <3>4, <4>1
    <3> QED BY <3>3, <3>4
  <2>6. slipped' \in BOOLEAN
    BY <1>1, <1>5 DEF ConsoleType
  <2> QED BY <1>2, <1>3, <1>5, <2>1, <2>3, <2>4, <2>5, <2>6, ShownKeeps
<1> QED BY <1>4, <1>5 DEF LoadAnswered

LEMMA VisitKeeps ==
    ASSUME ConsoleInv, NEW p \in Pages, Visit(p)
    PROVE  ConsoleInv'
<1>1. PICK s \in Free, hard \in BOOLEAN : Open(s, p, token, hard)
  BY DEF Visit
<1>2. s \in Slots /\ token \in 0..logins /\ UNCHANGED server
  BY FreeIs DEF Visit, ConsoleInv, ConsoleType
<1> QED BY <1>1, <1>2, OpenKeeps

LEMMA LogoutKeeps ==
    ASSUME ConsoleInv, Logout
    PROVE  ConsoleInv'
<1>1. PICK s \in Free : Open(s, "login", 0, FALSE)
  BY DEF Logout
<1>2. s \in Slots /\ 0 \in 0..logins /\ UNCHANGED server /\ "login" \in Pages
  BY FreeIs DEF Logout, ConsoleInv, ConsoleType, Pages
<1> QED BY <1>1, <1>2, OpenKeeps

LEMMA LoginAnsweredKeeps ==
    ASSUME ConsoleInv, NEW s \in Slots, LoginAnswered(s)
    PROVE  ConsoleInv'
<1>. DEFINE c == calls[s]
<1>1. ConsoleType /\ c \in Call /\ c.tok \in 0..logins /\ ai \in AIState
  BY DEF ConsoleInv, ConsoleType
<1>2. c.kind = "login" /\ c.reply # "none" /\ UNCHANGED server
  BY DEF LoginAnswered, Answered
<1>3. CASE c.reply \in {"ok", "must"} /\ Open(s, Destination("login", c.reply), c.tok, FALSE)
  <2>1. Destination("login", c.reply) \in Pages
    BY <1>3 DEF Destination, LoginTo, Denied, Pages
  <2> QED BY <1>1, <1>2, <1>3, <2>1, OpenKeeps
<1>4. CASE /\ c.reply \notin {"ok", "must"} /\ End(s)
           /\ UNCHANGED <<token, page, ai, timers, slipped, strays>>
  <2>1. token' = TokenAfter(c) /\ Slip(c)
    <3>1. slipped \in BOOLEAN
      BY <1>1 DEF ConsoleType
    <3> QED BY <1>2, <1>4, <3>1 DEF TokenAfter, Slip
  <2>2. calls' = [calls EXCEPT ![s] = NoCall]
    BY <1>4 DEF End
  <2>3. page.phase = "boot" => ~ai'.clean
    BY <1>4 DEF ConsoleInv, RowsFit
  <2> QED BY <1>1, <1>2, <1>4, <2>1, <2>2, <2>3, EmptyCall, EndKeeps DEF ConsoleInv
<1> QED BY <1>3, <1>4 DEF LoginAnswered

LEMMA OnwardAnsweredKeeps ==
    ASSUME ConsoleInv, NEW s \in Slots, OnwardAnswered(s)
    PROVE  ConsoleInv'
<1>. DEFINE c == calls[s]
<1>1. ConsoleType /\ c \in Call /\ token \in 0..logins /\ ai \in AIState
  BY DEF ConsoleInv, ConsoleType
<1>2. c.kind \in {"change", "resolve"} /\ UNCHANGED server
  BY DEF OnwardAnswered, Answered
<1>3. CASE c.reply = "ok" /\ Open(s, IF c.kind = "change" THEN "home" ELSE "report", token, FALSE)
  <2>1. (IF c.kind = "change" THEN "home" ELSE "report") \in Pages
    BY DEF Pages
  <2> QED BY <1>1, <1>2, <1>3, <2>1, OpenKeeps
<1>4. CASE /\ c.reply # "ok" /\ End(s) /\ token' = TokenAfter(c) /\ Slip(c)
           /\ UNCHANGED <<page, ai, timers, strays>>
  <2>1. calls' = [calls EXCEPT ![s] = NoCall]
    BY <1>4 DEF End
  <2>2. page.phase = "boot" => ~ai'.clean
    BY <1>4 DEF ConsoleInv, RowsFit
  <2> QED BY <1>1, <1>2, <1>4, <2>1, <2>2, EmptyCall, EndKeeps DEF ConsoleInv
<1> QED BY <1>3, <1>4 DEF OnwardAnswered

LEMMA PollAnsweredKeeps ==
    ASSUME ConsoleInv, NEW s \in Slots, PollAnswered(s)
    PROVE  ConsoleInv'
<1>1. ai \in AIState /\ calls[s].kind \in {"poll", "log", "reindex"}
  BY DEF ConsoleInv, ConsoleType, PollAnswered, Answered
<1>2. /\ calls' = [calls EXCEPT ![s] = NoCall] /\ token' = TokenAfter(calls[s]) /\ Slip(calls[s])
      /\ UNCHANGED <<server, page, ai, timers, strays>>
  BY DEF PollAnswered, End
<1>3. page.phase = "boot" => ~ai'.clean
  BY <1>2 DEF ConsoleInv, RowsFit
<1> QED BY <1>1, <1>2, <1>3, EmptyCall, EndKeeps DEF ConsoleInv

LEMMA AuditAnsweredKeeps ==
    ASSUME ConsoleInv, NEW s \in Slots, AuditAnswered(s)
    PROVE  ConsoleInv'
<1>. DEFINE c == calls[s]
            d == [Request("log", "report") EXCEPT !.here = c.here]
<1>1. ConsoleType /\ ai \in AIState /\ c \in Call /\ c.kind = "logs" /\ token \in 0..logins
  BY DEF ConsoleInv, ConsoleType, AuditAnswered, Answered
<1>2. /\ token' = TokenAfter(c) /\ Slip(c) /\ UNCHANGED <<server, page, ai, timers, strays>>
      /\ \/ calls' = [calls EXCEPT ![s] = NoCall]
         \/ calls' = [calls EXCEPT ![s] = d]
  BY DEF AuditAnswered, End, Send
<1>3. /\ d \in Call /\ d.kind = "log" /\ d.page = "report" /\ d.here = c.here /\ d.tok = token
      /\ d.got = {}
  <2>1. "log" \in Kinds /\ "report" \in Pages
    BY DEF Kinds, Pages
  <2> QED BY <1>1, <2>1, RequestIs DEF Call
<1>4. c.page = "report" /\ d.page \in PageOfKind(d.kind)
  <2>1. c.page \in PageOfKind(c.kind)
    BY DEF ConsoleInv, CallsFit, CallFits
  <2> QED BY <1>1, <1>3, <2>1 DEF PageOfKind, JobCalls
<1>5. page.phase = "boot" => ~ai'.clean
  BY <1>2 DEF ConsoleInv, RowsFit
<1>. HIDE DEF d
<1>6. CASE calls' = [calls EXCEPT ![s] = NoCall]
  BY <1>1, <1>2, <1>5, <1>6, EmptyCall, EndKeeps DEF ConsoleInv
<1>7. CASE calls' = [calls EXCEPT ![s] = d]
  BY <1>1, <1>2, <1>3, <1>4, <1>5, <1>7, EndKeeps DEF ConsoleInv
<1> QED BY <1>2, <1>6, <1>7

LEMMA JobsAnsweredKeeps ==
    ASSUME ConsoleInv, NEW s \in Slots, JobsAnswered(s)
    PROVE  ConsoleInv'
<1>. DEFINE c == calls[s]
            d == [ListCall(c.filter) EXCEPT !.here = c.here]
<1>1. /\ ConsoleType /\ ai \in AIState /\ c \in Call /\ c.kind \in {"retry", "batch", "cleanup"}
      /\ token \in 0..logins /\ c.filter \in Filters
  BY DEF ConsoleInv, ConsoleType, JobsAnswered, Answered, Call
<1>2. /\ token' = TokenAfter(c) /\ Slip(c) /\ UNCHANGED <<server, page, timers, strays>>
      /\ calls' = [calls EXCEPT ![s] = IF c.reply = "ok" THEN d ELSE NoCall]
      /\ ai' = IF c.here /\ c.reply = "ok" /\ c.clears THEN [ai EXCEPT !.detail = {}] ELSE ai
  BY DEF JobsAnswered, End, Send
<1>3. /\ d \in Call /\ d.kind = "list" /\ d.page = "ai" /\ d.here = c.here /\ d.tok = token
      /\ d.got = {} /\ d.filter = c.filter
  BY <1>1, ListCallIs DEF Call
<1>4. c.page = "ai" /\ d.page \in PageOfKind(d.kind) /\ c.kind \in JobCalls
  <2>1. c.page \in PageOfKind(c.kind)
    BY DEF ConsoleInv, CallsFit, CallFits
  <2> QED BY <1>1, <1>3, <2>1 DEF PageOfKind, JobCalls
<1>5. /\ ai' \in AIState /\ ai'.filter = ai.filter /\ ai'.clean = ai.clean /\ ai'.form = ai.form
      /\ ai'.rows = ai.rows /\ ai'.fresh = ai.fresh
  BY <1>1, <1>2 DEF AIState
<1>6. page.phase = "boot" => ~ai'.clean
  BY <1>5 DEF ConsoleInv, RowsFit
<1>. HIDE DEF d
<1>7. CASE c.reply = "ok"
  BY <1>1, <1>2, <1>3, <1>4, <1>5, <1>6, <1>7, EndKeeps DEF ConsoleInv
<1>8. CASE c.reply # "ok"
  BY <1>1, <1>2, <1>5, <1>6, <1>8, EmptyCall, EndKeeps DEF ConsoleInv
<1> QED BY <1>7, <1>8

LEMMA AIAnsweredKeeps ==
    ASSUME ConsoleInv, NEW s \in Slots, AIAnswered(s)
    PROVE  ConsoleInv'
<1>. DEFINE c == calls[s]
            ok == c.here /\ c.reply = "ok"
<1>1. /\ ConsoleType /\ ai \in AIState /\ c \in Call /\ c.kind \in {"list", "detail", "save"}
      /\ c.here \in BOOLEAN /\ c.sole \in BOOLEAN /\ c.got \subseteq Row /\ c.text \in Nat
  BY DEF ConsoleInv, ConsoleType, AIAnswered, Answered, Call
<1>2. /\ token' = TokenAfter(c) /\ Slip(c) /\ UNCHANGED <<server, page, timers, strays>>
      /\ calls' = [calls EXCEPT ![s] = NoCall]
      /\ ai' = IF ok /\ c.kind = "list" THEN [ai EXCEPT !.rows = c.got, !.fresh = TRUE]
               ELSE IF ok /\ c.kind = "detail" THEN [ai EXCEPT !.detail = c.got]
               ELSE IF ok /\ c.kind = "save" THEN Saved(c)
               ELSE IF c.here /\ c.kind = "list" THEN [ai EXCEPT !.fresh = FALSE] ELSE ai
  BY DEF AIAnswered, End
<1>3. ASSUME ai' \in AIState, ai'.filter = ai.filter, page.phase = "boot" => ~ai'.clean,
             IF c.here /\ c.kind = "list"
             THEN ai'.fresh => Fits(ai.filter, ai'.rows)
             ELSE ai'.rows = ai.rows /\ (ai'.fresh => ai.fresh)
      PROVE  /\ ConsoleType' /\ CallsFit' /\ TimersFit' /\ PlaceTrue' /\ RowsFit'
             /\ (ai'.clean => ai.clean /\ ai'.form = ai.form) => FormFits'
  BY <1>1, <1>2, <1>3, EmptyCall, EndKeeps
<1>4. ai.clean => page.phase # "boot"
  BY DEF ConsoleInv, RowsFit
<1>5. CASE c.kind = "list"
  <2>1. /\ ai' \in AIState /\ ai'.filter = ai.filter /\ ai'.clean = ai.clean /\ ai'.form = ai.form
        /\ ~c.here => ai' = ai
        /\ c.here /\ ai'.fresh => ai'.rows = c.got
    BY <1>1, <1>2, <1>5 DEF AIState
  <2>2. Fits(c.filter, c.got) /\ (c.here => c.filter = ai.filter)
    BY <1>5 DEF ConsoleInv, RowsFit, Mine, JobCalls
  <2>3. c.here /\ ai'.fresh => Fits(ai.filter, ai'.rows)
    BY <2>1, <2>2
  <2> QED BY <1>3, <1>4, <1>5, <2>1, <2>3 DEF ConsoleInv
<1>6. CASE c.kind = "detail"
  <2>1. /\ ai' \in AIState /\ ai'.filter = ai.filter /\ ai'.clean = ai.clean /\ ai'.form = ai.form
        /\ ai'.rows = ai.rows /\ ai'.fresh = ai.fresh
    BY <1>1, <1>2, <1>6 DEF AIState
  <2> QED BY <1>3, <1>4, <1>6, <2>1 DEF ConsoleInv
<1>7. CASE c.kind = "save" /\ ~ok
  <2>1. ai' = ai
    BY <1>2, <1>7
  <2> QED BY <1>1, <1>3, <1>4, <1>7, <2>1 DEF ConsoleInv
<1>8. CASE c.kind = "save" /\ ok
  <2>1. /\ ai' \in AIState /\ ai'.filter = ai.filter /\ ai'.rows = ai.rows /\ ai'.fresh = ai.fresh
        /\ ai'.form = c.text /\ ai'.clean = c.sole
    BY <1>1, <1>2, <1>8 DEF AIState, Saved
  <2>2. page.phase = "shown"
    BY <1>8 DEF ConsoleInv, CallsFit, CallFits
  <2>3. ConsoleType' /\ CallsFit' /\ TimersFit' /\ PlaceTrue' /\ RowsFit'
    BY <1>3, <1>8, <2>1, <2>2
  <2>4. FormFits'
    <3>1. /\ calls'[s].kind = "none" /\ \A t \in Slots : t # s => calls'[t] = calls[t]
      BY <1>2 DEF ConsoleInv, ConsoleType, NoCall
    <3>2. /\ \A t \in Slots : calls'[t].kind = "save" => t # s /\ calls'[t] = calls[t]
          /\ \A t \in Mine({"save"})' : t \in Mine({"save"}) /\ calls'[t] = calls[t]
          /\ stored' = stored
      BY <1>2, <3>1 DEF Mine, server
    <3>3. c.sole => (\A t \in Slots : calls[t].kind = "save" => t = s) /\ c.text = stored
      BY <1>8 DEF ConsoleInv, FormFits, Mine
    <3>4. ai'.clean => ai'.form = stored' /\ \A t \in Slots : calls'[t].kind # "save"
      BY <2>1, <3>2, <3>3
    <3>5. ASSUME NEW t \in Mine({"save"})', calls'[t].sole
          PROVE  /\ \A u \in Slots : calls'[u].kind = "save" => u = t
                 /\ calls'[t].reply = "ok" => calls'[t].text = stored'
      BY <3>2, <3>5 DEF ConsoleInv, FormFits
    <3> QED BY <3>4, <3>5 DEF FormFits
  <2> QED BY <2>3, <2>4 DEF ConsoleInv
<1> QED BY <1>1, <1>5, <1>6, <1>7, <1>8

LEMMA PollKeeps ==
    ASSUME ConsoleInv, Poll
    PROVE  ConsoleInv'
<1>. DEFINE d == Request("poll", "monitor")
<1>1. PICK s \in Slots : calls[s].kind = "none" /\ calls' = [calls EXCEPT ![s] = d]
  BY FreeIs DEF Poll, Send
<1>2. ConsoleType /\ calls \in [Slots -> Call] /\ calls[s].tok \in 0..logins /\ token \in 0..logins
  BY DEF ConsoleInv, ConsoleType
<1>3. d \in Call /\ d.kind = "poll" /\ d.page = "monitor" /\ d.tok = token
  BY <1>2, RequestIs DEF Kinds, Pages
<1>. HIDE DEF d
<1>4. calls'[s] = d /\ \A t \in Slots : t # s => calls'[t] = calls[t]
  BY <1>1, <1>2
<1>5. UNCHANGED <<must, alive, stored, logins, token, page, ai, timers, slipped, strays>>
  BY DEF Poll, server
<1>6. ~calls[s].here
  BY <1>1 DEF ConsoleInv, CallsFit, CallFits
<1>7. ASSUME NEW K, "poll" \notin K PROVE Mine(K)' = Mine(K)
  BY <1>3, <1>4, <1>6, <1>7 DEF Mine
<1>8. /\ Mine(First)' = Mine(First) /\ Mine(JobCalls)' = Mine(JobCalls)
      /\ Mine({"list"})' = Mine({"list"}) /\ Mine({"save"})' = Mine({"save"})
  BY <1>7 DEF JobCalls
<1>9. ConsoleType'
  <2>1. calls' \in [Slots -> Call] /\ \A t \in Slots : calls'[t].tok \in 0..logins
    BY <1>1, <1>2, <1>3, <1>4 DEF ConsoleType
  <2> QED BY <1>2, <1>5, <2>1 DEF ConsoleType
<1>10. CallsFit'
  <2>1. ASSUME NEW t \in Slots PROVE CallFits(calls[t])'
    <3>1. CASE t = s
      BY <1>3, <1>4, <3>1 DEF CallFits, PageOfKind, JobCalls, Pages
    <3>2. CASE t # s
      BY <1>4, <1>5, <3>2 DEF CallFits, ConsoleInv, CallsFit
    <3> QED BY <3>1, <3>2
  <2> QED BY <1>5, <1>8, <2>1 DEF CallsFit, ConsoleInv
<1>11. TimersFit'
  BY <1>5 DEF ConsoleInv, TimersFit, On
<1>12. PlaceTrue'
  <2>1. Changed => Changed'
    BY <1>1, <1>4 DEF Changed
  <2>2. (Enters => Enters') /\ (MustSet => MustSet')
    BY <1>5, <2>1 DEF Enters, MustSet
  <2>3. ASSUME ~slipped, NEW t \in Slots PROVE FirstTrue(calls[t])'
    <3>1. CASE t = s
      BY <1>3, <1>4, <3>1 DEF FirstTrue
    <3>2. CASE t # s
      BY <1>4, <1>5, <2>2, <2>3, <3>2 DEF FirstTrue, ConsoleInv, PlaceTrue
    <3> QED BY <3>1, <3>2
  <2> QED BY <1>5, <2>2, <2>3 DEF PlaceTrue, ConsoleInv
<1>13. RowsFit'
  <2>1. \A t \in Slots : calls'[t].kind = "list" => t # s
    BY <1>3, <1>4
  <2>2. \A t \in Mine(JobCalls) : t \in Slots /\ t # s
    BY <1>6 DEF Mine
  <2> QED BY <1>4, <1>5, <1>8, <2>1, <2>2 DEF RowsFit, ConsoleInv, On
<1>14. FormFits'
  <2>1. \A t \in Slots : calls'[t].kind = "save" => t # s /\ calls'[t] = calls[t]
    BY <1>3, <1>4
  <2>2. \A t \in Mine({"save"}) : t \in Slots /\ calls'[t] = calls[t]
    BY <1>4, <1>6 DEF Mine
  <2> QED BY <1>5, <1>8, <2>1, <2>2 DEF FormFits, ConsoleInv
<1> QED BY <1>9, <1>10, <1>11, <1>12, <1>13, <1>14 DEF ConsoleInv

LEMMA EditKeeps ==
    ASSUME ConsoleInv, Edit
    PROVE  ConsoleInv'
<1>1. ai \in AIState
  BY DEF ConsoleInv, ConsoleType
<1>2. /\ ai' \in AIState /\ ai'.filter = ai.filter /\ ai'.rows = ai.rows /\ ai'.fresh = ai.fresh
      /\ ~ai'.clean
  <2>1. ai' = [ai EXCEPT !.form = ai.form + 1, !.clean = FALSE]
    BY <1>1 DEF Edit, AIState
  <2>2. ai.form + 1 \in Nat
    BY <1>1 DEF AIState
  <2> QED BY <1>1, <2>1, <2>2 DEF AIState
<1>3. UNCHANGED <<must, alive, stored, logins, token, page, calls, timers, slipped, strays>>
  BY DEF Edit, server
<1>4. ConsoleType'
  BY <1>2, <1>3 DEF ConsoleInv, ConsoleType
<1>5. CallsFit'
  BY <1>3 DEF ConsoleInv, CallsFit, CallFits, Mine
<1>6. TimersFit'
  BY <1>3 DEF ConsoleInv, TimersFit, On
<1>7. PlaceTrue'
  BY <1>3 DEF ConsoleInv, PlaceTrue, FirstTrue, Enters, MustSet, Changed
<1>8. RowsFit'
  BY <1>2, <1>3 DEF ConsoleInv, RowsFit, Mine, On
<1>9. FormFits'
  BY <1>2, <1>3 DEF ConsoleInv, FormFits, Mine
<1> QED BY <1>4, <1>5, <1>6, <1>7, <1>8, <1>9 DEF ConsoleInv

LEMMA ElsewhereKeeps ==
    ASSUME ConsoleInv, Elsewhere
    PROVE  ConsoleInv'
<1>1. UNCHANGED <<stored, logins, token, page, ai, calls, timers, strays>> /\ slipped' = TRUE
  BY DEF Elsewhere
<1>2. alive' \subseteq alive /\ must' \in BOOLEAN
  BY DEF Elsewhere, ConsoleInv, ConsoleType
<1>3. ConsoleType'
  BY <1>1, <1>2 DEF ConsoleInv, ConsoleType
<1>4. CallsFit'
  BY <1>1 DEF ConsoleInv, CallsFit, CallFits, Mine
<1>5. TimersFit' /\ PlaceTrue'
  BY <1>1 DEF ConsoleInv, TimersFit, On, PlaceTrue
<1>6. RowsFit' /\ FormFits'
  BY <1>1 DEF ConsoleInv, RowsFit, FormFits, Mine, On
<1> QED BY <1>3, <1>4, <1>5, <1>6 DEF ConsoleInv

\* What the invariant speaks of is left alone.
LEMMA SameKeeps ==
    ASSUME ConsoleInv,
           UNCHANGED <<must, alive, stored, logins, token, page, ai, calls, timers, slipped, strays>>
    PROVE  ConsoleInv'
<1>1. ConsoleType'
  BY DEF ConsoleInv, ConsoleType
<1>2. CallsFit'
  BY DEF ConsoleInv, CallsFit, CallFits, Mine
<1>3. TimersFit'
  BY DEF ConsoleInv, TimersFit, On
<1>4. PlaceTrue'
  BY DEF ConsoleInv, PlaceTrue, FirstTrue, Enters, MustSet, Changed
<1>5. RowsFit' /\ FormFits'
  BY DEF ConsoleInv, RowsFit, FormFits, Mine, On
<1> QED BY <1>1, <1>2, <1>3, <1>4, <1>5 DEF ConsoleInv

LEMMA FormsKeep ==
    ASSUME ConsoleInv, SubmitLogin \/ SubmitPassword \/ ResolveMessage \/ Reindex \/ LoadAudit
    PROVE  ConsoleInv'
<1>1. ConsoleType /\ ai \in AIState /\ token \in 0..logins
  BY DEF ConsoleInv, ConsoleType
<1>2. ASSUME NEW k \in Kinds, NEW p \in Pages, NEW with, Click(p, with, Request(k, p)), ai' = ai,
             k \notin First \cup JobCalls \cup {"none", "poll", "save"}, p \in PageOfKind(k)
      PROVE  ConsoleInv'
  <2>. DEFINE c == Request(k, p)
  <2>1. /\ c \in Call /\ c.kind = k /\ c.page = p /\ c.here /\ c.tok = token
        /\ c.reply = "none" /\ c.got = {}
    BY <1>1, RequestIs
  <2>. HIDE DEF c
  <2>2. Click(p, with, c)
    BY <1>2 DEF c
  <2> QED BY <1>1, <1>2, <2>1, <2>2, ClickKeeps
<1>3. /\ {"login", "change", "resolve", "reindex", "logs"} \subseteq Kinds
      /\ {"login", "force", "home", "report"} \subseteq Pages
      /\ "login" \in PageOfKind("login") /\ "force" \in PageOfKind("change")
      /\ "home" \in PageOfKind("resolve") /\ "home" \in PageOfKind("reindex")
      /\ "report" \in PageOfKind("logs")
      /\ {"login", "change", "resolve", "reindex", "logs"}
             \cap (First \cup JobCalls \cup {"none", "poll", "save"}) = {}
  BY DEF Kinds, Pages, PageOfKind, JobCalls
<1>4. CASE SubmitLogin
  BY <1>2, <1>3, <1>4 DEF SubmitLogin
<1>5. CASE SubmitPassword
  BY <1>2, <1>3, <1>5 DEF SubmitPassword
<1>6. CASE ResolveMessage
  BY <1>2, <1>3, <1>6 DEF ResolveMessage
<1>7. CASE Reindex
  BY <1>2, <1>3, <1>7 DEF Reindex
<1>8. CASE LoadAudit
  BY <1>2, <1>3, <1>8 DEF LoadAudit
<1> QED BY <1>4, <1>5, <1>6, <1>7, <1>8

LEMMA RefreshJobsKeeps ==
    ASSUME ConsoleInv, NEW f \in Filters, RefreshJobs(f)
    PROVE  ConsoleInv'
<1>. DEFINE c == ListCall(f)
<1>1. ConsoleType /\ ai \in AIState /\ token \in 0..logins
  BY DEF ConsoleInv, ConsoleType
<1>2. /\ c \in Call /\ c.kind = "list" /\ c.page = "ai" /\ c.here /\ c.tok = token
      /\ c.reply = "none" /\ c.filter = f /\ c.got = {}
  BY <1>1, ListCallIs
<1>3. /\ ai' \in AIState /\ ai'.filter = f /\ ai'.clean = ai.clean /\ ai'.rows = ai.rows
      /\ ai'.fresh = ai.fresh /\ ai'.form = ai.form
  BY <1>1 DEF RefreshJobs, AIState
<1>4. "ai" \in Pages /\ "ai" \in PageOfKind("list")
  BY DEF Pages, PageOfKind, JobCalls
<1>5. Click("ai", JobCalls, c)
  BY DEF RefreshJobs
<1>. HIDE DEF c
<1> QED BY <1>1, <1>2, <1>3, <1>4, <1>5, ClickKeeps

\* The buttons of the AI page that leave its state as it is.
LEMMA AIClickKeeps ==
    ASSUME ConsoleInv, NEW c \in Call, NEW with, Click("ai", with, c), ai' = ai,
           c.here, c.page = "ai", c.kind \in JobCalls \cup {"detail", "save"},
           c.tok = token, c.reply = "none", c.got = {},
           c.kind \in JobCalls => with = JobCalls /\ c.filter = ai.filter,
           c.kind = "save" => /\ with = {"save"} /\ c.text = ai.form
                              /\ c.sole => \A s \in Slots : calls[s].kind # "save"
    PROVE  ConsoleInv'
<1>1. ConsoleType /\ ai \in AIState /\ token \in 0..logins
  BY DEF ConsoleInv, ConsoleType
<1>2. "ai" \in Pages /\ "ai" \in PageOfKind(c.kind) /\ c.kind \notin First \cup {"none", "poll"}
  BY DEF Pages, PageOfKind, JobCalls
<1> QED BY <1>1, <1>2, ClickKeeps

LEMMA RetryableJobs == ConsoleInv => Retryable \subseteq Jobs
BY DEF Retryable, ConsoleInv, ConsoleType, AIState, Row

LEMMA JobCallIs ==
    ASSUME ConsoleInv, NEW k \in JobCalls, NEW I \in SUBSET Jobs
    PROVE  LET c == JobCall(k, I) IN
           /\ c \in Call /\ c.kind = k /\ c.page = "ai" /\ c.here /\ c.tok = token
           /\ c.reply = "none" /\ c.filter = ai.filter /\ c.got = {}
<1>1. k \in Kinds /\ "ai" \in Pages
  BY DEF JobCalls, Kinds, Pages
<1>2. ConsoleType /\ ai.filter \in Filters
  BY DEF ConsoleInv, ConsoleType, AIState
<1>. DEFINE q == Request(k, "ai")
<1>3. /\ q \in Call /\ q.kind = k /\ q.page = "ai" /\ q.here /\ q.tok = token
      /\ q.reply = "none" /\ q.got = {}
  BY <1>1, <1>2, RequestIs
<1>4. JobCall(k, I) = [q EXCEPT !.ids = I, !.filter = ai.filter]
  BY DEF JobCall
<1>. HIDE DEF q
<1> QED BY <1>2, <1>3, <1>4 DEF Call

LEMMA JobButtonsKeep ==
    ASSUME ConsoleInv, RetryJob \/ RetryVisibleJobs \/ CleanupJobs
    PROVE  ConsoleInv'
<1>1. ASSUME NEW k \in JobCalls, NEW I \in SUBSET Jobs, Click("ai", JobCalls, JobCall(k, I)), ai' = ai
      PROVE  ConsoleInv'
  <2>. DEFINE c == JobCall(k, I)
  <2>1. /\ c \in Call /\ c.kind = k /\ c.page = "ai" /\ c.here /\ c.tok = token
        /\ c.reply = "none" /\ c.filter = ai.filter /\ c.got = {}
    BY JobCallIs
  <2>2. Click("ai", JobCalls, c)
    BY <1>1
  <2>3. k # "save"
    BY DEF JobCalls
  <2>. HIDE DEF c
  <2> QED BY <1>1, <2>1, <2>2, <2>3, AIClickKeeps
<1>2. {"retry", "batch", "cleanup"} \subseteq JobCalls
  BY DEF JobCalls
<1>3. CASE RetryJob
  <2>1. PICK j \in Retryable : Click("ai", JobCalls, JobCall("retry", {j})) /\ ai' = ai
    BY <1>3 DEF RetryJob
  <2>2. {j} \in SUBSET Jobs
    BY RetryableJobs
  <2> QED BY <1>1, <1>2, <2>1, <2>2
<1>4. CASE RetryVisibleJobs
  <2>. DEFINE I == {r.job : r \in {x \in ai.rows : x.status # "pending"}}
  <2>1. I \in SUBSET Jobs
    BY DEF ConsoleInv, ConsoleType, AIState, Row
  <2>2. Click("ai", JobCalls, JobCall("batch", I)) /\ ai' = ai
    BY <1>4 DEF RetryVisibleJobs
  <2> QED BY <1>1, <1>2, <2>1, <2>2
<1>5. CASE CleanupJobs
  <2>. DEFINE x == \E r \in ai.detail : r.status \in Over
              c == [JobCall("cleanup", {}) EXCEPT !.clears = x]
  <2>1. /\ c \in Call /\ c.kind = "cleanup" /\ c.page = "ai" /\ c.here /\ c.tok = token
        /\ c.reply = "none" /\ c.filter = ai.filter /\ c.got = {}
    <3>1. x \in BOOLEAN
      OBVIOUS
    <3>2. {} \in SUBSET Jobs
      OBVIOUS
    <3>. HIDE DEF x
    <3> QED BY <1>2, <3>1, <3>2, JobCallIs DEF Call
  <2>2. Click("ai", JobCalls, c) /\ ai' = ai
    BY <1>5 DEF CleanupJobs
  <2>. HIDE DEF c
  <2> QED BY <1>2, <2>1, <2>2, AIClickKeeps
<1> QED BY <1>3, <1>4, <1>5

LEMMA SelectJobKeeps ==
    ASSUME ConsoleInv, SelectJob
    PROVE  ConsoleInv'
<1>1. PICK r \in ai.rows : /\ Click("ai", {"detail"}, [Request("detail", "ai") EXCEPT !.ids = {r.job}])
                           /\ ai' = ai
  BY DEF SelectJob
<1>. DEFINE c == [Request("detail", "ai") EXCEPT !.ids = {r.job}]
<1>2. ConsoleType /\ {r.job} \subseteq Jobs
  BY DEF ConsoleInv, ConsoleType, AIState, Row
<1>3. "detail" \in Kinds /\ "ai" \in Pages /\ "detail" \notin JobCalls
  BY DEF Kinds, Pages, JobCalls
<1>4. /\ c \in Call /\ c.kind = "detail" /\ c.page = "ai" /\ c.here /\ c.tok = token
      /\ c.reply = "none" /\ c.got = {}
  BY <1>2, <1>3, RequestIs DEF Call
<1>5. Click("ai", {"detail"}, c)
  BY <1>1
<1>. HIDE DEF c
<1> QED BY <1>1, <1>3, <1>4, <1>5, AIClickKeeps

LEMMA SaveConfigKeeps ==
    ASSUME ConsoleInv, SaveConfig
    PROVE  ConsoleInv'
<1>. DEFINE x == \A s \in Slots : calls[s].kind # "save"
            c == [Request("save", "ai") EXCEPT !.text = ai.form, !.sole = x]
<1>1. ConsoleType /\ ai.form \in Nat
  BY DEF ConsoleInv, ConsoleType, AIState
<1>2. "save" \in Kinds /\ "ai" \in Pages /\ "save" \notin JobCalls
  BY DEF Kinds, Pages, JobCalls
<1>3. /\ c \in Call /\ c.kind = "save" /\ c.page = "ai" /\ c.here /\ c.tok = token
      /\ c.reply = "none" /\ c.got = {} /\ c.text = ai.form /\ c.sole = x
  <2>. DEFINE q == Request("save", "ai")
  <2>1. /\ q \in Call /\ q.kind = "save" /\ q.page = "ai" /\ q.here /\ q.tok = token
        /\ q.reply = "none" /\ q.got = {}
    BY <1>1, <1>2, RequestIs
  <2>2. x \in BOOLEAN
    OBVIOUS
  <2>3. c = [q EXCEPT !.text = ai.form, !.sole = x]
    OBVIOUS
  <2>. HIDE DEF c, q, x
  <2> QED BY <1>1, <2>1, <2>2, <2>3 DEF Call
<1>4. Click("ai", {"save"}, c) /\ ai' = ai
  BY DEF SaveConfig
<1>. HIDE DEF c
<1> QED BY <1>2, <1>3, <1>4, AIClickKeeps

LEMMA StepKeepsConsole == ConsoleInv /\ [ConsoleNext]_consoleVars => ConsoleInv'
<1>. SUFFICES ASSUME ConsoleInv, [ConsoleNext]_consoleVars PROVE ConsoleInv'
  OBVIOUS
<1>1. CASE UNCHANGED consoleVars
  BY <1>1, SameKeeps DEF consoleVars, server
<1>2. ASSUME NEW s \in Slots, Serve(s) PROVE ConsoleInv'
  BY <1>2, ServeMeKeeps, ServeLoginKeeps, ServeChangeKeeps, ServeReadKeeps, ServeJobsKeeps,
     ServeSaveKeeps DEF Serve
<1>3. ASSUME NEW s \in Slots, Deliver(s) PROVE ConsoleInv'
  BY <1>3, MeAnsweredKeeps, LoadAnsweredKeeps, LoginAnsweredKeeps, OnwardAnsweredKeeps,
     PollAnsweredKeeps, AuditAnsweredKeeps, JobsAnsweredKeeps, AIAnsweredKeeps DEF Deliver
<1>4. CASE User
  BY <1>4, VisitKeeps, FormsKeep, LogoutKeeps, RefreshJobsKeeps, JobButtonsKeep, SelectJobKeeps,
     EditKeeps, SaveConfigKeeps DEF User
<1>5. ASSUME NEW j \in Jobs, JobEnds(j) PROVE ConsoleInv'
  BY <1>5, SameKeeps DEF JobEnds, TabWaits
<1> QED BY <1>1, <1>2, <1>3, <1>4, <1>5, ServeNothingKeeps, PollKeeps, ElsewhereKeeps
        DEF ConsoleNext

\* For any requests at once, pages left, logins, jobs and texts: with no request about the
\* admin under way and nothing gone wrong since the page was opened, the admin is where the
\* account stands, whatever the pages left have yet to do (the effects of the pages;
\* login/page.tsx:20, force-change-password/page.tsx:22).
THEOREM AdminIsInPlace == ConsoleSpec => []InPlace
<1>1. ConsoleInv => InPlace
  <2>. SUFFICES ASSUME ConsoleInv, Quiet, ~slipped
                PROVE  /\ page.phase = "shown"
                       /\ page.at \notin {"login", "force"} => token \in alive /\ ~must
                       /\ page.at = "force" => token \in alive /\ must
                       /\ page.at = "login" => token \notin alive
    BY DEF InPlace
  <2>1. Mine(First) = {} /\ ~Changed
    BY DEF Quiet, Mine, Changed
  <2>2. page.phase = "shown"
    BY <2>1 DEF ConsoleInv, ConsoleType, CallsFit
  <2> QED BY <2>1, <2>2 DEF ConsoleInv, PlaceTrue, Enters, MustSet
<1> QED BY <1>1, InitConsole, StepKeepsConsole, PTL DEF ConsoleSpec

\* For the same: the monitor page polls while it is on screen and no longer, but for the
\* intervals of pages left early, and the AI page shows rows of the filter highlighted and a
\* form that is stored, where it says so (monitor/page.tsx:15-50, ai/page.tsx:29-131).
THEOREM ConsoleAgrees == ConsoleSpec => []PageAgrees
<1>1. ConsoleInv => PageAgrees
  <2>. SUFFICES ASSUME ConsoleInv PROVE PageAgrees
    OBVIOUS
  <2>1. Mine(JobCalls) = {} => Mine({"list"}) = {}
    BY DEF Mine, JobCalls
  <2>2. On("ai") /\ ai.fresh /\ Mine(JobCalls) = {} => \A r \in ai.rows : ai.filter \in {"all", r.status}
    BY <2>1 DEF ConsoleInv, RowsFit, Fits
  <2>3. ai.clean => ai.form = stored
    BY DEF ConsoleInv, FormFits
  <2> QED BY <2>2, <2>3 DEF PageAgrees, ConsoleInv, TimersFit
<1> QED BY <1>1, InitConsole, StepKeepsConsole, PTL DEF ConsoleSpec
=============================================================================
