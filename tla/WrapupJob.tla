------------------------------ MODULE WrapupJob ------------------------------
(***************************************************************************)
(* The wrap-up job of one recorded call: the AnalysisJob row and the        *)
(* wrap-up (Feedback) in Postgres, the messages in the Redis queue, and     *)
(* everybody who touches them: `_record` at the end of the call, the retry  *)
(* route, the requeue script, the RQ workers, a deletion, and the screen    *)
(* that polls.                                                              *)
(*                                                                          *)
(* A step is one transaction, one read of a transaction that others can     *)
(* interleave with, or one call to Redis.  The age of the row is whether    *)
(* JOB_TIMEOUT_S have passed since its updated_at.                          *)
(***************************************************************************)
EXTENDS Naturals, FiniteSets

CONSTANTS Requests,   \* calls of the retry route
          Scripts,    \* runs of the requeue script over this call
          Workers     \* worker processes listening on the queue

Askers == Requests \cup Scripts

ASSUME AskersAssumption == IsFiniteSet(Askers) /\ Requests \cap Scripts = {}

VARIABLES
    session,    \* "unsaved", "stored" or "deleted"
    spoken,     \* the stored call has utterances
    job,        \* the row: status, and whether it is older than JOB_TIMEOUT_S
    wrapup,     \* the Feedback row is there
    queue,      \* messages for this call in Redis
    recorder,   \* where `_record` is
    asker,      \* where each asker is, and the status it read
    work,       \* what each worker is doing
    screen,     \* what the polling screen shows
    causes      \* observation: what may have made two hands work on one wrap-up

vars == <<session, spoken, job, wrapup, queue, recorder, asker, work, screen, causes>>
stored == <<session, spoken, job, wrapup>>

-----------------------------------------------------------------------------
Open == {"queued", "running"}
Statuses == Open \cup {"done", "failed"}

\* "none": the row is not there.
Row == [status : Statuses \cup {"none"}, old : BOOLEAN]
NoJob == [status |-> "none", old |-> FALSE]
\* jobs.mark, when it writes: a new status and a new updated_at.
Marked(status) == [status |-> status, old |-> FALSE]

\* Mutant of IsLive: an open row counts however long ago it moved.
IsLiveForever(includeQueued) ==
    job.status \in Open /\ (job.status = "queued" => includeQueued)
\* Mutant of IsLive: whoever is about to queue again does not count a queued row.
IsLiveNeverQueued(includeQueued) == job.status = "running" /\ ~job.old

\* jobs.is_live
IsLive(includeQueued) ==
    /\ job.status \in Open
    /\ job.status = "queued" => includeQueued
    /\ ~job.old

\* jobs.retry_blocked: the wrap-up and the Turns first, then the newest row.
NothingToAsk == wrapup \/ ~spoken
RetryBlocked == NothingToAsk \/ IsLive(TRUE)

\* Mutant of Served: a running row reads as failed whatever its age.
ServedTooEarly == IF job.status \in {"none", "running"} THEN "failed" ELSE job.status
\* served._feedback_status: a missing row and an abandoned run read as failed.
Served ==
    IF job.status = "none" \/ (job.status = "running" /\ ~IsLive(FALSE))
    THEN "failed" ELSE job.status

Causes == {"overlap", "crossed", "backlog", "unanswered"}

Waiting == [at |-> "idle", seen |-> "none"]
AskerStates == {"idle", "loaded", "cleared", "queued", "answered"}
Asker == [at : AskerStates, seen : Statuses \cup {"none"}]

Init ==
    /\ session = "unsaved"
    /\ spoken = FALSE
    /\ job = NoJob
    /\ wrapup = FALSE
    /\ queue = 0
    /\ recorder = "recording"
    /\ asker = [a \in Askers |-> Waiting]
    /\ work = [w \in Workers |-> "idle"]
    /\ screen = "call"
    /\ causes = {}

-----------------------------------------------------------------------------
(* The end of the call: `_record` and persist_session *)

\* One transaction; it may be refused (no consent) or fail.
Persist(said) ==
    /\ recorder = "recording"
    /\ session' = "stored"
    /\ spoken' = said
    /\ job' = Marked("queued")
    /\ recorder' = "stored"
    /\ UNCHANGED <<wrapup, queue, asker, work, screen, causes>>

PersistRefused ==
    /\ recorder = "recording"
    /\ recorder' = "done"
    /\ UNCHANGED <<stored, queue, asker, work, screen, causes>>

Enqueue ==
    /\ recorder = "stored"
    /\ queue' = queue + 1
    /\ recorder' = "done"
    /\ UNCHANGED <<stored, asker, work, screen, causes>>

\* Redis is not reached, or it takes the message and the answer comes too late.
EnqueueFails(taken) ==
    /\ recorder = "stored"
    /\ queue' = IF taken THEN queue + 1 ELSE queue
    /\ causes' = IF taken THEN causes \cup {"unanswered"} ELSE causes
    /\ recorder' = "refused"
    /\ UNCHANGED <<stored, asker, work, screen>>

\* jobs.mark_failed leaves terminal states alone, as far as it has read: the row is
\* neither locked nor looked at again before it is written.
ReadForFailing ==
    /\ recorder = "refused"
    /\ recorder' = IF job.status \in Open THEN "failing" ELSE "done"
    /\ UNCHANGED <<stored, queue, asker, work, screen, causes>>

\* A row deleted meanwhile is an error, which mark_failed swallows.
MarkFailed ==
    /\ recorder = "failing"
    /\ job' = IF session = "stored" THEN Marked("failed") ELSE job
    /\ recorder' = "done"
    /\ UNCHANGED <<session, spoken, wrapup, queue, asker, work, screen, causes>>

\* The backend dies after the transaction, or mark_failed itself fails.
RecorderDies ==
    /\ recorder \in {"stored", "refused", "failing"}
    /\ recorder' = "done"
    /\ UNCHANGED <<stored, queue, asker, work, screen, causes>>

-----------------------------------------------------------------------------
(* Asking again: POST /feedback, and backend/scripts/requeue_feedback.py *)

At(a, place) == asker[a].at = place
Move(a, place) == asker' = [asker EXCEPT ![a].at = place]

\* The first reads of the transaction: the Session, its wrap-up, its Turns.
LoadSession(a) ==
    /\ At(a, "idle")
    /\ Move(a, IF session # "stored" \/ NothingToAsk THEN "answered" ELSE "loaded")
    /\ UNCHANGED <<stored, queue, recorder, work, screen, causes>>

\* The jobs are a statement of their own, after them.
LoadJobs(a) ==
    LET others == {b \in Askers \ {a} : asker[b].at \in {"cleared", "queued"}}
    IN  /\ At(a, "loaded")
        /\ IF IsLive(TRUE)
           THEN Move(a, "answered") /\ UNCHANGED causes
           ELSE /\ asker' = [asker EXCEPT ![a] = [at |-> "cleared", seen |-> job.status]]
                /\ causes' = causes \cup (IF others = {} THEN {} ELSE {"overlap"})
                                     \cup (IF wrapup THEN {"crossed"} ELSE {})
        /\ UNCHANGED <<stored, queue, recorder, work, screen>>

Submit(a) ==
    /\ At(a, "cleared")
    /\ queue' = queue + 1
    /\ Move(a, "queued")
    /\ UNCHANGED <<stored, recorder, work, screen, causes>>

\* 503, or the script's `continue`: the row is left as it is.
SubmitFails(a, taken) ==
    /\ At(a, "cleared")
    /\ queue' = IF taken THEN queue + 1 ELSE queue
    /\ causes' = IF taken THEN causes \cup {"unanswered"} ELSE causes
    /\ Move(a, "answered")
    /\ UNCHANGED <<stored, recorder, work, screen>>

\* jobs.mark(QUEUED), committed.  The route's ORM session holds the row as it read
\* it before the queue took the message and writes only what it changes; the
\* script reads the row afresh.  On a deleted Session both raise.
CommitQueued(a) ==
    /\ At(a, "queued")
    /\ IF session = "stored"
       THEN /\ job' = IF a \in Requests /\ asker[a].seen = "queued"
                      THEN Marked(job.status) ELSE Marked("queued")
            /\ screen' = IF a \in Requests /\ screen = "failed" THEN "loading" ELSE screen
       ELSE UNCHANGED <<job, screen>>
    /\ Move(a, "answered")
    /\ UNCHANGED <<session, spoken, wrapup, queue, recorder, work, causes>>

\* The process dies between the queue and the commit.
AskerDies(a) ==
    /\ At(a, "queued")
    /\ Move(a, "answered")
    /\ causes' = causes \cup {"unanswered"}
    /\ UNCHANGED <<stored, queue, recorder, work, screen>>

-----------------------------------------------------------------------------
(* The worker: worker/generator.py under RQ *)

\* Mutant of Begin: the old wrap-up is cleared away as the new run starts.
BeginClears(w) ==
    /\ work[w] = "idle" /\ queue > 0 /\ session = "stored"
    /\ queue' = queue - 1
    /\ job' = Marked("running")
    /\ wrapup' = FALSE
    /\ work' = [work EXCEPT ![w] = "asking"]
    /\ UNCHANGED <<session, spoken, recorder, asker, screen, causes>>

\* A message is taken; the first transaction marks the row running, whatever it
\* said, and the model is asked with no transaction open.
Begin(w) ==
    /\ work[w] = "idle" /\ queue > 0 /\ session = "stored"
    /\ queue' = queue - 1
    /\ job' = Marked("running")
    /\ work' = [work EXCEPT ![w] = "asking"]
    /\ UNCHANGED <<session, spoken, wrapup, recorder, asker, screen, causes>>

\* Mutant of MessageLost: the same message is taken off the queue twice.
MessageLostTwice ==
    /\ \E w \in Workers : work[w] = "idle"
    /\ queue' = queue - 1
    /\ UNCHANGED <<stored, recorder, asker, work, screen, causes>>

\* The message is gone and nothing was written: the Session does not exist, the
\* database is down, or the worker dies first.
MessageLost ==
    /\ queue > 0
    /\ \E w \in Workers : work[w] = "idle"
    /\ queue' = queue - 1
    /\ UNCHANGED <<stored, recorder, asker, work, screen, causes>>

\* Mutant of Store: the row is closed in the same step although the wrap-up was rolled back.
StoreMarksAlone(w) ==
    /\ work[w] = "asking" /\ session = "stored"
    /\ job' = Marked("done")
    /\ work' = [work EXCEPT ![w] = "idle"]
    /\ UNCHANGED <<session, spoken, wrapup, queue, recorder, asker, screen, causes>>

\* One transaction: the wrap-up replaces an earlier one, the segments are written
\* behind a savepoint, the row is closed.
Store(w) ==
    /\ work[w] = "asking" /\ session = "stored"
    /\ wrapup' = TRUE
    /\ job' = Marked("done")
    /\ work' = [work EXCEPT ![w] = "idle"]
    /\ UNCHANGED <<session, spoken, queue, recorder, asker, screen, causes>>

\* The model, or that transaction, raised; for a deleted Session nothing is written.
RunFails(w) ==
    /\ work[w] = "asking"
    /\ job' = IF session = "stored" THEN Marked("failed") ELSE job
    /\ work' = [work EXCEPT ![w] = "idle"]
    /\ UNCHANGED <<session, spoken, wrapup, queue, recorder, asker, screen, causes>>

\* Killed, or cancelled by the job timeout: no handler closes the row.
WorkerDies(w) ==
    /\ work[w] = "asking"
    /\ work' = [work EXCEPT ![w] = "idle"]
    /\ UNCHANGED <<stored, queue, recorder, asker, screen, causes>>

-----------------------------------------------------------------------------
(* Time, deletion, and the screen (frontend useSessionFeedback.ts) *)

\* JOB_TIMEOUT_S pass.  By then RQ has killed every run that was under way, since
\* each marked the row when it began; messages may still be waiting.
Age ==
    /\ session = "stored"
    /\ ~job.old
    /\ recorder = "done"
    /\ \A w \in Workers : work[w] = "idle"
    /\ job' = [job EXCEPT !.old = TRUE]
    /\ causes' = IF queue > 0 THEN causes \cup {"backlog"} ELSE causes
    /\ UNCHANGED <<session, spoken, wrapup, queue, recorder, asker, work, screen>>

\* deletion.remove: the row and the wrap-up cascade.
Delete ==
    /\ session = "stored"
    /\ session' = "deleted"
    /\ job' = NoJob
    /\ wrapup' = FALSE
    /\ UNCHANGED <<spoken, queue, recorder, asker, work, screen, causes>>

\* Mutant of OpenScreen: session.ended goes out before `_record`.
OpenScreenEarly ==
    /\ screen = "call"
    /\ screen' = "loading"
    /\ UNCHANGED <<stored, queue, recorder, asker, work, causes>>

\* session.ended is sent after `_record`.
OpenScreen ==
    /\ screen = "call"
    /\ recorder = "done"
    /\ screen' = "loading"
    /\ UNCHANGED <<stored, queue, recorder, asker, work, causes>>

\* A readable wrap-up wins over whatever the row says.
Poll ==
    /\ screen = "loading"
    /\ screen' = CASE session # "stored" -> "missing"
                   [] session = "stored" /\ wrapup -> "ready"
                   [] session = "stored" /\ ~wrapup /\ Served = "failed" -> "failed"
                   [] OTHER -> "loading"
    /\ UNCHANGED <<stored, queue, recorder, asker, work, causes>>

\* POLL_TIMEOUT_MS, or MAX_CONSECUTIVE_ERRORS in a row.
PatienceEnds ==
    /\ screen = "loading"
    /\ screen' = "failed"
    /\ UNCHANGED <<stored, queue, recorder, asker, work, causes>>

-----------------------------------------------------------------------------
Recorder ==
    \/ \E said \in BOOLEAN : Persist(said)
    \/ PersistRefused
    \/ Enqueue
    \/ \E taken \in BOOLEAN : EnqueueFails(taken)
    \/ ReadForFailing \/ MarkFailed
    \/ RecorderDies

Asking(a) ==
    \/ LoadSession(a) \/ LoadJobs(a) \/ Submit(a)
    \/ \E taken \in BOOLEAN : SubmitFails(a, taken)
    \/ CommitQueued(a) \/ AskerDies(a)

Working(w) == Begin(w) \/ Store(w) \/ RunFails(w) \/ WorkerDies(w)

Screen == OpenScreen \/ Poll \/ PatienceEnds

\* Nothing is left that could move.
Finished ==
    /\ recorder = "done" /\ session # "stored" /\ queue = 0
    /\ \A w \in Workers : work[w] = "idle"
    /\ \A a \in Askers : asker[a].at = "answered"
    /\ UNCHANGED vars

Next ==
    \/ Recorder
    \/ \E a \in Askers : Asking(a)
    \/ \E w \in Workers : Working(w)
    \/ MessageLost
    \/ Age \/ Delete
    \/ Screen
    \/ Finished

Spec == Init /\ [][Next]_vars

\* The backend runs `_record` to its end, time passes, and a run ends within the job
\* timeout; nobody has to ask, to delete, or to take a message off the queue.
FairSpec ==
    /\ Spec
    /\ WF_vars(Recorder)
    /\ WF_vars(Age)
    /\ \A w \in Workers : WF_vars(Store(w) \/ RunFails(w) \/ WorkerDies(w))

-----------------------------------------------------------------------------
(* Properties *)

\* Every variable keeps its type.
TypeOK ==
    /\ session \in {"unsaved", "stored", "deleted"}
    /\ spoken \in BOOLEAN
    /\ job \in Row
    /\ wrapup \in BOOLEAN
    /\ queue \in Nat
    /\ recorder \in {"recording", "stored", "refused", "failing", "done"}
    /\ asker \in [Askers -> Asker]
    /\ work \in [Workers -> {"idle", "asking"}]
    /\ screen \in {"call", "loading", "ready", "failed", "missing"}
    /\ causes \subseteq Causes

\* A row never says `done` without a wrap-up to read, through duplicates, crashes and
\* late writers (the transaction of generator.py that covers generation and storage).
DoneIsReadable == job.status = "done" => wrapup

\* A wrap-up one can read stands behind an error only if two hands were on it: an asker
\* whose reads it came in between (jobs.py:55), two askers at once, a message that
\* outwaited its row, or one whose answer was lost on the way (queue.py:38).
ReadableStands == wrapup /\ job.status = "failed" => causes # {}

\* A wrap-up that can be read stays readable until its call is deleted, whatever is
\* queued, run or killed again.
WrapupKept == [][wrapup /\ session' = "stored" => wrapup']_vars

\* No stored call has two runs outstanding, unless two askers read the row before either had
\* committed, Redis took a message it never acknowledged, or the queue was so far
\* behind that the row aged while its message still waited.
Outstanding == queue + Cardinality({w \in Workers : work[w] = "asking"})
NoDuplicateRun == session = "stored" /\ Outstanding > 1 => causes \ {"crossed"} # {}

\* Whatever the screen is told has failed may be asked for again: served.py and
\* retry_blocked draw the line of an abandoned run at the same age.
FailedMayBeAskedAgain ==
    session = "stored" /\ Served = "failed" /\ ~NothingToAsk => ~RetryBlocked

\* No row is stuck open (jobs.py:1): a stored call comes to have its wrap-up, or to be
\* one whose wrap-up may be asked for again.
NeverStuckOpen ==
    (session = "stored" /\ spoken) ~> (wrapup \/ ~RetryBlocked \/ session = "deleted")

\* A screen that says the call was never stored is right (session_ws.py:102): nobody
\* polls before the write has been decided, so a 404 is never merely early.
MissingWasNotStored == screen = "missing" => session # "stored"

\* jobs.py:16: a late writer must not turn a wrap-up the user can already read into an
\* error.  Of the worker's own writer: no run that ends does.
RunsKeepReadable ==
    [][\A w \in Workers :
          /\ work[w] = "asking" /\ work'[w] = "idle"
          /\ wrapup /\ job.status # "failed"
          => job'.status # "failed"]_vars

=============================================================================
