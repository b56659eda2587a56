--------------------------- MODULE WrapupJobProofs ---------------------------
(***************************************************************************)
(* Proofs about WrapupJob, for any finite number of retries, script runs    *)
(* and workers.                                                             *)
(***************************************************************************)
EXTENDS WrapupJob, FiniteSetTheorems, TLAPS

-----------------------------------------------------------------------------
(* The inductive invariant *)

Asks(w) == work[w] = "asking"
Claims(a) == asker[a].at \in {"cleared", "queued"}
Busy == queue > 0 \/ \E w \in Workers : Asks(w)
Clean == session = "stored" /\ causes \subseteq {"crossed"}

\* Before the row exists nobody has a hold on the call.
NothingYet ==
    /\ recorder = "recording" <=> session = "unsaved" /\ recorder # "done"
    /\ session = "unsaved" =>
         /\ job = NoJob /\ ~wrapup /\ queue = 0
         /\ \A w \in Workers : ~Asks(w)
         /\ \A a \in Askers : asker[a].at \in {"idle", "answered"} /\ asker[a].seen = "none"

\* One message or one run, never both.
SoleRun ==
    /\ queue \in {0, 1}
    /\ \A v, w \in Workers : Asks(v) /\ Asks(w) => v = w
    /\ queue = 1 => \A w \in Workers : ~Asks(w)

SoleClaim == \A a, b \in Askers : Claims(a) /\ Claims(b) => a = b

\* Until `_record` is through, the row stands as it was written.
RecorderFirst ==
    recorder # "done" => ~Busy /\ job = Marked("queued") /\ \A a \in Askers : ~Claims(a)

\* Who was cleared to ask again finds nothing under way, and the row as it read it.
ClearedIsIdle ==
    \A a \in Askers :
       asker[a].at = "cleared" => ~Busy /\ ~IsLive(TRUE) /\ asker[a].seen = job.status

\* What an uncommitted asker has queued is still waiting, or marked running.
QueuedIsOpen ==
    \A a \in Askers :
       asker[a].at = "queued" /\ Busy =>
          \/ queue = 1 /\ job.status = asker[a].seen
          \/ job.status = "running"

\* Otherwise whatever is under way shows in the row.
BusyIsLive == Busy /\ (\A a \in Askers : ~Claims(a)) => IsLive(TRUE)

InTurn ==
    Clean => /\ SoleRun /\ SoleClaim /\ RecorderFirst
             /\ ClearedIsIdle /\ QueuedIsOpen /\ BusyIsLive

\* As long as nothing crossed, nobody works on a call that has its wrap-up.
Untouched ==
    /\ Busy => ~wrapup
    /\ recorder # "done" => ~wrapup
    /\ \A a \in Askers : asker[a].at = "cleared" => ~wrapup
    /\ wrapup => job.status # "failed"
OneHand == session = "stored" /\ causes = {} => Untouched

\* What is stored, and what the screen may already know of it.
StoredWhole ==
    /\ session = "stored" => job.status \in Statuses
    /\ session = "deleted" => ~wrapup
    /\ DoneIsReadable
    /\ screen # "call" => recorder = "done"
    /\ MissingWasNotStored

IInv == TypeOK /\ NothingYet /\ StoredWhole /\ InTurn /\ OneHand

-----------------------------------------------------------------------------
(* Types *)

\* What a written row holds (jobs.mark).
LEMMA RowTypes ==
    /\ Statuses = {"queued", "running", "done", "failed"}
    /\ NoJob \in Row /\ NoJob.status = "none"
    /\ \A x \in Statuses \cup {"none"} :
          Marked(x) \in Row /\ Marked(x).status = x /\ ~Marked(x).old
    /\ \A j \in Row : j.status \in Statuses \cup {"none"}
<1>1. Statuses = {"queued", "running", "done", "failed"}
  BY DEF Statuses, Open
<1>2. NoJob \in Row /\ NoJob.status = "none"
  BY DEF NoJob, Row
<1>3. \A x \in Statuses \cup {"none"} :
         Marked(x) \in Row /\ Marked(x).status = x /\ ~Marked(x).old
  BY DEF Marked, Row
<1>4. \A j \in Row : j.status \in Statuses \cup {"none"}
  BY DEF Row
<1> QED
  BY <1>1, <1>2, <1>3, <1>4

\* A row that has aged.
LEMMA AgedRow ==
    ASSUME NEW j \in Row
    PROVE  /\ [j EXCEPT !.old = TRUE] \in Row
           /\ [j EXCEPT !.old = TRUE].status = j.status /\ [j EXCEPT !.old = TRUE].old
<1>1. [j EXCEPT !.old = TRUE] \in Row
  BY Zenon DEF Row
<1>2. [j EXCEPT !.old = TRUE].status = j.status /\ [j EXCEPT !.old = TRUE].old
  BY DEF Row
<1> QED
  BY <1>1, <1>2

\* What moving one asker does to them all.
LEMMA Moves ==
    ASSUME asker \in [Askers -> Asker], NEW a \in Askers, NEW place \in AskerStates,
           Move(a, place)
    PROVE  /\ asker' \in [Askers -> Asker]
           /\ asker'[a].at = place /\ asker'[a].seen = asker[a].seen
           /\ \A b \in Askers \ {a} : asker'[b] = asker[b]
<1> USE DEF Move, Asker
<1>1. asker' \in [Askers -> Asker]
  OBVIOUS
<1>2. asker'[a].at = place
  OBVIOUS
<1>3. asker'[a].seen = asker[a].seen
  OBVIOUS
<1>4. \A b \in Askers \ {a} : asker'[b] = asker[b]
  OBVIOUS
<1> QED
  BY <1>1, <1>2, <1>3, <1>4

\* What clearing one asker does to them all.
LEMMA Clears ==
    ASSUME asker \in [Askers -> Asker], NEW a \in Askers, NEW x \in Statuses \cup {"none"},
           asker' = [asker EXCEPT ![a] = [at |-> "cleared", seen |-> x]]
    PROVE  /\ asker' \in [Askers -> Asker]
           /\ asker'[a].at = "cleared" /\ asker'[a].seen = x
           /\ \A b \in Askers \ {a} : asker'[b] = asker[b]
<1>1. [at |-> "cleared", seen |-> x] \in Asker
  BY DEF Asker, AskerStates
<1>2. asker'[a] = [at |-> "cleared", seen |-> x]
  BY DEF Asker
<1> QED
  BY <1>1, <1>2

\* What one worker's step does to them all.
LEMMA WorkTypes ==
    ASSUME work \in [Workers -> {"idle", "asking"}], NEW w \in Workers,
           NEW x \in {"idle", "asking"}
    PROVE  LET turned == [work EXCEPT ![w] = x]
           IN  /\ turned \in [Workers -> {"idle", "asking"}]
               /\ turned[w] = x
               /\ \A v \in Workers \ {w} : turned[v] = work[v]
OBVIOUS

-----------------------------------------------------------------------------
(* The initial state and the steps *)

\* The invariant holds before the call is recorded.
LEMMA InitIInv == Init => IInv
<1> SUFFICES ASSUME Init PROVE IInv
  OBVIOUS
<1>1. Waiting \in Asker /\ Waiting.at = "idle" /\ Waiting.seen = "none"
  BY SMT DEF Waiting, Asker, AskerStates
<1>2. TypeOK
  <2>1. asker \in [Askers -> Asker] /\ work \in [Workers -> {"idle", "asking"}]
    BY <1>1 DEF Init
  <2>2. job \in Row
    BY RowTypes DEF Init
  <2> QED
    BY <2>1, <2>2 DEF Init, TypeOK
<1>3. NothingYet
  BY <1>1, SMT DEF Init, NothingYet, Asks
<1> QED
  BY <1>2, <1>3, RowTypes, SMT
     DEF Init, IInv, StoredWhole, DoneIsReadable, MissingWasNotStored, InTurn, Clean, OneHand

\* Every step keeps the types.
LEMMA TypeStep ==
    ASSUME TypeOK, [Next]_vars
    PROVE  TypeOK'
<1> USE RowTypes DEF TypeOK, stored
<1>1. CASE Recorder
  <2>1. CASE \E said \in BOOLEAN : Persist(said)
    BY <2>1 DEF Persist
  <2>2. CASE PersistRefused \/ Enqueue \/ RecorderDies
    BY <2>2 DEF PersistRefused, Enqueue, RecorderDies
  <2>3. CASE \E taken \in BOOLEAN : EnqueueFails(taken)
    BY <2>3 DEF EnqueueFails, Causes
  <2>4. CASE ReadForFailing \/ MarkFailed
    BY <2>4 DEF ReadForFailing, MarkFailed
  <2> QED
    BY <1>1, <2>1, <2>2, <2>3, <2>4 DEF Recorder
<1>2. ASSUME NEW a \in Askers, Asking(a) PROVE TypeOK'
  <2> USE Moves DEF At, AskerStates
  <2>1. CASE LoadSession(a)
    BY <2>1 DEF LoadSession
  <2>2. CASE LoadJobs(a)
    <3>1. asker' \in [Askers -> Asker]
      <4>1. CASE IsLive(TRUE)
        BY <2>2, <4>1 DEF LoadJobs
      <4>2. CASE ~IsLive(TRUE)
        BY <2>2, <4>2, Clears DEF LoadJobs
      <4> QED
        BY <4>1, <4>2
    <3>2. causes' \subseteq Causes
      BY <2>2 DEF LoadJobs, Causes
    <3> QED
      BY <2>2, <3>1, <3>2 DEF LoadJobs
  <2>3. CASE Submit(a)
    BY <2>3 DEF Submit
  <2>4. CASE \E taken \in BOOLEAN : SubmitFails(a, taken)
    BY <2>4 DEF SubmitFails, Causes
  <2>5. CASE CommitQueued(a)
    <3>1. asker' \in [Askers -> Asker]
      BY <2>5 DEF CommitQueued
    <3>2. job' \in Row
      <4>1. CASE session # "stored"
        BY <2>5, <4>1 DEF CommitQueued
      <4>2. CASE session = "stored" /\ ~(a \in Requests /\ asker[a].seen = "queued")
        BY <2>5, <4>2 DEF CommitQueued
      <4>3. CASE session = "stored" /\ a \in Requests /\ asker[a].seen = "queued"
        <5>1. job' = Marked(job.status)
          BY <2>5, <4>3 DEF CommitQueued
        <5> QED
          BY <5>1
      <4> QED
        BY <4>1, <4>2, <4>3
    <3>3. screen' \in {"call", "loading", "ready", "failed", "missing"}
      BY <2>5 DEF CommitQueued
    <3> QED
      BY <2>5, <3>1, <3>2, <3>3 DEF CommitQueued
  <2>6. CASE AskerDies(a)
    BY <2>6 DEF AskerDies, Causes
  <2> QED
    BY <1>2, <2>1, <2>2, <2>3, <2>4, <2>5, <2>6 DEF Asking
<1>3. ASSUME NEW w \in Workers, Working(w) PROVE TypeOK'
  <2> USE WorkTypes
  <2>1. CASE Begin(w)
    BY <2>1 DEF Begin
  <2>2. CASE Store(w)
    BY <2>2 DEF Store
  <2>3. CASE RunFails(w)
    BY <2>3 DEF RunFails
  <2>4. CASE WorkerDies(w)
    BY <2>4 DEF WorkerDies
  <2> QED
    BY <1>3, <2>1, <2>2, <2>3, <2>4 DEF Working
<1>4. CASE MessageLost \/ Delete
  <2>1. CASE MessageLost
    <3>1. queue' \in Nat
      BY <2>1 DEF MessageLost
    <3> QED
      BY <2>1, <3>1 DEF MessageLost
  <2>2. CASE Delete
    BY <2>2 DEF Delete
  <2> QED
    BY <1>4, <2>1, <2>2
<1>7. CASE Age
  BY <1>7, AgedRow DEF Age, Causes
<1>5. CASE Screen
  BY <1>5 DEF Screen, OpenScreen, Poll, PatienceEnds
<1>6. CASE Finished \/ UNCHANGED vars
  BY <1>6 DEF Finished, vars
<1> QED
  BY <1>1, <1>2, <1>3, <1>4, <1>5, <1>6, <1>7 DEF Next

\* Until the row exists nobody has a hold on the call.
LEMMA NothingYetStep ==
    ASSUME TypeOK, NothingYet, [Next]_vars
    PROVE  NothingYet'
<1> USE RowTypes DEF TypeOK, NothingYet, stored, Asks
<1>1. CASE Recorder
  BY <1>1 DEF Recorder, Persist, PersistRefused, Enqueue, EnqueueFails, ReadForFailing, MarkFailed, RecorderDies
<1>2. ASSUME NEW a \in Askers, Asking(a) PROVE NothingYet'
  <2>1. session' = session /\ recorder' = recorder /\ work' = work
    BY <1>2 DEF Asking, LoadSession, LoadJobs, Submit, SubmitFails, CommitQueued, AskerDies
  <2>2. CASE session = "unsaved"
    <3>1. LoadSession(a)
      BY <1>2, <2>2 DEF Asking, LoadJobs, Submit, SubmitFails, CommitQueued, AskerDies, At
    <3>2. Move(a, "answered") /\ UNCHANGED <<job, wrapup, queue>>
      BY <2>2, <3>1 DEF LoadSession
    <3> QED
      BY <2>1, <2>2, <3>2, Moves DEF AskerStates
  <2>3. CASE session # "unsaved"
    BY <2>1, <2>3
  <2> QED
    BY <2>2, <2>3
<1>3. ASSUME NEW w \in Workers, Working(w) PROVE NothingYet'
  BY <1>3 DEF Working, Begin, Store, RunFails, WorkerDies
<1>4. CASE MessageLost \/ Age \/ Delete
  BY <1>4 DEF MessageLost, Age, Delete
<1>5. CASE Screen
  BY <1>5 DEF Screen, OpenScreen, Poll, PatienceEnds
<1>6. CASE Finished \/ UNCHANGED vars
  BY <1>6 DEF Finished, vars
<1> QED
  BY <1>1, <1>2, <1>3, <1>4, <1>5, <1>6 DEF Next

\* A `done` row has its wrap-up, and the screen is only told when the write is decided.
LEMMA StoredWholeStep ==
    ASSUME TypeOK, NothingYet, StoredWhole, [Next]_vars
    PROVE  StoredWhole'
<1> USE RowTypes
    DEF TypeOK, NothingYet, StoredWhole, DoneIsReadable, MissingWasNotStored, stored
<1>1. CASE Recorder
  <2>1. CASE \E said \in BOOLEAN : Persist(said)
    BY <2>1 DEF Persist
  <2>2. CASE PersistRefused \/ Enqueue \/ RecorderDies
    BY <2>2 DEF PersistRefused, Enqueue, RecorderDies
  <2>3. CASE \E taken \in BOOLEAN : EnqueueFails(taken)
    BY <2>3 DEF EnqueueFails
  <2>4. CASE ReadForFailing \/ MarkFailed
    BY <2>4 DEF ReadForFailing, MarkFailed, Open
  <2> QED
    BY <1>1, <2>1, <2>2, <2>3, <2>4 DEF Recorder
<1>2. ASSUME NEW a \in Askers, Asking(a) PROVE StoredWhole'
  <2>1. CASE UNCHANGED <<stored, recorder, screen>>
    BY <2>1
  <2>2. CASE LoadSession(a) \/ LoadJobs(a) \/ Submit(a) \/ AskerDies(a)
             \/ \E taken \in BOOLEAN : SubmitFails(a, taken)
    <3>1. UNCHANGED <<stored, recorder, screen>>
      BY <2>2 DEF LoadSession, LoadJobs, Submit, AskerDies, SubmitFails
    <3> QED
      BY <2>1, <3>1
  <2>3. CASE CommitQueued(a)
    <3>1. CASE session # "stored"
      BY <2>3, <3>1 DEF CommitQueued
    <3>2. CASE session = "stored"
      <4>1. job' = Marked(job.status) \/ job' = Marked("queued")
        BY <2>3, <3>2 DEF CommitQueued
      <4>2. screen' # "missing" /\ (screen' # "call" => screen # "call")
        BY <2>3, <3>2 DEF CommitQueued
      <4> QED
        BY <2>3, <3>2, <4>1, <4>2 DEF CommitQueued
    <3> QED
      BY <3>1, <3>2
  <2> QED
    BY <1>2, <2>1, <2>2, <2>3 DEF Asking
<1>3. ASSUME NEW w \in Workers, Working(w) PROVE StoredWhole'
  BY <1>3 DEF Working, Begin, Store, RunFails, WorkerDies
<1>4. CASE MessageLost \/ Delete
  BY <1>4 DEF MessageLost, Delete
<1>5. CASE Age
  BY <1>5, AgedRow DEF Age
<1>6. CASE Screen
  BY <1>6 DEF Screen, OpenScreen, Poll, PatienceEnds
<1>7. CASE Finished \/ UNCHANGED vars
  BY <1>7 DEF Finished, vars
<1> QED
  BY <1>1, <1>2, <1>3, <1>4, <1>5, <1>6, <1>7 DEF Next

\* Runs and claims take turns: the heart of NoDuplicateRun.
LEMMA InTurnStep ==
    ASSUME TypeOK, NothingYet, StoredWhole, InTurn, [Next]_vars
    PROVE  InTurn'
<1> DEFINE Turns == SoleRun /\ SoleClaim /\ RecorderFirst
                    /\ ClearedIsIdle /\ QueuedIsOpen /\ BusyIsLive
<1> SUFFICES ASSUME Clean' PROVE Turns'
  BY DEF InTurn
<1> USE RowTypes, Moves, Clears, WorkTypes
    DEF TypeOK, stored, Clean, SoleRun, SoleClaim, RecorderFirst, ClearedIsIdle,
        QueuedIsOpen, BusyIsLive, Claims, Busy, Asks, IsLive, Open, AskerStates
<1>1. ASSUME NEW said \in BOOLEAN, Persist(said) PROVE Turns'
  BY <1>1 DEF Persist, NothingYet
<1>2. CASE PersistRefused
  BY <1>2 DEF PersistRefused, NothingYet
<1>3. ASSUME Clean, Turns PROVE Turns'
  <2>1. CASE Enqueue
    BY <1>3, <2>1 DEF Enqueue
  <2>2. CASE \E taken \in BOOLEAN : EnqueueFails(taken)
    BY <1>3, <2>2 DEF EnqueueFails
  <2>3. CASE ReadForFailing \/ MarkFailed
    BY <1>3, <2>3 DEF ReadForFailing, MarkFailed
  <2>4. CASE RecorderDies
    BY <1>3, <2>4 DEF RecorderDies
  <2>5. ASSUME NEW a \in Askers, LoadSession(a) PROVE Turns'
    BY <1>3, <2>5 DEF LoadSession, At
  <2>6. ASSUME NEW a \in Askers, LoadJobs(a) PROVE Turns'
    BY <1>3, <2>6 DEF LoadJobs, At
  <2>7. ASSUME NEW a \in Askers, Submit(a) PROVE Turns'
    BY <1>3, <2>7 DEF Submit, At
  <2>8. ASSUME NEW a \in Askers, NEW taken \in BOOLEAN, SubmitFails(a, taken) PROVE Turns'
    <3>1. ~taken /\ Move(a, "answered") /\ asker[a].at = "cleared"
      BY <2>8 DEF SubmitFails, At
    <3>2. UNCHANGED <<session, job, queue, recorder, work, causes>>
      BY <2>8, <3>1 DEF SubmitFails
    <3>3. \A b \in Askers : Claims(b)' => Claims(b) /\ b # a /\ asker'[b] = asker[b]
      BY <3>1
    <3>4. ~Busy /\ ~Busy'
      BY <1>3, <3>1, <3>2
    <3>5. (SoleRun /\ SoleClaim /\ RecorderFirst)'
      BY <1>3, <3>2, <3>3, <3>4
    <3> QED
      BY <1>3, <3>1, <3>2, <3>3, <3>4, <3>5
  <2>9. ASSUME NEW a \in Askers, CommitQueued(a) PROVE Turns'
    BY <1>3, <2>9 DEF CommitQueued, At
  <2>11. ASSUME NEW w \in Workers, Begin(w) PROVE Turns'
    BY <1>3, <2>11 DEF Begin
  <2>12. ASSUME NEW w \in Workers, Store(w) \/ RunFails(w) \/ WorkerDies(w) PROVE Turns'
    BY <1>3, <2>12 DEF Store, RunFails, WorkerDies
  <2>13. CASE MessageLost
    BY <1>3, <2>13 DEF MessageLost
  <2>14. CASE Age
    <3>1. job.status = job'.status /\ job'.old
      BY <2>14, AgedRow DEF Age
    <3>2. queue = 0 /\ ~Busy /\ recorder = "done"
      BY <2>14 DEF Age
    <3>3. UNCHANGED <<session, queue, recorder, work, asker>>
      BY <2>14 DEF Age
    <3> QED
      BY <1>3, <3>1, <3>2, <3>3
  <2>15. CASE Screen \/ Finished \/ UNCHANGED vars
    BY <1>3, <2>15 DEF Screen, OpenScreen, Poll, PatienceEnds, Finished, vars
  <2>16. ASSUME NEW a \in Askers, AskerDies(a) PROVE FALSE
    BY <2>16 DEF AskerDies
  <2>17. CASE Delete
    BY <2>17 DEF Delete
  <2> QED
    BY <2>1, <2>2, <2>3, <2>4, <2>5, <2>6, <2>7, <2>8, <2>9, <2>11, <2>12, <2>13, <2>14,
       <2>15, <2>16, <2>17, <1>1, <1>2 DEF Next, Recorder, Asking, Working
<1>4. Clean \/ (\E said \in BOOLEAN : Persist(said)) \/ PersistRefused
  <2>1. CASE session = "stored"
    <3>1. causes \subseteq causes'
      BY DEF Next, Recorder, Asking, Working, Screen, PersistRefused, Persist, Enqueue,
         EnqueueFails, ReadForFailing, MarkFailed, RecorderDies, LoadSession, LoadJobs, Submit, SubmitFails,
         CommitQueued, AskerDies, Begin, MessageLost, Store, RunFails, WorkerDies, Age,
         Delete, OpenScreen, Poll, PatienceEnds, Finished, vars
    <3> QED
      BY <2>1, <3>1
  <2>2. CASE session # "stored"
    BY <2>2 DEF Next, Recorder, Asking, Working, Screen, PersistRefused, Persist, Enqueue,
         EnqueueFails, ReadForFailing, MarkFailed, RecorderDies, LoadSession, LoadJobs, Submit, SubmitFails,
         CommitQueued, AskerDies, Begin, MessageLost, Store, RunFails, WorkerDies, Age,
         Delete, OpenScreen, Poll, PatienceEnds, Finished, vars
  <2> QED
    BY <2>1, <2>2
<1> QED
  BY <1>1, <1>2, <1>3, <1>4 DEF InTurn

\* Where nothing crossed, whoever has a hold on the call finds no wrap-up there yet.
LEMMA OneHandStep ==
    ASSUME TypeOK, NothingYet, StoredWhole, InTurn, OneHand, [Next]_vars
    PROVE  OneHand'
<1> SUFFICES ASSUME session' = "stored", causes' = {} PROVE Untouched'
  BY DEF OneHand
<1> USE RowTypes, Moves, Clears, WorkTypes
    DEF TypeOK, stored, Busy, Asks, AskerStates, Untouched
<1>1. ASSUME NEW said \in BOOLEAN, Persist(said) PROVE Untouched'
  BY <1>1 DEF Persist, NothingYet
<1>2. CASE PersistRefused
  BY <1>2 DEF PersistRefused, NothingYet
<1>3. ASSUME session = "stored", causes = {} PROVE Untouched'
  <2> DEFINE InOrder == SoleRun /\ RecorderFirst /\ ClearedIsIdle
  <2>0. Untouched /\ InOrder
    BY <1>3 DEF OneHand, InTurn, Clean
  <2> USE <1>3, <2>0
  <2>1. CASE Enqueue
    BY <2>1 DEF Enqueue
  <2>2. CASE \E taken \in BOOLEAN : EnqueueFails(taken)
    BY <2>2 DEF EnqueueFails
  <2>3. CASE ReadForFailing \/ MarkFailed \/ RecorderDies
    BY <2>3 DEF ReadForFailing, MarkFailed, RecorderDies
  <2>4. ASSUME NEW a \in Askers, LoadSession(a) PROVE Untouched'
    BY <2>4 DEF LoadSession, At
  <2>5. ASSUME NEW a \in Askers, LoadJobs(a) PROVE Untouched'
    <3>1. CASE IsLive(TRUE)
      BY <2>5, <3>1 DEF LoadJobs
    <3>2. CASE ~IsLive(TRUE)
      <4>1. ~wrapup /\ UNCHANGED <<stored, queue, recorder, work>>
        BY <2>5, <3>2 DEF LoadJobs
      <4> QED
        BY <4>1
    <3> QED
      BY <3>1, <3>2
  <2>6. ASSUME NEW a \in Askers, Submit(a) PROVE Untouched'
    BY <2>6 DEF Submit, At
  <2>7. ASSUME NEW a \in Askers, NEW taken \in BOOLEAN, SubmitFails(a, taken) PROVE Untouched'
    <3>1. Move(a, "answered") /\ UNCHANGED <<stored, queue, recorder, work>>
      BY <2>7 DEF SubmitFails
    <3> QED
      BY <3>1
  <2>8. ASSUME NEW a \in Askers, CommitQueued(a) PROVE Untouched'
    <3>1. Move(a, "answered") /\ UNCHANGED <<session, wrapup, queue, recorder, work>>
      BY <2>8 DEF CommitQueued
    <3>2. job' = Marked(job.status) \/ job' = Marked("queued")
      BY <2>8 DEF CommitQueued
    <3>3. job'.status \in {job.status, "queued"}
      BY <3>2
    <3> QED
      BY <3>1, <3>3
  <2>9. ASSUME NEW w \in Workers, Begin(w) PROVE Untouched'
    BY <2>9 DEF Begin
  <2>10. ASSUME NEW w \in Workers, Store(w) PROVE Untouched'
    <3>1. Asks(w)
      BY <2>10 DEF Store
    <3>2. queue = 0 /\ (\A v \in Workers : Asks(v) => v = w)
      BY <3>1 DEF SoleRun
    <3>3. recorder = "done" /\ \A a \in Askers : asker[a].at # "cleared"
      BY <3>1 DEF RecorderFirst, ClearedIsIdle
    <3> QED
      BY <2>10, <3>2, <3>3 DEF Store
  <2>11. ASSUME NEW w \in Workers, RunFails(w) \/ WorkerDies(w) PROVE Untouched'
    BY <2>11 DEF RunFails, WorkerDies
  <2>12. CASE MessageLost
    BY <2>12 DEF MessageLost
  <2>13. CASE Age
    BY <2>13, AgedRow DEF Age
  <2>14. CASE Screen \/ Finished \/ UNCHANGED vars
    BY <2>14 DEF Screen, OpenScreen, Poll, PatienceEnds, Finished, vars
  <2>15. ASSUME NEW a \in Askers, AskerDies(a) PROVE FALSE
    BY <2>15 DEF AskerDies
  <2>16. CASE Delete
    BY <2>16 DEF Delete
  <2> QED
    BY <2>1, <2>2, <2>3, <2>4, <2>5, <2>6, <2>7, <2>8, <2>9, <2>10, <2>11, <2>12, <2>13,
       <2>14, <2>15, <2>16, <1>1, <1>2 DEF Next, Recorder, Asking, Working
<1>4. (session = "stored" /\ causes = {}) \/ (\E said \in BOOLEAN : Persist(said))
        \/ PersistRefused
  <2>1. causes \subseteq causes'
    BY DEF Next, Recorder, Asking, Working, Screen, PersistRefused, Persist, Enqueue,
       EnqueueFails, ReadForFailing, MarkFailed, RecorderDies, LoadSession, LoadJobs, Submit,
       SubmitFails, CommitQueued, AskerDies, Begin, MessageLost, Store, RunFails, WorkerDies,
       Age, Delete, OpenScreen, Poll, PatienceEnds, Finished, vars
  <2>2. CASE session # "stored"
    BY <2>2 DEF Next, Recorder, Asking, Working, Screen, PersistRefused, Persist, Enqueue,
       EnqueueFails, ReadForFailing, MarkFailed, RecorderDies, LoadSession, LoadJobs, Submit,
       SubmitFails, CommitQueued, AskerDies, Begin, MessageLost, Store, RunFails, WorkerDies,
       Age, Delete, OpenScreen, Poll, PatienceEnds, Finished, vars
  <2> QED
    BY <2>1, <2>2
<1> QED
  BY <1>1, <1>2, <1>3, <1>4

\* Every step keeps the invariant.
LEMMA NextIInv == IInv /\ [Next]_vars => IInv'
BY TypeStep, NothingYetStep, StoredWholeStep, InTurnStep, OneHandStep DEF IInv

-----------------------------------------------------------------------------
(* Theorems *)

\* The inductive invariant holds throughout, for any sets of askers and workers.
THEOREM Invariance == Spec => []IInv
BY InitIInv, NextIInv, PTL DEF Spec

\* Every variable keeps its type.
THEOREM TypeCorrect == Spec => []TypeOK
<1>1. IInv => TypeOK
  BY DEF IInv
<1> QED
  BY Invariance, <1>1, PTL

\* A row never says `done` without a wrap-up to read (generator.py's last transaction).
THEOREM DoneHasAWrapup == Spec => []DoneIsReadable
<1>1. IInv => DoneIsReadable
  BY DEF IInv, StoredWhole
<1> QED
  BY Invariance, <1>1, PTL

\* A 404 on the wrap-up means the write failed (session_ws.py:102).
THEOREM MissingMeansNotStored == Spec => []MissingWasNotStored
<1>1. IInv => MissingWasNotStored
  BY DEF IInv, StoredWhole
<1> QED
  BY Invariance, <1>1, PTL

\* A readable wrap-up stands behind an error only where two hands were on it: without one of
\* the four causes neither `mark` nor the unlocked `mark_failed` of jobs.py writes over it.
THEOREM ReadableStandsUnlessCrossed == Spec => []ReadableStands
<1>1. IInv => ReadableStands
  <2> SUFFICES ASSUME IInv, wrapup, causes = {} PROVE job.status # "failed"
    BY DEF ReadableStands
  <2>1. session = "stored"
    BY DEF IInv, TypeOK, NothingYet, StoredWhole
  <2> QED
    BY <2>1 DEF IInv, OneHand, Untouched
<1> QED
  BY Invariance, <1>1, PTL

\* Counting: one message or one run.
LEMMA SoleRunCounts == ASSUME SoleRun PROVE Outstanding \in {0, 1}
<1> DEFINE running == {w \in Workers : work[w] = "asking"}
<1>1. CASE running = {}
  BY <1>1, FS_EmptySet DEF SoleRun, Outstanding
<1>2. CASE running # {}
  <2>1. PICK w \in Workers : work[w] = "asking"
    BY <1>2
  <2>2. running = {w}
    BY <2>1 DEF SoleRun, Asks
  <2>3. Cardinality(running) = 1
    BY <2>2, FS_Singleton
  <2>4. queue = 0
    BY <2>1 DEF SoleRun, Asks
  <2> QED
    BY <2>3, <2>4 DEF Outstanding
<1> QED
  BY <1>1, <1>2

\* No stored call has two runs outstanding without one of the three causes
\* (jobs.retry_blocked and is_live).
THEOREM RunsTakeTurns == Spec => []NoDuplicateRun
<1>1. IInv => NoDuplicateRun
  <2> SUFFICES ASSUME IInv, session = "stored", causes \subseteq {"crossed"} PROVE ~(Outstanding > 1)
    BY DEF NoDuplicateRun
  <2>1. SoleRun
    BY DEF IInv, InTurn, Clean
  <2> QED
    BY <2>1, SoleRunCounts
<1> QED
  BY Invariance, <1>1, PTL

\* A wrap-up stays readable until its call is deleted (generator.py `_store`).
THEOREM WrapupsAreKept == Spec => WrapupKept
<1>1. TypeOK /\ [Next]_vars => [wrapup /\ session' = "stored" => wrapup']_vars
  BY DEF TypeOK, stored, Next, Recorder, Asking, Working, Screen, PersistRefused, Persist,
     Enqueue, EnqueueFails, ReadForFailing, MarkFailed, RecorderDies, LoadSession, LoadJobs, Submit,
     SubmitFails, CommitQueued, AskerDies, Begin, MessageLost, Store, RunFails, WorkerDies,
     Age, Delete, OpenScreen, Poll, PatienceEnds, Finished, vars
<1> QED
  BY TypeCorrect, <1>1, PTL DEF Spec, WrapupKept

\* What the screen is told has failed may be asked for again: the age that turns a
\* running row into a failure (served._feedback_status) no longer blocks it (jobs.retry_blocked).
THEOREM FailedIsNotBlocked == Spec => []FailedMayBeAskedAgain
<1>1. TypeOK => FailedMayBeAskedAgain
  <2> SUFFICES ASSUME TypeOK, Served = "failed", ~NothingToAsk
               PROVE  ~IsLive(TRUE)
    BY DEF FailedMayBeAskedAgain, RetryBlocked
  <2>1. job.status = "failed" \/ job.status = "none" \/ (job.status = "running" /\ ~IsLive(FALSE))
    BY DEF Served, TypeOK, Row, Statuses, Open
  <2>2. job.status # "queued"
    BY <2>1
  <2>3. QED
    BY <2>1, <2>2 DEF IsLive, Open
<1>2. QED
  BY TypeCorrect, <1>1, PTL

=============================================================================
