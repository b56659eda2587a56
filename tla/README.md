# DIREKT call trainer: specifications, model checks and proofs

The program trains phone calls. A user speaks with a simulated customer (the
*Persona*) over a WebSocket; the backend transcribes, asks a language model for a
reply, speaks it, and lets the user talk over it. When the call ends, its transcript
is stored together with measurements of how the user spoke, and a worker writes a
*wrap-up* (feedback) in the background that the call screen polls for. Around the calls
there is a library of Scenarios, shared within a company, with suggestions drawn from
what a user wants to practise; a stored call can be turned into a follow-up call or into
its reverse. All of it depends on the user's consent and can be deleted.

The modules here are translated from the source. Names follow the code: `orch.reopen`
is `_reopen_turn`, `CommitHeard` is `_commit_heard`, `IsLive` is `jobs.is_live`.
`PROJECT.json` maps every definition to the lines it stands for.

## 1. Inventory

| Part | State it keeps | Operations | Talks to | What is hard |
|---|---|---|---|---|
| Live call: `session/orchestrator.py`, `api/session_ws.py` | Turns, the Turn left open, the revisable reply, a stashed position, `ended`; the running generator's progress | opening, silence prompt, user Turn, retries, regeneration, fixed closing line, barge-in (four trimming paths), hang-up, time limit | STT, LLM and TTS by `await`; the client by frames; `History`, `CallNotes`, `persist_session` | an interrupt can win at any `await`; a generator can be left suspended |
| What was heard: `session/heard.py` | checkpoints of the spoken reply | cut at a played position | orchestrator | rounding, the pending chunk |
| Message history: `session/history.py` | the messages the model sees | add, extend, revise, drop | orchestrator | must follow the Turns through every trim |
| Reply guards: `reply_checks.py`, `repetition.py`, `nudges.py` | what was said so far | filter, judge an ending, choose an instruction | orchestrator | four filters in an order, first attempt and second, what is exempt |
| Silence prompts: `session/pickup.py` | prompts said | next line, delay | receive loop | timer against user |
| Call notes: `session/call_notes.py` | text, base, task | refresh, discard, close | LLM, in the background | a refresh cancelled, failed or late |
| Timeline and figures: `turn.py`, `measuring.py`, `shared/feedback/*` | offsets and windows per Turn, facts, metrics | note audio, trim, attach, shift, fold, measure, store, read back, split into segments | orchestrator, persistence, the worker | the server never learns when playback ended |
| Persisting: `session/persistence.py`, `consent.py` | Session, Turns, job row | one transaction under the subject's lock | Postgres | a withdrawal in between |
| Wrap-up job: `shared/feedback/jobs.py`, `queue.py`, `worker/generator.py`, `api/sessions.py`, `scripts/requeue_feedback.py`, `api/served.py` | the `AnalysisJob` row, the Feedback row, the Redis queue | enqueue, mark, retry, requeue, run, store | Postgres, Redis, RQ | two stores with no common transaction, processes that die, clocks |
| Wrap-up screen: `hooks/useSessionFeedback.ts` | loading, ready, failed, missing | poll, give up, restart | `GET /sessions/{id}` | stale answers |
| Deletion, retention, account | Sessions, consent log, preferences | grant, delete, withdraw, sweep, a new notice, export | Postgres | order of deletion, derived Scenarios still in use, what is read unlocked and deleted later |
| Derived Scenarios: `library.py`, `followups.py`, `reversals.py` | one Scenario per Session and kind | restore, draft, create | LLM, Postgres | two presses at once, origin deleted meanwhile |
| Library, access, focus, suggestions: `library.py`, `auth.py`, `tenants.py`, `focus.py`, `recommendations.py` | the Scenario table, companies, selections | list, create, edit, share, retire, select, recommend | every route | accounts that change company, rows that lose their link, drafts that arrive while their call is deleted |
| Seed: `seed_data.py`, `db/provision.py` | goals, built-ins, Personas | applied at every start | Postgres | stored selections and rows outlive a release |
| Caps: `limits.py` | open calls, recent uses | claim, release, allow | every route | pairing, window edges |
| Answers of the model: `clients/llm.py`, `generator.py`, `followups.py`, `reversals.py` | none | two attempts, validation, fallback | the language model | an outage, half an answer, an invented reference |
| Call screen: `useSessionSocket`, `useStreamedAudioPlayback`, `useBargeIn`, `useLiveCall` | call state, audio gate, playback clock | barge in, end, play | the live call, by frames in transit | stale chunks, crossing frames |
| Training flow: `trainingFlow.ts` | the screen | a table of transitions | the call screen | none beyond the table |
| Documents, signal processing, speech clients, views | | | | reading files, numerics, remote services, rendering: not modelled |

What makes each part correct:

* *Live call*: only what was heard is kept; the Turns and the history say the same;
  no question is left behind; a call that was ended stays ended; no retry takes back
  words that sounded; every Turn comes to an end.
* *Reply guards*: the user does not hear the same point twice unless they asked; a call
  the Persona ends is taken leave of; a request to repeat is honoured once in a row.
* *Call notes*: they hold only what was heard.
* *Timeline and figures*: nothing counts as heard after the user cut it off; cutting
  somebody off counts as an interruption and nothing else does; a stored call measures
  as the live one did; its segments share it out. (The second half of the second and the
  third hold with exceptions: section 6.)
* *Wrap-up job*: `done` means readable; a readable wrap-up stays; nobody hides it behind
  an error or runs it twice without a cause that can be named; no row stays open
  with no way to ask again; the screen never says "missing" too early.
* *Consent and deletion*: nothing is kept of a subject who never agreed or took it back,
  and nothing new is taken in under an old notice; no deletion is refused; what a deletion
  leaves for later is collected.
* *Derived Scenarios*: at most one per Session and kind; a press that lost its race is
  told the truth.
* *Library*: somebody else's row is read only in the company it was written in and once it
  was shared; the suggestions are the best there is. *Caps*: a slot is held exactly while its call is served.
* *Call screen*: after a barge-in no chunk of the cut-off reply sounds, and the reported
  position belongs to the reply it trims.

## 2. Modules

| Module | Models | Extends |
|---|---|---|
| `LiveCall` | the live call between two awaits, its history and what was heard | `Naturals`, `Sequences` |
| `ReplyChecks` | the filters and verdicts on a reply | `Naturals`, `Sequences`, `FiniteSets` |
| `Prompting` | which sections a prompt has, and what a reply is asked for with | `Naturals`, `Sequences` |
| `Dialogue` | a call sentence by sentence, with the notes behind it | `ReplyChecks`, `Prompting` |
| `VoiceCurves` | what is read off the pitch and loudness of an utterance | `SequencesExt` |
| `CallFigures` | the fold of a call into facts, metrics, rows and segments | `VoiceCurves` |
| `CallTimeline` | a running call's clock, the analysis a turn awaits, and what is stored of it | `CallFigures` |
| `WrapupJob` | the wrap-up job, everybody who writes it, and the screen | `Naturals`, `FiniteSets` |
| `ConsentedStorage` | the abstract promise: taken in under the notice in force, kept while agreed to | none |
| `Storage` | consent, stored calls, derived rows and everything that deletes | `Naturals`, `FiniteSets`; `INSTANCE ConsentedStorage` |
| `Access` | what a token amounts to, the company, who may read a row | `FiniteSets` |
| `Suggestions` | which Scenarios are offered | `Naturals`, `FiniteSets` |
| `ModelAnswers` | what becomes of a structured answer | `Naturals` |
| `CoachPrompts` | what the wrap-up and the drafts are asked with | `Prompting` |
| `Seed` | the reference data, as far as a rule looks at it | `Naturals`, `Sequences`, `FiniteSets` |
| `Library` | accounts, rows, selections, connections, stored calls, deployments | `Access`, `Suggestions`, `ModelAnswers`, `CoachPrompts` |
| `MC...` | their small instances | the module |
| `Induction` | induction and recursion over the natural numbers, stated of sets and functions; what they give for sequences | `WellFoundedInduction`, `SequencesExt`, `TLAPS` |
| `FigureProofs` | lemmas about the operators of `VoiceCurves` and `CallFigures`, for any Turns and curves | `CallTimeline`, `Induction` |
| `CallTimelineProofs` | the theorems about `CallTimeline` | `FigureProofs` |
| `DialogueProofs` | the theorems about `Dialogue` | the module, `Induction` |
| `LiveCallProofs` | the theorems about `LiveCall`: Turns and types; the messages, the words kept, the finality of a trim | the module, `TLAPS` |
| `WrapupJobProofs`, `StorageProofs`, `LibraryProofs` | the theorems about their modules | the module, `TLAPS` |

How they meet: `LiveCall`, `Dialogue` and `CallTimeline` are three views of one call, by
suspension point, by sentence and by clock; each says in its header what it leaves to the
others. `CallTimeline` ends with the stored Session, `Storage` begins with it,
`WrapupJob` follows its job row, and `Library` takes the wrap-up's content on to the
Scenarios made of it. `Dialogue` composes the guards, the prompts and the notes;
`Library` composes access, suggestions, the model's answers and the prompts they answer.

An operator whose comment starts with "Mutant of" is a changed version of the definition
that follows it, the way a slip in that code would change it. No specification uses
these; each shows that some property would notice the slip.

### LiveCall

`orch` is the `SessionOrchestrator` object, `gen` the running generator with its
`_ReplyProgress`, `phase` the place where the generator is suspended or where the
receive loop is. The code is asynchronous on one thread, so an action is what runs
between two awaits:

* `transcribing`, `measuring`: awaiting STT and the acoustic measurement;
* `replying`: awaiting the model or the synthesis; `announcing`: sending `speaking`
  before the first chunk; `farewell`, `signingOff`: synthesising and sending the fixed
  closing line;
* `completing`, `settling`, `failing`: sending `turn.completed`, `listening`, `error`;
* `between`: the loop waits for the client; `over`: the loop was left, `_record` runs;
  `recorded`: `persist_session` has read the Turns.

`Interrupt(pos)` is the whole of `_run_turn_interruptible` on a barge-in: the position
is noted (`NoteBargeIn`), then the generator is torn down (`FinalizeInterrupted`), and
the loop goes on or, if the Persona had ended the call, is left. `LateInterrupt` is
the barge-in between Turns. `Leave` is `session.end`, a lost connection or the time limit.
`CloseParked` is the event loop closing a generator that the forwarder left suspended
when it returned `completed` or `failed`.

Words are counts: a question is the number of utterances joined into it, a reply the
number of its voiced chunks that were heard, and a position the number of chunks it
reaches with the grace of 300 ms. `played_ms = None` reaches all of them. A partly heard
chunk counts as heard. What the words say is a choice: `asks` (a request to repeat),
`closing`, `looping`, `goodbye`, whether a chunk is emptied by a filter, carries the end
marker, or opens the reply badly. Left out because no state modelled here depends on
them: frames the loop skips (unknown types, oversized or missing audio),
`user.speaking` (it postpones a prompt, and a prompt may always be late), the offsets,
the model's context window, and the branch at `session_ws.py:373-376` that honours an
interrupt which arrives between `asyncio.wait` returning and the cancel: no other task
runs in between, so the control task cannot have finished there without being in `done`.

Four variables only observe: `abandoned` says that the forwarder had returned by itself and
left a generator behind (second finding), `sent` counts the chunks given to the socket in the current
reply, `report` is the first position reported since the reply began, and `muddled`
records that a Turn was left open although its reply stands (section 6, first finding).
Four properties are stated for calls that are not muddled; what goes wrong in the others
is the finding itself.

### WrapupJob

One stored call. A step is one transaction, one statement inside a transaction where
another may come between, or one call to Redis. `queue` counts the messages for this call.
The row's age is one bit: whether `JOB_TIMEOUT_S` has passed since `updated_at`.

* `Persist`, `PersistRefused`, `Enqueue`, `EnqueueFails(taken)`, `ReadForFailing`,
  `MarkFailed`, `RecorderDies`: `_record` and what can become of it. `taken` is a message
  Redis took without its answer arriving in time. `mark_failed` is two steps: it reads the
  row and the wrap-up (`jobs.py:94-99`) and writes afterwards, by key and without a lock;
  whatever the worker does may come in between. (`mark`, called there and elsewhere, reads
  the row again right before its UPDATE, whatever it says; that is one step.)
* `LoadSession`, `LoadJobs`, `Submit`, `SubmitFails`, `CommitQueued`, `AskerDies`: the
  retry route (`Requests`) and the requeue script (`Scripts`). Both read, queue, then
  mark. In the route this is one ORM session: the row is written as it was read, so a
  status that did not change from `queued` is not written at all.
* `Begin`, `Store`, `RunFails`, `WorkerDies`, `MessageLost`: `_generate` under RQ.
* `Age`, `Delete`, and the screen: `OpenScreen`, `Poll`, `PatienceEnds`.

`Age` waits until no run is under way, because RQ kills every run within
`JOB_TIMEOUT_S` of its start and each run marks the row as it starts. `causes` only
observes what may put two hands on one wrap-up: two askers at once (`overlap`), an asker
whose two reads the first wrap-up came between (`crossed`), a message that outwaited its row
(`backlog`), and one whose answer was lost (`unanswered`). The content of the
wrap-up and the segment measurements, behind their savepoint, are part of `Store` and
not told apart.

### ReplyChecks, Prompting and Dialogue

A reply is a sequence of sentences, and a sentence a member of a small vocabulary that
keeps what the guards tell apart: points that press or do not, greetings, an echo of the
user, the tail of a sentence that was cut off, a goodbye, the fixed sign-off, "Hallo?"
lines, scraps too short to compare. Which texts count as the same sentence (normalising,
similarity ratios, patterns of the language pack) fixes what a sentence *is* and is left
out. `ReplyChecks` has `repetition.py` and `reply_checks.py` as operators, `Ending` with
its verdicts in the code's order; `Prompting` has the sections of each prompt with the
side of the line their text is written from, and `ForTurn`, the choice of an instruction. A
section is labelled by the text that is sent: where the code has one wording for both
castings it is `either`, and the description of the case and the example calls, which a
reverse takes over from the ordinary call (`prompting.py:163`, `:287`), are the caller's
whoever the model plays (`KeptFromTheCaller`).

`Dialogue` composes them: `UserSpeaks` is `run_turn` up to the request, `ChunkArrives` a
chunk through `Opened`, `Cleaned` and the marker, `ChunkRestarts`, `StreamBreaks`,
`NothingButRepeats` and `SynthesisFails` the ways back or out, `ReplyDone` the commit and the
judgement, `TalkedOver` and `TalkedOverTail` a barge-in that cuts the reply at a sentence
or inside a long one (a fragment shorter than three words is dropped, as `heard.py` does).
Beside it the notes are rewritten in the background (`RefreshNotes`, `NotesArrive`,
`NotesFail`, `DiscardNotes`). A summary is taken to keep what it is given. Phantoms,
hang-ups inside a leg and the suspension points are LiveCall's.

### VoiceCurves, CallFigures and CallTimeline

The pitch and loudness of an utterance are given as short curves; from there on every
step of the code is modelled: holds and their greedy scan, stretches, terminal slope and
slips (`VoiceCurves`), the fold of the Turns into facts, the metrics with their lights and
bands, the rows that are stored, their reading back, and the segments (`CallFigures`).
Quotients stay pairs of numbers, so that rounding decides nothing.

`CallTimeline` is the clock of a call. `Chunk` is `note_persona_audio`, `Interrupt` and
`HangUp` trim the window by the reported position (`TrimPersonaWindow`, `AfterCut`),
`StartPlayback` shifts what was generated before a reverse was picked up, `Persisted` writes
the rows and the findings, and `Judge` is what the worker adds: the pressing lines and the
segments. An utterance takes two steps, as `run_turn` does: `Arrive` writes the question,
`Attach` what the awaited analysis measured, or that it failed; a barge-in or a hang-up
between the two cancels the analysis (`measuring` is emptied) and leaves the Turn as it is.
A recording is padded: the voice lies between its `lead` and its `trail`, and these edges
place it (`AttachMeasurements`, ADR 0114). `Lose` is an utterance without a transcript,
whose Turn stays open with nothing in it. `SignOff` is the fixed closing line of a call the
Persona ends: its audio is in the window before its text is in the reply, and a barge-in
between the two is judged by the reply alone. The
server never learns what the client plays, so `audible`, `silenced` and `cuts` are kept beside
it as observations, and the properties compare the two.

### ConsentedStorage and Storage

`ConsentedStorage` says what the consent text promises: nothing but who agrees and what is
kept; `informed` are those who agreed to the notice now in force. `Storage` has the tables.
Postgres runs at READ COMMITTED, so a transaction that
another can hit half-way takes several steps: the ending call reads the decision in force
under the subject's advisory lock (`CheckConsent`) and writes (`Write`); a withdrawal and a
single deletion read and retire (`StartJob`), then delete and commit (`Commit`), holding
the row locks in between. The sweep has three steps: after its `StartJob` it deletes its
Sessions and looks up the reverses nobody plays (`LookSweep`, `deletion.py:74-79`), and
deletes those (`FinishSweep`, 85-88). In between a Session it deleted is locked, and
so is a reverse made of one, whose UNIQUE link the database has just cleared: an insert
that points at either has to wait (`SessionFree`, `KeyFree`). An orphan of an earlier deletion
is not locked; a call that plays it may be stored in between, the foreign key then
refuses the DELETE, and the whole sweep is taken back. `NewNotice` is a release that raises
`CURRENT_VERSION` (`consent.py:31`): every grant goes stale, what was stored stays, and the
restart cuts off the calls, the presses and the transactions of the backend (a transaction
that is killed is as one not begun; the sweep is a script of its own). A press for a reverse or a follow-up goes through `Press`, `Restore`,
`Reactivate`, `Drafted`, `Insert`, `Reread`, each its own transaction; `InsertElsewhere`
is the same button in another tab. `old` marks what was created before the retention
boundary. `Promise` is the refinement: `agreed` the subjects with a grant, of whatever notice,
`informed` those with one in force, `kept` the stored calls with their subjects.

### Access, Suggestions, ModelAnswers, CoachPrompts, Seed and Library

The first five are operators. `Verdict`, `TenantRef` and `VisibleTo` are the three
questions of a request; `Picks` and `LibraryChoice` the suggestions and the offer after a
call; `Taken`, `Raises` and `Asked` two attempts at an answer, `Kept` what is stored of a
point; `WrapupRules`, `Dossier` and the drafts' material name the side their words speak
of, also where the code says "the caller" whatever the casting (`generator.py:161`, `:391`,
`:421`, `:463`).
`Seed` is the reference data and holds the assumption that the suggestions rest on.

`Library` is the state around the calls. A request is one step, with its company
registered where the route asks for it (`InCompany`), but for the two that another can come
between. A press for a reverse or a follow-up (`press`) reads the row it already has and then
switches it on by its key (`Restore`, `Wake`), or asks the model and inserts the answer
(`Make`, `Insert`, `NothingMade`). A deletion (`leaving`) first retires the follow-ups there
are (`StartDelete`), then deletes the call and the database unties whatever was made of it
by then (`DeleteCall`); until it commits, others see neither. Two presses at once are
`Storage`'s.
A connection goes through `Connect`, `LoadSelection`, `Claim`, `EndCall`, or is refused on
the way; it keeps the company of the token its handshake brought. `WrapUp` stores the
wrap-up of a call; `Restart` is a deployment with another release of the seed. `text`,
`written`, `shared` and `missed` in a row only observe what it is, where its author was
when writing and when sharing it, and that the deletion of its call went by without
retiring it. Abstractions: the hourly cap on drafts is a count that goes down
(`HourPasses`), a call has said nothing or enough, the case of a row is left out, and the
preselection by role and the offer of another partner are not modelled.

## 3. Runs

| Run | Bounds | Shows |
|---|---|---|
| `live_call` | 1 prompt, 2 Turns, 2 utterances per question, 2 chunks per reply; about 1.08 million states | the eight invariants and the action property below |
| `live_reverse` | the Persona picks up; 2 Turns of 1 utterance and 1 chunk; with fairness | the goodbye stands, every Turn settles |
| `dialogue` | an ordinary call and a reverse; 2 Turns, 2 utterances per question, 2 voiced sentences per reply, 3 kinds of chunk; 835,224 states | the guards, the endings, the notes, the repetitions |
| `call_timeline` | 2 Turns within 3 units of time, 2 units of audio per reply, 5 kinds of utterance and lost ones, 1 line judged as pressing; 175,834 states | windows, interruptions, stored figures, segments, hesitations |
| `wrapup_job` | 1 retry, 1 script run, 2 workers; with fairness | the six invariants, that wrap-ups are kept, and that no row stays open |
| `storage` | 1 subject, 2 calls, 1 press for either kind of row, 1 draft an hour; 551,252 states | consent, refinement, deletions, presses |
| `orphans` | the same without a company and with presses for a reverse only; with fairness | that orphaned reverses are collected |
| `training` | 2 subjects that may change account, 2 connections, 1 open call each, 2 releases, 4 user steps; 577,617 states | reading and sharing, slots, suggestions, wrap-up references |
| `extend_question`, `recorded_turns`, `failed_turn` | 1 Turn, 2 utterances, 1 chunk | findings 1 to 3 |
| `wrapup_terminal` | 1 retry, 1 worker | finding 4 |

*LiveCall.* `MaxTurns` caps the Turns of a call in `CanStartTurn`, `MaxParts` the utterances
of a question in `TurnAudioArrives`, `MaxChunks` the voiced chunks in `ChunkVoiced`. Two
Turns are what it takes for a Turn to be no longer the last one, for a late interrupt to
meet a reply that is not its own, and for a reopened Turn behind an answered one; two
chunks to tell nothing, part and all of a reply apart; two utterances for a question
that is extended. Retries and regenerations are the code's own (one each). A
second prompt only repeats the first. `live_reverse` does not repeat the types, which are
proved.

*Dialogue.* Two Turns and one "Hallo?" are three replies: one to repeat, one that was cut
off, one that opens again. The three chunks are a re-greeting with a pressing point, an echo
with a goodbye, and the tail of a cut-off sentence with a point: every filter has something
to take, in the first attempt and in the second, and what is left of one chunk leaves room
for what is left of another.

*CallTimeline.* Three units of time (`MaxNow`) and two of audio (`MaxAudio`) let a reply be
cut before, inside and after what was dispatched, and an utterance start in the window of
a reply that is over; two Turns (`MaxTurns`) let that happen behind another reply, and give
both segments of a judged call a line. `MaxWords` and `MaxPressed` cap the words of a call
and the lines judged as pressing. The run has no grace, which would be a third of the clock;
the proofs hold for any grace and any number of Turns and lines.

*WrapupJob.* Two askers are enough for two to read the same row, and two workers for two
runs at once; a run of each kind of asker covers both ways of committing. The same model
with two retries and one script run was also explored (about 2.0 million states) and holds.

*Storage.* Two calls are what it takes for a reverse of one to be played by another, and
for a sweep to take one and leave the other. `orphans` states fairness and the only liveness
property of the module by itself, since no safety property needs its cycles explored. Two subjects exceed what can be explored (more
than 6.6 million states); the proofs hold for any number.

*Library.* `MaxRows`, `MaxCalls` and `MaxSteps` bound the table, the stored calls and what
users and deployments do; steps of a connection, the worker, the model's answers, a commit
and the clock are not counted. Four steps are enough for an account to change company between writing and sharing, or a
call to be deleted between making and sharing; the proofs drop the bound. One company, an
account in two and one without a role give the three answers `TenantRef` and `Verdict` have.

`CHECK_DEADLOCK FALSE` stands where a call may be over and stored or everybody's steps used
up (`call_timeline`, `dialogue`, `training`) and where a subject may simply stop
(`storage`, `orphans`). In `LiveCall` and `WrapupJob` the deadlock check is on: a call that is recorded
and a job that nothing can move any more are the only states that may stand still
(`Finished`).

What the properties say, and what breaks if the code slips:

* `HistoryFollowsTurns`: every message is its Turn's current text, marked exactly if the
  Turn was interrupted, in the order of the Turns.
* `QuestionIsLast`: while a question is open to be extended, it is the last message.
* `EarlierTurnsAnswered`: only the last Turn may lack a reply, and only it is reopened.
* `EndedNeverRevived`: after the Persona's goodbye nothing starts and nobody listens.
* `OnlyHeardIsKept`: once a reply is over, no more of it is kept than the first reported
  position reached. `ReplyIsWhatWasSent`: until then, it is what the socket was given.
* `TrimmedRepliesAreFinal`: no later interrupt, teardown or closing line changes a
  trimmed reply.
* `TornDownCallStoredAsTold`: what is stored is the transcript the client is sent, however
  the call ended: left, lost, talked over at the goodbye, or out of time. Only where the
  forwarder returned by itself and left a generator behind (`abandoned`) is it the second
  finding.
* `TurnsSettle`: a Turn that was taken up ends.
* `PointsAreHeardOnce`: a sentence of any substance is heard again only in a reply the
  filters leave alone. `EndedWithGoodbye`: a call the Persona ends is taken leave of, but
  for the one hole its comment names. `RepeatedOnRequestOnce`: the first request in a row
  is honoured and the second is not, unless the question was joined.
  `NotesRecordWhatWasHeard`: the notes hold what was heard, unless the refresh that would
  have corrected them is under way, failed or was cancelled.
* `NothingHeardAfterTheCut`: the modelled window of a reply ends no later than the user
  last heard it, but for the grace, the opening of a reverse, and a closing line that was
  cut off (section 6). `CutsAreCounted`: whoever cut a reply with audio outstanding is shown the
  interruption. `StoredReadsBack`: a stored call measures as the live one, unless the only
  analysis of a Turn was cancelled (section 6).
  `SegmentsAddUp`: the two segments' talk times are the call's. `HoldsAreComplete`: the
  greedy scan finds every hold, once.
* `ReadableStands`: a readable wrap-up is behind an error only with a cause that
  `causes` names (finding 4, and section 6). `DoneIsReadable`, `WrapupKept`, `NoDuplicateRun`, `FailedMayBeAskedAgain`, `MissingWasNotStored`, `NeverStuckOpen`: the wrap-up job's
  promises from section 1.
* `NothingKeptWithoutConsent`: what the account page exports of a subject who never agreed
  or took it back is empty of calls and reverses; under a grant that a new notice made
  stale the stored calls stay (ADR 0066) and no new one is taken in, which
  `ImplementsPromise` says: every step is one of the promise's.
  `DeletionIsNeverRefused`: no foreign key takes a withdrawal or a single deletion back (the
  sweep: section 6). `MissingMeansGone`: a
  loser of the race for a row is told "unknown" only of a call that is gone.
  `OrphanIsCollected`: a reverse that lost its origin goes once it is old and unplayed.
* `ReadWhereWritten`: whoever reads another's row is where that row was written, its author
  shared it while in a company, and it was written by hand or is a follow-up the deletion of
  its call missed (what it leaves open is in section 6). `SlotsMatchCalls`: slots are
  the calls served. `BestSuggestions`: no better or equally good and fresher Scenario is left
  out, and the offer after a call is another, and fresh if it can be. The type invariant of
  `Library` also says that a stored wrap-up cites what there is, and that the prompts about a call
  speak of its partner but for four sections that say "the caller" whatever the casting
  (`SpeaksOf`; the run's calls are ordinary ones, the proof covers a reverse's); that of
  `Dialogue` that the system prompt takes nothing from the caller's side of a reverse but
  what it keeps on purpose.

## 4. Fairness

*LiveCall*: weak fairness of `Machine`, everything the server does by itself. Every leg
has a timeout (`shared/clients/config.py:13`: 120 s, connect 5 s), one retry in the
orchestrator and a cap on the tokens of a reply, and the event loop runs what is
scheduled. Nothing is assumed of the client: it may stay silent, and then the call
rests in `between`, which is why `TurnsSettle` speaks of a Turn only.

*WrapupJob*: weak fairness of `_record`, of time passing (`Age`), and of each run ending
(`Store`, `RunFails` or `WorkerDies`), which RQ's `job_timeout` enforces. Nobody has to
retry, delete, or take a message from the queue: a worker may be down for good. So
`NeverStuckOpen` does not promise a wrap-up; it promises that the call gets one or may
be asked for again.

*Storage*: weak fairness of the sweep's next step and of each transaction's end
(`scripts/apply_retention.py` runs daily, and a transaction ends). A sweep may be refused
by a call stored meanwhile; every refusal costs a call that is still to be stored, so that a
later sweep gets through. Nobody has to withdraw, delete or press. `Dialogue`, `CallTimeline` and `Library` state no fairness: their
properties are about what may never happen.

## 5. Proofs

The theorems hold for all values of the constants: any number of Turns, utterances,
chunks and prompts; any vocabulary, Scenarios and replies made of it; any fragments, grace
and pitch curves; any finite set of retries and script runs and any set of workers; any
subjects, calls and presses; any realm, releases of the seed, answers of the model and
finite set of connections. The assumptions are the constants' types and, named in the
modules that declare them: `Null` and `Nobody` are nobody; the alias `default` is not one a
realm issues; there are finitely many goals, and the built-in Scenarios fit into the table's
bound; what counts as a point is neither a fixed phrase nor a scrap
(`VocabularyAssumption`); and an utterance is no shorter than the speech the voice detector
asks for before it reports any, since anything shorter is a misfire that
`useMicrophoneVAD.ts` never sends, is padded in front by no more than at its end, and holds
the pauses measured in it (`TimelineAssumption`); the windows of the curves are not empty (`CurveAssumption`); and, as
`interruptions.py` sets them, losing enough audio to count as interrupted is more than
what is left at a line's end, and a single interruption leaves the first step of the
light (`FigureAssumption`).

*Induction.* A theorem that takes a predicate cannot be cited here, so the induction over
data that some of the proofs need is stated once of sets: `SetInduction` and
`StrongInduction` follow from the well-foundedness of `<`, `Recursion` and `Descent` give
a function defined upwards and downwards its existence, without which nothing can be
said of what it computes. A recursive definition of the model is then unfolded one step at a
time inside a set comprehension. `SequenceInduction` is induction over the length of a
sequence, and the lemmas behind it say what one element more does to a sequence that is
flattened, selected from or mapped (`FlattenAppend`, `PicksAppend`, `MappedAppend`), and that
what comes out of flattening and selecting stands in order with none lost
(`FlattenKeepsOrder`, `PicksKeepOrder`). For this the figures select with
`FlattenSeq`, and sort and add up with recursive functions (`Only`, `Ordered`, `Total`).

*LiveCall.* `EndedNeverRevived` and `EarlierTurnsAnswered` are not inductive by
themselves: that a torn-down Turn is the last one, that it is left open unless it has
words, and that the farewell phases are only reached after `ended`, are facts of their
own. `IInv` adds them: the generator runs the last Turn (`RunsLastTurn`), what is left
suspended is left after the loop (`ParkedAfterwards`), a Turn is open until its reply is
committed (`OpenUntilCommitted`, `NotCommittedEarly`), the last Turn is answered or open
(`LastAnsweredOrOpen`), a voiced reply has words (`VoicedHasWords`), and the closing line
belongs to an ended call (`FarewellEnds`). The four trimming paths are treated once:
`Handled(o, r, t)` is the contract of a handler that turns `o` into `r` on behalf of Turn
`t`, each path is shown to meet it (`ReviseHandled`, `NoteHandled`, `FinalizeHandled`),
and contracts compose (`HandledTransitive`). Then there is one lemma per group of actions.

*LiveCall's history.* `HInv` says of the messages what the property leaves
open: every question asked is among them (`Faithful`), and the last Turn's reply is either
owed or given. It is owed until the commit (`ReplyPending`), given as the last message after
it (`ReplyGiven`), and owed again by a Turn that is open without words (`Linked`). Each
trimming path is shown to keep this (`ReviseKeeps`, `FinalizeKeeps`), from lemmas about what
one rewritten, appended or dropped message does to a faithful record. A Turn left open has
no words (`LeftOpenSilent`); this is where a muddled call is left out, for it is what
`muddled` means.

*LiveCall's words.* `WInv` relates four counts of one reply: its words are
those sent, one more while the first chunk is announced (`SentInStep`), no more than were
voiced (`WordsVoiced`), and once the Turn is over no more than the first report reaches
(`HeardSoFar`). A report comes once: while a Turn runs, or its reply may still be revised,
nothing has been reported (`ReportedOnce`). `ReviseWords` and `FinalizeWords` bound what the
trimming paths leave; they need the reply to be the last message, which `HInv` supplies.

*LiveCall's trimmed replies.* An action property: the Turn anyone may still
touch, running, revisable, parked or open, has not been cut (`RunningUncut`, `OpenUncut`).
An interrupt trims twice in one step, when it is noted and at the teardown; `Sealed` says
why the second does nothing: a cut reply's message has the mark, so `LastReplyIs` fails. This
holds for muddled calls too.

*Dialogue.* The invariant is layered, and each layer has its lemma for the first state and
for a step. `Frame` holds the types and says that only the last Turn is ever written to
(`LastTurnOnly`); one lemma per action then says what a step does to the Turns, the replies
and the reply under way, and the upper layers argue from these effects alone. `Once` adds
what makes `PointsAreHeardOnce` inductive: every point heard is in the history's lines, those
of a reply that may yet be revised in the last one, and a reply under the guards has none
of them (`PointsKnown`). It rests on what
the filters compute: `WithoutKeeps` shows by induction that dropping sentences leaves
sentences of the text and none of the dropped, `CutsKeep` and `CleanedKeeps` that no cut and
no filter brings a point in. `Counted` says that the row of requests is the last Turn's (`RequestsCounted`), `Closed` that
a closing reply answers a goodbye or owes the opening (`ClosingsAsked`), and `Noted` that the
notes are ahead of the Turns by one exchange at most, which stands in them as it was heard
unless the refresh for it is known to be lost (`NotesKept`).

*CallTimeline.* The server models when its audio is played; the client plays it.
`NothingHeardAfterTheCut` needs the two related at every moment: the window of the reply
under way ends no later than the client's buffer and began no later than the client
began to play it (`Running`), a reopened Turn's window lies behind, and a reply that is over ends by its
`silenced` but for the grace (`Within1`), unless it is the last and its closing line was cut
off before its text was written. `Reported` is what the order of messages gives: a
barge-in is reported before the utterance that caused it arrives, so no utterance arrives
into audio that is still playing, and a Turn that is written to has no reply yet. Barge-in and
hang-up share the cut (`CutKeeps`, on `CutTurn` for one Turn). Looking for this proof
corrected the property: a reply cut within the grace of its end is left alone
(`_revise_committed_reply`), so its window may outlast what was heard by the grace. It also
found that such a reply, if nothing of it was played, has a window of no length and no place
in the timeline, which `cuts` now says.

`CutsAreFound` looks back at a cut from the end of the call. `CutInv` keeps, for every onset in
`cuts`, its reply among the Turns: marked, with a window that began by the onset and
a dispatched end far enough behind it (`Standing`), and nothing that began by then after
it (`Behind`). A step keeps that because the Turns only continue (`Continues`, `StandsOn`):
a closed Turn is never written to again, and a window that opens later opens later than
the onset. On the stored timeline such a reply is the line the user started inside
(`OverlappedIsTheCutLine`), which needs that the lines stand in the order of the Turns
(`TimelineInOrder`), and the rules then arrive at a hard interruption (`CutIsHard`).

`StoredCallsReadBack` compares two folds over two sequences of different lengths: the
Turns of the call, and one Turn per stored row. A Turn whose analysis was cancelled
stays as it was asked, so the Turns of a call are only `Orderly`; what the rows tell of
them (`AsStored`, `StoredOf`) differs from the call in one respect, that an utterance of
which nothing was measured does not count as measured in full, and is whole
(`OrderlyIsWhole`). `FactsGrow` says what one Turn adds to the
facts of a call (`Further`); `ThroughTheRows` that its rows, read back one after the other, add
exactly that, except that a Turn without a reply leaves no trace of a window nobody heard. Such
a Turn would take the next reaction time with it, so the proof needs that no Turn but the last
is without a reply (`Answers`), and that each is whole: a window has both ends, only what was
said was measured, and what counts as measured in full has a length (`Whole`).
`ACallReadsBack` carries this to every call: it reads back as the Turns its rows tell of, and
those are its own unless an analysis was cancelled, which is the exception the property
names. What is awaited belongs to the Turn it was taken from (`Awaited`), so that `Attach`
cannot reach another. And `FiguresRestOnTheBasis` names what the
figures of `StoredKeys` are read off. `SegmentsShareItOut` goes row by row as well: each row is in one
of the two segments, whichever lines are pressing (`SegmentAppend`, `SegmentsShareTheCall`),
and a judgement changes nothing that is measured (`JudgedRows`), so that judging again
starts from the same rows (`KeptRows`).

`TimelineTypes` has one conjunct that is more than a type: a stretch that is served with the
loudness has its peak in the curve it was drawn from (`PeakLiesWithin`), for which the median,
the spread and the running means must be numbers.

`EveryHoldIsFound` is about the scan alone, for a pitch curve of any length: the
scan from a frame on is the value of a function defined downwards (`ScanExists`, by `Descent`);
a flat stretch ends where no longer one is flat (`FlatEndIsTheLast`); and what the scan finds
behind a frame stays right with one more hold before it (`HoldInFront`) or with none
(`NoHoldHere`).

*WrapupJob.* `NoDuplicateRun` needs the whole protocol: as long as there is no overlap, no
backlog and no unanswered message (`Clean`), there is at most one message or run
(`SoleRun`), at most one asker between its check and its commit (`SoleClaim`), such an
asker found nothing under way (`ClearedIsIdle`), what it queued shows as the row it read
or as running (`QueuedIsOpen`), and everything else under way shows as a live row
(`BusyIsLive`), so that `RetryBlocked` refuses the next asker. Until `_record` is through,
between reading for a failure and writing it included, the row stands as it was written
(`RecorderFirst`). `ReadableStands` needs the same of fewer causes: as long as nothing
crossed, nobody works on a call that has its wrap-up (`OneHand`, `Untouched`). `NothingYet`
and `StoredWhole` say what is there before and after the row is. `WrapupsAreKept` is an
action property: only a deletion clears the wrap-up.

*Storage.* Consent holds because of the lock, so the invariant is about transactions half
done. `StoredIsAgreed` asks of a stored call that its subject agreed, to whatever notice, and
of a call that is being written that its subject agreed to the one in force; `ReverseIsAgreed`
covers the briefings. A withdrawal under way has found every Session of its
subject and nobody is writing (`WithdrawalHoldsAll`), so that its commit leaves nothing.
What makes a row findable is `RowShape`: a derived row is its call's, belongs to that call's
subject, and is linked to it or to nothing. No deletion is refused because only its
author plays a reverse (`PlayedByOwner`), a deletion's reverses come from the Sessions it
takes (`ReversesFound`), and a withdrawal takes all of them; a single deletion removes no
row. What the sweep has looked up has lost its Session, or loses it to this sweep
(`UntiedIsGone`, `DoomedAreLoose`), so the row of a call that stays is never among it. A sweep that is refused, or only looks (`Refused`, `Aside`), changes nothing that
is kept. `WinnerIsThere` is the race of two presses: a loser that is about to read again finds
the winner's row as long as the call is there, which makes `MissingMeansGone` inductive.
`Implementation` then maps each step: a grant to `Agree`, `Write` to `Keep`, a
withdrawal's commit to `Withdraw`, the other commits to `Forget`, a new notice to
`NewNotice`, everything else, a refused sweep included, to a stutter. This is where several subjects, which TLC cannot reach, are covered.

*Library.* `RowsSound` says what may become of a row by who wrote it: a hand-written one
keeps the company it was written in and, shared, was shared in a company; a reverse stays
private; a follow-up is private while it has its link, and once a deletion untied it, it is
out of the library for good unless the deletion missed it (`missed`), which is why retiring
before untying matters. The presses and deletions under way are known to speak of rows and
calls there are (`PressKnown`, `LeavingKnown`). `ReadWhereWrittenOnly` follows row by row.
`SlotsCounted` counts the served connections of a subject (`Serving`)
through claim, end and restart, with `ConnsKnown` for what a connection holds in each phase.
`WrapupsAreGrounded` follows an answer from its two attempts to the stored points
(`KeptIsPoint`). A second layer, `Typed`, carries the rest: the rows are numbered as
they were added and stamped with registered companies (`Numbered`, `Companies`), selections
and the catalogue are made of goals (`Practice`), a connection's row is one of the table (`Sockets`),
and accounts, drafts and calls keep to their bounds (`Counted`, `Pressing`). Whom a prompt
speaks of goes through its sections (`CoachOfTheCall`, `DraftOfTheCaller`). `SuggestedIsTheBest` needs that the order of the suggestions is one:
`AheadOrders` shows it total and transitive on the Scenarios of a state, `RanksAreAll`
that the ranks of a finite set so ordered are the numbers from zero on, and `PicksAreBest` and
`OfferIsSomethingElse` read the properties off the first ranks.

Only model-checked: the three liveness properties. They need fairness, which is out of the
prover's reach, as is anything about `ENABLED`. Every safety property that a passing run checks
is proved.

## 6. Where code and comments disagree

1. `history.py:29` says a question is only extended "after a barge-in dropped the reply,
   so the question is last". If the interrupt is taken up after the reply was committed
   but before the generator's last line ran (it is sending `turn.completed` or
   `listening`), and the reply was heard in full, nothing is dropped and `_reopen_turn`
   stays set. The user's next words are then written over the Persona's reply in the
   history, and in the transcript they join the question the Persona has already answered.
   (`extend_question`)
2. `session_ws.py:356` tears a Turn down before leaving the loop so that nothing mutates
   the Turns during `_record`. When the forwarder itself returns, on a failure or on the
   Persona's goodbye, the generator stays suspended and is finalized by the event loop
   later, while or before the Turns are read in another thread. On a failure after
   the first chunk the half-spoken reply is then kept or trimmed depending on when that
   happens, and the transcript sent to the client may differ from the one stored.
   (`recorded_turns`)
3. `events.py:31` says a failure past its retry ends the Session. An interrupt that is
   received while the error frame is being sent wins, and the call goes on. (`failed_turn`)
4. `jobs.py:16` says a late writer must not turn a readable wrap-up into an error. `mark`,
   the worker's own writer, does when a second run exists: it sets the row to `running` and
   then to `failed` over a wrap-up that is there. The screen prefers the wrap-up (`Poll`),
   so what is lost is the row's truth. (`wrapup_terminal`)

Met while modelling, without a run of their own. The modules contain all of them
(the last words in parentheses say where), and a property that touches one names it or
leaves it out:

* `mark_failed` does not keep that promise either. It reads the row without a lock
  (`jobs.py:94-99`) and writes it afterwards (100-102); when Redis took the message although
  its answer was lost (`queue.py:38`), a worker may store the wrap-up and mark the row done
  in between. (`ReadForFailing`, `MarkFailed`; the cause `unanswered` of `ReadableStands`)
* `deletion.py:70-71` promises that a reverse still played waits instead of aborting the sweep.
  It is looked up at 74-79 and deleted at 85-88. The reverses of the sweep's own Sessions are
  locked by then, since deleting the Session cleared their link in the same transaction; an
  orphan of an earlier deletion is not. A call that plays it and is stored in between gets
  the DELETE refused, outside the savepoint (`retention.py:98`), and every expired training
  of this run comes back. (`LookSweep`, `FinishSweep`; `DeletionIsNeverRefused` leaves
  the sweep out, `OrphanIsCollected` says that a later one gets through)
* ADR 0067 says "Off suspends the sweep entirely". Orphaned reverses are found by age and
  link only (`deletion.py:55-66`), whoever wrote them, so a suspended subject who deletes one
  training loses the reverse made of it once it has aged. (`OrphanedReverses`)
* `calls.py:105-106` says of the voiced time that live and stored calls agree. A hang-up or
  barge-in while `run_turn` awaits the analysis (`measuring.py:18`) raises `CancelledError`,
  which neither handler (19-27) catches: the Turn keeps its question and counts as measured
  in full, with nothing measured. Its row has no facts, so `stored.py:52` reads it back as
  unmeasured, and the figures are gone. (`Arrive`, `Attach`; `CancelledMeasurement`)
* `turn.py:26` calls `persona_end_ms` the point where the Persona stopped being heard. The
  fixed closing line extends the window (`orchestrator.py:520`) before it writes its text
  (522-523); a barge-in at the yield between the two leaves the window with a line that was
  never played. (`SignOff`; `ClosingLineCut`)
* `interruptions.py:29` tells the user that an onset counts only while the other side still
  had something to say. The test is against `persona_dispatched_end_ms`, which a barge-in
  never trims (`orchestrator.py:204`). If the utterance that cut a long reply gets no
  transcript and the user speaks up again into the silence, still inside what was
  synthesized, that onset is stored as a hard interruption. `CutsAreCounted` is the other
  direction, and holds.
* `library.py:256-257` excludes reverses and follow-ups from sharing. A follow-up whose model
  answers between the retiring UPDATE (`deletion.py:32-39`) and the commit of the DELETE is
  not retired; untied, it looks hand-written, may be shared, and a colleague reads what was
  drafted from its author's feedback. (`Insert`, `DeleteCall`; `missed` in `ReadWhereWritten`)
* `api/scenarios.py:330-331` means to rule out sharing with the accounts that have no company.
  `library.py:271` stamps a company only on a row that has none: a row written without one
  and shared from within one is read by every account without a company, and by none of the
  author's colleagues. `ReadWhereWritten` states what does hold.
* The wrap-up of a reverse, whose transcript calls the other side the agent (ADR 0070), is
  asked for with an occasion and rules on goals, ending and tone that speak of the caller,
  who is then the trainee (`generator.py:161`, `:391`, `:421`, `:463`). (`SaidOfTheCaller`)
* A reply nobody heard leaves its offset on the reopened Turn (`orchestrator.py:201`), and
  the opening of a reverse keeps the gaps in which it was generated (177-205). A Turn whose
  first fragment was not measured is placed at that fragment's arrival and then extended
  (`measuring.py`). `CallTimeline` has all three; its window property leaves the second out.
* A user who says goodbye before the Persona has opened is answered with the opening, and the
  call ends on it (`EndedWithGoodbye` names the case). A request to repeat is counted again
  with every utterance joined to it (`RepeatedOnRequestOnce`). Notes keep what was not heard
  after a refresh that failed (`NotesRecordWhatWasHeard`).

## 7. Not modelled, and what is next

* The call screen in the browser: Web Audio's clock and a neural voice detector. What its
  frames can do to the server is in `LiveCall`, which lets any frame arrive at any time. The
  two hazards on the wire itself (a stale chunk after a barge-in, a control message between
  an audio's announcement and its bytes) are listed without a property.
* The training flow (a table of screens), rendering, and the explanations shown with a figure.
* Documents and PDF text (`documents.py`, `pdf_text.py`): a request that stores nothing.
* The signal processing that yields the curves (`acoustics.py`), the patterns of the language
  packs and the similarity ratios: numerics and wording; the modules start behind them.
* The speech services, Keycloak, Redis and Postgres themselves, CORS, the size of a body, the
  length of a call, migrations, scripts that only play or print calls.

Worth doing next: a model of the wire between browser and server, with the call screen's
player behind it; and of the figures the ones that only a live call has (interruptions and
intonation are stored, but not with the rows they could be measured from again).
