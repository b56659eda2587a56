------------------------------- MODULE LiveCall -------------------------------
(***************************************************************************)
(* One live call on the server: the SessionOrchestrator object             *)
(* (backend/session/orchestrator.py) with its History, the async generator *)
(* that runs one Turn, and the receive loop of backend/api/session_ws.py   *)
(* that races the generator against the client's control messages.         *)
(*                                                                         *)
(* Words are abstracted to counts.  A question is the number of utterances *)
(* joined into it; a reply is the number of voiced chunks the user is      *)
(* taken to have heard, and whether the fixed closing line follows them.   *)
(* A played position is the number of chunks it reaches, grace included.   *)
(***************************************************************************)
EXTENDS Naturals, Sequences

CONSTANTS Reverse,    \* the scenario has the Persona pick up (scenario.reverse)
          Prompts,    \* fixed "Hallo?" lines of the language pack
          MaxTurns,   \* bound: Turns of one call
          MaxParts,   \* bound: utterances joined into one question
          MaxChunks   \* bound: voiced chunks of one reply

ASSUME CallAssumption ==
    /\ Reverse \in BOOLEAN
    /\ Prompts \in Nat
    /\ MaxTurns \in Nat \ {0}
    /\ MaxParts \in Nat \ {0}
    /\ MaxChunks \in Nat \ {0}

VARIABLES
    orch,        \* the SessionOrchestrator: its fields, by their names
    gen,         \* the running Turn's generator: kind, turn and _ReplyProgress
    phase,       \* where the call is; within a Turn, where the generator is suspended
    parked,      \* a generator was left suspended when the call ended
    abandoned,   \* observation: the forwarder had returned by itself and left it so
    reason,      \* the reason of session.ended
    transcript,  \* the transcript taken for session.ended
    stored,      \* the transcript written to the database
    sent,        \* observation: chunks of the current reply handed to the socket
    report,      \* observation: the first position reported since the reply began
    muddled      \* observation: a Turn was left open although its reply stands

vars == <<orch, gen, phase, parked, abandoned, reason, transcript, stored, sent, report,
          muddled>>
endVars == <<parked, abandoned, reason, transcript, stored>>
observed == <<sent, report, muddled>>

-----------------------------------------------------------------------------
(* Data *)

Position == 0..MaxChunks
\* played_ms = None: everything dispatched counts as heard.
AllPlayed == MaxChunks
\* No position has been reported for the current reply.
Unreported == MaxChunks + 1

Turn == [question: Nat,          \* utterances in user_text
         asks: BOOLEAN,          \* user_text asks for a repetition
         words: Nat,             \* chunks in persona_text
         farewell: BOOLEAN,      \* the fixed closing line follows them
         interrupted: BOOLEAN]   \* persona_interrupted
FreshTurn == [question |-> 0, asks |-> FALSE, words |-> 0, farewell |-> FALSE,
              interrupted |-> FALSE]
Silent(turn) == turn.words = 0 /\ ~turn.farewell
Length(turn) == turn.words + IF turn.farewell THEN 1 ELSE 0

Unsaid(turn) == [turn EXCEPT !.words = 0, !.farewell = FALSE]
Asked(turn, n, asks) == [turn EXCEPT !.question = n, !.asks = turn.asks \/ asks]
OneChunkMore(turn) == [turn EXCEPT !.words = @ + 1]
Trimmed(turn, n) == [turn EXCEPT !.words = n, !.farewell = FALSE, !.interrupted = TRUE]

\* A mark is the dash that tells the model its line was cut off.
Message == [role: {"user", "assistant"}, turn: Nat, words: Nat, farewell: BOOLEAN,
            mark: BOOLEAN]
Question(t, n) ==
    [role |-> "user", turn |-> t, words |-> n, farewell |-> FALSE, mark |-> FALSE]
Reply(t, turn, mark) ==
    [role |-> "assistant", turn |-> t, words |-> turn.words, farewell |-> turn.farewell,
     mark |-> mark]

Orchestrator ==
    [turns: Seq(Turn), history: Seq(Message),
     reopen: Nat,         \* _reopen_turn, 0 for None
     revisable: Nat,      \* the Turn of _revisable, 0 for None
     bargeIn: Position,   \* _barge_in_played_ms
     ended: BOOLEAN,
     repeats: 0..2,       \* _repeat_requests_in_a_row, told apart up to 2
     said: 0..Prompts,    \* prompts the PickupWatch has handed out
     activated: BOOLEAN]  \* _playback_started

Generator ==
    [kind: {"opening", "prompt", "user"}, turn: Nat, reopened: BOOLEAN,
     closing: BOOLEAN, normal: BOOLEAN, attempt: 0..1, round: 0..1,
     spoken: Position, spokeYet: BOOLEAN, endsCall: BOOLEAN,
     suppressed: BOOLEAN, committed: BOOLEAN]

FreshGenerator(kind, turn, reopened) ==
    [kind |-> kind, turn |-> turn, reopened |-> reopened,
     closing |-> FALSE, normal |-> TRUE, attempt |-> 0, round |-> 0,
     spoken |-> 0, spokeYet |-> FALSE, endsCall |-> FALSE,
     suppressed |-> FALSE, committed |-> FALSE]

\* A generator that ran out or was closed: of its locals only the _ReplyProgress
\* lives on, in _revisable.
Exited(g) ==
    [FreshGenerator("user", g.turn, FALSE) EXCEPT !.spoken = g.spoken,
                                                  !.committed = g.committed]

\* Suspension points of a Turn, from its first yield to its last.
TurnPhases == {"transcribing", "measuring", "replying", "announcing", "farewell",
               "signingOff", "completing", "settling", "failing"}
Phases == TurnPhases \cup {"dialled", "between", "over", "recorded"}

Current == orch.turns[gen.turn]
\* utterances(): the Turns that have a line, by their number.
Utterances(o) ==
    LET spoken == {t \in DOMAIN o.turns : o.turns[t].question > 0 \/ ~Silent(o.turns[t])}
    IN  [t \in spoken |-> o.turns[t]]

-----------------------------------------------------------------------------
(* What the orchestrator does with a played position.  Each handler maps the *)
(* object to the object it leaves behind.                                    *)

Cut(g, pos) == IF pos < g.spoken THEN pos ELSE g.spoken

Front(s) == SubSeq(s, 1, Len(s) - 1)

LastReplyIs(o, t) ==
    o.history # <<>> /\ o.history[Len(o.history)] = Reply(t, o.turns[t], FALSE)

\* Mutant of CommitHeard: the Turn is not closed.
CommitHeardStaysOpen(o, t, heard, earlier) ==
    [o EXCEPT !.turns[t] = Trimmed(@, heard),
              !.history = Append(earlier, Reply(t, Trimmed(o.turns[t], heard), TRUE))]

\* _commit_heard: the heard part into the Turn, with a mark into the history.
CommitHeard(o, t, heard, earlier) ==
    [o EXCEPT !.turns[t] = Trimmed(@, heard),
              !.history = Append(earlier, Reply(t, Trimmed(o.turns[t], heard), TRUE)),
              !.reopen = 0]

\* Mutant of ReviseCommittedReply: an unheard reply leaves the Turn but not the history.
ReviseKeepsMessage(o, g, pos) ==
    IF ~g.committed \/ Cut(g, pos) > 0 THEN [o EXCEPT !.revisable = 0]
    ELSE [o EXCEPT !.revisable = 0, !.turns[g.turn] = Unsaid(@), !.reopen = g.turn]

\* _revise_committed_reply: history and Turn trimmed in step, only ever shrinking.
ReviseCommittedReply(o, g, pos) ==
    LET t == g.turn
        heard == Cut(g, pos)
        closed == [o EXCEPT !.revisable = 0]
        stands == g.committed /\ ~Silent(o.turns[t]) /\ LastReplyIs(o, t)
    IN  IF stands /\ heard = 0
        THEN [closed EXCEPT !.turns[t] = Unsaid(@),
                            !.history = Front(@),
                            !.reopen = t]
        ELSE IF stands /\ heard < Length(o.turns[t])
        THEN CommitHeard(closed, t, heard, Front(o.history))
        ELSE closed

NoteLateBargeIn(o, g, pos) ==
    IF o.revisable # 0 THEN ReviseCommittedReply(o, g, pos) ELSE o

NoteBargeIn(o, g, pos) ==
    IF o.revisable # 0 THEN ReviseCommittedReply(o, g, pos)
                       ELSE [o EXCEPT !.bargeIn = pos]

\* The teardown: CancelledError or GeneratorExit at the suspended await or yield.
FinalizeInterrupted(o, g) ==
    LET pos == o.bargeIn
        taken == [o EXCEPT !.bargeIn = AllPlayed]
        heard == Cut(g, pos)
    IN  IF g.committed
        THEN ReviseCommittedReply(taken, g, pos)
        ELSE IF g.spokeYet /\ heard > 0
        THEN CommitHeard(taken, g.turn, heard, o.history)
        ELSE [taken EXCEPT !.turns[g.turn] = Unsaid(@)]

-----------------------------------------------------------------------------
(* Starting a Turn *)

Init ==
    /\ orch = [turns |-> <<>>, history |-> <<>>, reopen |-> 0, revisable |-> 0,
               bargeIn |-> AllPlayed, ended |-> FALSE, repeats |-> 0, said |-> 0,
               activated |-> FALSE]
    /\ gen = FreshGenerator("user", 0, FALSE)
    /\ phase = "dialled"
    /\ parked = FALSE
    /\ abandoned = FALSE
    /\ reason = "none"
    /\ transcript = <<>>
    /\ stored = <<>>
    /\ sent = 0
    /\ report = Unreported
    /\ muddled = FALSE

CanStartTurn == orch.reopen # 0 \/ Len(orch.turns) < MaxTurns

\* Mutant of NewOrReopenedTurn: the open Turn is forgotten.
NewTurnAlways(o, kind) ==
    LET t == Len(o.turns) + 1
    IN  /\ orch' = [o EXCEPT !.turns = Append(@, FreshTurn), !.reopen = t,
                              !.revisable = 0, !.bargeIn = AllPlayed]
        /\ gen' = FreshGenerator(kind, t, FALSE)
        /\ sent' = 0
        /\ report' = Unreported
        /\ UNCHANGED muddled

\* _new_or_reopened_turn, and the fresh _ReplyProgress beside it.
NewOrReopenedTurn(o, kind) ==
    LET reopened == o.reopen # 0
        t == IF reopened THEN o.reopen ELSE Len(o.turns) + 1
    IN  /\ orch' = [o EXCEPT
                      !.turns = IF reopened THEN @ ELSE Append(@, FreshTurn),
                      !.reopen = t, !.revisable = 0, !.bargeIn = AllPlayed]
        /\ gen' = FreshGenerator(kind, t, reopened)
        /\ sent' = 0
        /\ report' = Unreported
        /\ UNCHANGED muddled

\* The Persona picks up a reverse; in an ordinary call the server listens.
OpenCall ==
    /\ phase = "dialled"
    /\ IF Reverse
       THEN /\ NewOrReopenedTurn(orch, "opening")
            /\ phase' = "replying"
       ELSE /\ phase' = "between"
            /\ UNCHANGED <<orch, gen, observed>>
    /\ UNCHANGED endVars

\* PickupWatch.delay_ms has run out: accepted, nobody has spoken, a line left.
SilenceElapses ==
    /\ phase = "between"
    /\ ~Reverse
    /\ orch.activated
    /\ orch.said < Prompts
    /\ \A t \in DOMAIN orch.turns : orch.turns[t].question = 0
    /\ CanStartTurn
    /\ NewOrReopenedTurn([orch EXCEPT !.said = @ + 1], "prompt")
    /\ phase' = "replying"
    /\ UNCHANGED endVars

TurnAudioArrives ==
    /\ phase = "between"
    /\ CanStartTurn
    /\ orch.reopen # 0 => orch.turns[orch.reopen].question < MaxParts
    /\ NewOrReopenedTurn(orch, "user")
    /\ phase' = "transcribing"
    /\ UNCHANGED endVars

Activate ==
    /\ phase \in {"between"} \cup TurnPhases
    /\ ~orch.activated
    /\ orch' = [orch EXCEPT !.activated = TRUE]
    /\ UNCHANGED <<gen, phase, observed, endVars>>

-----------------------------------------------------------------------------
(* The question *)

TranscriptionFails ==
    /\ phase = "transcribing"
    /\ phase' = "failing"
    /\ UNCHANGED <<orch, gen, observed, endVars>>

\* A VAD misfire: a Turn opened for it is taken back, a reopened one stays open.
\* A teardown at the `listening` that follows would touch the taken-back Turn only.
Phantom ==
    /\ phase = "transcribing"
    /\ orch' = IF gen.reopened THEN orch
               ELSE [orch EXCEPT !.turns = Front(@), !.reopen = 0]
    /\ phase' = "between"
    /\ gen' = Exited(gen)
    /\ UNCHANGED <<observed, endVars>>

Transcribed(asks) ==
    LET t == gen.turn
        extends == gen.reopened /\ orch.turns[t].question > 0
        n == IF extends THEN orch.turns[t].question + 1 ELSE 1
        last == Len(orch.history)
    IN  /\ phase = "transcribing"
        /\ orch' = [orch EXCEPT
             !.turns[t] = Asked(@, n, asks),
             \* extend_question rewrites the last message, whatever its role.
             !.history = IF extends
                         THEN [@ EXCEPT ![last] = [Question(t, n) EXCEPT !.role = orch.history[last].role]]
                         ELSE Append(@, Question(t, n))]
        /\ phase' = "measuring"
        /\ UNCHANGED <<gen, observed, endVars>>

\* The measurements are in; what the question asks for is read off its whole text.
Measured(closing) ==
    LET repeats == IF ~orch.turns[gen.turn].asks THEN 0
                   ELSE IF orch.repeats < 2 THEN orch.repeats + 1 ELSE 2
    IN  /\ phase = "measuring"
        /\ orch' = [orch EXCEPT !.repeats = repeats]
        /\ gen' = [gen EXCEPT !.closing = closing,
                              !.normal = ~closing /\ repeats # 1]
        /\ phase' = "replying"
        /\ UNCHANGED <<observed, endVars>>

-----------------------------------------------------------------------------
(* The reply: model output, synthesis, retries *)

Guarded == gen.normal /\ gen.round = 0
HasReplied == \E i \in DOMAIN orch.history : orch.history[i].role = "assistant"

\* The next chunk's first audio.  Its words count from here on; the first chunk
\* of a reply waits for `speaking` to go out.  A marker stops the stream.
ChunkVoiced(marker) ==
    /\ phase = "replying"
    /\ ~gen.endsCall
    /\ gen.spoken < MaxChunks
    /\ gen.kind = "prompt" => gen.spoken = 0 /\ ~marker
    /\ orch' = [orch EXCEPT !.turns[gen.turn] = OneChunkMore(@)]
    /\ gen' = [gen EXCEPT !.spoken = @ + 1, !.endsCall = marker]
    /\ IF gen.spokeYet THEN phase' = phase /\ sent' = sent + 1
                       ELSE phase' = "announcing" /\ sent' = sent
    /\ UNCHANGED <<report, muddled, endVars>>

SpeakingAnnounced ==
    /\ phase = "announcing"
    /\ gen' = [gen EXCEPT !.spokeYet = TRUE]
    /\ sent' = sent + 1
    /\ phase' = "replying"
    /\ UNCHANGED <<orch, report, muddled, endVars>>

SynthesisFails ==
    /\ phase = "replying"
    /\ phase' = "failing"
    /\ UNCHANGED <<orch, gen, observed, endVars>>

\* A chunk that was the end marker and nothing else.
MarkerAlone ==
    /\ phase = "replying"
    /\ gen.kind # "prompt"
    /\ ~gen.endsCall
    /\ gen' = [gen EXCEPT !.endsCall = TRUE]
    /\ UNCHANGED <<orch, phase, observed, endVars>>

\* The repeat or echo filter emptied a chunk.
ChunkSuppressed ==
    /\ phase = "replying"
    /\ gen.kind = "user"
    /\ ~gen.endsCall
    /\ gen' = [gen EXCEPT !.suppressed = TRUE]
    /\ UNCHANGED <<orch, phase, observed, endVars>>

\* _RegenerateReply: a bad opening, or nothing left after the filters.
Regenerate ==
    /\ phase = "replying"
    /\ gen.kind = "user"
    /\ Guarded
    /\ ~gen.spokeYet
    /\ HasReplied \/ gen.suppressed
    /\ orch' = [orch EXCEPT !.turns[gen.turn] = Unsaid(@)]
    /\ gen' = [gen EXCEPT !.round = 1, !.attempt = 0, !.endsCall = FALSE, !.suppressed = FALSE]
    /\ UNCHANGED <<phase, observed, endVars>>

\* Mutant of CompletionFails: the retry does not ask whether audio went out.
CompletionFailsRetriesAnyway(error) ==
    /\ phase = "replying" /\ gen.kind # "prompt" /\ ~gen.endsCall
    /\ ~error => Silent(Current) /\ ~gen.suppressed
    /\ IF gen.attempt = 1
       THEN phase' = "failing" /\ UNCHANGED <<orch, gen>>
       ELSE /\ orch' = [orch EXCEPT !.turns[gen.turn] = Unsaid(@)]
            /\ gen' = [gen EXCEPT !.attempt = 1]
            /\ UNCHANGED phase
    /\ UNCHANGED <<observed, endVars>>

\* Mutant of CompletionFails: attempts are not counted.
CompletionFailsRetriesForever(error) ==
    /\ phase = "replying" /\ gen.kind # "prompt" /\ ~gen.endsCall
    /\ ~error => Silent(Current) /\ ~gen.suppressed
    /\ IF gen.spokeYet
       THEN phase' = "failing" /\ UNCHANGED <<orch, gen>>
       ELSE /\ orch' = [orch EXCEPT !.turns[gen.turn] = Unsaid(@)]
            /\ gen' = [gen EXCEPT !.attempt = 1 - @]
            /\ UNCHANGED phase
    /\ UNCHANGED <<observed, endVars>>

\* Mutant of CompletionFails: one attempt too many.
CompletionFailsRetriesTwice(error) ==
    /\ phase = "replying" /\ gen.kind # "prompt" /\ ~gen.endsCall
    /\ ~error => Silent(Current) /\ ~gen.suppressed
    /\ IF gen.spokeYet \/ gen.attempt = 2
       THEN phase' = "failing" /\ UNCHANGED <<orch, gen>>
       ELSE /\ orch' = [orch EXCEPT !.turns[gen.turn] = Unsaid(@)]
            /\ gen' = [gen EXCEPT !.attempt = @ + 1]
            /\ UNCHANGED phase
    /\ UNCHANGED <<observed, endVars>>

\* A request error, or a completion without a word: one retry, before any audio.
CompletionFails(error) ==
    /\ phase = "replying"
    /\ gen.kind # "prompt"
    /\ ~gen.endsCall
    /\ ~error => Silent(Current) /\ ~gen.suppressed
    /\ IF gen.spokeYet \/ gen.attempt = 1
       THEN /\ phase' = "failing"
            /\ UNCHANGED <<orch, gen>>
       ELSE /\ orch' = [orch EXCEPT !.turns[gen.turn] = Unsaid(@)]
            /\ gen' = [gen EXCEPT !.attempt = 1]
            /\ UNCHANGED phase
    /\ UNCHANGED <<observed, endVars>>

\* The stream is done: checks.ending, the commit, and whether the fixed closing
\* line must follow.  `looping` and `goodbye` are the verdicts on the words.
ReplyFinished(looping, goodbye) ==
    LET marker == gen.endsCall \/ (Silent(Current) /\ gen.suppressed)
        ends == marker \/ gen.closing \/ looping \/ goodbye
        needsFallback == ends /\ (Silent(Current) \/ looping \/ (marker /\ ~gen.closing))
    IN  /\ phase = "replying"
        /\ gen.kind # "prompt"
        /\ Silent(Current) => marker
        /\ ~(Guarded /\ gen.suppressed /\ ~gen.spokeYet)
        /\ looping => ~Silent(Current)
        /\ goodbye => ~Silent(Current) /\ ~marker
        /\ orch' = [orch EXCEPT !.history = Append(@, Reply(gen.turn, Current, FALSE)),
                                !.ended = @ \/ ends]
        /\ gen' = [gen EXCEPT !.committed = TRUE, !.endsCall = marker]
        /\ phase' = IF needsFallback THEN "farewell" ELSE "completing"
        /\ UNCHANGED <<observed, endVars>>

PromptFinished ==
    /\ phase = "replying"
    /\ gen.kind = "prompt"
    /\ gen.spokeYet
    /\ orch' = [orch EXCEPT !.history = Append(@, Reply(gen.turn, Current, FALSE)),
                            !.reopen = 0]
    /\ gen' = [gen EXCEPT !.committed = TRUE]
    /\ phase' = "completing"
    /\ UNCHANGED <<observed, endVars>>

-----------------------------------------------------------------------------
(* The end of a reply *)

FarewellSynthesized ==
    /\ phase = "farewell"
    /\ gen' = [gen EXCEPT !.spokeYet = TRUE]
    /\ phase' = "signingOff"
    /\ UNCHANGED <<orch, observed, endVars>>

FarewellFails ==
    /\ phase = "farewell"
    /\ phase' = "completing"
    /\ UNCHANGED <<orch, gen, observed, endVars>>

\* Its audio is out; only now do its words join the Turn and the history.
FarewellSent ==
    LET turn == [Current EXCEPT !.farewell = TRUE]
        last == Len(orch.history)
    IN  /\ phase = "signingOff"
        /\ orch' = [orch EXCEPT !.turns[gen.turn] = turn,
                                !.history[last] = [@ EXCEPT !.words = turn.words,
                                                            !.farewell = TRUE,
                                                            !.mark = FALSE]]
        /\ phase' = "completing"
        /\ UNCHANGED <<gen, observed, endVars>>

\* Leaving the loop: the transcript is taken before anything else can run.
Over(why, o, left) ==
    /\ phase' = "over"
    /\ reason' = why
    /\ parked' = left
    /\ abandoned' = left
    /\ transcript' = Utterances(o)
    /\ UNCHANGED stored

\* turn.completed went out.  On an ending the forwarder stops there, and the
\* generator stays suspended at its yield.
Completed ==
    /\ phase = "completing"
    /\ IF orch.ended
       THEN Over("completed", orch, TRUE) /\ UNCHANGED orch
       ELSE /\ orch' = [orch EXCEPT !.revisable = gen.turn]
            /\ phase' = "settling"
            /\ UNCHANGED endVars
    /\ UNCHANGED <<gen, observed>>

\* Mutant of Settled: the Turn stays open after its reply.
SettledStaysOpen ==
    /\ phase = "settling"
    /\ gen' = Exited(gen)
    /\ phase' = "between"
    /\ UNCHANGED <<orch, observed, endVars>>

\* `listening` went out and the generator ran to its end.
Settled ==
    /\ phase = "settling"
    /\ orch' = [orch EXCEPT !.reopen = IF gen.kind = "prompt" THEN @ ELSE 0]
    /\ gen' = Exited(gen)
    /\ phase' = "between"
    /\ UNCHANGED <<observed, endVars>>

\* The error frame went out; the generator stays suspended at its yield.
FailureSent ==
    /\ phase = "failing"
    /\ Over("error", orch, TRUE)
    /\ UNCHANGED <<orch, gen, observed>>

-----------------------------------------------------------------------------
(* The client *)

\* Mutant of Interrupt: the teardown runs before the position is noted.
InterruptTearsDownFirst(pos) ==
    LET o == NoteBargeIn(FinalizeInterrupted(orch, gen), gen, pos)
    IN  /\ phase \in TurnPhases
        /\ orch' = o
        /\ report' = IF report = Unreported THEN pos ELSE report
        /\ muddled' = (muddled \/ (o.reopen # 0 /\ ~Silent(o.turns[o.reopen])))
        /\ IF o.ended THEN Over("completed", o, FALSE)
                      ELSE phase' = "between" /\ UNCHANGED endVars
        /\ gen' = Exited(gen)
        /\ UNCHANGED sent

\* Mutant of Interrupt: the call goes on over its goodbye.
InterruptRevives(pos) ==
    LET o == FinalizeInterrupted(NoteBargeIn(orch, gen, pos), gen)
    IN  /\ phase \in TurnPhases
        /\ orch' = o
        /\ report' = IF report = Unreported THEN pos ELSE report
        /\ muddled' = (muddled \/ (o.reopen # 0 /\ ~Silent(o.turns[o.reopen])))
        /\ phase' = "between"
        /\ gen' = Exited(gen)
        /\ UNCHANGED <<sent, endVars>>

\* turn.interrupt while a Turn runs: the position first, then the teardown.
Interrupt(pos) ==
    LET o == FinalizeInterrupted(NoteBargeIn(orch, gen, pos), gen)
    IN  /\ phase \in TurnPhases
        /\ orch' = o
        /\ report' = IF report = Unreported THEN pos ELSE report
        /\ muddled' = (muddled \/ (o.reopen # 0 /\ ~Silent(o.turns[o.reopen])))
        /\ IF o.ended THEN Over("completed", o, FALSE)
                      ELSE phase' = "between" /\ UNCHANGED endVars
        /\ gen' = Exited(gen)
        /\ UNCHANGED sent

\* turn.interrupt between Turns, over the tail still playing.
LateInterrupt(pos) ==
    /\ phase = "between"
    /\ orch' = NoteLateBargeIn(orch, gen, pos)
    /\ report' = IF report = Unreported THEN pos ELSE report
    /\ UNCHANGED <<gen, phase, sent, muddled, endVars>>

\* Mutant of Leave: the generator is left to run on.
LeaveWithoutTeardown(why) ==
    /\ phase \in {"between"} \cup TurnPhases
    /\ phase' = "over" /\ reason' = why
    /\ parked' = (phase \in TurnPhases) /\ abandoned' = FALSE
    /\ transcript' = Utterances(orch)
    /\ UNCHANGED <<orch, gen, stored, observed>>

\* session.end, or a lost connection; during a Turn after tearing it down.
Leave(why) ==
    LET o == IF phase \in TurnPhases THEN FinalizeInterrupted(orch, gen) ELSE orch
    IN  /\ phase \in {"between"} \cup TurnPhases
        /\ orch' = o
        /\ gen' = IF phase \in TurnPhases THEN Exited(gen) ELSE gen
        /\ Over(why, o, FALSE)
        /\ UNCHANGED observed

TimeLimit ==
    /\ phase = "between"
    /\ Over("completed", orch, FALSE)
    /\ UNCHANGED <<orch, gen, observed>>

-----------------------------------------------------------------------------
(* After the loop *)

\* The event loop closes the abandoned generator, which finalizes its Turn.
CloseParked ==
    /\ parked
    /\ orch' = FinalizeInterrupted(orch, gen)
    /\ gen' = Exited(gen)
    /\ parked' = FALSE
    /\ UNCHANGED <<phase, abandoned, reason, transcript, stored, observed>>

\* persist_session, in a worker thread, reads the same Turns.
Record ==
    /\ phase = "over"
    /\ stored' = Utterances(orch)
    /\ phase' = "recorded"
    /\ UNCHANGED <<orch, gen, parked, abandoned, reason, transcript, observed>>

Finished ==
    /\ phase = "recorded" /\ ~parked
    /\ UNCHANGED vars

-----------------------------------------------------------------------------
(* The specification *)

\* What the server does by itself: every leg answers, fails or times out.
Machine ==
    \/ OpenCall
    \/ TranscriptionFails \/ Phantom
    \/ \E b \in BOOLEAN : Transcribed(b) \/ Measured(b) \/ ChunkVoiced(b) \/ CompletionFails(b)
    \/ SpeakingAnnounced \/ SynthesisFails \/ MarkerAlone \/ ChunkSuppressed \/ Regenerate
    \/ \E looping, goodbye \in BOOLEAN : ReplyFinished(looping, goodbye)
    \/ PromptFinished
    \/ FarewellSynthesized \/ FarewellFails \/ FarewellSent
    \/ Completed \/ Settled \/ FailureSent
    \/ CloseParked \/ Record

Client ==
    \/ SilenceElapses \/ TurnAudioArrives \/ Activate
    \/ \E pos \in Position : Interrupt(pos) \/ LateInterrupt(pos)
    \/ \E why \in {"user", "disconnected"} : Leave(why)
    \/ TimeLimit

Next == Machine \/ Client \/ Finished

Spec == Init /\ [][Next]_vars
\* Every leg of the pipeline has a timeout and a bounded retry, and the event loop
\* runs what is scheduled; nothing is assumed of the client.
FairSpec == Spec /\ WF_vars(Machine)

-----------------------------------------------------------------------------
(* Properties *)

\* Every variable keeps its type, and a retried reply counts at most one retry.
TypeOK ==
    /\ orch \in Orchestrator
    /\ gen \in Generator
    /\ phase \in Phases
    /\ parked \in BOOLEAN
    /\ abandoned \in BOOLEAN
    /\ reason \in {"none", "user", "completed", "error", "disconnected"}
    /\ \A t \in DOMAIN transcript : transcript[t] \in Turn
    /\ \A t \in DOMAIN stored : stored[t] \in Turn
    /\ sent \in Nat
    /\ report \in 0..Unreported
    /\ muddled \in BOOLEAN

\* The committed Turns and the message record never drift apart (history.py: "holds
\* only what the user heard"; orchestrator: "trimmed in step"): every message is
\* its Turn's current text, a reply is marked exactly when its Turn is interrupted,
\* and the messages stand in Turn order with the question first.
MessagesAreCurrent ==
    \A i \in DOMAIN orch.history :
       LET m == orch.history[i]
       IN  /\ m.turn \in DOMAIN orch.turns
           /\ IF m.role = "user"
              THEN m = Question(m.turn, orch.turns[m.turn].question)
              ELSE m = Reply(m.turn, orch.turns[m.turn], orch.turns[m.turn].interrupted)
MessagesInTurnOrder ==
    \A i, j \in DOMAIN orch.history :
       i < j => \/ orch.history[i].turn < orch.history[j].turn
                \/ /\ orch.history[i].turn = orch.history[j].turn
                   /\ orch.history[i].role = "user"
                   /\ orch.history[j].role = "assistant"
HistoryFollowsTurns == ~muddled => MessagesAreCurrent /\ MessagesInTurnOrder

\* Whatever was torn down, retried or taken back, a Turn that is no longer the last
\* one has its reply: no question is left behind unanswered, and the Turn the next
\* utterance would reopen is the last one.
EarlierTurnsAnswered ==
    /\ \A t \in DOMAIN orch.turns : t < Len(orch.turns) => ~Silent(orch.turns[t])
    /\ orch.reopen \in {0, Len(orch.turns)}

\* history.py:29: a question is only ever extended while it is the last message.
ExtendsOnlyTheQuestion ==
    LET q == orch.turns[orch.reopen].question
    IN  (phase = "between" /\ orch.reopen # 0) =>
        (q > 0 => /\ orch.history # <<>>
                  /\ orch.history[Len(orch.history)] = Question(orch.reopen, q))

\* The one way to break that: a Turn torn down between its commit and its last
\* yield, its reply heard in full, is left open although nothing was dropped.
QuestionIsLast == ~muddled => ExtendsOnlyTheQuestion

\* A barge-in over the goodbye must not revive the call (orchestrator.py:171): once
\* the Persona has ended it, no Turn runs and the server never listens again.
EndedNeverRevived ==
    orch.ended => phase \in {"farewell", "signingOff", "completing", "over", "recorded"}

\* Only what was heard stays (ADR 0035): a reply the user talked over keeps no more
\* than the first position reported for it, whichever of the four paths trimmed it.
OnlyHeardIsKept ==
    (~muddled /\ phase \in {"between", "over", "recorded"} /\ gen.turn \in DOMAIN orch.turns)
      => Current.words <= report

\* No retry or regeneration drops words the socket has already sounded, and no reply
\* is committed with words that never were: a finished reply is what was dispatched.
ReplyIsWhatWasSent ==
    ~muddled /\ phase \in {"replying", "farewell", "signingOff", "completing", "settling"}
      => Current.words = sent

\* A call the client left or lost, one whose goodbye was talked over, and one that ran into
\* its time limit are stored as they were told: the teardown comes before the transcript
\* (session_ws.py:356).  Only a forwarder that returned by itself leaves a generator behind.
TornDownCallStoredAsTold == (phase = "recorded" /\ ~abandoned) => stored = transcript

\* A trimmed reply is final: no later interrupt, teardown, fallback line or stale
\* re-entry touches it again ("only ever shrinking").
TrimmedRepliesAreFinal ==
    [][\A t \in DOMAIN orch.turns :
         orch.turns[t].interrupted =>
            t \in DOMAIN orch'.turns /\ orch'.turns[t] = orch.turns[t]]_vars

\* A Turn the server took up comes to an end: it listens again or the call is over.
TurnsSettle == phase \in TurnPhases ~> phase \in {"between", "over", "recorded"}

\* What the code's comments promise and the code does not keep (see README.md).

\* session_ws.py:356: nothing mutates the Turns while `_record` reads them.
RecordedTurnsAtRest == [][phase = "over" => orch'.turns = orch.turns]_vars

\* events.py:31: a leg failed past its retry ends the Session.
FailedEndsTheSession == [][phase = "failing" => phase' \in {"failing", "over"}]_vars

=============================================================================
