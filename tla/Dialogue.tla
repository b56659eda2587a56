-------------------------------- MODULE Dialogue --------------------------------
(***************************************************************************)
(* What is said in one call, sentence by sentence: the model's chunks on   *)
(* their way through the guards of backend/session/orchestrator.py, the    *)
(* verdicts that end the call, the instruction each reply is asked for     *)
(* with, and the caller's notes (backend/session/call_notes.py), rewritten *)
(* in the background while the user talks over what they record.           *)
(*                                                                         *)
(* LiveCall has the same call seen from the connection: where the          *)
(* generator is suspended when a barge-in, a hang-up or a lost connection  *)
(* reaches it.  Here a barge-in comes between two chunks or after the      *)
(* reply, and cuts it at a sentence or inside one.                         *)
(***************************************************************************)
EXTENDS ReplyChecks, Prompting

CONSTANTS Scenarios,     \* the cases a call may be about
          Questions,     \* what an utterance asks for
          Chunks,        \* what the model may send between two sentence boundaries
          PickupPrompts, \* "Hallo?" lines of the language pack
          MaxTurns,      \* bound: Turns of one call
          MaxParts,      \* bound: utterances joined into one question
          MaxSentences   \* bound: voiced sentences of one reply

ASSUME DialogueAssumption ==
    /\ Scenarios \subseteq Scenario
    /\ Questions \subseteq [asks: BOOLEAN, closes: BOOLEAN]
    /\ \A chunk \in Chunks : chunk \in Seq(Sentence) /\ chunk # <<>>
    /\ PickupPrompts \in Nat
    /\ {MaxTurns, MaxParts, MaxSentences} \subseteq Nat \ {0}

VARIABLES
    scenario,  \* the Scenario and Persona of the call
    system,    \* the system prompt, History's first message
    turns,     \* the Turns
    replies,   \* history.replies(): what the user heard of each
    reopen,    \* _reopen_turn, 0 for None
    revisable, \* the Turn of _revisable, 0 for None
    repeats,   \* _repeat_requests_in_a_row, told apart up to 2
    prompted,  \* PickupWatch._said
    reply,     \* the reply being made: _ReplyProgress and the loop variables
    phase,     \* "listening", "replying", "over"
    ended,     \* the reply that ended the call, <<>> before
    notes,     \* CallNotes
    lost       \* observation: Turns a refresh failed for, or was cancelled by the next

vars == <<scenario, system, turns, replies, reopen, revisable, repeats, prompted,
          reply, phase, ended, notes, lost>>

-----------------------------------------------------------------------------
(* Data *)

Turn == [parts: 0..MaxParts,     \* utterances in user_text
         asks: BOOLEAN,          \* user_text asks for a repetition
         closes: BOOLEAN,        \* user_text signals the end of the call
         text: Seq(Sentence),    \* persona_text
         interrupted: BOOLEAN,
         exempt: BOOLEAN]        \* observation: made without the repetition filters
FreshTurn == [parts |-> 0, asks |-> FALSE, closes |-> FALSE, text |-> <<>>,
              interrupted |-> FALSE, exempt |-> FALSE]

\* One exchange, as the notes hold it.
Exchange(t, text) == [turn |-> t, parts |-> turns[t].parts, text |-> text]

\* A refresh under way: the notes it started from and the exchange it adds.
Idle == <<>>
Refresh(base, exchange) == <<[base |-> base, exchange |-> exchange]>>

FreshReply(t, instruction, closing, allow, cutOff) ==
    [turn |-> t, instruction |-> instruction, closing |-> closing,
     allow |-> allow,                       \* allow_repetition
     normal |-> ~closing /\ ~allow,         \* filter_repeats
     said |-> IF ~closing /\ ~allow THEN SaidSentences(replies) ELSE {},
     cutOff |-> IF ~closing /\ ~allow THEN cutOff ELSE <<>>,
     round |-> 0, attempt |-> 0, first |-> TRUE, endsCall |-> FALSE, suppressed |-> FALSE]
NoReply == [FreshReply(0, NoInstruction, FALSE, FALSE, <<>>) EXCEPT !.said = {}]

Spoken == turns[reply.turn].text
SpokeYet == Spoken # <<>>
Guarded == reply.normal /\ reply.round = 0

\* _persona_has_opened: a reply other than the "Hallo?" prompts stands.
HasOpened ==
    \E i \in DOMAIN replies : \E s \in InText(replies[i].text) : s.text # "hallo"

\* _interrupted_previous_turn, and the sentence it was cut off in.
Interrupted(t) ==
    \E u \in 1..(t - 1) :
        /\ turns[u].text # <<>>
        /\ turns[u].interrupted
        /\ \A v \in (u + 1)..(t - 1) : turns[v].text = <<>>
CutOffSentence(t) ==
    IF ~Interrupted(t) THEN <<>>
    ELSE LET u == CHOOSE u \in 1..(t - 1) :
                     /\ turns[u].text # <<>>
                     /\ \A v \in (u + 1)..(t - 1) : turns[v].text = <<>>
         IN  <<LastSentence(turns[u].text)>>

\* What may be heard of a text: n sentences, and perhaps the start of a longer one.
Cuts(text) ==
    {SubSeq(text, 1, n) : n \in 0..Len(text)} \cup
    {Append(SubSeq(text, 1, n - 1), [text[n] EXCEPT !.whole = FALSE]) :
        n \in {k \in DOMAIN text : IsPoint(text[k])}}

-----------------------------------------------------------------------------
(* call_notes.py.  A summary is taken to keep what it is given: the notes are *)
(* the set of the exchanges they were made from.                              *)

NoNotes == [text |-> {}, base |-> {}, turn |-> 0, task |-> Idle]

\* Mutant of RefreshNotes: a second refresh of an exchange starts from the first.
RefreshFromText(t, text) ==
    IF turns[t].parts = 0 \/ text = <<>>
    THEN UNCHANGED <<notes, lost>>
    ELSE /\ notes' = [notes EXCEPT !.base = notes.text, !.turn = t,
                                   !.task = Refresh(notes.text, Exchange(t, text))]
         /\ lost' = IF notes.task # Idle /\ notes.task[1].exchange.turn # t
                    THEN lost \cup {notes.task[1].exchange.turn} ELSE lost

\* refresh(): the first of an exchange moves the base on, the next replaces it.
RefreshNotes(t, text) ==
    LET base == IF notes.turn # t THEN notes.text ELSE notes.base
    IN  IF turns[t].parts = 0 \/ text = <<>>
        THEN UNCHANGED <<notes, lost>>
        ELSE /\ notes' = [notes EXCEPT !.base = base, !.turn = t,
                                       !.task = Refresh(base, Exchange(t, text))]
             /\ lost' = IF notes.task # Idle /\ notes.task[1].exchange.turn # t
                        THEN lost \cup {notes.task[1].exchange.turn} ELSE lost

\* discard(): the reply was dropped whole.
DiscardNotes(t) ==
    /\ notes' = IF notes.turn # t THEN notes
                ELSE [notes EXCEPT !.text = notes.base, !.turn = 0, !.task = Idle]
    /\ UNCHANGED lost

\* _summarise comes back with notes: from the base, never from the last try.
NotesArrive ==
    /\ notes.task # Idle
    /\ notes' = [notes EXCEPT !.text = notes.task[1].base \cup {notes.task[1].exchange},
                              !.task = Idle]
    /\ UNCHANGED <<scenario, system, turns, replies, reopen, revisable, repeats, prompted,
                   reply, phase, ended, lost>>

\* _summarise fails, or comes back with nothing: the notes stay as they are.
NotesFail ==
    /\ notes.task # Idle
    /\ lost' = lost \cup {notes.task[1].exchange.turn}
    /\ notes' = [notes EXCEPT !.task = Idle]
    /\ UNCHANGED <<scenario, system, turns, replies, reopen, revisable, repeats, prompted,
                   reply, phase, ended>>

-----------------------------------------------------------------------------
(* Starting a Turn *)

\* An ordinary call waits for the user; in a reverse the Persona picks up.
Init ==
    /\ scenario \in Scenarios
    /\ system = SystemPrompt(scenario)
    /\ turns = IF scenario.reverse THEN <<FreshTurn>> ELSE <<>>
    /\ replies = <<>>
    /\ reopen = IF scenario.reverse THEN 1 ELSE 0
    /\ revisable = 0
    /\ repeats = 0
    /\ prompted = 0
    /\ reply = IF scenario.reverse THEN FreshReply(1, Opening, FALSE, FALSE, <<>>)
                                   ELSE NoReply
    /\ phase = IF scenario.reverse THEN "replying" ELSE "listening"
    /\ ended = <<>>
    /\ notes = NoNotes
    /\ lost = {}

\* Mutant of CountRequests: a Turn that asks for nothing does not end the row.
CountRequestsEver(asks) ==
    IF ~asks THEN repeats ELSE IF repeats < 2 THEN repeats + 1 ELSE 2

\* _repeat_requests_in_a_row: counted off the whole text, however often it is read.
CountRequests(asks) ==
    IF ~asks THEN 0 ELSE IF repeats < 2 THEN repeats + 1 ELSE 2

\* _messages_for_turn: the opening is owed until it stands.
InstructionFor(t, closing, requests) ==
    IF ~scenario.reverse /\ ~HasOpened THEN Opening
    ELSE ForTurn(scenario, closing, Interrupted(t), requests, Len(replies))

\* run_turn up to the request to the model; a reopened Turn is read as a whole.
UserSpeaks(asks, closes) ==
    LET reopened == reopen # 0
        t == IF reopened THEN reopen ELSE Len(turns) + 1
        old == IF reopened THEN turns[t] ELSE FreshTurn
        turn == [old EXCEPT !.parts = @ + 1, !.asks = old.asks \/ asks,
                            !.closes = old.closes \/ closes]
        requests == CountRequests(turn.asks)
    IN  /\ phase = "listening"
        /\ t <= MaxTurns /\ old.parts < MaxParts
        /\ turns' = IF reopened THEN [turns EXCEPT ![t] = turn] ELSE Append(turns, turn)
        /\ reopen' = t
        /\ revisable' = 0
        /\ repeats' = requests
        /\ reply' = FreshReply(t, InstructionFor(t, turn.closes, requests), turn.closes,
                               requests = 1, CutOffSentence(t))
        /\ phase' = "replying"
        /\ UNCHANGED <<scenario, system, replies, prompted, ended, notes, lost>>

\* run_pickup_prompt: a fixed line into a silence nobody has spoken in.
PickupPrompt ==
    LET t == IF reopen # 0 THEN reopen ELSE Len(turns) + 1
        line == <<Whole("hallo")>>
        turn == [FreshTurn EXCEPT !.text = line]
    IN  /\ phase = "listening"
        /\ ~scenario.reverse
        /\ prompted < PickupPrompts
        /\ \A u \in DOMAIN turns : turns[u].parts = 0
        /\ t < MaxTurns
        /\ turns' = IF reopen # 0 THEN [turns EXCEPT ![t] = turn] ELSE Append(turns, turn)
        /\ replies' = Append(replies, [text |-> line, mark |-> FALSE])
        /\ reopen' = 0
        /\ revisable' = t
        /\ prompted' = prompted + 1
        /\ UNCHANGED <<scenario, system, repeats, reply, phase, ended, notes, lost>>

-----------------------------------------------------------------------------
(* The end of the call on the server's side: close() cancels the refresh. *)

CallOver ==
    /\ phase' = "over"
    /\ reply' = NoReply
    /\ notes' = [notes EXCEPT !.task = Idle]
    /\ UNCHANGED lost

\* A leg of the reply failed for good.
Failed ==
    /\ CallOver
    /\ UNCHANGED <<scenario, system, turns, replies, reopen, revisable, repeats, prompted,
                   ended>>

-----------------------------------------------------------------------------
(* The reply: one chunk through _guard_opening, _clean_chunk and _speak *)

\* The opening checks drop the user's words read back and the end of the cut-off
\* sentence, on the first chunk that has words.
Opened(chunk) ==
    LET own == IF turns[reply.turn].parts > 0 THEN StripEchoedPrefix(chunk) ELSE chunk
        resumed == reply.cutOff # <<>> /\ own # <<>> /\ Head(own) = Whole("tail")
    IN  IF ~reply.first THEN chunk
        ELSE IF resumed THEN WithoutFirstSentence(own) ELSE own

\* A re-greeting or a first sentence already said.
RestartsTheCall(chunk) ==
    /\ reply.first /\ Guarded /\ Opened(chunk) # <<>>
    /\ \/ HasOpened /\ Reintroduces(Opened(chunk), replies)
       \/ RepeatsEarlierOpening(Opened(chunk), replies)

\* Mutant of Cleaned: a reply asked for again is not filtered.
CleanedOnce(chunk) ==
    IF reply.normal /\ reply.round = 0
    THEN DropResumedSentences(DropSaidSentences(Opened(chunk), reply.said), reply.cutOff)
    ELSE Opened(chunk)

\* _drop_repeats: what has been said, and the cut-off sentence from its start.
Cleaned(chunk) ==
    IF reply.normal
    THEN DropResumedSentences(DropSaidSentences(Opened(chunk), reply.said), reply.cutOff)
    ELSE Opened(chunk)

\* An unprompted marker counts only once the reply no longer presses.
Marked(chunk, marker) ==
    marker /\ (reply.closing \/ ~StillPressing(Spoken \o Cleaned(chunk)))

\* _RegenerateReply: once, before any audio, with the rejected opening quoted.
AskAgain ==
    /\ reply' = [reply EXCEPT !.round = 1, !.attempt = 0, !.first = TRUE,
                              !.endsCall = FALSE, !.suppressed = FALSE]
    /\ UNCHANGED <<scenario, system, turns, replies, reopen, revisable, repeats, prompted,
                   phase, ended, notes, lost>>

StreamOpen == phase = "replying" /\ ~reply.endsCall

ChunkRestarts(chunk) ==
    /\ StreamOpen
    /\ RestartsTheCall(chunk)
    /\ AskAgain

\* A chunk that is voiced, or emptied and not heard.
ChunkArrives(chunk, marker) ==
    LET t == reply.turn
        text == Cleaned(chunk)
    IN  /\ StreamOpen
        /\ ~RestartsTheCall(chunk)
        /\ Len(Spoken \o text) <= MaxSentences
        /\ reply' = [reply EXCEPT !.first = @ /\ text = <<>>,
                                  !.endsCall = Marked(chunk, marker),
                                  !.suppressed = @ \/ text = <<>>]
        /\ turns' = [turns EXCEPT ![t].text = @ \o text, ![t].exempt = ~reply.normal]
        /\ UNCHANGED <<scenario, system, replies, reopen, revisable, repeats, prompted,
                       phase, ended, notes, lost>>

SynthesisFails ==
    /\ StreamOpen
    /\ Failed

\* An LLM error, or a reply with no words that is no ending: one retry, and only
\* before any audio.
StreamBreaks ==
    /\ phase = "replying" /\ ~reply.endsCall
    /\ \/ /\ ~SpokeYet /\ reply.attempt = 0
          /\ reply' = [reply EXCEPT !.attempt = 1, !.first = TRUE]
          /\ UNCHANGED <<scenario, system, turns, replies, reopen, revisable, repeats,
                         prompted, phase, ended, notes, lost>>
       \/ /\ SpokeYet \/ reply.attempt = 1
          /\ Failed

\* The guards left nothing of the first attempt.
NothingButRepeats ==
    /\ phase = "replying"
    /\ Guarded /\ reply.suppressed /\ ~SpokeYet
    /\ AskAgain

\* The finished reply is committed and judged.  A wordless one is an ending when
\* it was the marker alone or nothing but repeats.
ReplyDone ==
    LET t == reply.turn
        marker == reply.endsCall \/ (~SpokeYet /\ reply.suppressed)
        ending == Ending(Spoken, replies, marker, reply.closing, reply.allow)
    IN  /\ phase = "replying"
        /\ SpokeYet \/ (marker /\ ~(Guarded /\ reply.suppressed))
        /\ reopen' = 0
        /\ IF ending.ends
           THEN \E signedOff \in IF ending.needsFallback THEN BOOLEAN ELSE {FALSE} :
                  LET text == IF signedOff THEN Append(Spoken, Whole("signoff")) ELSE Spoken
                  IN  /\ turns' = [turns EXCEPT ![t].text = text]
                      /\ replies' = Append(replies, [text |-> text, mark |-> FALSE])
                      /\ ended' = <<[turn |-> t, instruction |-> reply.instruction.kind,
                                     unvoiced |-> ending.needsFallback /\ ~signedOff]>>
                      /\ CallOver
                      /\ UNCHANGED revisable
           ELSE /\ replies' = Append(replies, [text |-> Spoken, mark |-> FALSE])
                /\ RefreshNotes(t, Spoken)
                /\ revisable' = t
                /\ phase' = "listening"
                /\ reply' = NoReply
                /\ UNCHANGED <<turns, ended>>
        /\ UNCHANGED <<scenario, system, repeats, prompted>>

-----------------------------------------------------------------------------
(* A barge-in *)

Trimmed(t, heard) == [turns EXCEPT ![t].text = heard, ![t].interrupted = TRUE]

\* _finalize_interrupted: only what was heard stands; nothing heard leaves the
\* Turn open.
TalkedOver(heard) ==
    LET t == reply.turn
    IN  /\ phase = "replying"
        /\ heard \in Cuts(Spoken)
        /\ phase' = "listening"
        /\ reply' = NoReply
        /\ IF heard # <<>>
           THEN /\ turns' = Trimmed(t, heard)
                /\ replies' = Append(replies, [text |-> heard, mark |-> TRUE])
                /\ reopen' = 0
                /\ RefreshNotes(t, heard)
           ELSE /\ turns' = [turns EXCEPT ![t].text = <<>>]
                /\ UNCHANGED <<replies, reopen, notes, lost>>
        /\ UNCHANGED <<scenario, system, revisable, repeats, prompted, ended>>

\* _revise_committed_reply: the user talks over the tail still playing.
TalkedOverTail(heard) ==
    LET t == revisable
        earlier == SubSeq(replies, 1, Len(replies) - 1)
    IN  /\ phase = "listening" /\ t # 0
        /\ heard \in Cuts(turns[t].text)
        /\ revisable' = 0
        /\ IF heard = <<>>
           THEN /\ turns' = [turns EXCEPT ![t].text = <<>>]
                /\ replies' = earlier
                /\ reopen' = t
                /\ DiscardNotes(t)
           ELSE IF heard # turns[t].text
           THEN /\ turns' = Trimmed(t, heard)
                /\ replies' = Append(earlier, [text |-> heard, mark |-> TRUE])
                /\ reopen' = 0
                /\ RefreshNotes(t, heard)
           ELSE UNCHANGED <<turns, replies, reopen, notes, lost>>
        /\ UNCHANGED <<scenario, system, repeats, prompted, reply, phase, ended>>

-----------------------------------------------------------------------------

Next ==
    \/ \E question \in Questions : UserSpeaks(question.asks, question.closes)
    \/ PickupPrompt
    \/ \E chunk \in Chunks : ChunkRestarts(chunk)
    \/ \E chunk \in Chunks, marker \in BOOLEAN : ChunkArrives(chunk, marker)
    \/ SynthesisFails
    \/ StreamBreaks
    \/ NothingButRepeats
    \/ ReplyDone
    \/ phase = "replying" /\ \E heard \in Cuts(Spoken) : TalkedOver(heard)
    \/ revisable # 0 /\ \E heard \in Cuts(turns[revisable].text) : TalkedOverTail(heard)
    \/ NotesArrive
    \/ NotesFail

Spec == Init /\ [][Next]_vars

-----------------------------------------------------------------------------
(* Properties *)

\* Only the description and the example calls of a prompt may speak as the other side.
KeptFromTheCaller == {"context", "example"}

\* The call's data keep their shape.  Of the caller's text the system prompt of a
\* reverse keeps the description and the example calls only: no role, objection,
\* goal or rule of a customer (_persona_block, _reverse_case_block).
TypeOK ==
    /\ scenario \in Scenarios
    /\ \A i \in DOMAIN system :
        system[i].side \in {Side(scenario), "either"} \/ system[i].name \in KeptFromTheCaller
    /\ turns \in Seq(Turn) /\ Len(turns) <= MaxTurns
    /\ replies \in Seq(Line)
    /\ {reopen, revisable} \subseteq 0..Len(turns)
    /\ repeats \in 0..2
    /\ prompted \in 0..PickupPrompts
    /\ reply.instruction \in Instruction
    /\ phase \in {"listening", "replying", "over"}
    /\ lost \subseteq DOMAIN turns

HeardPoints(text) == {s \in InText(text) : IsPoint(s)}

\* The user hears a sentence of any substance once.  It comes again only in a
\* reply the guards leave alone: one asked to repeat, or one that closes the call
\* (_drop_repeats, orchestrator.py).
PointsAreHeardOnce ==
    \A t, u \in DOMAIN turns :
        t < u /\ HeardPoints(turns[t].text) \cap HeardPoints(turns[u].text) # {}
            => turns[u].exempt

\* A call the Persona ends is taken leave of: by the model's own goodbye, by a
\* reply asked for as a closing one, or by the fixed sign-off unless that could not
\* be synthesized.  One hole is left: a user who says goodbye before the Persona has
\* opened is answered with the opening, and the call ends on it
\* (ending, _messages_for_turn).
EndedWithGoodbye ==
    ended # <<>> =>
        LET text == turns[ended[1].turn].text
        IN  \/ Whole("goodbye") \in InText(text)
            \/ Whole("signoff") \in InText(text)
            \/ ended[1].instruction = "closing"
            \/ ended[1].unvoiced
            \/ ended[1].instruction = "opening" /\ turns[ended[1].turn].closes

\* Whatever the user talks over, the notes record only what was heard of each
\* reply, unless the refresh that would have taken the rest out again is still
\* under way, failed, or was cancelled by the next reply's (call_notes.py).
NotesRecordWhatWasHeard ==
    phase # "over" =>
        \A e \in notes.text :
            \/ e.text = turns[e.turn].text
            \/ e.turn \in lost
            \/ notes.task # Idle /\ notes.task[1].exchange.turn = e.turn

\* The first request in a row to hear it again is answered with a repetition and
\* the second is not, for a question asked in one go.  Only a reopened Turn, whose
\* request is counted with every utterance joined to it, is out of step (run_turn).
RepeatedOnRequestOnce ==
    phase = "replying" /\ turns[reply.turn].parts = 1 =>
        LET t == reply.turn
            askedBefore == \E u \in DOMAIN turns : u = t - 1 /\ turns[u].asks
        IN  reply.allow <=> turns[t].asks /\ ~askedBefore
================================================================================
