----------------------------- MODULE CallTimeline -----------------------------
(* How a running call writes its Turns on the clock, and what is stored of   *)
(* them.  The server never learns when playback ended: it models the         *)
(* Persona's window from the audio it synthesized and trims it by the        *)
(* position a barge-in reports.  Whether the Persona was really heard is     *)
(* what the client plays; `audible' and the two ghosts keep it.  The user's  *)
(* window is placed by the analysis of the recording, which the turn awaits  *)
(* with the question already written: `measuring'.  One unit of audio        *)
(* carries one word.  Failures, prompts and the history: LiveCall.           *)
EXTENDS CallFigures

CONSTANTS
    Confirm,     \* speech before the VAD reports it
    Grace,       \* BARGE_IN_GRACE_MS
    Fragments,   \* what the user may say, and what is measured of it
    Chunks,      \* lengths of a synthesized chunk
    MaxNow, MaxTurns, MaxAudio, MaxWords, MaxPressed

\* Speech shorter than the VAD confirms is a misfire and never sent.  The VAD pads the
\* recording before the voice by no more than the silence it waits for after it; the
\* pauses lie between the edges.
ASSUME TimelineAssumption ==
    /\ Confirm \in Nat \ {0} /\ Grace \in Nat
    /\ Chunks \subseteq Nat \ {0}
    /\ Fragments \subseteq [text: Seq(STRING), lead: Nat, length: Nat, trail: Nat,
                            measured: BOOLEAN,
                            pauses: Seq(Nat \X Nat), loudness: Seq(Nat), pitch: Seq(Int)]
    /\ \A f \in Fragments :
          /\ f.length >= Confirm /\ f.lead <= f.trail
          /\ Total([i \in 1 .. Len(f.pauses) |-> f.pauses[i][2]]) \in 0 .. f.length - f.trail
    /\ {MaxNow, MaxTurns, MaxAudio, MaxWords, MaxPressed} \subseteq Nat /\ MaxTurns > 0

VARIABLES
    phase,     \* "waiting" before a reverse is picked up, "live", "stored"
    reverse,   \* the Persona opens
    now,       \* time since the call was picked up
    turns,     \* the Turns of the call
    open,      \* the Turn the next utterance joins, 0 for none
    answering, \* the last Turn's question is in, and its reply under way
    measuring, \* the recording whose analysis is awaited first, if any
    audio,     \* audio dispatched for the reply that can still be cut off
    tally,     \* of it, what the client got since it last ran dry
    audible,   \* until when the client plays it
    onset,     \* when the user's voice set in, of the utterance under way
    silenced,  \* ghost, per Turn: when its reply was last heard
    cuts,      \* ghost: onsets that cut a reply with audio outstanding
    record     \* the stored Session

vars == <<phase, reverse, now, turns, open, answering, measuring, audio, tally, audible,
          onset, silenced, cuts, record>>
clock == <<now, phase, reverse, record>>

NoRecord == [rows |-> <<>>, figures |-> {}, findings |-> {}, segments |-> {}]
Current == Len(turns)
Playing == audible > now
Played == tally - Greater(0, audible - now)

-----------------------------------------------------------------------------
(* Speaking: a chunk reaches the client as it is dispatched.                 *)

NotePersonaAudio(t, length) ==
    LET end == (IF t.pEnd > 0 THEN Greater(now, t.pEnd) ELSE now) + length IN
    [t EXCEPT !.pOffset = IF @ = None THEN now ELSE @, !.pEnd = end, !.pDispatched = end]

Chunk(length) ==
    LET start == IF phase = "waiting" THEN audible ELSE Greater(now, audible) IN
    /\ phase # "stored" /\ answering /\ measuring = {}
    /\ audio + length <= MaxAudio
    /\ turns' = [turns EXCEPT ![Current] = NotePersonaAudio(@, length)]
    /\ audio' = audio + length
    /\ tally' = length + IF phase = "waiting" \/ Playing THEN tally ELSE 0
    /\ audible' = start + length
    /\ silenced' = [silenced EXCEPT ![Current] = start + length]
    /\ UNCHANGED <<clock, open, answering, measuring, onset, cuts>>

Finish ==
    /\ phase # "stored" /\ answering /\ audio > 0
    /\ turns' = [turns EXCEPT ![Current].reply = audio]
    /\ answering' = FALSE
    /\ open' = 0
    /\ UNCHANGED <<clock, measuring, audio, tally, audible, onset, silenced, cuts>>

(* t=0 is when the client starts playing: the offsets modelled while the     *)
(* opening was generated shift, and what is buffered plays from zero.        *)
\* Mutant of Shifted: the heard end keeps the server's clock.
ShiftedEndStays(t) == LET by == t.pOffset IN
    IF by = None THEN t ELSE [t EXCEPT !.pOffset = 0, !.pDispatched = Greater(0, @ - by)]
Shifted(t) == LET by == t.pOffset IN
    IF by = None THEN t
    ELSE [t EXCEPT !.pOffset = 0, !.pEnd = Greater(0, @ - by), !.pDispatched = Greater(0, @ - by)]
StartPlayback ==
    /\ phase = "waiting"
    /\ phase' = "live"
    /\ now' = 0
    /\ turns' = [k \in 1 .. Len(turns) |-> Shifted(turns[k])]
    /\ UNCHANGED <<reverse, record, open, answering, measuring, audio, tally, audible, onset,
                   silenced, cuts>>

-----------------------------------------------------------------------------
(* The user talks, and may cut the Persona off.                              *)

Begin ==
    /\ phase = "live" /\ onset = None
    /\ onset' = now
    /\ UNCHANGED <<clock, turns, open, answering, measuring, audio, tally, audible, silenced, cuts>>

InterruptDue == onset # None /\ now = onset + Confirm /\ (answering \/ Playing)

\* Mutant of TrimPersonaWindow: the window keeps its synthesized end.
WindowUntrimmed(t, played) == t
\* Mutant of TrimPersonaWindow: what the classification reads is trimmed too.
TrimBothEnds(t, played) ==
    LET end == Greater(t.pOffset, Lesser(t.pEnd, t.pOffset + played)) IN
    [t EXCEPT !.pEnd = end, !.pDispatched = end]
TrimPersonaWindow(t, played) ==
    IF None \in {t.pOffset, t.pEnd} THEN t
    ELSE [t EXCEPT !.pEnd = Greater(t.pOffset, Lesser(@, t.pOffset + played))]

HeardOf(said, played) == Lesser(said, played + Grace)

(* The Turn after a barge-in at `played`: nothing heard drops the reply; a   *)
(* committed reply heard in full is left alone; otherwise it keeps what was  *)
(* heard.  A reply with no audio yet has only its text to lose.              *)
AfterCut(t, played) ==
    LET heard == HeardOf(audio, played) IN
    IF audio = 0 THEN t
    ELSE IF heard = 0 THEN [TrimPersonaWindow(t, played) EXCEPT !.reply = 0]
    ELSE IF ~ answering /\ heard >= t.reply THEN t
    ELSE [TrimPersonaWindow(t, played) EXCEPT !.reply = heard, !.interrupted = TRUE]

(* The client stops playing at once and reports how far it got: since the    *)
(* player last ran dry, which only makes the server keep less.               *)
CutOff(played) ==
    /\ turns' = [turns EXCEPT ![Current] = AfterCut(@, played)]
    /\ open' = IF HeardOf(audio, played) = 0 THEN Current ELSE 0
    /\ answering' = FALSE /\ measuring' = {}
    /\ audio' = 0 /\ tally' = 0
    /\ audible' = Lesser(audible, now)
    /\ silenced' = [silenced EXCEPT ![Current] = Lesser(@, now)]

Interrupt ==
    /\ phase = "live" /\ InterruptDue
    /\ CutOff(Played)
    /\ cuts' = IF HeardOf(audio, Played) \in 1 .. audio - 1
                  /\ Played > 0   \* else the window has no length, and the line no place
                  /\ turns[Current].pOffset <= onset
                  /\ turns[Current].pDispatched - onset >= Yield
               THEN cuts \cup {onset} ELSE cuts
    /\ UNCHANGED <<clock, onset>>

NewOrReopenedTurn == IF open = 0 THEN NewTurn ELSE turns[open]

(* The transcript is in: the question is written, and the analysis awaited.  *)
(* A phantom opens no Turn and leaves a reopened one as it was.              *)
Arrive(f) ==
    LET t == NewOrReopenedTurn
        turn == [t EXCEPT !.question = @ \o f.text, !.uEnd = now]
    IN
    /\ phase = "live" /\ onset # None /\ now >= onset + f.length
    /\ ~ answering /\ ~ InterruptDue
    /\ Len(t.question) + Len(f.text) <= MaxWords
    /\ onset' = None
    /\ audio' = 0 /\ tally' = 0
    /\ IF f.text = <<>>
       THEN UNCHANGED <<turns, open, answering, measuring, silenced>>
       ELSE /\ open # 0 \/ Len(turns) < MaxTurns
            /\ turns' = IF open = 0 THEN Append(turns, turn) ELSE [turns EXCEPT ![open] = turn]
            /\ silenced' = IF open = 0 THEN Append(silenced, 0) ELSE silenced
            /\ open' = Len(turns')
            /\ answering' = TRUE
            /\ measuring' = {[fragment |-> f, length |-> f.lead + now - onset]}
    /\ UNCHANGED <<clock, audible, cuts>>

(* No transcript: it failed twice, or a barge-in cancelled it.  The Turn     *)
(* opened for it stays open, with nothing written.                           *)
Lose ==
    /\ phase = "live" /\ onset # None /\ now >= onset + Confirm
    /\ ~ answering /\ ~ InterruptDue
    /\ open # 0 \/ Len(turns) < MaxTurns
    /\ turns' = IF open = 0 THEN Append(turns, NewTurn) ELSE turns
    /\ silenced' = IF open = 0 THEN Append(silenced, 0) ELSE silenced
    /\ open' = Len(turns')
    /\ onset' = None
    /\ audio' = 0 /\ tally' = 0
    /\ UNCHANGED <<clock, answering, measuring, audible, cuts>>

(* The recording is placed by its end, the voice in it by its two edges;     *)
(* what several fragments measured adds up.                                  *)
AttachMeasurements(t, m) ==
    LET f == m.fragment
        started == Greater(0, t.uEnd - m.length)
    IN  IF ~ f.measured
        THEN [t EXCEPT !.complete = FALSE, !.uOffset = IF @ = None THEN t.uEnd ELSE @]
        ELSE [t EXCEPT !.uOffset = IF @ = None THEN started + f.lead ELSE @,
                       !.uEnd = started + m.length - f.trail,
                       !.speech = @ + m.length,
                       !.phonation = @ + m.length - f.lead - f.trail
                                     - Total([i \in 1 .. Len(f.pauses) |-> f.pauses[i][2]]),
                       !.pauses = @ \o [i \in 1 .. Len(f.pauses) |->
                                           <<started + f.pauses[i][1], f.pauses[i][2]>>],
                       !.loudness = @ \o f.loudness, !.pitch = @ \o f.pitch]
Attach ==
    /\ phase = "live"
    /\ \E m \in measuring : turns' = [turns EXCEPT ![Current] = AttachMeasurements(@, m)]
    /\ measuring' = {}
    /\ UNCHANGED <<clock, open, answering, audio, tally, audible, onset, silenced, cuts>>

Tick == /\ phase # "stored" /\ now < MaxNow /\ ~ (phase = "live" /\ InterruptDue)
        /\ now' = now + 1
        /\ UNCHANGED <<phase, reverse, record, turns, open, answering, measuring, audio, tally,
                       audible, onset, silenced, cuts>>

-----------------------------------------------------------------------------
(* The end of the call, and what the wrap-up adds to the stored Session.     *)

Persisted(ended) ==
    LET call == Conversation(ended, TRUE, reverse) IN
    [rows |-> StoredRows(ended),
     figures |-> {Rows(Measure(call))},
     findings |-> {e.offset : e \in ToSet(Of("hard", Classify(call.timeline)))},
     segments |-> {}]

(* The user hangs up: the client reports its position first.  A connection   *)
(* that is lost reports none, and everything dispatched counts as heard.     *)
(* Either cancels the turn under way.                                        *)
HangUp ==
    /\ phase = "live"
    /\ \/ /\ Playing \/ answering
          /\ CutOff(Played)
       \/ /\ answering
          /\ turns' = [turns EXCEPT ![Current] =
                         IF audio = 0 THEN @ ELSE [@ EXCEPT !.reply = audio, !.interrupted = TRUE]]
          /\ measuring' = {}
          /\ UNCHANGED <<open, answering, audio, tally, audible, silenced>>
       \/ /\ ~ answering
          /\ UNCHANGED <<turns, open, answering, measuring, audio, tally, audible, silenced>>
    /\ phase' = "stored"
    /\ record' = Persisted(turns')
    /\ UNCHANGED <<reverse, now, onset, cuts>>

(* The Persona ends the call with a line the model did not write: it is      *)
(* spoken after the reply was committed, its audio before its text.  A       *)
(* barge-in that lands between the two is judged by the reply's own audio.   *)
(* A line that cannot be synthesized leaves HangUp.  Nothing said after the  *)
(* end is recorded.                                                          *)
SignOff(length) ==
    LET line == NotePersonaAudio(turns[Current], length) IN
    /\ phase = "live" /\ ~ answering /\ audio > 0
    /\ audio + length <= MaxAudio
    /\ audio' = audio + length
    /\ \/ /\ onset = None \/ now < onset + Confirm
          /\ turns' = [turns EXCEPT ![Current] = [line EXCEPT !.reply = audio + length]]
          /\ tally' = length + IF Playing THEN tally ELSE 0
          /\ audible' = Greater(now, audible) + length
          /\ silenced' = [silenced EXCEPT ![Current] = Greater(now, audible) + length]
       \/ /\ onset # None /\ now = onset + Confirm
          /\ turns' = [turns EXCEPT ![Current] = AfterCut(line, Played)]
          /\ tally' = tally
          /\ audible' = Lesser(audible, now)
          /\ silenced' = [silenced EXCEPT ![Current] = Lesser(@, now)]
    /\ phase' = "stored"
    /\ record' = Persisted(turns')
    /\ UNCHANGED <<reverse, now, open, answering, measuring, onset, cuts>>

(* The wrap-up names pressing lines; what is not a Persona row of this       *)
(* Session is dropped.  All of them are marked, with the figures they lead   *)
(* to; without a judgement, or on a failure, nothing is written.             *)
PersonaRows == {i \in 1 .. Len(record.rows) : record.rows[i].speaker = "persona"}
Judge(pressed) ==
    /\ phase = "stored"
    /\ Cardinality(pressed) <= MaxPressed
    /\ record' =
          [record EXCEPT
             !.rows = [i \in 1 .. Len(@) |->
                         IF i \in PersonaRows
                         THEN [@[i] EXCEPT !.pressed = IF i \in pressed THEN "yes" ELSE "no"]
                         ELSE @[i]],
             !.segments = {MeasureSegments(record.rows, pressed, TRUE, reverse)}]
    /\ UNCHANGED <<phase, reverse, now, turns, open, answering, measuring, audio, tally, audible,
                   onset, silenced, cuts>>

-----------------------------------------------------------------------------

Init == /\ reverse \in BOOLEAN
        /\ phase = IF reverse THEN "waiting" ELSE "live"
        /\ now = 0
        /\ turns = IF reverse THEN <<NewTurn>> ELSE <<>>
        /\ open = IF reverse THEN 1 ELSE 0
        /\ answering = reverse /\ measuring = {}
        /\ audio = 0 /\ tally = 0 /\ audible = 0 /\ onset = None
        /\ silenced = IF reverse THEN <<0>> ELSE <<>>
        /\ cuts = {} /\ record = NoRecord

Next == \/ Tick \/ StartPlayback \/ Begin \/ Interrupt \/ Lose \/ Attach \/ Finish \/ HangUp
        \/ \E length \in Chunks : Chunk(length) \/ SignOff(length)
        \/ \E f \in Fragments : Arrive(f)
        \/ \E pressed \in SUBSET PersonaRows : Judge(pressed)

Spec == Init /\ [][Next]_vars

-----------------------------------------------------------------------------
(* Properties.                                                               *)

TypeOK ==
    /\ phase \in {"waiting", "live", "stored"} /\ reverse \in BOOLEAN
    /\ now \in 0 .. MaxNow
    /\ Len(turns) <= MaxTurns /\ open \in {0, Current} /\ answering \in BOOLEAN
    /\ \A m \in measuring : /\ answering /\ audio = 0
                            /\ m.fragment \in Fragments /\ turns[Current].uEnd \in 0 .. now
    /\ audio \in 0 .. MaxAudio /\ tally \in 0 .. audio
    /\ audible \in 0 .. MaxNow + MaxAudio
    /\ onset \in {None} \cup 0 .. now
    /\ \A k \in 1 .. Current :
          LET t == turns[k] IN
          /\ t.reply \in 0 .. MaxAudio
          /\ {t.uOffset, t.uEnd} \subseteq {None} \cup 0 .. now
          /\ t.pOffset = None <=> t.pEnd = None
          /\ t.pDispatched >= t.pEnd
          /\ t.phonation <= t.speech
    /\ DOMAIN silenced = 1 .. Current
    /\ cuts \subseteq 0 .. now
    /\ \A f \in record.figures : \A course \in Served(f).course : \A stretch \in course :
          \E w \in f.loudness : stretch.peak \in DOMAIN w.curve

(* The modelled window of a Persona line never reaches past the moment the   *)
(* line was last heard, so no reaction time is shortened and no talk share   *)
(* grows by audio that was generated and thrown away.  A reply cut within    *)
(* the grace of its end counts as heard in full, and keeps its end.  (The    *)
(* opening of a reverse keeps the gaps in which it was generated and is      *)
(* left out; so is the last reply of a call whose closing line was cut off   *)
(* before its text was written.)                                             *)
HeardWindow(k) == turns[k].reply # 0 /\ ~ (reverse /\ k = 1) => turns[k].pEnd <= silenced[k] + Grace
ClosingLineCut ==
    phase = "stored" /\ ~ turns[Current].interrupted /\ turns[Current].reply \in 1 .. audio - 1
NothingHeardAfterTheCut ==
    phase # "waiting" =>
        \A k \in 1 .. Current : HeardWindow(k) \/ (k = Current /\ ClosingLineCut)

(* Whoever cut a line off with audio outstanding is shown the interruption,  *)
(* however far the heard end was trimmed back and whatever came after it,    *)
(* and the figure's light is no longer the one that says all is well.        *)
CutsAreCounted ==
    phase = "stored" =>
        \A c \in cuts :
            (\E u \in ToSet(Timeline(turns)) : u.speaker = "user" /\ u.offset = c)
            => /\ c \in record.findings
               /\ \A f \in record.figures : Served(f).light # {LightFor(0)}

(* A stored call measures as the live one did, in every figure whose facts   *)
(* are kept with its rows: across joined, unmeasured and cut-off Turns.  A   *)
(* Turn left with nothing measured, because its only analysis was cancelled  *)
(* and not marked as failed, is the exception.                               *)
StoredKeys == SegmentKeys \cup {"questions", "word_count", "fillers", "repetitions", "opening",
                                "closing", "phonation_share", "reaction_time"}
ReadsBack ==
    LET again == Rows(Measure(Conversation(Exchanges(record.rows), TRUE, reverse))) IN
    \A f \in record.figures, key \in StoredKeys : again[key] = f[key]
CancelledMeasurement ==
    \E k \in 1 .. Current : turns[k].question # <<>> /\ turns[k].complete /\ Facts(turns[k]) = {}
StoredReadsBack ==
    phase = "stored" /\ record.segments = {} => ReadsBack \/ CancelledMeasurement

(* The two segments share the call out: where both could be measured, their  *)
(* talk times add up to the call's, whatever was judged and judged again.    *)
SegmentsAddUp ==
    \A s \in record.segments, f \in record.figures :
        \A p \in s["pressure"].talk_share, r \in s["rest"].talk_share, c \in f.talk_share :
            p.user + r.user = c.user /\ p.persona + r.persona = c.persona

(* The hesitation scan leaves no hold out and reports none that is not one:  *)
(* held stretches lie apart, stay flat and voiced, and meet every flat       *)
(* stretch of the minimum length.                                            *)
HoldsAreComplete ==
    \A k \in 1 .. Current :
        LET u == turns[k].pitch
            held == Holds(u)
            frames(h) == h.start .. h.start + h.frames - 1
        IN  /\ \A i \in 1 .. Len(held) :
                  /\ IsFlat(u, held[i].start, held[i].start + held[i].frames - 1)
                  /\ \A j \in 1 .. i - 1 : frames(held[i]) \cap frames(held[j]) = {}
            /\ \A s \in 1 .. Len(u) - HoldFrames + 1 :
                  IsFlat(u, s, s + HoldFrames - 1) =>
                      \E i \in 1 .. Len(held) : frames(held[i]) \cap (s .. s + HoldFrames - 1) # {}

=============================================================================
