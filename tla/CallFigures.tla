----------------------------- MODULE CallFigures -----------------------------
(* The figures of a call, as operators on its Turns: the spoken timeline,   *)
(* the facts folded from it, the metrics, the interruptions, and the same   *)
(* metrics over the demanding stretches of a stored call.  A text is a      *)
(* sequence of words; what a language pack recognises is a word of that     *)
(* name ("greeting", "offer", ...), "?" and "." are punctuation.  A figure  *)
(* is a set: empty when it cannot be derived.  Quotients stay <<n, d>>.     *)
EXTENDS VoiceCurves

CONSTANTS
    Terminal, Yield, Backchannel,   \* windows of interruptions.py
    GreenMax, YellowMax,
    RepeatWords,                    \* _REPEAT_WORDS
    MinOpening, MinRest,            \* words an opening pace needs
    ClosingWindow, MinClosing,      \* user turns
    MinLoudness,                    \* _MIN_LOUDNESS_POINTS
    MinUtterances,                  \* of a segment
    Seeded                          \* the metric_type rows

\* A reply that loses enough to be interrupted is not at its end; and a single
\* interruption leaves the first step of the light.
ASSUME FigureAssumption ==
    {Terminal, Yield, GreenMax} \subseteq Nat /\ Terminal < Yield /\ GreenMax = 0

None == -1

Span(start, end) == IF None \in {start, end} THEN None ELSE Greater(0, end - start)
SpanOrZero(start, end) == Greater(0, Span(start, end))

-----------------------------------------------------------------------------
(* Turns, and what they amount to.                                          *)

NewTurn == [question |-> <<>>, reply |-> 0, interrupted |-> FALSE,
            uOffset |-> None, uEnd |-> None,
            pOffset |-> None, pEnd |-> None, pDispatched |-> None,
            speech |-> 0, phonation |-> 0, complete |-> TRUE,
            pauses |-> <<>>, loudness |-> <<>>, pitch |-> <<>>]

\* Mutant of Measured: whatever the Turn holds counts as measured in full.
MeasuredInFull(t) == [speech |-> t.speech, phonation |-> t.phonation, complete |-> TRUE,
                      pauses |-> t.pauses, loudness |-> t.loudness]
Measured(t) == [speech |-> t.speech, phonation |-> t.phonation, complete |-> t.complete,
                pauses |-> t.pauses, loudness |-> t.loudness]
Facts(t) == IF t.speech = 0 /\ t.loudness = <<>> /\ t.pauses = <<>> THEN {} ELSE {Measured(t)}

(* What either side said in a Turn; the user speaks first.                  *)
UserLine(t) ==
    [speaker |-> "user", text |-> t.question, offset |-> Greater(0, t.uOffset),
     duration |-> Span(t.uOffset, t.uEnd), interrupted |-> FALSE,
     dispatched |-> None, facts |-> Facts(t)]
PersonaLine(t) ==
    [speaker |-> "persona", text |-> <<t.reply>>, offset |-> Greater(0, t.pOffset),
     duration |-> Span(t.pOffset, t.pEnd), interrupted |-> t.interrupted,
     dispatched |-> Span(t.pOffset, t.pDispatched), facts |-> {}]
Said(t) == (IF t.question = <<>> THEN <<>> ELSE <<UserLine(t)>>)
           \o (IF t.reply = 0 THEN <<>> ELSE <<PersonaLine(t)>>)
Utterances(turns) == FlattenSeq([k \in 1 .. Len(turns) |-> Said(turns[k])])

(* An unmeasured side is dropped: a guessed duration would invent overlap.  *)
Timeline(turns) == Only(Utterances(turns), LAMBDA u : u.duration > 0)

(* Where the Persona fell silent before Turn k.                             *)
Stopped(turns, k) ==
    LET ends == {j \in 1 .. k - 1 : turns[j].pEnd > 0} IN
    IF ends = {} THEN None ELSE turns[Max(ends)].pEnd

Reacted(turns, k) == /\ turns[k].complete
                     /\ turns[k].uOffset # None
                     /\ Stopped(turns, k) # None

Reactions(turns) ==
    LET reacted == Only([k \in 1 .. Len(turns) |-> k], LAMBDA k : Reacted(turns, k)) IN
    [i \in 1 .. Len(reacted) |->
        LET k == reacted[i] IN
        [at |-> turns[k].uOffset, gap |-> Greater(0, turns[k].uOffset - Stopped(turns, k))]]

Conversation(turns, language, reverse) ==
    LET n == Len(turns)
        asked == Only(turns, LAMBDA t : t.question # <<>>)
        heard == Only(turns, LAMBDA t : t.reply # 0)
        pitched == Only(turns, LAMBDA t : t.pitch # <<>>)
    IN  [text |-> FlattenSeq([i \in 1 .. Len(asked) |-> asked[i].question]),
         language |-> language, reverse |-> reverse,
         phonation |-> Total([k \in 1 .. n |-> turns[k].phonation]),
         complete |-> \A i \in 1 .. Len(asked) : asked[i].complete,
         personaMs |-> Total([i \in 1 .. Len(heard) |-> SpanOrZero(heard[i].pOffset, heard[i].pEnd)]),
         personaTurns |-> Len(heard),
         reactions |-> Reactions(turns),
         pauses |-> FlattenSeq([k \in 1 .. n |-> turns[k].pauses]),
         loudness |-> FlattenSeq([k \in 1 .. n |-> turns[k].loudness]),
         pitch |-> FlattenSeq([k \in 1 .. n |-> turns[k].pitch]),
         perTurn |-> [i \in 1 .. Len(pitched) |-> pitched[i].pitch],
         userTurns |-> [i \in 1 .. Len(asked) |-> <<asked[i].question, asked[i].phonation>>],
         timeline |-> Timeline(turns)]

PauseTotal(call) == Total([i \in 1 .. Len(call.pauses) |-> call.pauses[i][2]])
Voiced(call) == call.phonation + PauseTotal(call)

-----------------------------------------------------------------------------
(* Overlapping speech.  The order of the rules matters.                     *)

EndOf(s) == s.offset + s.duration
DispatchedEnd(s) == s.offset + (IF s.dispatched = None THEN s.duration ELSE s.dispatched)

(* The last Persona segment the user started inside, by its dispatched end. *)
Overlapped(u, line) ==
    LET inside == {i \in 1 .. Len(line) : /\ line[i].speaker = "persona"
                                          /\ line[i].offset <= u.offset
                                          /\ u.offset < DispatchedEnd(line[i])}
    IN  IF inside = {} THEN {} ELSE {line[Max(inside)]}

KindOf(u, p, remaining) ==
    IF u.duration < Backchannel /\ ~ p.interrupted THEN "backchannel"
    ELSE IF remaining <= Terminal THEN "terminal"
    ELSE IF p.interrupted /\ remaining >= Yield THEN "hard" ELSE "soft"

Classify(line) ==
    LET users == Only(line, LAMBDA s : s.speaker = "user" /\ Overlapped(s, line) # {}) IN
    [i \in 1 .. Len(users) |->
        LET u == users[i]  p == CHOOSE q \in Overlapped(u, line) : TRUE
            remaining == DispatchedEnd(p) - u.offset
        IN  [kind |-> KindOf(u, p, remaining), offset |-> u.offset,
             remaining |-> remaining, duration |-> u.duration]]

Of(kind, events) == Only(events, LAMBDA e : e.kind = kind)
CallMs(line) == IF line = <<>> THEN 0
                ELSE Max({EndOf(line[i]) : i \in 1 .. Len(line)})
                        - Min({line[i].offset : i \in 1 .. Len(line)})
LightFor(count) == IF count <= GreenMax THEN "green" ELSE IF count <= YellowMax THEN "yellow" ELSE "red"

-----------------------------------------------------------------------------
(* The metrics.                                                             *)

Words(text) == Only(text, LAMBDA w : w \notin {"?", "."})
Count(text, w) == Len(Only(text, LAMBDA v : v = w))
Says(text, w) == Count(text, w) > 0
Flags(text, names) == {w \in names : Says(text, w)}

(* Below a tenth of silence the recording is a noise floor.                 *)
SilenceFound(call) == \/ call.loudness = <<>>
                      \/ 10 * Count(call.loudness, 0) >= Len(call.loudness)
Timed(call) == call.complete /\ SilenceFound(call)

TalkShare(call) ==
    LET spoken == Voiced(call) + call.personaMs IN
    IF ~ Timed(call) \/ (call.text # <<>> /\ Voiced(call) = 0) \/ spoken = 0 THEN {}
    ELSE {[value |-> <<Voiced(call) * 100, spoken>>, user |-> Voiced(call), persona |-> call.personaMs]}

(* A question is open when its sentence starts with a question word.        *)
OpenQuestions(text) ==
    Cardinality({i \in 1 .. Len(text) :
        /\ text[i] = "?"
        /\ \E s \in 1 .. i - 1 : /\ text[s] = "what"
                                 /\ s = 1 \/ text[s - 1] \in {"?", "."}
                                 /\ \A j \in s .. i - 1 : text[j] \notin {"?", "."}})
Questions(call) ==
    LET asked == Count(call.text, "?")  words == Len(Words(call.text)) IN
    IF words = 0 THEN {}
    ELSE {[value |-> asked, per100 |-> <<asked * 100, words>>,
           open |-> IF call.language /\ asked > 0 THEN OpenQuestions(call.text) ELSE None]}

Fillers(call) ==
    LET words == Len(Words(call.text))  said == Count(call.text, "filler") IN
    IF ~ call.language \/ words = 0 THEN {} ELSE {[value |-> said, per100 |-> <<said * 100, words>>]}

(* The positions of word-for-word repeats that do not overlap the original. *)
Repeated(words) ==
    LET at == 1 .. Len(words) - RepeatWords + 1
        gram(i) == SubSeq(words, i, i + RepeatWords - 1)
    IN  UNION {i .. i + RepeatWords - 1 :
                 i \in {j \in at : \E f \in at : f + RepeatWords <= j /\ gram(f) = gram(j)}}
Repetitions(call) ==
    LET words == Words(call.text)  hit == Repeated(words) IN
    IF words = <<>> THEN {}
    ELSE {[value |-> Cardinality({i \in hit : i - 1 \notin hit}),
           share |-> <<Cardinality(hit) * 100, Len(words)>>]}

Hesitations(call) ==
    LET found == FlattenSeq([k \in 1 .. Len(call.perTurn) |-> Holds(call.perTurn[k])]) IN
    IF ~ call.complete \/ call.perTurn = <<>> THEN {}
    ELSE {[value |-> Len(found), total |-> Total([i \in 1 .. Len(found) |-> found[i].frames])]}

OpeningPace(call) ==
    LET rest == Tail(call.userTurns)
        words(t) == Len(Words(t[1]))
        restWords == Total([i \in 1 .. Len(rest) |-> words(rest[i])])
        restMs == Total([i \in 1 .. Len(rest) |-> rest[i][2]])
        first == call.userTurns[1]
    IN  IF /\ Timed(call)
           /\ words(first) >= MinOpening /\ restWords >= MinRest
           /\ first[2] # 0 /\ restMs # 0
        THEN <<words(first) * restMs, first[2] * restWords>> ELSE <<>>
Opening(call) ==
    IF ~ call.language \/ call.userTurns = <<>> THEN {}
    ELSE {[parts |-> Flags(call.userTurns[1][1],
                           {"greeting", "name", IF call.reverse THEN "concern" ELSE "offer"}),
           pace |-> OpeningPace(call)]}

Closing(call) ==
    LET n == Len(call.userTurns)
        window == FlattenSeq([i \in 1 .. ClosingWindow |-> call.userTurns[n - ClosingWindow + i][1]])
    IN  IF ~ call.language \/ n < MinClosing THEN {}
        ELSE {[parts |-> Flags(window, {"recap", "agreement", "farewell"})]}

Pace(call) ==
    IF ~ Timed(call) \/ Words(call.text) = <<>> \/ call.phonation = 0 THEN {}
    ELSE {[value |-> <<Len(Words(call.text)), call.phonation>>]}

WordCount(call) ==
    LET ends == {i \in 1 .. Len(call.text) : call.text[i] \in {"?", "."}}
        starts == {i \in 1 .. Len(call.text) : i \notin ends /\ (i = 1 \/ i - 1 \in ends)}
    IN  IF Words(call.text) = <<>> THEN {}
        ELSE {[value |-> Len(Words(call.text)), sentences |-> Cardinality(starts)]}

ReactionTime(call) ==
    LET gaps == [i \in 1 .. Len(call.reactions) |-> call.reactions[i].gap] IN
    IF gaps = <<>> THEN {}
    ELSE {[value |-> <<Total(gaps), Len(gaps)>>, longest |-> Max(ToSet(gaps)), gaps |-> call.reactions]}

PhonationShare(call) ==
    IF ~ Timed(call) \/ call.phonation = 0 THEN {} ELSE {[value |-> <<call.phonation * 100, Voiced(call)>>]}

Pauses(call) ==
    IF call.pauses = <<>> \/ ~ SilenceFound(call) THEN {}
    ELSE {[value |-> <<PauseTotal(call), Len(call.pauses)>>, events |-> call.pauses]}

RunLength(call) ==
    LET runs == Len(call.userTurns) + Len(call.pauses) IN
    IF ~ Timed(call) \/ call.userTurns = <<>> \/ call.phonation = 0 THEN {}
    ELSE {[value |-> <<call.phonation, runs>>]}

Loudness(call) ==
    LET audible == Ordered(Sounding(call.loudness))  margin == Len(audible) \div 20 IN
    IF Len(audible) < MinLoudness \/ ~ SilenceFound(call) THEN {}
    ELSE {[value |-> audible[Len(audible) - margin] - audible[1 + margin], curve |-> call.loudness]}

Interruptions(call) ==
    LET events == Classify(call.timeline)  hard == Of("hard", events) IN
    IF call.personaTurns = 0 THEN {}
    ELSE {[value |-> Len(hard), soft |-> Len(Of("soft", events)),
           backchannels |-> Len(Of("backchannel", events)),
           personaTurns |-> Len(Only(call.timeline, LAMBDA s : s.speaker = "persona")),
           callMs |-> CallMs(call.timeline),
           hardOffsets |-> [i \in 1 .. Len(hard) |-> hard[i].offset]]}

Measure(call) ==
    [talk_share |-> TalkShare(call), questions |-> Questions(call), pace |-> Pace(call),
     word_count |-> WordCount(call), fillers |-> Fillers(call), opening |-> Opening(call),
     closing |-> Closing(call), repetitions |-> Repetitions(call),
     hesitations |-> Hesitations(call), reaction_time |-> ReactionTime(call),
     pauses |-> Pauses(call), phonation_share |-> PhonationShare(call),
     run_length |-> RunLength(call), loudness |-> Loudness(call),
     intonation |-> Profile(call.pitch, call.perTurn), interruptions |-> Interruptions(call)]

(* Into rows: a metric the seed lacks is dropped, of a call as of a segment.*)
Rows(figures) == [key \in DOMAIN figures |-> IF key \in Seeded THEN figures[key] ELSE {}]

(* What a served figure says beside what is stored; never stored itself.    *)
Served(figures) ==
    [light |-> {LightFor(Len(f.hardOffsets)) : f \in figures.interruptions},
     course |-> {Stretches(f.curve) : f \in figures.loudness}]

-----------------------------------------------------------------------------
(* A stored call: one row per utterance, and the figures once more over its *)
(* demanding stretches and the rest.                                        *)

StoredRow(u) == [speaker |-> u.speaker, offset |-> u.offset, duration |-> u.duration,
                 text |-> u.text, facts |-> u.facts, pressed |-> "unjudged"]
StoredRows(turns) ==
    LET said == Utterances(turns) IN [i \in 1 .. Len(said) |-> StoredRow(said[i])]

RowEnd(r) == IF r.duration = None THEN None ELSE r.offset + r.duration

(* Each row read back as a Turn of its own.                                 *)
Exchange(r) ==
    IF r.speaker = "persona"
    THEN [NewTurn EXCEPT !.reply = r.text[1], !.pOffset = r.offset,
                         !.pEnd = RowEnd(r)]
    ELSE LET t == [NewTurn EXCEPT !.question = r.text, !.uOffset = r.offset, !.uEnd = RowEnd(r)] IN
         IF r.facts = {} THEN [t EXCEPT !.complete = FALSE]
         ELSE LET f == CHOOSE g \in r.facts : TRUE IN
              [t EXCEPT !.speech = f.speech, !.phonation = f.phonation, !.complete = f.complete,
                        !.pauses = f.pauses, !.loudness = f.loudness]
Exchanges(rows) == [i \in 1 .. Len(rows) |-> Exchange(rows[i])]

(* A user utterance takes the pressure of the Persona line it answers.      *)
PressureOf(rows, pressed, i) ==
    LET lines == {j \in 1 .. i : rows[j].speaker = "persona"} IN
    lines # {} /\ Max(lines) \in pressed

SegmentKeys == {"talk_share", "pace", "pauses", "run_length", "loudness"}

\* Mutant of Segment: the rest is taken over the whole call.
SegmentOrAll(rows, pressed, wanted) ==
    LET at == Only([i \in 1 .. Len(rows) |-> i],
                        LAMBDA i : wanted => PressureOf(rows, pressed, i)) IN
    [i \in 1 .. Len(at) |-> Exchange(rows[at[i]])]
Segment(rows, pressed, wanted) ==
    LET at == Only([i \in 1 .. Len(rows) |-> i], LAMBDA i : PressureOf(rows, pressed, i) = wanted) IN
    [i \in 1 .. Len(at) |-> Exchange(rows[at[i]])]

NoFigures == [key \in SegmentKeys |-> {}]
SegmentFigures(part, language, reverse) ==
    LET call == Conversation(part, language, reverse) IN
    IF Len(Only(part, LAMBDA t : t.question # <<>>)) < MinUtterances THEN NoFigures
    ELSE [talk_share |-> TalkShare(call), pace |-> Pace(call), pauses |-> Pauses(call),
          run_length |-> RunLength(call), loudness |-> Loudness(call)]

MeasureSegments(rows, pressed, language, reverse) ==
    [s \in {"pressure", "rest"} |->
        IF pressed = {} THEN NoFigures
        ELSE Rows(SegmentFigures(Segment(rows, pressed, s = "pressure"), language, reverse))]
=============================================================================
