------------------------- MODULE CallTimelineProofs -------------------------
(* What is proved of the clock of a call: that the window of a Persona line ends  *)
(* with what was heard of it, that every cut is counted, that what is stored      *)
(* measures as the live call did, and the types.                                  *)
(*                                                                                *)
(* The server only models when its audio is played.  The first invariant, IInv,   *)
(* relates the model to the client: Typed bounds every clock reading, Reported    *)
(* says that a barge-in is reported before the utterance that caused it arrives,  *)
(* and Windows that the modelled end of the line under way is the client's.       *)
(* CutInv rests on it: a reply cut off at an onset is still among the Turns, marked*)
(* and with its dispatched end, and nothing that began by then comes after it.    *)
(* StoredInv rests on both: no Turn but the last is without a reply, each holds   *)
(* together, and the stored rows are the Turns' but for their judgements.  There  *)
(* is one lemma per action and invariant, and one for the cut that a barge-in and *)
(* a hang-up share.                                                               *)
EXTENDS FigureProofs

-----------------------------------------------------------------------------
(* The clock of a call.                                                     *)

\* A chunk of audio moves the end of the window on by its length.
LEMMA NoteMovesTheEnd ==
    ASSUME now \in Nat, NEW t \in AnyTurn, NEW length \in Nat \ {0}, Placed(t, now)
    PROVE  LET n == NotePersonaAudio(t, length) IN
           /\ n \in AnyTurn /\ Placed(n, now)
           /\ n.reply = t.reply /\ n.uOffset = t.uOffset /\ n.uEnd = t.uEnd
           /\ n.interrupted = t.interrupted
           /\ n.pOffset \in 0 .. now
           /\ n.pOffset = IF t.pOffset = None THEN now ELSE t.pOffset
           /\ n.pEnd = (IF t.pEnd > now THEN t.pEnd ELSE now) + length
           /\ n.pDispatched = n.pEnd
<1> DEFINE begin == IF t.pOffset = None THEN now ELSE t.pOffset
           end == (IF t.pEnd > now THEN t.pEnd ELSE now) + length
           n == [t EXCEPT !.pOffset = begin, !.pEnd = end, !.pDispatched = end]
<1>1. NotePersonaAudio(t, length) = n
  <2>1. (IF t.pEnd > 0 THEN Greater(now, t.pEnd) ELSE now) = IF t.pEnd > now THEN t.pEnd ELSE now
    BY DEF AnyTurn, Greater
  <2> QED
    BY <2>1 DEF NotePersonaAudio
<1>2. begin \in 0 .. now /\ begin \in Int /\ end \in Int /\ end > now
  BY DEF Placed, AnyTurn, None
<1> HIDE DEF begin, end
<1>3. /\ n \in AnyTurn /\ n.pOffset = begin /\ n.pEnd = end /\ n.pDispatched = end
      /\ n.reply = t.reply /\ n.uOffset = t.uOffset /\ n.uEnd = t.uEnd
      /\ n.interrupted = t.interrupted
      /\ n.phonation = t.phonation /\ n.speech = t.speech
  BY <1>2 DEF AnyTurn
<1> HIDE DEF n
<1>4. Placed(n, now)
  BY <1>2, <1>3 DEF Placed, None
<1> QED
  BY <1>1, <1>2, <1>3, <1>4 DEF begin, end

\* Trimming moves the end of the window back, and not before its beginning.
LEMMA TrimMovesItBack ==
    ASSUME now \in Nat, NEW t \in AnyTurn, NEW played \in Nat, Placed(t, now)
    PROVE  LET n == TrimPersonaWindow(t, played) IN
           /\ n \in AnyTurn /\ Placed(n, now)
           /\ n.uOffset = t.uOffset /\ n.uEnd = t.uEnd /\ n.pOffset = t.pOffset
           /\ n.reply = t.reply /\ n.pEnd <= t.pEnd
           /\ t.pOffset # None => n.pEnd <= t.pOffset + played
           /\ n.pEnd \in Int /\ n.interrupted = t.interrupted
<1>1. CASE None \in {t.pOffset, t.pEnd}
  BY <1>1 DEF TrimPersonaWindow, Placed, AnyTurn, None
<1>2. CASE None \notin {t.pOffset, t.pEnd}
  <2> DEFINE end == Greater(t.pOffset, Lesser(t.pEnd, t.pOffset + played))
             n == [t EXCEPT !.pEnd = end]
  <2>1. TrimPersonaWindow(t, played) = n
    BY <1>2 DEF TrimPersonaWindow
  <2>2. t.pOffset \in 0 .. now /\ t.pEnd \in Int /\ t.pEnd >= t.pOffset
    BY <1>2 DEF Placed, AnyTurn
  <2>3. /\ end \in Int /\ end <= t.pEnd /\ end <= t.pOffset + played /\ end >= t.pOffset
    BY <2>2 DEF Greater, Lesser
  <2> HIDE DEF end
  <2>4. /\ n \in AnyTurn /\ n.pEnd = end
        /\ n.reply = t.reply /\ n.uOffset = t.uOffset /\ n.uEnd = t.uEnd
        /\ n.pOffset = t.pOffset /\ n.pDispatched = t.pDispatched
        /\ n.phonation = t.phonation /\ n.speech = t.speech
        /\ n.interrupted = t.interrupted
    BY <2>3 DEF AnyTurn
  <2> HIDE DEF n
  <2>5. t.pDispatched \in Int /\ t.pDispatched >= end
    BY <2>2, <2>3 DEF AnyTurn, Placed
  <2>6. Placed(n, now)
    BY <2>2, <2>3, <2>4, <2>5 DEF Placed, None
  <2> QED
    BY <2>1, <2>2, <2>3, <2>4, <2>6
<1> QED
  BY <1>1, <1>2

\* A Turn after a barge-in: left alone, reopened with nothing heard, or cut to what was.
LEMMA CutTurn ==
    ASSUME now \in Nat, audio \in 0 .. MaxAudio, answering \in BOOLEAN,
           NEW t \in AnyTurn, NEW played \in Nat, Placed(t, now)
    PROVE  LET n == AfterCut(t, played)
               heard == HeardOf(audio, played) IN
           /\ n \in AnyTurn /\ Placed(n, now)
           /\ n.uOffset = t.uOffset /\ n.uEnd = t.uEnd /\ n.pOffset = t.pOffset
           /\ n.pEnd <= t.pEnd /\ heard \in 0 .. audio
           /\ \/ audio = 0 /\ n = t
              \/ /\ audio # 0 /\ heard = 0 /\ n.reply = 0 /\ n.interrupted = t.interrupted
                 /\ t.pOffset # None => n.pEnd <= t.pOffset + played
              \/ audio # 0 /\ heard # 0 /\ ~ answering /\ heard >= t.reply /\ n = t
              \/ /\ audio # 0 /\ heard # 0 /\ n.reply = heard /\ n.interrupted
                 /\ t.pOffset # None => n.pEnd <= t.pOffset + played
<1> DEFINE heard == HeardOf(audio, played)
           trimmed == TrimPersonaWindow(t, played)
<1>1. heard \in 0 .. audio /\ audio \in Nat
  BY TimelineAssumption DEF HeardOf, Lesser
<1>2. /\ trimmed \in AnyTurn /\ Placed(trimmed, now)
      /\ trimmed.uOffset = t.uOffset /\ trimmed.uEnd = t.uEnd /\ trimmed.pOffset = t.pOffset
      /\ trimmed.pEnd <= t.pEnd /\ trimmed.interrupted = t.interrupted
      /\ t.pOffset # None => trimmed.pEnd <= t.pOffset + played
  BY TrimMovesItBack
<1> HIDE DEF heard, trimmed
<1>3. ASSUME NEW r \in 0 .. MaxAudio, NEW i \in BOOLEAN
      PROVE  LET n == [trimmed EXCEPT !.reply = r, !.interrupted = i] IN
             /\ n \in AnyTurn /\ Placed(n, now) /\ n.reply = r /\ n.interrupted = i
             /\ n.uOffset = t.uOffset /\ n.uEnd = t.uEnd /\ n.pOffset = t.pOffset
             /\ n.pEnd <= t.pEnd
             /\ t.pOffset # None => n.pEnd <= t.pOffset + played
  <2> DEFINE n == [trimmed EXCEPT !.reply = r, !.interrupted = i]
  <2>1. /\ n \in AnyTurn /\ n.reply = r /\ n.interrupted = i
        /\ n.uOffset = trimmed.uOffset /\ n.uEnd = trimmed.uEnd /\ n.pOffset = trimmed.pOffset
        /\ n.pEnd = trimmed.pEnd /\ n.pDispatched = trimmed.pDispatched
        /\ n.phonation = trimmed.phonation /\ n.speech = trimmed.speech
    BY <1>2 DEF AnyTurn
  <2> HIDE DEF n
  <2>2. Placed(n, now)
    BY <1>2, <2>1 DEF Placed
  <2> QED
    BY <1>2, <2>1, <2>2 DEF n
<1>4. t.pEnd <= t.pEnd
  BY DEF AnyTurn
<1>5. CASE audio = 0
  <2>1. AfterCut(t, played) = t
    BY <1>5 DEF AfterCut
  <2> QED
    BY <1>1, <1>4, <1>5, <2>1 DEF heard
<1>6. CASE audio # 0 /\ heard = 0
  <2> DEFINE n == [trimmed EXCEPT !.reply = 0, !.interrupted = trimmed.interrupted]
  <2>1. AfterCut(t, played) = n
    <3>1. AfterCut(t, played) = [trimmed EXCEPT !.reply = 0]
      BY <1>6 DEF AfterCut, heard, trimmed
    <3>2. [trimmed EXCEPT !.reply = 0] = n
      BY <1>2 DEF AnyTurn
    <3> QED
      BY <3>1, <3>2
  <2>2. 0 \in 0 .. MaxAudio /\ trimmed.interrupted \in BOOLEAN
    BY <1>2, TimelineAssumption DEF AnyTurn
  <2>3. /\ n \in AnyTurn /\ Placed(n, now) /\ n.reply = 0 /\ n.interrupted = trimmed.interrupted
        /\ n.uOffset = t.uOffset /\ n.uEnd = t.uEnd /\ n.pOffset = t.pOffset
        /\ n.pEnd <= t.pEnd
        /\ t.pOffset # None => n.pEnd <= t.pOffset + played
    BY <1>3, <2>2
  <2> HIDE DEF n
  <2> QED
    BY <1>1, <1>2, <1>6, <2>1, <2>3 DEF heard
<1>7. CASE audio # 0 /\ heard # 0 /\ ~ answering /\ heard >= t.reply
  <2>1. AfterCut(t, played) = t
    BY <1>7 DEF AfterCut, heard
  <2> QED
    BY <1>1, <1>4, <1>7, <2>1 DEF heard
<1>8. CASE audio # 0 /\ heard # 0 /\ ~ (~ answering /\ heard >= t.reply)
  <2> DEFINE n == [trimmed EXCEPT !.reply = heard, !.interrupted = TRUE]
  <2>1. AfterCut(t, played) = n
    BY <1>8 DEF AfterCut, heard, trimmed
  <2>2. heard \in 0 .. MaxAudio /\ TRUE \in BOOLEAN
    BY <1>1, TimelineAssumption
  <2>3. /\ n \in AnyTurn /\ Placed(n, now) /\ n.reply = heard /\ n.interrupted
        /\ n.uOffset = t.uOffset /\ n.uEnd = t.uEnd /\ n.pOffset = t.pOffset
        /\ n.pEnd <= t.pEnd
        /\ t.pOffset # None => n.pEnd <= t.pOffset + played
    BY <1>3, <2>2
  <2> HIDE DEF n
  <2> QED
    BY <1>1, <1>8, <2>1, <2>3 DEF heard
<1> QED
  BY <1>5, <1>6, <1>7, <1>8

\* A recording whose analysis is awaited: its question is written, and its voice lies within
\* it and before the end the Turn was given.
Awaits(t, r, at) ==
    /\ t.question # <<>>
    /\ r.fragment \in Fragments /\ r.length \in Nat
    /\ r.length >= r.fragment.lead + r.fragment.length
    /\ t.uEnd \in 0 .. at /\ r.length <= r.fragment.lead + t.uEnd

\* Where the voice lies: begun no earlier than the recording, ended no later than it did.
LEMMA VoiceInside ==
    ASSUME NEW at \in Nat, NEW t, NEW r, Awaits(t, r, at)
    PROVE  LET started == Greater(0, t.uEnd - r.length)
               f == r.fragment IN
           /\ started \in Nat /\ f.lead \in Nat /\ f.trail \in Nat /\ f.length \in Nat
           /\ started + f.lead \in 0 .. at
           /\ started + r.length - f.trail \in 0 .. at
           /\ Total([i \in 1 .. Len(f.pauses) |-> f.pauses[i][2]])
                 \in 0 .. r.length - f.lead - f.trail
<1> DEFINE f == r.fragment
           started == Greater(0, t.uEnd - r.length)
           pause == Total([i \in 1 .. Len(f.pauses) |-> f.pauses[i][2]])
<1>1. /\ f.lead \in Nat /\ f.trail \in Nat /\ f.length \in Nat /\ f.lead <= f.trail
      /\ pause \in 0 .. f.length - f.trail
  BY TimelineAssumption DEF Awaits
<1>2. r.length \in Nat /\ t.uEnd \in 0 .. at /\ r.length >= f.lead + f.length
      /\ r.length <= f.lead + t.uEnd
  BY DEF Awaits
<1> HIDE DEF f, pause
<1>3. /\ started \in Nat /\ (started = 0 \/ started = t.uEnd - r.length)
      /\ started >= t.uEnd - r.length
  BY <1>2 DEF Greater
<1> HIDE DEF started
<1>4. pause \in Nat /\ f.trail <= f.length
  BY <1>1
<1>5. /\ started + f.lead \in 0 .. at /\ started + r.length - f.trail \in 0 .. at
      /\ pause \in 0 .. r.length - f.lead - f.trail
  BY <1>1, <1>2, <1>3, <1>4
<1> QED
  BY <1>1, <1>3, <1>5 DEF f, pause, started

\* What was measured of an utterance is added; the Persona's side stays.
LEMMA AttachedTurn ==
    ASSUME now \in Nat, NEW t \in AnyTurn, NEW r, Awaits(t, r, now), Placed(t, now)
    PROVE  LET n == AttachMeasurements(t, r) IN
           /\ n \in AnyTurn /\ Placed(n, now) /\ n.question = t.question
           /\ n.reply = t.reply /\ n.pOffset = t.pOffset /\ n.pEnd = t.pEnd
           /\ n.pDispatched = t.pDispatched /\ n.interrupted = t.interrupted
           /\ n.pitch = t.pitch \/ n.pitch = t.pitch \o r.fragment.pitch
<1> DEFINE f == r.fragment
           started == Greater(0, t.uEnd - r.length)
           pause == Total([i \in 1 .. Len(f.pauses) |-> f.pauses[i][2]])
           later == [i \in 1 .. Len(f.pauses) |-> <<started + f.pauses[i][1], f.pauses[i][2]>>]
           begin == IF t.uOffset = None THEN t.uEnd ELSE t.uOffset
           begin2 == IF t.uOffset = None THEN started + f.lead ELSE t.uOffset
           end == started + r.length - f.trail
           speech == t.speech + r.length
           phonation == t.phonation + r.length - f.lead - f.trail - pause
<1>1. /\ f.pauses \in Seq(Nat \X Nat) /\ f.loudness \in Seq(Nat) /\ f.pitch \in Seq(Int)
      /\ f.measured \in BOOLEAN
  BY TimelineAssumption DEF Awaits
<1>2. /\ started \in Nat /\ started + f.lead \in 0 .. now /\ end \in 0 .. now
      /\ pause \in 0 .. r.length - f.lead - f.trail /\ f.lead \in Nat /\ f.trail \in Nat
      /\ r.length \in Nat /\ t.uEnd \in 0 .. now
  BY VoiceInside DEF Awaits
<1> HIDE DEF started, pause, f
<1>3. later \in Seq(Int \X Int)
  <2>1. Len(f.pauses) \in Nat
    BY <1>1, LenProperties
  <2>2. ASSUME NEW i \in 1 .. Len(f.pauses)
        PROVE  <<started + f.pauses[i][1], f.pauses[i][2]>> \in Int \X Int
    <3>1. f.pauses[i] \in Nat \X Nat
      BY <1>1, <2>2, ElementOfSeq
    <3>2. PICK p \in Nat \X Nat : p = f.pauses[i]
      BY <3>1
    <3>3. started \in Nat
      BY <1>2
    <3>4. <<started + p[1], p[2]>> \in Int \X Int
      BY <3>3
    <3> QED
      BY <3>2, <3>4
  <2> DEFINE m == Len(f.pauses)
  <2>3. later \in [1 .. m -> Int \X Int]
    BY <2>2
  <2>4. m \in Nat
    BY <2>1
  <2> HIDE DEF later, m
  <2> QED
    BY <2>3, <2>4, SeqDef
<1>4. /\ t.pauses \o later \in Seq(Int \X Int)
      /\ t.loudness \o f.loudness \in Seq(Nat) /\ t.pitch \o f.pitch \in Seq(Int)
  <2>1. t.pauses \in Seq(Int \X Int) /\ t.loudness \in Seq(Nat) /\ t.pitch \in Seq(Int)
    BY DEF AnyTurn
  <2> HIDE DEF later
  <2> QED
    BY <1>1, <1>3, <2>1, ConcatProperties
<1>5. begin \in 0 .. now /\ begin2 \in 0 .. now /\ begin \in Int /\ begin2 \in Int /\ end \in Int
  BY <1>2 DEF Placed, AnyTurn, None
<1>6. speech \in Int /\ phonation \in Int /\ phonation <= speech
  <2>1. t.speech \in Int /\ t.phonation \in Int /\ t.phonation <= t.speech
    BY DEF AnyTurn, Placed
  <2> QED
    BY <1>2, <2>1
<1>7. CASE ~ f.measured
  <2> DEFINE n == [t EXCEPT !.complete = FALSE, !.uOffset = begin]
  <2>1. AttachMeasurements(t, r) = n
    BY <1>7 DEF AttachMeasurements, f
  <2> HIDE DEF begin
  <2>2. /\ n \in AnyTurn /\ n.uEnd = t.uEnd /\ n.uOffset = begin /\ n.question = t.question
        /\ n.reply = t.reply /\ n.pOffset = t.pOffset /\ n.pEnd = t.pEnd
        /\ n.pDispatched = t.pDispatched /\ n.pitch = t.pitch /\ n.interrupted = t.interrupted
        /\ n.speech = t.speech /\ n.phonation = t.phonation
    BY <1>5 DEF AnyTurn
  <2> HIDE DEF n
  <2>3. Placed(n, now)
    BY <1>5, <2>2 DEF Placed
  <2> QED
    BY <2>1, <2>2, <2>3
<1>8. CASE f.measured
  <2> DEFINE n == [t EXCEPT !.uOffset = begin2, !.uEnd = end, !.speech = speech,
                            !.phonation = phonation, !.pauses = t.pauses \o later,
                            !.loudness = t.loudness \o f.loudness, !.pitch = t.pitch \o f.pitch]
  <2>1. AttachMeasurements(t, r) = n
    BY <1>8 DEF AttachMeasurements, started, pause, f
  <2> HIDE DEF begin2, speech, phonation, end, later
  <2>2. /\ n \in AnyTurn /\ n.uEnd = end /\ n.uOffset = begin2 /\ n.question = t.question
        /\ n.reply = t.reply /\ n.pOffset = t.pOffset /\ n.pEnd = t.pEnd
        /\ n.pDispatched = t.pDispatched /\ n.pitch = t.pitch \o f.pitch
        /\ n.interrupted = t.interrupted
        /\ n.speech = speech /\ n.phonation = phonation
    BY <1>4, <1>5, <1>6 DEF AnyTurn
  <2> HIDE DEF n
  <2>3. Placed(n, now)
    BY <1>2, <1>5, <1>6, <2>2 DEF Placed
  <2> QED
    BY <2>1, <2>2, <2>3 DEF f
<1> QED
  BY <1>1, <1>7, <1>8

\* The question of an utterance, written with the end of its recording.
LEMMA AskedTurn ==
    ASSUME now \in Nat, NEW t \in AnyTurn, NEW f \in Fragments, Placed(t, now)
    PROVE  LET n == [t EXCEPT !.question = @ \o f.text, !.uEnd = now] IN
           /\ n \in AnyTurn /\ Placed(n, now) /\ n.uEnd = now /\ n.uOffset = t.uOffset
           /\ n.question = t.question \o f.text
           /\ n.reply = t.reply /\ n.pOffset = t.pOffset /\ n.pEnd = t.pEnd
           /\ n.pDispatched = t.pDispatched /\ n.interrupted = t.interrupted
           /\ n.speech = t.speech /\ n.phonation = t.phonation /\ n.complete = t.complete
           /\ n.pauses = t.pauses /\ n.loudness = t.loudness /\ n.pitch = t.pitch
<1> DEFINE question == t.question \o f.text
           n == [t EXCEPT !.question = question, !.uEnd = now]
<1>1. question \in Seq(STRING)
  <2>1. t.question \in Seq(STRING) /\ f.text \in Seq(STRING)
    BY TimelineAssumption DEF AnyTurn
  <2> QED
    BY <2>1, ConcatProperties
<1> HIDE DEF question
<1>2. now \in Int /\ now \in 0 .. now
  OBVIOUS
<1>3. /\ n \in AnyTurn /\ n.uEnd = now /\ n.uOffset = t.uOffset /\ n.question = question
      /\ n.reply = t.reply /\ n.pOffset = t.pOffset /\ n.pEnd = t.pEnd
      /\ n.pDispatched = t.pDispatched /\ n.interrupted = t.interrupted
      /\ n.speech = t.speech /\ n.phonation = t.phonation /\ n.complete = t.complete
      /\ n.pauses = t.pauses /\ n.loudness = t.loudness /\ n.pitch = t.pitch
  BY <1>1, <1>2 DEF AnyTurn
<1> HIDE DEF n
<1>4. Placed(n, now)
  BY <1>2, <1>3 DEF Placed
<1> QED
  BY <1>3, <1>4 DEF n, question

\* Before a reverse is picked up there is its opening, and nothing has been played.
Unopened ==
    /\ reverse /\ Len(turns) = 1 /\ onset = None /\ cuts = {} /\ audible = tally
    /\ turns[1].uOffset = None /\ turns[1].uEnd = None

\* The types, and that what the client has to play is what it got.
Typed ==
    /\ phase \in {"waiting", "live", "stored"} /\ reverse \in BOOLEAN
    /\ now \in 0 .. MaxNow
    /\ turns \in Seq(AnyTurn) /\ Len(turns) <= MaxTurns
    /\ open \in {0, Len(turns)} /\ answering \in BOOLEAN
    /\ audio \in 0 .. MaxAudio /\ tally \in 0 .. audio
    /\ audible \in Nat /\ audible <= now + tally
    /\ onset \in {None} \cup 0 .. now
    /\ silenced \in Seq(Nat) /\ Len(silenced) = Len(turns)
    /\ cuts \subseteq 0 .. now
    /\ \A k \in 1 .. Len(turns) : Placed(turns[k], now)
    /\ answering => open = Len(turns)
    /\ answering \/ audio > 0 => Len(turns) > 0
    /\ phase = "waiting" => Unopened

\* The VAD reports before the utterance arrives, so it does not arrive into audio; and
\* a Turn that is written to has no reply yet, and none that can still be cut off was.
Reported ==
    /\ phase = "live" /\ onset # None /\ now > onset + Confirm => ~ answering /\ ~ Playing
    /\ phase = "live" /\ Playing => audio > 0
    /\ phase # "stored" /\ open # 0 => turns[open].reply = 0
    /\ phase # "stored" /\ (open # 0 \/ audio > 0) => ~ turns[Len(turns)].interrupted

\* The window of the reply under way ends with what the client has of it, and began no
\* later than the client began to play it; a Turn reopened lies behind.
Within1(t, k) == t.reply # 0 => t.pEnd <= silenced[k] + Grace

\* The reply that can still be cut off: its window is what the client plays, and its
\* text what was sent.
Running(t, k) ==
    /\ audio > 0 =>
          /\ t.pOffset # None /\ t.pOffset <= audible - tally
          /\ t.pEnd <= audible /\ audible = silenced[k]
          /\ ~ answering => t.reply = audio
    /\ open # 0 /\ (audio = 0 \/ ~ answering) => t.pEnd <= now

\* So of every Turn of the call, and of the last while it runs.
Windows ==
    /\ phase # "waiting" =>
          \A k \in 1 .. Len(turns) :
              ~ (reverse /\ k = 1) => Within1(turns[k], k) \/ (k = Len(turns) /\ ClosingLineCut)
    /\ phase = "live" =>
          \A k \in 1 .. Len(turns) :
              ~ (reverse /\ k = 1) /\ k = Len(turns) => Running(turns[k], k)

\* A recording is measured for the question just written, before its reply is begun.
Awaited == \A r \in measuring :
    phase = "live" /\ answering /\ audio = 0 /\ Awaits(turns[Len(turns)], r, now)

\* The invariant.
IInv == Typed /\ Reported /\ Windows

\* The Turn being written to, and what the types say of the numbers.
LEMMA TheLastTurn ==
    ASSUME Typed
    PROVE  /\ now \in Nat /\ audio \in Nat /\ tally \in Nat /\ audible \in Nat
           /\ MaxNow \in Nat /\ MaxAudio \in Nat /\ Len(turns) \in Nat
           /\ Len(turns) > 0 =>
                 /\ turns[Len(turns)] \in AnyTurn /\ Placed(turns[Len(turns)], now)
                 /\ silenced[Len(turns)] \in Nat /\ Len(turns) \in 1 .. Len(turns)
           /\ \A k \in 1 .. Len(turns) : turns[k] \in AnyTurn /\ silenced[k] \in Nat
<1>1. /\ now \in Nat /\ audio \in Nat /\ tally \in Nat /\ audible \in Nat
      /\ MaxNow \in Nat /\ MaxAudio \in Nat /\ Len(turns) \in Nat
  BY LenProperties, TimelineAssumption DEF Typed
<1>2. \A k \in 1 .. Len(turns) : turns[k] \in AnyTurn /\ silenced[k] \in Nat
  BY ElementOfSeq DEF Typed
<1>3. Len(turns) > 0 => Len(turns) \in 1 .. Len(turns)
  BY <1>1
<1> QED
  BY <1>1, <1>2, <1>3 DEF Typed

\* A call begins with no Turn, or with the opening of a reverse.
LEMMA InvInit == Init => IInv
<1> SUFFICES ASSUME Init PROVE IInv
  OBVIOUS
<1>1. /\ 0 \in 0 .. MaxNow /\ 0 \in 0 .. MaxAudio /\ 0 \in 0 .. 0 /\ 1 <= MaxTurns /\ 0 <= MaxTurns
      /\ Grace \in Nat
  BY TimelineAssumption
<1>2. NewTurn \in AnyTurn /\ Placed(NewTurn, 0)
  BY NewTurnPlaced
<1>3. NewTurn.reply = 0 /\ NewTurn.uOffset = None /\ NewTurn.uEnd = None /\ NewTurn.pEnd = -1
      /\ ~ NewTurn.interrupted
  BY DEF NewTurn, None
<1>4. /\ now = 0 /\ audio = 0 /\ tally = 0 /\ audible = 0 /\ onset = None /\ cuts = {}
      /\ answering = reverse /\ reverse \in BOOLEAN /\ phase = IF reverse THEN "waiting" ELSE "live"
  BY DEF Init
<1> HIDE DEF NewTurn
<1>5. CASE reverse
  <2>1. turns = <<NewTurn>> /\ silenced = <<0>> /\ open = 1 /\ answering
    BY <1>5 DEF Init
  <2>2. /\ turns \in Seq(AnyTurn) /\ Len(turns) = 1 /\ turns[1] = NewTurn
        /\ silenced \in Seq(Nat) /\ Len(silenced) = 1
    BY <1>2, <2>1
  <2>3. Typed
    BY <1>1, <1>2, <1>3, <1>4, <1>5, <2>1, <2>2 DEF Typed, Unopened, None
  <2> QED
    BY <1>3, <1>4, <1>5, <2>1, <2>2, <2>3 DEF IInv, Reported, Windows
<1>6. CASE ~ reverse
  <2>1. turns = <<>> /\ silenced = <<>> /\ open = 0 /\ ~ answering
    BY <1>4, <1>6 DEF Init
  <2>2. turns \in Seq(AnyTurn) /\ Len(turns) = 0 /\ silenced \in Seq(Nat) /\ Len(silenced) = 0
    BY <2>1
  <2>3. Typed
    BY <1>1, <1>4, <1>6, <2>1, <2>2 DEF Typed, None
  <2> QED
    BY <1>4, <1>6, <2>1, <2>2, <2>3 DEF IInv, Reported, Windows, Playing
<1> QED
  BY <1>5, <1>6

\* A chunk dispatched.
LEMMA ChunkKeeps ==
    ASSUME IInv, NEW length \in Chunks, Chunk(length)
    PROVE  IInv'
<1>0. PICK m \in Nat : m = Len(turns)
  BY LenProperties DEF IInv, Typed
<1> DEFINE t == turns[m]
           n == NotePersonaAudio(t, length)
           start == IF phase = "waiting" THEN audible ELSE Greater(now, audible)
           end == start + length
<1>1. /\ Typed /\ Reported /\ Windows /\ length \in Nat \ {0}
  BY TimelineAssumption DEF IInv
<1>2. /\ phase # "stored" /\ answering /\ audio + length <= MaxAudio
      /\ turns' = [turns EXCEPT ![m] = n] /\ audio' = audio + length
      /\ tally' = length + (IF phase = "waiting" \/ Playing THEN tally ELSE 0)
      /\ audible' = end /\ silenced' = [silenced EXCEPT ![m] = end]
      /\ now' = now /\ phase' = phase /\ reverse' = reverse /\ open' = open
      /\ answering' = answering /\ onset' = onset /\ cuts' = cuts
  BY <1>0 DEF Chunk, clock, Current
<1>3. /\ m \in Nat /\ m > 0 /\ t \in AnyTurn /\ Placed(t, now) /\ m \in 1 .. m
      /\ now \in Nat /\ audio \in Nat /\ tally \in Nat /\ audible \in Nat /\ MaxAudio \in Nat
      /\ turns \in Seq(AnyTurn) /\ silenced \in Seq(Nat) /\ Len(silenced) = m
      /\ tally <= audio /\ audible <= now + tally /\ length \in Nat /\ length > 0
  BY <1>0, <1>1, <1>2, TheLastTurn DEF Typed
<1>4. /\ n \in AnyTurn /\ Placed(n, now)
      /\ n.reply = t.reply /\ n.uOffset = t.uOffset /\ n.uEnd = t.uEnd
      /\ n.interrupted = t.interrupted
      /\ n.pOffset \in 0 .. now
      /\ n.pOffset = (IF t.pOffset = None THEN now ELSE t.pOffset)
      /\ n.pEnd = (IF t.pEnd > now THEN t.pEnd ELSE now) + length
  BY <1>1, <1>3, NoteMovesTheEnd
<1>5. t.pEnd \in Int /\ n.pEnd \in Int
  BY <1>3, <1>4 DEF AnyTurn
<1>6. /\ start \in Nat /\ end \in Nat
      /\ phase # "waiting" => start >= now /\ start >= audible /\ (start = now \/ start = audible)
      /\ phase # "waiting" /\ ~ Playing => start = now
      /\ phase # "waiting" /\ Playing => start = audible
  BY <1>1, <1>3 DEF Greater, Playing
<1> HIDE DEF n, t, start
<1>7. /\ turns' \in Seq(AnyTurn) /\ Len(turns') = m /\ turns'[m] = n
      /\ \A k \in 1 .. m : k # m => turns'[k] = turns[k]
  BY <1>0, <1>2, <1>3, <1>4, LastReplaced
<1>8. /\ silenced' \in Seq(Nat) /\ Len(silenced') = m /\ silenced'[m] = end
      /\ \A k \in 1 .. m : k # m => silenced'[k] = silenced[k]
  <2>1. silenced' = [silenced EXCEPT ![Len(silenced)] = end]
    BY <1>2, <1>3
  <2> HIDE DEF end
  <2> QED
    BY <1>3, <1>6, <2>1, LastReplaced
<1>9. Typed'
  <2>1. tally' \in 0 .. audio' /\ audio' \in 0 .. MaxAudio /\ audio' > 0
    BY <1>1, <1>2, <1>3 DEF Typed
  <2>2. audible' \in Nat /\ audible' <= now' + tally'
    <3>1. CASE phase = "waiting"
      BY <1>2, <1>3, <1>6, <3>1 DEF start
    <3>2. CASE phase # "waiting" /\ Playing
      BY <1>2, <1>3, <1>6, <3>2
    <3>3. CASE phase # "waiting" /\ ~ Playing
      BY <1>2, <1>3, <1>6, <3>3
    <3> QED
      BY <3>1, <3>2, <3>3
  <2>3. \A k \in 1 .. m : Placed(turns'[k], now')
    <3>1. \A k \in 1 .. m : Placed(turns[k], now)
      BY <1>0, <1>1 DEF Typed
    <3> QED
      BY <1>2, <1>4, <1>7, <3>1
  <2>4. phase' = "waiting" => Unopened'
    <3> SUFFICES ASSUME phase = "waiting" PROVE Unopened'
      BY <1>2
    <3>1. Unopened
      BY <1>1 DEF Typed
    <3>2. m = 1 /\ t = turns[1]
      BY <1>0, <3>1 DEF Unopened, t
    <3> QED
      BY <1>2, <1>3, <1>4, <1>6, <1>7, <3>1, <3>2 DEF Unopened, start
  <2> QED
    BY <1>0, <1>1, <1>2, <1>3, <1>7, <1>8, <2>1, <2>2, <2>3, <2>4 DEF Typed
<1>10. Reported'
  <2>1. phase = "live" /\ onset # None => ~ (now > onset + Confirm)
    BY <1>1, <1>2 DEF Reported
  <2>2. audio' > 0
    BY <1>2, <1>3
  <2>3. open = m
    BY <1>0, <1>1, <1>2 DEF Typed
  <2>4. t.reply = 0 /\ ~ t.interrupted
    BY <1>0, <1>1, <1>2, <1>3, <2>3 DEF Reported, t
  <2> QED
    BY <1>2, <1>4, <1>7, <2>1, <2>2, <2>3, <2>4 DEF Reported
<1>11. Windows'
  <2>1. t.reply = 0
    BY <1>0, <1>1, <1>2, <1>3 DEF Reported, Typed, t
  <2>2. ASSUME phase # "waiting", NEW k \in 1 .. m, ~ (reverse /\ k = 1)
        PROVE  turns'[k].reply # 0 => turns'[k].pEnd <= silenced'[k] + Grace
    <3>1. CASE k = m
      BY <1>4, <1>7, <2>1, <3>1
    <3>2. CASE k # m
      <4>1. Within1(turns[k], k)
        BY <1>0, <1>1, <2>2, <3>2 DEF Windows
      <4> QED
        BY <1>7, <1>8, <3>2, <4>1 DEF Within1
    <3> QED
      BY <3>1, <3>2
  <2>3. ASSUME phase = "live", ~ (reverse /\ m = 1)
        PROVE  n.pOffset # None /\ n.pOffset <= audible' - tally' /\ n.pEnd <= audible'
    <3>1. Running(t, m)
      BY <1>0, <1>1, <1>3, <2>3 DEF Windows, t
    <3>2. n.pOffset # None /\ n.pOffset <= now
      BY <1>3, <1>4 DEF None
    <3>3. open = m
      BY <1>0, <1>1, <1>2 DEF Typed
    <3>4. CASE audio = 0
      <4>1. t.pEnd <= now /\ tally = 0
        BY <1>3, <3>1, <3>3, <3>4 DEF Running
      <4>2. n.pEnd = now + length
        BY <1>3, <1>4, <1>5, <4>1
      <4>3. tally' = length
        BY <1>2, <1>3, <4>1
      <4> QED
        BY <1>2, <1>3, <1>4, <1>6, <2>3, <3>2, <4>2, <4>3
    <3>5. CASE audio # 0
      <4>1. t.pOffset # None /\ t.pOffset <= audible - tally /\ t.pEnd <= audible
        BY <1>2, <1>3, <3>1, <3>5 DEF Running
      <4>2. n.pOffset = t.pOffset
        BY <1>4, <4>1
      <4>3. CASE Playing
        BY <1>2, <1>3, <1>4, <1>5, <1>6, <2>3, <3>2, <4>1, <4>2, <4>3 DEF Playing
      <4>4. CASE ~ Playing
        BY <1>2, <1>3, <1>4, <1>5, <1>6, <2>3, <3>2, <4>1, <4>2, <4>4 DEF Playing
      <4> QED
        BY <4>3, <4>4
    <3> QED
      BY <1>3, <3>4, <3>5
  <2>4. audio' > 0 /\ answering'
    BY <1>2, <1>3
  <2>5. ASSUME phase = "live", ~ (reverse /\ m = 1) PROVE Running(turns[m], m)'
    BY <1>2, <1>7, <1>8, <2>3, <2>4, <2>5 DEF Running
  <2>6. (phase' = "live") =>
            \A k \in 1 .. m : ~ (reverse' /\ k = 1) /\ k = m => Running(turns[k], k)'
    BY <1>2, <2>5
  <2> QED
    BY <1>2, <1>7, <2>2, <2>6 DEF Windows, Within1
<1> QED
  BY <1>9, <1>10, <1>11 DEF IInv

\* The Persona cut off, by a barge-in or because the user hangs up.
LEMMA CutKeeps ==
    ASSUME IInv, phase = "live", answering \/ Playing, CutOff(Played),
           phase' \in {"live", "stored"}, cuts' \subseteq 0 .. now,
           UNCHANGED <<now, reverse, onset>>
    PROVE  IInv'
<1>0. PICK m \in Nat : m = Len(turns)
  BY LenProperties DEF IInv, Typed
<1> DEFINE t == turns[m]
           played == Played
           n == AfterCut(t, played)
           heard == HeardOf(audio, played)
           silent == Lesser(silenced[m], now)
<1>1. Typed /\ Reported /\ Windows /\ Grace \in Nat
  BY TimelineAssumption DEF IInv
<1>2. /\ turns' = [turns EXCEPT ![m] = n] /\ open' = (IF heard = 0 THEN m ELSE 0)
      /\ answering' = FALSE /\ audible' = Lesser(audible, now)
      /\ silenced' = [silenced EXCEPT ![m] = silent]
      /\ now' = now /\ reverse' = reverse /\ audio' = 0 /\ tally' = 0 /\ onset' = onset
  BY <1>0 DEF CutOff, Current
<1>3. /\ answering \in BOOLEAN /\ audio \in 0 .. MaxAudio
      /\ Playing => audio > 0
      /\ answering \/ audio > 0 => m > 0
  BY <1>0, <1>1 DEF Typed, Reported
<1>4. /\ m > 0 /\ t \in AnyTurn /\ Placed(t, now) /\ m \in 1 .. m
      /\ now \in Nat /\ audio \in Nat /\ tally \in Nat /\ audible \in Nat
      /\ turns \in Seq(AnyTurn) /\ silenced \in Seq(Nat) /\ Len(silenced) = m
      /\ tally <= audio /\ audible <= now + tally /\ silenced[m] \in Nat
  BY <1>0, <1>1, <1>3, TheLastTurn DEF Typed
<1>5. /\ played \in Nat /\ played <= tally
      /\ Playing => played = tally - (audible - now)
      /\ ~ Playing => played = tally
  BY <1>4 DEF Played, Greater, Playing
<1> HIDE DEF played, t
<1>6. /\ n \in AnyTurn /\ Placed(n, now)
      /\ n.uOffset = t.uOffset /\ n.uEnd = t.uEnd /\ n.pOffset = t.pOffset
      /\ n.pEnd <= t.pEnd /\ heard \in 0 .. audio
      /\ \/ audio = 0 /\ n = t
         \/ /\ audio # 0 /\ heard = 0 /\ n.reply = 0 /\ n.interrupted = t.interrupted
            /\ t.pOffset # None => n.pEnd <= t.pOffset + played
         \/ audio # 0 /\ heard # 0 /\ ~ answering /\ heard >= t.reply /\ n = t
         \/ /\ audio # 0 /\ heard # 0 /\ n.reply = heard
            /\ t.pOffset # None => n.pEnd <= t.pOffset + played
  BY <1>3, <1>4, <1>5, CutTurn
<1>7. heard <= played + Grace
  BY <1>1, <1>4, <1>5 DEF HeardOf, Lesser
<1>8. silent \in Nat /\ silent <= now /\ (silent = silenced[m] \/ silent = now)
  BY <1>4 DEF Lesser
<1>9. audible' \in Nat /\ audible' <= now /\ ~ Playing'
  BY <1>2, <1>4 DEF Lesser, Playing
<1> HIDE DEF n, heard, silent
<1>10. /\ turns' \in Seq(AnyTurn) /\ Len(turns') = m /\ turns'[m] = n
       /\ \A k \in 1 .. m : k # m => turns'[k] = turns[k]
  BY <1>0, <1>2, <1>4, <1>6, LastReplaced
<1>11. /\ silenced' \in Seq(Nat) /\ Len(silenced') = m /\ silenced'[m] = silent
       /\ \A k \in 1 .. m : k # m => silenced'[k] = silenced[k]
  <2>1. silenced' = [silenced EXCEPT ![Len(silenced)] = silent]
    BY <1>2, <1>4
  <2> QED
    BY <1>4, <1>8, <2>1, LastReplaced
<1>12. ~ (reverse /\ m = 1) => Running(t, m)
  BY <1>0, <1>1, <1>4 DEF Windows, t
<1>13. t.pEnd \in Int /\ t.pOffset \in Int /\ n.pEnd \in Int /\ t.reply \in Nat
  BY <1>4, <1>6, TimelineAssumption DEF AnyTurn
<1>14. audio = 0 => t.reply = 0
  <2>1. audio = 0 => answering /\ open = m
    BY <1>0, <1>1, <1>3 DEF Typed
  <2> QED
    BY <1>1, <1>4, <2>1 DEF Reported, t
<1>15. Typed'
  <2>1. \A k \in 1 .. m : Placed(turns'[k], now')
    <3>1. \A k \in 1 .. m : Placed(turns[k], now)
      BY <1>0, <1>1 DEF Typed
    <3> QED
      BY <1>2, <1>6, <1>10, <3>1
  <2>2. audible' <= now' + tally'
    BY <1>2, <1>4, <1>9
  <2>3. audio' \in 0 .. MaxAudio /\ tally' \in 0 .. audio' /\ ~ (answering' \/ audio' > 0)
    BY <1>2, TimelineAssumption
  <2> QED
    BY <1>0, <1>1, <1>2, <1>4, <1>9, <1>10, <1>11, <2>1, <2>2, <2>3 DEF Typed
<1>16. Reported'
  <2>1. ~ t.interrupted
    <3>1. open # 0 \/ audio > 0
      <4>1. answering => open = m
        BY <1>0, <1>1 DEF Typed
      <4> QED
        BY <1>3, <1>4, <4>1
    <3> QED
      BY <1>0, <1>1, <3>1 DEF Reported, t
  <2>2. open' # 0 => open' = m /\ n.reply = 0 /\ ~ n.interrupted
    BY <1>2, <1>6, <1>14, <2>1
  <2> QED
    BY <1>2, <1>9, <1>10, <2>2 DEF Reported
<1>17. ASSUME ~ (reverse /\ m = 1), audio > 0, t.pOffset # None,
              n.pEnd <= t.pOffset + played
       PROVE  n.pEnd <= now /\ n.pEnd <= silent
  <2>1. t.pOffset <= audible - tally /\ t.pEnd <= audible /\ audible = silenced[m]
    BY <1>12, <1>17 DEF Running
  <2>2. CASE Playing
    <3>1. n.pEnd <= now
      <4>1. /\ played \in Int /\ played = tally - (audible - now) /\ tally \in Int
            /\ audible \in Int /\ now \in Int
        BY <1>4, <1>5, <2>2
      <4>2. t.pOffset + played <= now
        BY <1>13, <2>1, <4>1
      <4> QED
        BY <1>13, <1>17, <4>1, <4>2
    <3> QED
      BY <1>4, <1>8, <1>13, <2>1, <2>2, <3>1 DEF Playing
  <2>3. CASE ~ Playing
    <3>1. n.pEnd <= audible /\ audible <= now
      BY <1>4, <1>5, <1>13, <1>17, <2>1, <2>3 DEF Playing
    <3> QED
      BY <1>4, <1>8, <1>13, <2>1, <3>1
  <2> QED
    BY <2>2, <2>3
<1>18. ASSUME ~ (reverse /\ m = 1) PROVE n.reply # 0 => n.pEnd <= silent + Grace
  <2>1. audio > 0 => t.pOffset # None
    BY <1>12, <1>18 DEF Running
  <2>2. CASE audio = 0
    BY <1>6, <1>14, <2>2
  <2>3. CASE audio # 0 /\ n.reply # 0 /\ n = t /\ ~ answering /\ heard >= t.reply
    <3>1. /\ Playing /\ t.reply = audio /\ t.pEnd <= audible /\ audible = silenced[m]
      BY <1>4, <1>12, <1>18, <2>3 DEF Running
    <3>2. played + Grace >= audio
      BY <1>4, <1>5, <1>6, <1>7, <2>3, <3>1, <1>1
    <3>3. audible <= now + Grace
      BY <1>1, <1>4, <1>5, <3>1, <3>2
    <3>4. silent = now \/ silent = audible
      BY <1>8, <3>1
    <3> QED
      BY <1>1, <1>4, <1>13, <2>3, <3>1, <3>3, <3>4
  <2>4. CASE audio # 0 /\ t.pOffset # None /\ n.pEnd <= t.pOffset + played
    <3>1. n.pEnd <= silent
      BY <1>4, <1>17, <1>18, <2>4
    <3> QED
      BY <1>1, <1>8, <1>13, <3>1
  <2> QED
    BY <1>4, <1>6, <2>1, <2>2, <2>3, <2>4
<1>19. ASSUME ~ (reverse /\ m = 1), heard = 0 PROVE n.pEnd <= now
  <2>1. audio > 0 => t.pOffset # None
    BY <1>12, <1>19 DEF Running
  <2>2. CASE audio = 0
    <3>1. open # 0
      BY <1>0, <1>1, <1>3, <1>4, <2>2 DEF Typed
    <3> QED
      BY <1>6, <1>12, <1>19, <2>2, <3>1 DEF Running
  <2>3. CASE audio # 0
    BY <1>4, <1>6, <1>17, <1>19, <2>1, <2>3
  <2> QED
    BY <2>2, <2>3
<1>20. Windows'
  <2>1. ASSUME NEW k \in 1 .. m, ~ (reverse /\ k = 1)
        PROVE  turns'[k].reply # 0 => turns'[k].pEnd <= silenced'[k] + Grace
    <3>1. CASE k = m
      BY <1>10, <1>11, <1>18, <2>1, <3>1
    <3>2. CASE k # m
      <4>1. Within1(turns[k], k)
        BY <1>0, <1>1, <2>1, <3>2 DEF Windows
      <4> QED
        BY <1>10, <1>11, <3>2, <4>1 DEF Within1
    <3> QED
      BY <3>1, <3>2
  <2>2. ASSUME ~ (reverse /\ m = 1) PROVE Running(turns[m], m)'
    BY <1>2, <1>9, <1>10, <1>19, <2>2 DEF Running
  <2>3. \A k \in 1 .. m : ~ (reverse' /\ k = 1) /\ k = m => Running(turns[k], k)'
    BY <1>2, <2>2
  <2> QED
    BY <1>2, <1>10, <2>1, <2>3 DEF Windows, Within1
<1> QED
  BY <1>15, <1>16, <1>20 DEF IInv

\* The reply generated to its end.
LEMMA FinishKeeps ==
    ASSUME IInv, Finish
    PROVE  IInv'
<1>0. PICK m \in Nat : m = Len(turns)
  BY LenProperties DEF IInv, Typed
<1> DEFINE t == turns[m]
           n == [t EXCEPT !.reply = audio]
<1>1. Typed /\ Reported /\ Windows /\ Grace \in Nat
  BY TimelineAssumption DEF IInv
<1>2. /\ phase # "stored" /\ answering /\ audio > 0
      /\ turns' = [turns EXCEPT ![m].reply = audio] /\ answering' = FALSE /\ open' = 0
      /\ now' = now /\ phase' = phase /\ reverse' = reverse /\ audio' = audio /\ tally' = tally
      /\ audible' = audible /\ onset' = onset /\ silenced' = silenced /\ cuts' = cuts
  BY <1>0 DEF Finish, clock, Current
<1>3. /\ m > 0 /\ t \in AnyTurn /\ Placed(t, now) /\ m \in 1 .. m
      /\ turns \in Seq(AnyTurn) /\ audio \in 0 .. MaxAudio
  BY <1>0, <1>1, <1>2, TheLastTurn DEF Typed
<1>4. turns' = [turns EXCEPT ![m] = n]
  BY <1>2
<1> HIDE DEF t
<1>5. /\ n \in AnyTurn /\ n.reply = audio /\ n.pEnd = t.pEnd /\ n.pOffset = t.pOffset
      /\ n.uOffset = t.uOffset /\ n.uEnd = t.uEnd /\ n.pDispatched = t.pDispatched
      /\ n.speech = t.speech /\ n.phonation = t.phonation /\ n.interrupted = t.interrupted
  BY <1>3 DEF AnyTurn
<1> HIDE DEF n
<1>6. Placed(n, now)
  BY <1>3, <1>5 DEF Placed
<1>7. /\ turns' \in Seq(AnyTurn) /\ Len(turns') = m /\ turns'[m] = n
      /\ \A k \in 1 .. m : k # m => turns'[k] = turns[k]
  BY <1>0, <1>3, <1>4, <1>5, LastReplaced
<1>8. Typed'
  <2>1. \A k \in 1 .. m : Placed(turns'[k], now')
    <3>1. \A k \in 1 .. m : Placed(turns[k], now)
      BY <1>0, <1>1 DEF Typed
    <3> QED
      BY <1>2, <1>6, <1>7, <3>1
  <2>2. phase' = "waiting" => Unopened'
    <3> SUFFICES ASSUME phase = "waiting" PROVE Unopened'
      BY <1>2
    <3>1. Unopened
      BY <1>1 DEF Typed
    <3>2. m = 1 /\ t = turns[1]
      BY <1>0, <3>1 DEF Unopened, t
    <3> QED
      BY <1>2, <1>5, <1>7, <3>1, <3>2 DEF Unopened
  <2> QED
    BY <1>0, <1>1, <1>2, <1>3, <1>7, <2>1, <2>2 DEF Typed
<1>9. Reported'
  <2>1. ~ t.interrupted
    BY <1>0, <1>1, <1>2, <1>3 DEF Typed, Reported, t
  <2> QED
    BY <1>1, <1>2, <1>5, <1>7, <2>1 DEF Reported, Playing
<1>10. Windows'
  <2>1. ASSUME phase # "waiting", NEW k \in 1 .. m, ~ (reverse /\ k = 1)
        PROVE  turns'[k].reply # 0 => turns'[k].pEnd <= silenced'[k] + Grace
    <3>1. CASE k = m
      <4>1. Running(t, m)
        BY <1>0, <1>1, <1>2, <1>3, <2>1, <3>1 DEF Windows, t, Typed
      <4>2. t.pEnd <= silenced[m]
        BY <1>2, <4>1 DEF Running
      <4>3. t.pEnd \in Int /\ silenced[m] \in Nat
        BY <1>0, <1>1, <1>3, TheLastTurn DEF AnyTurn
      <4>4. n.pEnd <= silenced[m] + Grace
        BY <1>1, <1>5, <4>2, <4>3
      <4> QED
        BY <1>2, <1>7, <3>1, <4>4
    <3>2. CASE k # m
      <4>1. Within1(turns[k], k)
        BY <1>0, <1>1, <2>1, <3>2 DEF Windows
      <4> QED
        BY <1>2, <1>7, <3>2, <4>1 DEF Within1
    <3> QED
      BY <3>1, <3>2
  <2>2. ASSUME phase = "live", ~ (reverse /\ m = 1) PROVE Running(turns[m], m)'
    <3>1. Running(t, m)
      BY <1>0, <1>1, <1>3, <2>2 DEF Windows, t
    <3> QED
      BY <1>2, <1>5, <1>7, <3>1 DEF Running, Playing
  <2>3. phase' = "live" => \A k \in 1 .. m : ~ (reverse' /\ k = 1) /\ k = m => Running(turns[k], k)'
    BY <1>2, <2>2
  <2> QED
    BY <1>2, <1>7, <2>1, <2>3 DEF Windows, Within1
<1> QED
  BY <1>8, <1>9, <1>10 DEF IInv

\* The reverse picked up: its opening moves to where the clock begins.
LEMMA StartPlaybackKeeps ==
    ASSUME IInv, StartPlayback
    PROVE  IInv'
<1> DEFINE t == turns[1]
           n == Shifted(t)
<1>1. Typed /\ Reported /\ Unopened
  BY DEF IInv, Typed, StartPlayback
<1>2. /\ phase = "waiting" /\ phase' = "live" /\ now' = 0
      /\ turns' = [k \in 1 .. Len(turns) |-> Shifted(turns[k])]
      /\ reverse' = reverse /\ open' = open /\ answering' = answering /\ audio' = audio
      /\ tally' = tally /\ audible' = audible /\ onset' = onset /\ silenced' = silenced
      /\ cuts' = cuts
  BY DEF StartPlayback
<1>3. /\ Len(turns) = 1 /\ reverse /\ onset = None /\ cuts = {} /\ audible = tally
      /\ t.uOffset = None /\ t.uEnd = None /\ t \in AnyTurn /\ Placed(t, now)
      /\ tally \in Nat /\ audio \in Nat /\ tally <= audio /\ MaxNow \in Nat /\ now \in Nat
  BY <1>1, TheLastTurn DEF Unopened, Typed
<1>4. turns' = [k \in 1 .. 1 |-> n]
  BY <1>2, <1>3
<1> HIDE DEF t
<1>5. /\ n \in AnyTurn /\ Placed(n, 0) /\ n.reply = t.reply /\ n.uOffset = None /\ n.uEnd = None
      /\ n.interrupted = t.interrupted
  <2>1. CASE t.pOffset = None
    <3>1. n = t
      BY <2>1 DEF Shifted
    <3> QED
      BY <1>3, <2>1, <3>1 DEF Placed, None
  <2>2. CASE t.pOffset # None
    <3> DEFINE by == t.pOffset
               end == Greater(0, t.pEnd - by)
               dispatched == Greater(0, t.pDispatched - by)
               s == [t EXCEPT !.pOffset = 0, !.pEnd = end, !.pDispatched = dispatched]
    <3>1. n = s
      BY <2>2 DEF Shifted
    <3>2. by \in Nat /\ t.pEnd \in Int /\ t.pDispatched \in Int /\ t.pDispatched >= t.pEnd
      BY <1>3, <2>2 DEF Placed, AnyTurn
    <3>3. /\ end \in Int /\ dispatched \in Int /\ end >= 0 /\ dispatched >= end
          /\ 0 \in Int
      BY <3>2 DEF Greater
    <3> HIDE DEF end, dispatched
    <3>4. /\ s \in AnyTurn /\ s.pOffset = 0 /\ s.pEnd = end /\ s.pDispatched = dispatched
          /\ s.reply = t.reply /\ s.uOffset = t.uOffset /\ s.uEnd = t.uEnd
          /\ s.phonation = t.phonation /\ s.speech = t.speech /\ s.interrupted = t.interrupted
      BY <1>3, <3>3 DEF AnyTurn
    <3> HIDE DEF s
    <3>5. Placed(s, 0)
      BY <1>3, <3>3, <3>4 DEF Placed, None
    <3> QED
      BY <1>3, <3>1, <3>4, <3>5
  <2> QED
    BY <2>1, <2>2
<1> HIDE DEF n
<1>6. turns' \in Seq(AnyTurn) /\ Len(turns') = 1 /\ turns'[1] = n
  <2>1. turns' = <<n>>
    BY <1>4
  <2> QED
    BY <1>5, <2>1
<1>7. Typed'
  BY <1>1, <1>2, <1>3, <1>5, <1>6 DEF Typed
<1>8. Reported'
  <2>1. open # 0 => open = 1 /\ t.reply = 0
    BY <1>1, <1>2, <1>3 DEF Typed, Reported, t
  <2>2. audible > 0 => audio > 0
    BY <1>3
  <2>3. open # 0 \/ audio > 0 => ~ t.interrupted
    BY <1>1, <1>2, <1>3 DEF Reported, t
  <2> QED
    BY <1>2, <1>3, <1>5, <1>6, <2>1, <2>2, <2>3 DEF Reported, Playing
<1>9. Windows'
  <2>1. \A k \in 1 .. 1 : reverse' /\ k = 1
    BY <1>2, <1>3
  <2> QED
    BY <1>6, <2>1 DEF Windows
<1> QED
  BY <1>7, <1>8, <1>9 DEF IInv

\* The user begins to talk.
LEMMA BeginKeeps ==
    ASSUME IInv, Begin
    PROVE  IInv'
<1>1. /\ Typed /\ Reported /\ Windows /\ Confirm \in Nat /\ Confirm > 0 /\ now \in Nat
  BY TimelineAssumption, TheLastTurn DEF IInv
<1>2. /\ phase = "live" /\ onset' = now /\ turns' = turns
      /\ now' = now /\ phase' = phase /\ reverse' = reverse /\ open' = open
      /\ answering' = answering /\ audio' = audio /\ tally' = tally /\ audible' = audible
      /\ silenced' = silenced /\ cuts' = cuts
  BY DEF Begin, clock
<1>3. Typed'
  BY <1>1, <1>2 DEF Typed
<1>4. Reported'
  BY <1>1, <1>2 DEF Reported, Playing
<1>5. Windows'
  BY <1>1, <1>2 DEF Windows, Running, Within1, ClosingLineCut, Current
<1> QED
  BY <1>3, <1>4, <1>5 DEF IInv

\* A barge-in.
LEMMA InterruptKeeps ==
    ASSUME IInv, Interrupt
    PROVE  IInv'
<1>1. /\ phase = "live" /\ InterruptDue /\ CutOff(Played)
      /\ cuts' = cuts \/ cuts' = cuts \cup {onset}
      /\ UNCHANGED <<clock, onset>>
  BY DEF Interrupt
<1>2. onset \in 0 .. now /\ cuts \subseteq 0 .. now
  BY <1>1 DEF InterruptDue, IInv, Typed
<1>3. cuts' \subseteq 0 .. now /\ (answering \/ Playing) /\ phase' \in {"live", "stored"}
  BY <1>1, <1>2 DEF InterruptDue, clock
<1>4. UNCHANGED <<now, reverse, onset>>
  BY <1>1 DEF clock
<1> QED
  BY <1>1, <1>3, <1>4, CutKeeps

\* Time passes.
LEMMA TickKeeps ==
    ASSUME IInv, Tick
    PROVE  IInv'
<1>1. /\ Typed /\ Reported /\ Windows /\ Confirm \in Nat
      /\ now \in Nat /\ MaxNow \in Nat /\ tally \in Nat /\ audible \in Nat /\ Len(turns) \in Nat
      /\ onset \in {None} \cup 0 .. now
  BY TimelineAssumption, TheLastTurn DEF IInv, Typed
<1>2. /\ phase # "stored" /\ now < MaxNow /\ now' = now + 1
      /\ ~ (phase = "live" /\ InterruptDue) /\ turns' = turns
      /\ phase' = phase /\ reverse' = reverse /\ open' = open
      /\ answering' = answering /\ audio' = audio /\ tally' = tally /\ audible' = audible
      /\ onset' = onset /\ silenced' = silenced /\ cuts' = cuts
  BY DEF Tick
<1>3. /\ now' \in 0 .. MaxNow /\ 0 .. now \subseteq 0 .. now' /\ audible <= now' + tally
      /\ now <= now' /\ Playing' => Playing
  BY <1>1, <1>2 DEF Typed, Playing
<1>4. \A k \in 1 .. Len(turns) : Placed(turns[k], now')
  <2>1. \A k \in 1 .. Len(turns) : Placed(turns[k], now)
    BY <1>1 DEF Typed
  <2> QED
    BY <1>3, <2>1 DEF Placed
<1>5. Typed'
  <2>1. phase' = "waiting" => Unopened'
    BY <1>1, <1>2 DEF Typed, Unopened
  <2> QED
    BY <1>1, <1>2, <1>3, <1>4, <2>1 DEF Typed
<1>6. Reported'
  <2>1. ASSUME phase = "live", onset # None, now' > onset + Confirm
        PROVE  ~ answering /\ ~ Playing
    <3>1. onset \in Int
      BY <1>1, <2>1
    <3>2. CASE now = onset + Confirm
      BY <1>2, <2>1, <3>2 DEF InterruptDue
    <3>3. CASE now > onset + Confirm
      BY <1>1, <2>1, <3>3 DEF Reported
    <3> QED
      BY <1>1, <1>2, <2>1, <3>1, <3>2, <3>3
  <2> QED
    BY <1>1, <1>2, <1>3, <2>1 DEF Reported
<1>7. Windows'
  <2>1. ASSUME phase = "live", NEW k \in 1 .. Len(turns), ~ (reverse /\ k = 1), k = Len(turns)
        PROVE  Running(turns[k], k)'
    <3>1. Running(turns[k], k) /\ turns[k].pEnd \in Int
      BY <1>1, <2>1, TheLastTurn DEF Windows, AnyTurn
    <3>2. turns[k].pEnd <= now => turns[k].pEnd <= now'
      BY <1>1, <1>2, <3>1
    <3>3. /\ turns'[k] = turns[k] /\ silenced'[k] = silenced[k] /\ audio' = audio
          /\ audible' - tally' = audible - tally /\ audible' = audible /\ open' = open
          /\ answering' = answering
      BY <1>2
    <3> QED
      BY <3>1, <3>2, <3>3 DEF Running
  <2> QED
    BY <1>1, <1>2, <2>1 DEF Windows, Within1, ClosingLineCut, Current
<1> QED
  BY <1>5, <1>6, <1>7 DEF IInv

\* What the user said when it is sent: its onset was reported before, so nothing plays.
LEMMA NothingPlays ==
    ASSUME IInv, phase = "live", onset # None, now >= onset + Confirm,
           ~ answering, ~ InterruptDue
    PROVE  onset \in 0 .. now /\ ~ Playing /\ audible <= now
<1>1. /\ Typed /\ Reported /\ Confirm \in Nat /\ now \in Nat /\ audible \in Nat
      /\ onset \in {None} \cup 0 .. now
  BY TimelineAssumption, TheLastTurn DEF IInv, Typed
<1>2. onset \in 0 .. now
  BY <1>1
<1>3. ~ Playing
  <2>1. CASE now = onset + Confirm
    BY <2>1 DEF InterruptDue
  <2>2. CASE now # onset + Confirm
    <3>1. now > onset + Confirm
      BY <1>1, <1>2, <2>2
    <3> QED
      BY <1>1, <3>1 DEF Reported
  <2> QED
    BY <2>1, <2>2
<1> QED
  BY <1>1, <1>2, <1>3 DEF Playing

\* An utterance taken up: the Turn it begins or continues is the last one, and open.
Taken(n) ==
    /\ phase = "live" /\ onset # None /\ now >= onset + Confirm
    /\ ~ answering /\ ~ InterruptDue
    /\ open # 0 \/ Len(turns) < MaxTurns
    /\ turns' = IF open = 0 THEN Append(turns, n) ELSE [turns EXCEPT ![open] = n]
    /\ silenced' = IF open = 0 THEN Append(silenced, 0) ELSE silenced
    /\ open' = Len(turns') /\ answering' \in BOOLEAN
    /\ onset' = None /\ audio' = 0 /\ tally' = 0
    /\ UNCHANGED <<phase, reverse, now, record, audible, cuts>>

\* The Turn taken up has no reply.
LEMMA TakenUp ==
    ASSUME IInv, phase = "live"
    PROVE  LET t == NewOrReopenedTurn IN
           /\ t \in AnyTurn /\ Placed(t, now) /\ t.reply = 0 /\ ~ t.interrupted
           /\ open \in {0, Len(turns)} /\ Len(turns) \in Nat
           /\ open = 0 => t = NewTurn
           /\ open # 0 => t = turns[Len(turns)] /\ Len(turns) > 0
<1> DEFINE t == NewOrReopenedTurn
<1>1. /\ Typed /\ Reported /\ now \in Nat /\ Len(turns) \in Nat /\ open \in {0, Len(turns)}
  BY TheLastTurn DEF IInv, Typed
<1>2. CASE open = 0
  <2>1. t = NewTurn
    BY <1>2 DEF NewOrReopenedTurn
  <2>2. NewTurn.reply = 0 /\ ~ NewTurn.interrupted
    BY DEF NewTurn
  <2> QED
    BY <1>1, <1>2, <2>1, <2>2, NewTurnPlaced
<1>3. CASE open # 0
  <2>1. t = turns[Len(turns)] /\ Len(turns) > 0 /\ open = Len(turns)
    BY <1>1, <1>3 DEF NewOrReopenedTurn
  <2> QED
    BY <1>1, <1>3, <2>1, TheLastTurn DEF Reported
<1> QED
  BY <1>2, <1>3

\* What is written of it leaves the Persona's side of the Turn.
LEMMA TakenKeeps ==
    ASSUME IInv, NEW n \in AnyTurn, Taken(n), Placed(n, now), n.reply = 0, ~ n.interrupted,
           n.pEnd = NewOrReopenedTurn.pEnd
    PROVE  IInv'
<1>0. PICK m \in Nat : m = Len(turns)
  BY LenProperties DEF IInv, Typed
<1>1. /\ Typed /\ Reported /\ Windows
      /\ now \in Nat /\ audible \in Nat /\ tally \in Nat
      /\ turns \in Seq(AnyTurn) /\ silenced \in Seq(Nat) /\ Len(silenced) = m
      /\ \A k \in 1 .. m : Placed(turns[k], now)
  BY <1>0, TheLastTurn DEF IInv, Typed
<1>2. /\ phase = "live" /\ ~ answering
      /\ onset' = None /\ audio' = 0 /\ tally' = 0
      /\ phase' = phase /\ reverse' = reverse /\ now' = now /\ audible' = audible /\ cuts' = cuts
      /\ open # 0 \/ m < MaxTurns
      /\ turns' = IF open = 0 THEN Append(turns, n) ELSE [turns EXCEPT ![open] = n]
      /\ silenced' = IF open = 0 THEN Append(silenced, 0) ELSE silenced
      /\ open' = Len(turns') /\ answering' \in BOOLEAN
  BY <1>0 DEF Taken
<1>3. /\ open \in {0, m} /\ (open # 0 => m \in 1 .. m /\ m > 0)
  BY <1>0, <1>1 DEF Typed
<1>4. audible <= now /\ ~ Playing' /\ 0 \in 0 .. MaxAudio /\ 0 \in 0 .. 0 /\ audible <= now + 0
  <2>1. audible <= now /\ ~ Playing
    BY NothingPlays DEF Taken
  <2> QED
    BY <1>1, <1>2, <2>1, TimelineAssumption DEF Playing
<1>5. ~ (reverse /\ m = 1 /\ open # 0) => n.pEnd <= now
  <2>1. CASE open = 0
    BY <1>1, <2>1 DEF NewOrReopenedTurn, NewTurn, None
  <2>2. CASE open # 0 /\ ~ (reverse /\ m = 1)
    <3>1. Running(turns[m], m) /\ NewOrReopenedTurn = turns[m]
      BY <1>0, <1>1, <1>2, <1>3, <2>2 DEF Windows, NewOrReopenedTurn
    <3> QED
      BY <1>2, <2>2, <3>1 DEF Running
  <2> QED
    BY <2>1, <2>2
<1>6. ASSUME open = 0
      PROVE  /\ turns' \in Seq(AnyTurn) /\ Len(turns') = m + 1 /\ turns'[m + 1] = n
             /\ silenced' \in Seq(Nat) /\ Len(silenced') = m + 1
             /\ \A k \in 1 .. m : turns'[k] = turns[k] /\ silenced'[k] = silenced[k]
  BY <1>0, <1>1, <1>2, <1>6, AppendProperties
<1>7. ASSUME open # 0
      PROVE  /\ turns' \in Seq(AnyTurn) /\ Len(turns') = m /\ turns'[m] = n
             /\ silenced' = silenced
             /\ \A k \in 1 .. m : k # m => turns'[k] = turns[k]
  <2>1. turns' = [turns EXCEPT ![Len(turns)] = n]
    BY <1>0, <1>2, <1>3, <1>7
  <2> QED
    BY <1>0, <1>1, <1>2, <1>3, <1>7, <2>1, LastReplaced
<1>8. PICK l \in Nat : l = IF open = 0 THEN m + 1 ELSE m
  OBVIOUS
<1>9. /\ l > 0 /\ l \in 1 .. l /\ turns' \in Seq(AnyTurn) /\ Len(turns') = l /\ turns'[l] = n
      /\ silenced' \in Seq(Nat) /\ Len(silenced') = l
      /\ \A k \in 1 .. l : k # l => k \in 1 .. m /\ turns'[k] = turns[k] /\ silenced'[k] = silenced[k]
      /\ l <= MaxTurns
  <2>1. m <= MaxTurns /\ MaxTurns \in Nat
    BY <1>0, <1>1, TimelineAssumption DEF Typed
  <2>2. CASE open = 0
    BY <1>2, <1>6, <1>8, <2>1, <2>2
  <2>3. CASE open # 0
    BY <1>1, <1>3, <1>7, <1>8, <2>1, <2>3
  <2> QED
    BY <2>2, <2>3
<1>10. open' = l
  BY <1>2, <1>9
<1>11. Typed'
  <2>1. \A k \in 1 .. l : Placed(turns'[k], now')
    BY <1>1, <1>2, <1>9
  <2> QED
    BY <1>1, <1>2, <1>4, <1>9, <1>10, <2>1 DEF Typed
<1>12. Reported'
  BY <1>2, <1>4, <1>9, <1>10 DEF Reported
<1>13. Windows'
  <2>1. ASSUME NEW k \in 1 .. l, ~ (reverse /\ k = 1)
        PROVE  turns'[k].reply # 0 => turns'[k].pEnd <= silenced'[k] + Grace
    <3>1. CASE k = l
      BY <1>9, <3>1
    <3>2. CASE k # l
      <4>1. k \in 1 .. m /\ turns'[k] = turns[k] /\ silenced'[k] = silenced[k]
        BY <1>9, <3>2
      <4>2. Within1(turns[k], k)
        BY <1>0, <1>1, <1>2, <2>1, <4>1 DEF Windows, ClosingLineCut
      <4> QED
        BY <4>1, <4>2 DEF Within1
    <3> QED
      BY <3>1, <3>2
  <2>2. ASSUME ~ (reverse /\ l = 1) PROVE Running(turns[l], l)'
    <3>1. n.pEnd <= now
      BY <1>5, <1>8, <2>2
    <3> QED
      BY <1>2, <1>9, <3>1 DEF Running
  <2>3. \A k \in 1 .. l : ~ (reverse' /\ k = 1) /\ k = l => Running(turns[k], k)'
    BY <1>2, <2>2
  <2> QED
    BY <1>2, <1>9, <2>1, <2>3 DEF Windows, Within1
<1> QED
  BY <1>11, <1>12, <1>13 DEF IInv

\* An utterance arrives: a phantom changes no Turn, any other begins or continues one.
LEMMA ArriveKeeps ==
    ASSUME IInv, NEW f \in Fragments, Arrive(f)
    PROVE  IInv'
<1>1. /\ Typed /\ Reported /\ Windows /\ Confirm \in Nat
      /\ now \in Nat /\ audible \in Nat /\ tally \in Nat
      /\ f.length \in Nat /\ f.length >= Confirm
      /\ onset \in {None} \cup 0 .. now
  BY TimelineAssumption, TheLastTurn DEF IInv, Typed
<1>2. /\ phase = "live" /\ onset # None /\ now >= onset + f.length
      /\ ~ answering /\ ~ InterruptDue
      /\ onset' = None /\ audio' = 0 /\ tally' = 0 /\ record' = record
      /\ phase' = phase /\ reverse' = reverse /\ now' = now /\ audible' = audible /\ cuts' = cuts
  BY DEF Arrive, clock
<1>3. now >= onset + Confirm
  BY <1>1, <1>2
<1>4. /\ audible <= now /\ ~ Playing' /\ 0 \in 0 .. MaxAudio /\ 0 \in 0 .. 0 /\ audible <= now + 0
  <2>1. audible <= now /\ ~ Playing
    BY <1>2, <1>3, NothingPlays
  <2> QED
    BY <1>1, <1>2, <2>1, TimelineAssumption DEF Playing
<1>5. CASE f.text = <<>>
  <2>1. /\ turns' = turns /\ open' = open /\ answering' = answering /\ silenced' = silenced
    BY <1>5 DEF Arrive
  <2>2. Typed'
    <3>1. phase' = "live" /\ ~ answering' /\ audio' = 0 /\ ~ (audio' > 0)
      BY <1>2, <2>1
    <3> QED
      BY <1>1, <1>2, <1>4, <2>1, <3>1 DEF Typed
  <2>3. Reported'
    BY <1>1, <1>2, <1>4, <2>1 DEF Reported
  <2>4. Windows'
    <3>1. ASSUME NEW k \in 1 .. Len(turns), ~ (reverse /\ k = 1), k = Len(turns)
          PROVE  Running(turns[k], k)'
      <4>1. Running(turns[k], k)
        BY <1>1, <1>2, <3>1 DEF Windows
      <4>2. open # 0 => turns[k].pEnd <= now
        BY <1>2, <4>1 DEF Running
      <4> QED
        BY <1>2, <1>4, <2>1, <4>2 DEF Running
    <3>2. \A k \in 1 .. Len(turns) : ~ (reverse /\ k = 1) => Within1(turns[k], k)
      BY <1>1, <1>2 DEF Windows, ClosingLineCut
    <3> QED
      BY <1>2, <2>1, <3>1, <3>2 DEF Windows, Within1
  <2> QED
    BY <2>2, <2>3, <2>4 DEF IInv
<1>6. CASE f.text # <<>>
  <2> DEFINE t == NewOrReopenedTurn
             n == [t EXCEPT !.question = @ \o f.text, !.uEnd = now]
  <2>1. Taken(n)
    BY <1>2, <1>3, <1>6 DEF Arrive, Taken, clock
  <2>2. t \in AnyTurn /\ Placed(t, now) /\ t.reply = 0 /\ ~ t.interrupted
    BY <1>2, TakenUp
  <2> HIDE DEF t
  <2>3. /\ n \in AnyTurn /\ Placed(n, now) /\ n.reply = 0 /\ ~ n.interrupted /\ n.pEnd = t.pEnd
    BY <1>1, <2>2, AskedTurn
  <2> HIDE DEF n
  <2> QED
    BY <2>1, <2>3, TakenKeeps DEF t
<1> QED
  BY <1>5, <1>6

\* The Turn an utterance without a transcript leaves is the one it took up.
LEMMA LoseTakes == ASSUME IInv, Lose PROVE Taken(NewOrReopenedTurn)
<1>1. /\ open \in {0, Len(turns)} /\ Len(turns) \in Nat /\ turns \in Seq(AnyTurn)
      /\ answering \in BOOLEAN
  BY TheLastTurn DEF IInv, Typed
<1>2. turns' = IF open = 0 THEN Append(turns, NewOrReopenedTurn)
               ELSE [turns EXCEPT ![open] = NewOrReopenedTurn]
  <2>1. CASE open = 0
    BY <2>1 DEF Lose, NewOrReopenedTurn
  <2>2. CASE open # 0
    <3>1. turns' = turns /\ NewOrReopenedTurn = turns[open]
      BY <2>2 DEF Lose, NewOrReopenedTurn
    <3>2. turns = [turns EXCEPT ![open] = turns[open]]
      BY <1>1
    <3> QED
      BY <2>2, <3>1, <3>2
  <2> QED
    BY <2>1, <2>2
<1> QED
  BY <1>1, <1>2 DEF Lose, Taken, clock

\* An utterance without a transcript.
LEMMA LoseKeeps == ASSUME IInv, Lose PROVE IInv'
<1>1. Taken(NewOrReopenedTurn) /\ phase = "live"
  BY LoseTakes DEF Taken
<1> QED
  BY <1>1, TakenUp, TakenKeeps

\* What was measured is written to the Turn just begun.
LEMMA AttachKeeps ==
    ASSUME IInv, Awaited, Attach
    PROVE  IInv'
<1>0. PICK m \in Nat : m = Len(turns)
  BY LenProperties DEF IInv, Typed
<1>1. PICK r \in measuring : turns' = [turns EXCEPT ![m] = AttachMeasurements(turns[m], r)]
  BY <1>0 DEF Attach, Current
<1> DEFINE t == turns[m]
           n == AttachMeasurements(t, r)
<1>2. /\ Typed /\ Reported /\ Windows /\ answering /\ audio = 0 /\ Awaits(t, r, now)
  BY <1>0, <1>1 DEF IInv, Awaited
<1>3. /\ phase = "live" /\ silenced' = silenced
      /\ now' = now /\ phase' = phase /\ reverse' = reverse /\ open' = open
      /\ answering' = answering /\ audio' = audio /\ tally' = tally /\ audible' = audible
      /\ onset' = onset /\ cuts' = cuts
  BY DEF Attach, clock
<1>4. /\ m > 0 /\ t \in AnyTurn /\ Placed(t, now) /\ now \in Nat /\ open = m /\ m \in 1 .. m
      /\ turns \in Seq(AnyTurn)
  BY <1>0, <1>2, TheLastTurn DEF Typed
<1>5. /\ n \in AnyTurn /\ Placed(n, now) /\ n.reply = t.reply /\ n.pEnd = t.pEnd
      /\ n.interrupted = t.interrupted
  BY <1>2, <1>4, AttachedTurn
<1> HIDE DEF n, t
<1>6. /\ turns' \in Seq(AnyTurn) /\ Len(turns') = m /\ turns'[m] = n
      /\ \A k \in 1 .. m : k # m => turns'[k] = turns[k]
  BY <1>0, <1>1, <1>4, <1>5, LastReplaced DEF n, t
<1>7. Typed'
  <2>1. \A k \in 1 .. m : Placed(turns[k], now)
    BY <1>0, <1>2 DEF Typed
  <2>2. \A k \in 1 .. m : Placed(turns'[k], now')
    BY <1>3, <1>5, <1>6, <2>1
  <2> QED
    BY <1>0, <1>2, <1>3, <1>6, <2>2 DEF Typed
<1>8. t.reply = 0 /\ ~ t.interrupted
  BY <1>0, <1>2, <1>3, <1>4 DEF Reported, t
<1>9. Reported'
  BY <1>2, <1>3, <1>4, <1>5, <1>6, <1>8 DEF Reported, Playing
<1>10. Windows'
  <2>1. ASSUME NEW k \in 1 .. m, ~ (reverse /\ k = 1)
        PROVE  turns'[k].reply # 0 => turns'[k].pEnd <= silenced'[k] + Grace
    <3>1. CASE k = m
      BY <1>5, <1>6, <1>8, <3>1
    <3>2. CASE k # m
      <4>1. Within1(turns[k], k)
        BY <1>0, <1>2, <1>3, <2>1, <3>2 DEF Windows
      <4> QED
        BY <1>3, <1>6, <3>2, <4>1 DEF Within1
    <3> QED
      BY <3>1, <3>2
  <2>2. ASSUME ~ (reverse /\ m = 1) PROVE Running(turns[m], m)'
    <3>1. Running(t, m)
      BY <1>0, <1>2, <1>3, <1>4, <2>2 DEF Windows, t
    <3> QED
      BY <1>2, <1>3, <1>5, <1>6, <3>1 DEF Running
  <2>3. \A k \in 1 .. m : ~ (reverse' /\ k = 1) /\ k = m => Running(turns[k], k)'
    BY <1>3, <2>2
  <2> QED
    BY <1>3, <1>6, <2>1, <2>3 DEF Windows, Within1
<1> QED
  BY <1>7, <1>9, <1>10 DEF IInv

\* The call ends, and is stored.
LEMMA HangUpKeeps ==
    ASSUME IInv, HangUp
    PROVE  IInv'
<1>0. PICK m \in Nat : m = Len(turns)
  BY LenProperties DEF IInv, Typed
<1>1. /\ Typed /\ Reported /\ Windows /\ Grace \in Nat
  BY TimelineAssumption DEF IInv
<1>2. /\ phase = "live" /\ phase' = "stored" /\ reverse' = reverse /\ now' = now
      /\ onset' = onset /\ cuts' = cuts
  BY DEF HangUp
<1>3. CASE (Playing \/ answering) /\ CutOff(Played)
  <2>1. cuts' \subseteq 0 .. now
    BY <1>1, <1>2 DEF Typed
  <2> QED
    BY <1>2, <1>3, <2>1, CutKeeps
<1>4. CASE /\ answering
           /\ turns' = [turns EXCEPT ![Current] =
                          IF audio = 0 THEN @ ELSE [@ EXCEPT !.reply = audio, !.interrupted = TRUE]]
           /\ UNCHANGED <<open, answering, audio, tally, audible, silenced>>
  <2> DEFINE t == turns[m]
             n == IF audio = 0 THEN t ELSE [t EXCEPT !.reply = audio, !.interrupted = TRUE]
  <2>1. turns' = [turns EXCEPT ![m] = n]
    BY <1>0, <1>4 DEF Current
  <2>2. /\ m > 0 /\ t \in AnyTurn /\ Placed(t, now) /\ m \in 1 .. m
        /\ turns \in Seq(AnyTurn) /\ audio \in 0 .. MaxAudio /\ silenced[m] \in Nat
    BY <1>0, <1>1, <1>4, TheLastTurn DEF Typed
  <2>3. t.reply = 0
    BY <1>0, <1>1, <1>2, <1>4, <2>2 DEF Typed, Reported
  <2> HIDE DEF t
  <2>4. /\ n \in AnyTurn /\ n.reply = audio /\ n.pEnd = t.pEnd /\ n.pOffset = t.pOffset
        /\ n.uOffset = t.uOffset /\ n.uEnd = t.uEnd /\ n.pDispatched = t.pDispatched
        /\ n.speech = t.speech /\ n.phonation = t.phonation
    BY <2>2, <2>3 DEF AnyTurn
  <2> HIDE DEF n
  <2>5. Placed(n, now)
    BY <2>2, <2>4 DEF Placed
  <2>6. /\ turns' \in Seq(AnyTurn) /\ Len(turns') = m /\ turns'[m] = n
        /\ \A k \in 1 .. m : k # m => turns'[k] = turns[k]
    BY <1>0, <2>1, <2>2, <2>4, LastReplaced
  <2>7. Typed'
    <3>1. \A k \in 1 .. m : Placed(turns[k], now)
      BY <1>0, <1>1 DEF Typed
    <3>2. \A k \in 1 .. m : Placed(turns'[k], now')
      BY <1>2, <2>5, <2>6, <3>1
    <3> QED
      BY <1>0, <1>1, <1>2, <1>4, <2>6, <3>2 DEF Typed
  <2>8. Reported'
    BY <1>2 DEF Reported
  <2>9. Windows'
    <3>1. ASSUME NEW k \in 1 .. m, ~ (reverse /\ k = 1)
          PROVE  turns'[k].reply # 0 => turns'[k].pEnd <= silenced'[k] + Grace
      <4>1. CASE k = m /\ audio # 0
        <5>1. Running(t, m)
          BY <1>0, <1>1, <1>2, <2>2, <3>1, <4>1 DEF Windows, t
        <5>2. t.pEnd <= silenced[m] /\ t.pEnd \in Int
          BY <1>4, <2>2, <4>1, <5>1 DEF Running, AnyTurn
        <5>3. t.pEnd <= silenced[m] + Grace
          BY <1>1, <2>2, <5>2
        <5> QED
          BY <1>4, <2>4, <2>6, <4>1, <5>3
      <4>2. CASE k = m /\ audio = 0
        BY <2>4, <2>6, <4>2
      <4>3. CASE k # m
        <5>1. Within1(turns[k], k)
          BY <1>0, <1>1, <1>2, <3>1, <4>3 DEF Windows
        <5> QED
          BY <1>4, <2>6, <4>3, <5>1 DEF Within1
      <4> QED
        BY <4>1, <4>2, <4>3
    <3> QED
      BY <1>2, <2>6, <3>1 DEF Windows, Within1
  <2> QED
    BY <2>7, <2>8, <2>9 DEF IInv
<1>5. CASE ~ answering /\ UNCHANGED <<turns, open, answering, audio, tally, audible, silenced>>
  <2>1. Typed'
    BY <1>1, <1>2, <1>5 DEF Typed
  <2>2. Reported'
    BY <1>2 DEF Reported
  <2>3. Windows'
    BY <1>1, <1>2, <1>5 DEF Windows, Within1, ClosingLineCut, Current
  <2> QED
    BY <2>1, <2>2, <2>3 DEF IInv
<1> QED
  BY <1>3, <1>4, <1>5 DEF HangUp

\* The closing line belongs to the last Turn: spoken to its end, or cut off before it is
\* written.
LEMMA LineSpoken ==
    ASSUME IInv, NEW length \in Chunks, SignOff(length)
    PROVE  LET m == Len(turns)
               t == turns[m]
               n == turns'[m]
               line == NotePersonaAudio(t, length) IN
           /\ m \in Nat /\ m > 0 /\ t \in AnyTurn /\ t.reply \in Nat /\ ~ t.interrupted
           /\ turns' = [turns EXCEPT ![m] = n] /\ Len(turns') = m /\ turns' \in Seq(AnyTurn)
           /\ \A k \in 1 .. m : k # m => turns'[k] = turns[k]
           /\ line \in AnyTurn /\ n \in AnyTurn /\ Placed(n, now)
           /\ n.pOffset = (IF t.pOffset = None THEN now ELSE t.pOffset)
           /\ Played \in 0 .. tally
           /\ \/ /\ n = [line EXCEPT !.reply = audio + length]
                 /\ n.pEnd = (IF t.pEnd > now THEN t.pEnd ELSE now) + length
                 /\ tally' = length + (IF Playing THEN tally ELSE 0)
                 /\ audible' = Greater(now, audible) + length
                 /\ silenced' = [silenced EXCEPT ![m] = Greater(now, audible) + length]
              \/ /\ n = AfterCut(line, Played)
                 /\ \/ n.reply = 0
                    \/ n.reply = t.reply /\ ~ n.interrupted
                    \/ t.pOffset # None => n.pEnd <= t.pOffset + Played
                 /\ tally' = tally
                 /\ audible' = Lesser(audible, now)
                 /\ silenced' = [silenced EXCEPT ![m] = Lesser(silenced[m], now)]
<1>0. PICK m \in Nat : m = Len(turns)
  BY LenProperties DEF IInv, Typed
<1> DEFINE t == turns[m]
           line == NotePersonaAudio(t, length)
           spoken == [line EXCEPT !.reply = audio + length]
           cut == AfterCut(line, Played)
<1>1. /\ Typed /\ Reported /\ length \in Nat \ {0} /\ ~ answering /\ audio > 0
      /\ phase = "live" /\ audio + length <= MaxAudio
  BY TimelineAssumption DEF IInv, SignOff
<1>2. /\ m > 0 /\ t \in AnyTurn /\ Placed(t, now) /\ m \in 1 .. m
      /\ now \in Nat /\ audio \in 0 .. MaxAudio /\ tally \in Nat /\ audible \in Nat
      /\ MaxAudio \in Nat /\ turns \in Seq(AnyTurn) /\ answering \in BOOLEAN
      /\ audible <= now + tally
  BY <1>0, <1>1, TheLastTurn DEF Typed
<1>3. Played \in 0 .. tally
  BY <1>2 DEF Played, Greater
<1>4. ~ t.interrupted /\ t.reply \in Nat
  <2>1. ~ t.interrupted
    BY <1>0, <1>1 DEF Reported
  <2> QED
    BY <1>2, <2>1, TimelineAssumption DEF AnyTurn
<1> HIDE DEF t
<1>5. /\ line \in AnyTurn /\ Placed(line, now)
      /\ line.reply = t.reply /\ line.interrupted = t.interrupted
      /\ line.pOffset = (IF t.pOffset = None THEN now ELSE t.pOffset)
      /\ line.pEnd = (IF t.pEnd > now THEN t.pEnd ELSE now) + length
  BY <1>1, <1>2, NoteMovesTheEnd
<1> HIDE DEF line
<1>6. audio + length \in 0 .. MaxAudio
  BY <1>1, <1>2
<1>7. /\ spoken \in AnyTurn /\ spoken.pOffset = line.pOffset /\ spoken.pEnd = line.pEnd
      /\ spoken.pDispatched = line.pDispatched
      /\ spoken.uOffset = line.uOffset /\ spoken.uEnd = line.uEnd
      /\ spoken.speech = line.speech /\ spoken.phonation = line.phonation
  BY <1>5, <1>6 DEF AnyTurn
<1>8. Placed(spoken, now)
  <2> HIDE DEF spoken
  <2> QED
    BY <1>5, <1>7 DEF Placed
<1>9. /\ cut \in AnyTurn /\ Placed(cut, now) /\ cut.pOffset = line.pOffset
      /\ \/ cut.reply = 0
         \/ cut = line
         \/ line.pOffset # None => cut.pEnd <= line.pOffset + Played
  <2> DEFINE played == Played
  <2>1. played \in Nat
    BY <1>2, <1>3
  <2> HIDE DEF played
  <2>2. LET n == AfterCut(line, played) IN
           /\ n \in AnyTurn /\ Placed(n, now) /\ n.pOffset = line.pOffset
           /\ \/ n.reply = 0
              \/ n = line
              \/ line.pOffset # None => n.pEnd <= line.pOffset + played
    <3>1. audio # 0
      BY <1>1, <1>2
    <3> QED
      BY <1>2, <1>5, <2>1, <3>1, CutTurn
  <2> QED
    BY <2>2 DEF played
<1>10. ASSUME NEW n \in AnyTurn, turns' = [turns EXCEPT ![m] = n]
       PROVE  /\ turns' \in Seq(AnyTurn) /\ Len(turns') = m /\ turns'[m] = n
              /\ \A k \in 1 .. m : k # m => turns'[k] = turns[k]
  BY <1>0, <1>2, <1>10, LastReplaced
<1>11. CASE /\ turns' = [turns EXCEPT ![m] = spoken]
            /\ tally' = length + (IF Playing THEN tally ELSE 0)
            /\ audible' = Greater(now, audible) + length
            /\ silenced' = [silenced EXCEPT ![m] = Greater(now, audible) + length]
  <2>1. /\ turns' \in Seq(AnyTurn) /\ Len(turns') = m /\ turns'[m] = spoken
        /\ \A k \in 1 .. m : k # m => turns'[k] = turns[k]
    BY <1>7, <1>10, <1>11
  <2> HIDE DEF spoken
  <2>2. turns' = [turns EXCEPT ![m] = turns'[m]]
    BY <1>11, <2>1
  <2> QED
    BY <1>0, <1>2, <1>3, <1>4, <1>5, <1>7, <1>8, <1>11, <2>1, <2>2 DEF t, line, spoken
<1>12. CASE /\ turns' = [turns EXCEPT ![m] = cut]
            /\ tally' = tally
            /\ audible' = Lesser(audible, now)
            /\ silenced' = [silenced EXCEPT ![m] = Lesser(silenced[m], now)]
  <2>1. /\ turns' \in Seq(AnyTurn) /\ Len(turns') = m /\ turns'[m] = cut
        /\ \A k \in 1 .. m : k # m => turns'[k] = turns[k]
    BY <1>9, <1>10, <1>12
  <2>2. \/ cut.reply = 0
        \/ cut.reply = t.reply /\ ~ cut.interrupted
        \/ t.pOffset # None => cut.pEnd <= t.pOffset + Played
    BY <1>4, <1>5, <1>9
  <2> HIDE DEF cut
  <2>3. turns' = [turns EXCEPT ![m] = turns'[m]]
    BY <1>12, <2>1
  <2> QED
    BY <1>0, <1>2, <1>3, <1>4, <1>5, <1>9, <1>12, <2>1, <2>2, <2>3 DEF t, line, cut
<1>13. \/ /\ turns' = [turns EXCEPT ![m] = spoken]
          /\ tally' = length + (IF Playing THEN tally ELSE 0)
          /\ audible' = Greater(now, audible) + length
          /\ silenced' = [silenced EXCEPT ![m] = Greater(now, audible) + length]
       \/ /\ turns' = [turns EXCEPT ![m] = cut]
          /\ tally' = tally
          /\ audible' = Lesser(audible, now)
          /\ silenced' = [silenced EXCEPT ![m] = Lesser(silenced[m], now)]
  BY <1>0, Zenon DEF SignOff, Current, t, line, spoken, cut
<1> HIDE DEF spoken, cut
<1> QED
  BY <1>11, <1>12, <1>13

\* It ends no later than it was heard, or it is the exception.
LEMMA SignOffKeeps ==
    ASSUME IInv, NEW length \in Chunks, SignOff(length)
    PROVE  IInv'
<1>0. PICK m \in Nat : m = Len(turns)
  BY LenProperties DEF IInv, Typed
<1> DEFINE t == turns[m]
           n == turns'[m]
           line == NotePersonaAudio(t, length)
<1>1. /\ Typed /\ Reported /\ Windows /\ Grace \in Nat /\ length \in Nat \ {0}
  BY TimelineAssumption DEF IInv
<1>2. /\ phase = "live" /\ phase' = "stored" /\ ~ answering /\ audio > 0
      /\ audio' = audio + length /\ audio + length <= MaxAudio
      /\ reverse' = reverse /\ now' = now /\ open' = open /\ answering' = answering
      /\ onset' = onset /\ cuts' = cuts
  BY DEF SignOff
<1>3. /\ m > 0 /\ m \in 1 .. m /\ now \in Nat /\ audio \in Nat /\ tally \in Nat
      /\ audible \in Nat /\ MaxAudio \in Nat /\ silenced[m] \in Nat
      /\ silenced \in Seq(Nat) /\ Len(silenced) = m
      /\ tally <= audio /\ audible <= now + tally
  BY <1>0, <1>1, <1>2, TheLastTurn DEF Typed
<1> DEFINE spoken == Greater(now, audible) + length
           silent == Lesser(silenced[m], now)
           Spoken == /\ n = [line EXCEPT !.reply = audio + length]
                     /\ n.pEnd = (IF t.pEnd > now THEN t.pEnd ELSE now) + length
                     /\ tally' = length + (IF Playing THEN tally ELSE 0)
                     /\ audible' = spoken
                     /\ silenced' = [silenced EXCEPT ![m] = spoken]
           CutShort == /\ \/ n.reply = 0
                          \/ n.reply = t.reply /\ ~ n.interrupted
                          \/ t.pOffset # None => n.pEnd <= t.pOffset + Played
                       /\ tally' = tally
                       /\ audible' = Lesser(audible, now)
                       /\ silenced' = [silenced EXCEPT ![m] = silent]
<1>4. /\ t \in AnyTurn /\ t.reply \in Nat /\ ~ t.interrupted
      /\ Len(turns') = m /\ turns' \in Seq(AnyTurn)
      /\ \A k \in 1 .. m : k # m => turns'[k] = turns[k]
      /\ n \in AnyTurn /\ Placed(n, now)
      /\ Played \in 0 .. tally
      /\ Spoken \/ CutShort
  BY <1>0, LineSpoken
<1>5. spoken \in Nat /\ silent \in Nat /\ silent <= now /\ (silent = silenced[m] \/ silent = now)
  BY <1>1, <1>3 DEF Greater, Lesser
<1>6. /\ tally' \in 0 .. audio' /\ audio' \in 0 .. MaxAudio
      /\ audible' \in Nat /\ audible' <= now + tally'
  <2>1. CASE Spoken
    BY <1>1, <1>2, <1>3, <2>1 DEF Greater, Playing
  <2>2. CASE CutShort
    BY <1>1, <1>2, <1>3, <2>2 DEF Lesser
  <2> QED
    BY <1>4, <2>1, <2>2
<1>7. /\ silenced' \in Seq(Nat) /\ Len(silenced') = m
      /\ \A k \in 1 .. m : k # m => silenced'[k] = silenced[k]
      /\ Spoken => silenced'[m] = spoken
      /\ CutShort => silenced'[m] = silent
  <2>1. ASSUME NEW x \in Nat, silenced' = [silenced EXCEPT ![m] = x]
        PROVE  /\ silenced' \in Seq(Nat) /\ Len(silenced') = m /\ silenced'[m] = x
               /\ \A k \in 1 .. m : k # m => silenced'[k] = silenced[k]
    <3>1. silenced' = [silenced EXCEPT ![Len(silenced)] = x]
      BY <1>3, <2>1
    <3> QED
      BY <1>3, <2>1, <3>1, LastReplaced
  <2>2. CASE Spoken
    <3>1. silenced' = [silenced EXCEPT ![m] = spoken] /\ spoken \in Nat
      BY <1>5, <2>2
    <3>2. CASE CutShort
      <4>1. silenced' = [silenced EXCEPT ![m] = silent]
        BY <3>2
      <4> HIDE DEF spoken, silent, Spoken, CutShort
      <4> QED
        BY <1>5, <2>1, <3>1, <4>1
    <3> HIDE DEF spoken, silent, Spoken, CutShort
    <3> QED
      BY <2>1, <3>1, <3>2
  <2>3. CASE CutShort
    <3>1. silenced' = [silenced EXCEPT ![m] = silent] /\ silent \in Nat
      BY <1>5, <2>3
    <3>2. Spoken => silenced' = [silenced EXCEPT ![m] = spoken]
      OBVIOUS
    <3> HIDE DEF spoken, silent, Spoken, CutShort
    <3> QED
      BY <1>5, <2>1, <3>1, <3>2
  <2> QED
    BY <1>4, <2>2, <2>3
<1>8. Typed'
  <2>1. \A k \in 1 .. m : Placed(turns[k], now)
    BY <1>0, <1>1 DEF Typed
  <2>2. \A k \in 1 .. m : Placed(turns'[k], now')
    BY <1>2, <1>4, <2>1
  <2> QED
    BY <1>0, <1>1, <1>2, <1>3, <1>4, <1>6, <1>7, <2>2 DEF Typed
<1>9. Reported'
  BY <1>2 DEF Reported
<1>10. ASSUME ~ (reverse /\ m = 1)
       PROVE  (n.reply # 0 => n.pEnd <= silenced'[m] + Grace) \/ ClosingLineCut'
  <2>1. /\ t.pOffset # None /\ t.pOffset <= audible - tally
        /\ t.pEnd <= audible /\ audible = silenced[m] /\ t.reply = audio
    <3>1. Running(t, m)
      BY <1>0, <1>1, <1>2, <1>3, <1>10 DEF Windows
    <3> QED
      BY <1>2, <3>1 DEF Running
  <2>2. t.pEnd \in Int /\ t.pOffset \in Int /\ n.pEnd \in Int
    BY <1>4 DEF AnyTurn
  <2>3. CASE Spoken
    <3>1. n.pEnd <= spoken
      <4>1. PICK a \in Int, e \in Int, l \in Nat : a = t.pEnd /\ e = n.pEnd /\ l = length
        BY <1>1, <2>2
      <4>2. a <= audible /\ e = (IF a > now THEN a ELSE now) + l
        BY <2>1, <2>3, <4>1
      <4>3. e <= Greater(now, audible) + l
        BY <1>3, <4>2 DEF Greater
      <4> QED
        BY <4>1, <4>3
    <3>2. spoken <= spoken + Grace
      BY <1>1, <1>5
    <3>3. silenced'[m] = spoken
      BY <1>7, <2>3
    <3> HIDE DEF spoken, Spoken, CutShort
    <3> QED
      BY <1>1, <1>5, <2>2, <3>1, <3>2, <3>3
  <2>4. CASE CutShort
    <3>1. CASE n.reply = 0
      BY <3>1
    <3>2. CASE n.reply = t.reply /\ ~ n.interrupted
      <4>1. n.reply \in 1 .. audio' - 1
        BY <1>1, <1>2, <1>3, <2>1, <3>2
      <4> QED
        BY <1>2, <1>4, <3>2, <4>1 DEF ClosingLineCut, Current
    <3>3. CASE t.pOffset # None => n.pEnd <= t.pOffset + Played
      <4> DEFINE played == Played
      <4>1. played \in Nat /\ played <= tally /\ n.pEnd <= t.pOffset + played
        BY <1>3, <1>4, <2>1, <3>3
      <4>2. Playing => played = tally - (audible - now)
        BY <1>3 DEF Played, Greater, Playing
      <4> HIDE DEF played
      <4>3. PICK a \in Int, e \in Int : a = t.pOffset /\ e = n.pEnd
        BY <2>2
      <4>4. e <= audible /\ e <= now
        <5>1. a <= audible - tally /\ e <= a + played
          BY <2>1, <4>1, <4>3
        <5>2. e <= audible
          BY <1>3, <4>1, <5>1
        <5>3. CASE Playing
          BY <1>3, <4>1, <4>2, <5>1, <5>2, <5>3
        <5>4. CASE ~ Playing
          BY <1>3, <5>2, <5>4 DEF Playing
        <5> QED
          BY <5>2, <5>3, <5>4
      <4>5. n.pEnd <= silent /\ silenced'[m] = silent
        BY <1>5, <1>7, <2>1, <2>4, <4>3, <4>4
      <4> HIDE DEF silent, Spoken, CutShort
      <4> QED
        BY <1>1, <1>5, <2>2, <4>5
    <3> QED
      BY <2>4, <3>1, <3>2, <3>3
  <2> QED
    BY <1>4, <2>3, <2>4
<1>11. Windows'
  <2>1. ASSUME NEW k \in 1 .. m, ~ (reverse /\ k = 1)
        PROVE  \/ turns'[k].reply # 0 => turns'[k].pEnd <= silenced'[k] + Grace
               \/ k = m /\ ClosingLineCut'
    <3>1. CASE k = m
      BY <1>10, <2>1, <3>1
    <3>2. CASE k # m
      <4>1. Within1(turns[k], k)
        BY <1>0, <1>1, <1>2, <2>1, <3>2 DEF Windows
      <4> QED
        BY <1>4, <1>7, <3>2, <4>1 DEF Within1
    <3> QED
      BY <3>1, <3>2
  <2> QED
    BY <1>2, <1>4, <2>1 DEF Windows, Within1
<1> QED
  BY <1>8, <1>9, <1>11 DEF IInv

\* Every step keeps it; what is judged of a stored call touches none of it.
LEMMA InvNext == IInv /\ Awaited /\ [Next]_vars => IInv'
<1> SUFFICES ASSUME IInv, Awaited, [Next]_vars PROVE IInv'
  OBVIOUS
<1>1. CASE Tick
  BY <1>1, TickKeeps
<1>2. CASE StartPlayback
  BY <1>2, StartPlaybackKeeps
<1>3. CASE Begin
  BY <1>3, BeginKeeps
<1>4. CASE Interrupt
  BY <1>4, InterruptKeeps
<1>5. CASE Finish
  BY <1>5, FinishKeeps
<1>6. CASE HangUp
  BY <1>6, HangUpKeeps
<1>7. CASE Lose
  BY <1>7, LoseKeeps
<1>8. CASE Attach
  BY <1>8, AttachKeeps
<1>9. ASSUME NEW length \in Chunks, Chunk(length) PROVE IInv'
  BY <1>9, ChunkKeeps
<1>10. ASSUME NEW length \in Chunks, SignOff(length) PROVE IInv'
  BY <1>10, SignOffKeeps
<1>11. ASSUME NEW f \in Fragments, Arrive(f) PROVE IInv'
  BY <1>11, ArriveKeeps
<1>12. ASSUME UNCHANGED <<phase, reverse, now, turns, open, answering, measuring, audio, tally,
                          audible, onset, silenced, cuts>>
       PROVE  IInv'
  <2>1. Typed'
    BY <1>12 DEF IInv, Typed, Unopened
  <2>2. Reported' /\ Windows'
    BY <1>12 DEF IInv, Reported, Windows, Running, Within1, Playing, ClosingLineCut, Current
  <2> QED
    BY <2>1, <2>2 DEF IInv
<1>13. ASSUME NEW pressed \in SUBSET PersonaRows, Judge(pressed) PROVE IInv'
  BY <1>12, <1>13 DEF Judge
<1>14. CASE UNCHANGED vars
  BY <1>12, <1>14 DEF vars
<1> QED
  BY <1>1, <1>2, <1>3, <1>4, <1>5, <1>6, <1>7, <1>8, <1>9, <1>10, <1>11, <1>13, <1>14 DEF Next

\* A recording is asked for with its question, and is done with or given up before anything
\* else happens to the Turn.
LEMMA AwaitedNext == IInv /\ Awaited /\ [Next]_vars => Awaited'
<1> SUFFICES ASSUME IInv, Awaited, [Next]_vars PROVE Awaited'
  OBVIOUS
<1>0. /\ Typed /\ now \in Nat /\ audio \in Nat /\ Len(turns) \in Nat /\ turns \in Seq(AnyTurn)
      /\ open \in {0, Len(turns)} /\ onset \in {None} \cup 0 .. now
  BY TheLastTurn DEF IInv, Typed
<1>1. measuring # {} => phase = "live" /\ answering /\ audio = 0
  BY DEF Awaited
<1>2. CASE measuring' = {}
  BY <1>2 DEF Awaited
<1>3. CASE /\ UNCHANGED <<phase, turns, answering, measuring, audio>>
           /\ now' \in {now, now + 1}
  <2> SUFFICES ASSUME NEW r \in measuring
               PROVE  Awaits(turns[Len(turns)], r, now')
    BY <1>1, <1>3 DEF Awaited
  <2>1. Awaits(turns[Len(turns)], r, now)
    BY DEF Awaited
  <2>2. 0 .. now \subseteq 0 .. now'
    BY <1>0, <1>3
  <2> QED
    BY <2>1, <2>2 DEF Awaits
<1>4. CASE Tick
  BY <1>3, <1>4 DEF Tick
<1>5. CASE StartPlayback
  BY <1>1, <1>2, <1>5 DEF StartPlayback
<1>6. CASE Begin
  BY <1>3, <1>6 DEF Begin, clock
<1>7. CASE Interrupt
  BY <1>2, <1>7 DEF Interrupt, CutOff
<1>8. CASE Lose
  BY <1>1, <1>2, <1>8 DEF Lose
<1>9. CASE Attach
  BY <1>2, <1>9 DEF Attach
<1>10. CASE Finish
  <2>1. audio # 0
    BY <1>0, <1>10 DEF Finish
  <2> QED
    BY <1>1, <1>2, <1>10, <2>1 DEF Finish
<1>11. CASE HangUp
  <2>1. measuring' = {} \/ (~ answering /\ measuring' = measuring)
    BY <1>11 DEF HangUp, CutOff
  <2> QED
    BY <1>1, <1>2, <2>1
<1>12. ASSUME NEW length \in Chunks, Chunk(length) PROVE Awaited'
  BY <1>2, <1>12 DEF Chunk
<1>13. ASSUME NEW length \in Chunks, SignOff(length) PROVE Awaited'
  BY <1>1, <1>2, <1>13 DEF SignOff
<1>14. ASSUME NEW f \in Fragments, Arrive(f) PROVE Awaited'
  <2>1. CASE f.text = <<>>
    <3>1. measuring' = {}
      BY <1>1, <1>14, <2>1 DEF Arrive
    <3> QED
      BY <1>2, <3>1
  <2>2. CASE f.text # <<>>
    <3> DEFINE t == NewOrReopenedTurn
               n == [t EXCEPT !.question = @ \o f.text, !.uEnd = now]
               r == [fragment |-> f, length |-> f.lead + now - onset]
    <3>1. /\ phase = "live" /\ phase' = "live" /\ now' = now /\ onset # None
          /\ now >= onset + f.length /\ audio' = 0 /\ answering'
          /\ turns' = (IF open = 0 THEN Append(turns, n) ELSE [turns EXCEPT ![open] = n])
          /\ measuring' = {r}
      BY <1>14, <2>2 DEF Arrive, clock
    <3>2. t \in AnyTurn /\ Placed(t, now)
      BY <3>1, TakenUp
    <3>3. n \in AnyTurn /\ n.uEnd = now /\ n.question # <<>>
      <4> HIDE DEF t
      <4>1. n \in AnyTurn /\ n.uEnd = now /\ n.question = t.question \o f.text
        BY <1>0, <3>2, AskedTurn
      <4>2. f.text \in Seq(STRING)
        BY TimelineAssumption
      <4> QED
        BY <2>2, <3>2, <4>1, <4>2, LongerIsNotEmpty DEF AnyTurn
    <3> HIDE DEF n
    <3>4. turns'[Len(turns')] = n
      <4>1. CASE open = 0
        BY <1>0, <3>1, <3>3, <4>1, AppendProperties
      <4>2. CASE open # 0
        <5>1. open = Len(turns) /\ Len(turns) > 0
          BY <1>0, <4>2
        <5>2. turns' = [turns EXCEPT ![Len(turns)] = n]
          BY <3>1, <4>2, <5>1
        <5> QED
          BY <1>0, <3>3, <5>1, <5>2, LastReplaced
      <4> QED
        BY <4>1, <4>2
    <3>5. /\ r.fragment = f /\ r.length = f.lead + now - onset
          /\ f.lead \in Nat /\ f.length \in Nat /\ onset \in 0 .. now
      BY <1>0, <3>1, TimelineAssumption
    <3> HIDE DEF r
    <3>6. Awaits(n, r, now')
      BY <1>0, <3>1, <3>3, <3>5 DEF Awaits
    <3> QED
      BY <3>1, <3>4, <3>6 DEF Awaited
  <2> QED
    BY <2>1, <2>2
<1>15. ASSUME NEW pressed \in SUBSET PersonaRows, Judge(pressed) PROVE Awaited'
  BY <1>3, <1>15 DEF Judge
<1>16. CASE UNCHANGED vars
  BY <1>3, <1>16 DEF vars
<1> QED
  BY <1>4, <1>5, <1>6, <1>7, <1>8, <1>9, <1>10, <1>11, <1>12, <1>13, <1>14, <1>15, <1>16 DEF Next

\* Both hold throughout the call.
LEMMA Invariance == Spec => [](IInv /\ Awaited)
<1>1. Init => Awaited
  BY DEF Init, Awaited
<1> QED
  BY <1>1, InvInit, InvNext, AwaitedNext, PTL DEF Spec

\* However chunks, barge-ins and utterances follow one another, the window of a Persona
\* line ends no later than the line was heard, but for the grace and for a closing line cut
\* off before it is written (orchestrator.py, _trim_persona_window and
\* _revise_committed_reply).
THEOREM HeardNoLongerThanPlayed == Spec => []NothingHeardAfterTheCut
<1>1. IInv => NothingHeardAfterTheCut
  <2> SUFFICES ASSUME IInv, phase # "waiting", NEW k \in 1 .. Current
               PROVE  HeardWindow(k) \/ (k = Current /\ ClosingLineCut)
    BY DEF NothingHeardAfterTheCut
  <2> QED
    BY DEF IInv, Windows, Within1, HeardWindow, Current
<1> QED
  BY <1>1, Invariance, PTL

-----------------------------------------------------------------------------
(* The scan of every Turn.                                                  *)

\* The hesitations counted are all the stretches held, and only those.
\* The scan jumps behind a hold it has found (hesitations.py, holds and _flat_end).
THEOREM EveryHoldIsFound == Spec => []HoldsAreComplete
<1>1. Typed => HoldsAreComplete
  <2> SUFFICES ASSUME Typed, NEW k \in 1 .. Current
               PROVE  LET u == turns[k].pitch
                          held == Holds(u)
                          frames(h) == h.start .. h.start + h.frames - 1
                      IN  /\ \A i \in 1 .. Len(held) :
                                /\ IsFlat(u, held[i].start, held[i].start + held[i].frames - 1)
                                /\ \A j \in 1 .. i - 1 : frames(held[i]) \cap frames(held[j]) = {}
                          /\ \A s \in 1 .. Len(u) - HoldFrames + 1 :
                                IsFlat(u, s, s + HoldFrames - 1) =>
                                    \E i \in 1 .. Len(held) :
                                        frames(held[i]) \cap (s .. s + HoldFrames - 1) # {}
    BY DEF HoldsAreComplete
  <2>1. PICK u \in Seq(Int) : u = turns[k].pitch
    <3>1. turns[k] \in AnyTurn
      BY ElementOfSeq DEF Typed, Current
    <3> QED
      BY <3>1 DEF AnyTurn
  <2>2. PICK held \in Seq(Stretch) :
            held = Holds(u) /\ AreHolds(held, u, 1) /\ AreAllHolds(held, u, 1)
    BY ScanIsComplete
  <2> DEFINE frames(h) == h.start .. h.start + h.frames - 1
  <2>3. /\ HoldFrames \in Nat \ {0} /\ Len(u) \in Nat /\ Len(held) \in Nat
        /\ \A i \in 1 .. Len(held) : held[i].start \in Nat /\ held[i].frames \in Nat
    <3>1. \A i \in 1 .. Len(held) : held[i] \in Stretch
      BY ElementOfSeq
    <3> QED
      BY <3>1, LenProperties, CurveAssumption DEF Stretch
  <2>4. ASSUME NEW i \in 1 .. Len(held)
        PROVE  /\ IsFlat(u, held[i].start, held[i].start + held[i].frames - 1)
               /\ \A j \in 1 .. i - 1 : frames(held[i]) \cap frames(held[j]) = {}
    <3>1. ASSUME NEW j \in 1 .. i - 1 PROVE frames(held[i]) \cap frames(held[j]) = {}
      <4>1. held[j].start + held[j].frames <= held[i].start /\ j \in 1 .. Len(held)
        BY <2>2, <2>3 DEF AreHolds
      <4>2. PICK a \in Nat, b \in Nat, m \in Nat, n \in Nat :
                a = held[i].start /\ b = held[j].start /\ m = held[i].frames /\ n = held[j].frames
        BY <2>3, <4>1
      <4>3. (a .. a + m - 1) \cap (b .. b + n - 1) = {}
        <5>1. b + n <= a
          BY <4>1, <4>2
        <5> QED
          BY <5>1
      <4>4. frames(held[i]) = a .. a + m - 1 /\ frames(held[j]) = b .. b + n - 1
        BY <4>2
      <4> HIDE DEF frames
      <4> QED
        BY <4>3, <4>4
    <3> QED
      BY <2>2, <3>1 DEF AreHolds
  <2>5. ASSUME NEW s \in 1 .. Len(u) - HoldFrames + 1, IsFlat(u, s, s + HoldFrames - 1)
        PROVE  \E i \in 1 .. Len(held) : frames(held[i]) \cap (s .. s + HoldFrames - 1) # {}
    <3>1. PICK i \in 1 .. Len(held) : Meets(held[i], s)
      BY <2>2, <2>5 DEF AreAllHolds
    <3>2. held[i].frames >= HoldFrames
      BY <2>2 DEF AreHolds
    <3>3. PICK a \in Nat, n \in Nat : a = held[i].start /\ n = held[i].frames
      BY <2>3
    <3>4. PICK m \in Nat : m = IF a > s THEN a ELSE s
      BY <2>3
    <3>5. m \in a .. a + n - 1 /\ m \in s .. s + HoldFrames - 1
      <4>1. a <= s + HoldFrames - 1 /\ s <= a + n - 1 /\ n >= HoldFrames
        BY <3>1, <3>2, <3>3 DEF Meets
      <4>2. HoldFrames \in Nat \ {0} /\ s \in Nat
        BY <2>3
      <4> QED
        BY <3>4, <4>1, <4>2
    <3>6. frames(held[i]) = a .. a + n - 1
      BY <3>3
    <3> HIDE DEF frames
    <3>7. frames(held[i]) \cap (s .. s + HoldFrames - 1) # {}
      BY <3>5, <3>6
    <3> QED
      BY <3>7
  <2> QED
    BY <2>1, <2>2, <2>4, <2>5
<1>2. IInv => Typed
  BY DEF IInv
<1> QED
  BY <1>1, <1>2, Invariance, PTL

-----------------------------------------------------------------------------
(* The cuts: what keeps an interruption standing.                           *)

\* Nothing that began by then comes after a Turn.
Behind(ts, k, c) == \A j \in k + 1 .. Len(ts) : ts[j].pOffset # None => ts[j].pOffset > c

\* A reply cut off at an onset is still there, and is written to no more.
StandsIn(ts, c, closed) ==
    \E k \in 1 .. Len(ts) : Standing(ts[k], c) /\ Behind(ts, k, c) /\ (k < Len(ts) \/ closed)

\* What may happen to the Turns of a call: the last is written to unless it is closed, or
\* another follows.
Continues(ts, tt, c, closed) ==
    /\ Len(tt) \in {Len(ts), Len(ts) + 1}
    /\ \A k \in 1 .. Len(ts) : closed \/ k # Len(ts) => tt[k] = ts[k]
    /\ Len(ts) > 0 => LET p == tt[Len(ts)].pOffset IN p \in {None, ts[Len(ts)].pOffset} \/ p > c
    /\ Len(tt) # Len(ts) => tt[Len(ts) + 1].pOffset = None

\* The cut reply stays.
LEMMA StandsOn ==
    ASSUME NEW ts \in Seq(AnyTurn), NEW tt \in Seq(AnyTurn), NEW c \in Nat,
           NEW closed \in BOOLEAN, NEW after \in BOOLEAN,
           StandsIn(ts, c, closed), Continues(ts, tt, c, closed),
           closed /\ Len(tt) = Len(ts) => after
    PROVE  StandsIn(tt, c, after)
<1>0. PICK n \in Nat, m \in Nat : n = Len(ts) /\ m = Len(tt)
  BY LenProperties
<1>1. PICK k \in 1 .. n : Standing(ts[k], c) /\ Behind(ts, k, c) /\ (k < n \/ closed)
  BY <1>0 DEF StandsIn
<1>2. /\ m = n \/ m = n + 1
      /\ \A j \in 1 .. n : closed \/ j # n => tt[j] = ts[j]
      /\ tt[n].pOffset \in {None, ts[n].pOffset} \/ tt[n].pOffset > c
      /\ m # n => tt[n + 1].pOffset = None
  BY <1>0, <1>1 DEF Continues
<1>3. tt[k] = ts[k]
  BY <1>1, <1>2
<1>4. ASSUME NEW j \in k + 1 .. m, tt[j].pOffset # None PROVE tt[j].pOffset > c
  <2>1. CASE j < n
    <3>1. tt[j] = ts[j] /\ j \in k + 1 .. n
      BY <1>2, <2>1
    <3> QED
      BY <1>0, <1>1, <1>4, <3>1 DEF Behind
  <2>2. CASE j = n
    <3>1. n \in k + 1 .. n
      BY <2>2
    <3>2. ts[n].pOffset # None => ts[n].pOffset > c
      BY <1>0, <1>1, <3>1 DEF Behind
    <3> QED
      BY <1>2, <1>4, <2>2, <3>2
  <2>3. CASE j > n
    <3>1. j = n + 1 /\ m # n
      BY <1>2, <2>3
    <3> QED
      BY <1>2, <1>4, <3>1
  <2> QED
    BY <2>1, <2>2, <2>3
<1>5. Standing(tt[k], c) /\ Behind(tt, k, c)
  BY <1>0, <1>1, <1>3, <1>4 DEF Behind
<1>6. k < m \/ after
  <2>1. CASE m = n
    BY <1>0, <1>1, <2>1
  <2>2. CASE m = n + 1
    BY <2>2
  <2> QED
    BY <1>2, <2>1, <2>2
<1>7. k \in 1 .. m
  BY <1>2
<1> QED
  BY <1>0, <1>5, <1>6, <1>7 DEF StandsIn

-----------------------------------------------------------------------------

\* The last Turn is written to no more.
Closed == open = 0 /\ ~ answering /\ ~ Playing

\* Every onset noted has its reply.
CutsStand == \A c \in cuts : c < now /\ StandsIn(turns, c, Closed)

\* A window that has a length.
Wide(t) == t.pOffset # None /\ t.pEnd > t.pOffset

\* The reply under way has a window, and once it is generated its text is what was dispatched.
UnderWay ==
    /\ phase # "stored" /\ audio > 0 /\ (answering \/ Playing \/ phase = "waiting") =>
          Wide(turns[Len(turns)])
    /\ phase # "stored" /\ ~ answering /\ (Playing \/ phase = "waiting") =>
          turns[Len(turns)].reply = audio

\* What is stored is of the Turns.
Recorded ==
    phase = "stored" =>
        record = [rows |-> record.rows, figures |-> Persisted(turns).figures,
                  findings |-> Persisted(turns).findings, segments |-> record.segments]

\* The invariant of the cuts.
CutInv == CutsStand /\ UnderWay /\ Recorded

\* The onsets are numbers.
LEMMA CutsAreNumbers ==
    ASSUME Typed
    PROVE  /\ \A c \in cuts : c \in Nat
           /\ turns \in Seq(AnyTurn) /\ Len(turns) \in Nat
           /\ Closed \in BOOLEAN
  BY TimelineAssumption, LenProperties DEF Typed, Closed, Playing

\* A step that keeps the onsets keeps their replies, if it goes on with the Turns.
LEMMA CutsStandOn ==
    ASSUME IInv, IInv', CutsStand, cuts' \subseteq cuts, now' >= now,
           \A c \in cuts : Continues(turns, turns', c, Closed),
           Closed /\ Len(turns') = Len(turns) => Closed'
    PROVE  CutsStand'
<1> SUFFICES ASSUME NEW c \in cuts' PROVE c < now' /\ StandsIn(turns, c, Closed)'
  BY DEF CutsStand
<1>1. c < now /\ StandsIn(turns, c, Closed)
  BY DEF CutsStand
<1>2. c \in Nat /\ turns \in Seq(AnyTurn) /\ Closed \in BOOLEAN /\ now \in Nat
  BY CutsAreNumbers, TheLastTurn DEF IInv
<1>3. turns' \in Seq(AnyTurn) /\ now' \in Nat
  BY TimelineAssumption DEF IInv, Typed
<1>4. Closed' \in BOOLEAN
  BY <1>3 DEF Closed, Playing
<1>5. Continues(turns, turns', c, Closed)
  OBVIOUS
<1> DEFINE tt == turns'
           after == Closed'
<1>6. StandsIn(tt, c, after)
  <2>1. tt \in Seq(AnyTurn) /\ after \in BOOLEAN /\ (Closed /\ Len(tt) = Len(turns) => after)
    BY <1>3, <1>4
  <2>2. Continues(turns, tt, c, Closed)
    BY <1>5
  <2> DEFINE was == Closed
  <2>3. was \in BOOLEAN /\ StandsIn(turns, c, was) /\ Continues(turns, tt, c, was) /\ (was /\ Len(tt) = Len(turns) => after)
    BY <1>1, <1>2, <2>1, <2>2
  <2> HIDE DEF tt, after, was
  <2> QED
    BY <1>2, <2>1, <2>3, StandsOn
<1>7. c < now'
  BY <1>1, <1>2, <1>3
<1> QED
  BY <1>6, <1>7

\* Steps that leave the Turns alone.
LEMMA SameTurns ==
    ASSUME turns' = turns, Len(turns) \in Nat, NEW c
    PROVE  Continues(turns, turns', c, Closed)
  BY DEF Continues

\* A call begins with no cut.
LEMMA CutInit == Init => CutInv
<1> SUFFICES ASSUME Init PROVE CutInv
  OBVIOUS
<1>1. /\ cuts = {} /\ audio = 0 /\ audible = 0 /\ now = 0
      /\ phase = (IF reverse THEN "waiting" ELSE "live") /\ answering = reverse
      /\ reverse \in BOOLEAN
  BY DEF Init
<1>2. ~ Playing /\ (phase = "waiting" => answering) /\ phase # "stored"
  BY <1>1 DEF Playing
<1>3. CutsStand
  BY <1>1 DEF CutsStand
<1>4. UnderWay
  BY <1>1, <1>2 DEF UnderWay
<1>5. Recorded
  BY <1>2 DEF Recorded
<1> QED
  BY <1>3, <1>4, <1>5 DEF CutInv

\* A chunk belongs to a reply that is still open.
LEMMA ChunkKeepsCuts ==
    ASSUME IInv, IInv', CutInv, NEW length \in Chunks, Chunk(length)
    PROVE  CutInv'
<1>0. PICK m \in Nat : m = Len(turns)
  BY LenProperties DEF IInv, Typed
<1> DEFINE t == turns[m]
           n == NotePersonaAudio(t, length)
<1>1. Typed /\ CutsStand /\ length \in Nat \ {0}
  BY TimelineAssumption DEF IInv, CutInv
<1>2. /\ phase # "stored" /\ answering /\ turns' = [turns EXCEPT ![m] = n]
      /\ now' = now /\ phase' = phase /\ answering' = answering /\ cuts' = cuts
  BY <1>0 DEF Chunk, clock, Current
<1>3. /\ m > 0 /\ t \in AnyTurn /\ Placed(t, now) /\ now \in Nat /\ turns \in Seq(AnyTurn)
  BY <1>0, <1>1, <1>2, TheLastTurn DEF Typed
<1>4. /\ n \in AnyTurn /\ n.pOffset \in 0 .. now
      /\ n.pOffset = (IF t.pOffset = None THEN now ELSE t.pOffset)
      /\ n.pEnd = (IF t.pEnd > now THEN t.pEnd ELSE now) + length
  BY <1>1, <1>3, NoteMovesTheEnd
<1>5. t.pEnd \in Int
  BY <1>3 DEF AnyTurn
<1>6. Wide(n)
  BY <1>1, <1>3, <1>4, <1>5 DEF Wide, None
<1> HIDE DEF n, t
<1>7. /\ Len(turns') = m /\ turns'[m] = n /\ \A k \in 1 .. m : k # m => turns'[k] = turns[k]
  BY <1>0, <1>2, <1>3, <1>4, LastReplaced
<1>8. ~ Closed
  BY <1>2 DEF Closed
<1>9. ASSUME NEW c \in cuts PROVE Continues(turns, turns', c, Closed)
  <2>1. c < now
    BY <1>1 DEF CutsStand
  <2>2. n.pOffset \in {None, t.pOffset} \/ n.pOffset > c
    BY <1>4, <2>1
  <2> QED
    BY <1>0, <1>7, <1>8, <2>2 DEF Continues, t
<1>10. CutsStand'
  <2>1. cuts' \subseteq cuts /\ now' >= now
    BY <1>2, <1>3
  <2>2. Closed /\ Len(turns') = Len(turns) => Closed'
    BY <1>8
  <2> QED
    BY <1>1, <1>9, <2>1, <2>2, CutsStandOn
<1>11. UnderWay'
  BY <1>2, <1>6, <1>7 DEF UnderWay
<1> QED
  BY <1>2, <1>10, <1>11 DEF CutInv, Recorded

\* So does its end.
LEMMA FinishKeepsCuts ==
    ASSUME IInv, IInv', CutInv, Finish
    PROVE  CutInv'
<1>0. PICK m \in Nat : m = Len(turns)
  BY LenProperties DEF IInv, Typed
<1> DEFINE t == turns[m]
           n == [t EXCEPT !.reply = audio]
<1>1. Typed /\ CutsStand /\ UnderWay
  BY DEF IInv, CutInv
<1>2. /\ phase # "stored" /\ answering /\ audio > 0
      /\ turns' = [turns EXCEPT ![m].reply = audio] /\ answering' = FALSE
      /\ now' = now /\ phase' = phase /\ audio' = audio /\ cuts' = cuts
  BY <1>0 DEF Finish, clock, Current
<1>3. /\ m > 0 /\ t \in AnyTurn /\ now \in Nat /\ turns \in Seq(AnyTurn) /\ audio \in 0 .. MaxAudio
  BY <1>0, <1>1, <1>2, TheLastTurn DEF Typed
<1>4. turns' = [turns EXCEPT ![m] = n]
  BY <1>2
<1>5. Wide(t)
  BY <1>0, <1>1, <1>2 DEF UnderWay
<1> HIDE DEF t
<1>6. n \in AnyTurn /\ n.reply = audio /\ n.pOffset = t.pOffset /\ n.pEnd = t.pEnd
  BY <1>3 DEF AnyTurn
<1> HIDE DEF n
<1>7. /\ Len(turns') = m /\ turns'[m] = n /\ \A k \in 1 .. m : k # m => turns'[k] = turns[k]
  BY <1>0, <1>3, <1>4, <1>6, LastReplaced
<1>8. ~ Closed
  BY <1>2 DEF Closed
<1>9. ASSUME NEW c \in cuts PROVE Continues(turns, turns', c, Closed)
  BY <1>0, <1>6, <1>7, <1>8 DEF Continues, t
<1>10. CutsStand'
  <2>1. cuts' \subseteq cuts /\ now' >= now
    BY <1>2, <1>3
  <2>2. Closed /\ Len(turns') = Len(turns) => Closed'
    BY <1>8
  <2> QED
    BY <1>1, <1>9, <2>1, <2>2, CutsStandOn
<1>11. UnderWay'
  <2>1. Wide(n)
    BY <1>5, <1>6 DEF Wide
  <2> QED
    BY <1>2, <1>6, <1>7, <2>1 DEF UnderWay
<1> QED
  BY <1>2, <1>10, <1>11 DEF CutInv, Recorded

\* Before the pick-up nothing was cut.
LEMMA StartPlaybackKeepsCuts ==
    ASSUME IInv, IInv', CutInv, StartPlayback
    PROVE  CutInv'
<1> DEFINE t == turns[1]
           n == Shifted(t)
<1>1. Typed /\ UnderWay /\ Unopened /\ phase = "waiting"
  BY DEF IInv, Typed, StartPlayback, CutInv
<1>2. /\ phase' = "live" /\ turns' = [k \in 1 .. Len(turns) |-> Shifted(turns[k])]
      /\ answering' = answering /\ audio' = audio /\ cuts' = cuts
  BY DEF StartPlayback
<1>3. Len(turns) = 1 /\ cuts = {} /\ t \in AnyTurn /\ Placed(t, now) /\ now \in Nat
  BY <1>1, TheLastTurn DEF Unopened
<1>4. turns' = [k \in 1 .. 1 |-> n]
  BY <1>2, <1>3
<1> HIDE DEF t
<1>5. n.reply = t.reply /\ (Wide(t) => Wide(n))
  <2>1. CASE t.pOffset = None
    <3>1. n = t
      BY <2>1 DEF Shifted
    <3> QED
      BY <3>1
  <2>2. CASE t.pOffset # None
    <3> DEFINE by == t.pOffset
               end == Greater(0, t.pEnd - by)
               dispatched == Greater(0, t.pDispatched - by)
               s == [t EXCEPT !.pOffset = 0, !.pEnd = end, !.pDispatched = dispatched]
    <3>1. n = s
      BY <2>2 DEF Shifted
    <3>2. by \in Nat /\ t.pEnd \in Int
      BY <1>3, <2>2 DEF Placed, AnyTurn
    <3>3. t.pEnd > by => end > 0
      BY <3>2 DEF Greater
    <3> HIDE DEF end, dispatched
    <3>4. s.pOffset = 0 /\ s.pEnd = end /\ s.reply = t.reply
      BY <1>3 DEF AnyTurn
    <3> HIDE DEF s
    <3> QED
      BY <3>1, <3>3, <3>4 DEF Wide, None
  <2> QED
    BY <2>1, <2>2
<1> HIDE DEF n
<1>6. Len(turns') = 1 /\ turns'[1] = n
  <2>1. turns' = <<n>>
    BY <1>4
  <2> QED
    BY <2>1
<1>7. CutsStand'
  BY <1>2, <1>3 DEF CutsStand
<1>8. UnderWay'
  BY <1>1, <1>2, <1>3, <1>5, <1>6 DEF UnderWay, t
<1> QED
  BY <1>2, <1>7, <1>8 DEF CutInv, Recorded

\* Beginning to talk and the passing of time touch no Turn.
LEMMA QuietKeepsCuts ==
    ASSUME IInv, IInv', CutInv, phase # "stored", now' >= now,
           UNCHANGED <<phase, turns, open, answering, audio, audible, cuts>>
    PROVE  CutInv'
<1>1. Typed /\ CutsStand /\ UnderWay /\ now \in Nat /\ audible \in Nat /\ Len(turns) \in Nat
  BY TheLastTurn DEF IInv, CutInv
<1>2. now' \in Nat
  BY TimelineAssumption DEF IInv, Typed
<1>3. Playing' => Playing
  BY <1>1, <1>2 DEF Playing
<1>4. Closed => Closed'
  BY <1>3 DEF Closed
<1>5. \A c \in cuts : Continues(turns, turns', c, Closed)
  BY <1>1, SameTurns
<1>6. CutsStand'
  BY <1>1, <1>4, <1>5, CutsStandOn
<1>7. UnderWay'
  BY <1>1, <1>3 DEF UnderWay
<1> QED
  BY <1>6, <1>7 DEF CutInv, Recorded

\* An utterance continues a Turn that is still open, or begins another.
LEMMA TakenKeepsCuts ==
    ASSUME IInv, IInv', CutInv, NEW n \in AnyTurn, Taken(n),
           n.pOffset = NewOrReopenedTurn.pOffset
    PROVE  CutInv'
<1>0. PICK m \in Nat : m = Len(turns)
  BY LenProperties DEF IInv, Typed
<1>1. /\ Typed /\ CutsStand /\ now \in Nat /\ audible \in Nat /\ turns \in Seq(AnyTurn)
      /\ open \in {0, m} /\ (open # 0 => m \in 1 .. m /\ m > 0)
  <2>1. Typed /\ CutsStand
    BY DEF IInv, CutInv
  <2>2. now \in Nat /\ audible \in Nat
    BY <2>1, TheLastTurn
  <2>3. turns \in Seq(AnyTurn) /\ open \in {0, m}
    BY <1>0, <2>1 DEF Typed
  <2> QED
    BY <1>0, <2>1, <2>2, <2>3
<1>2. /\ phase = "live" /\ audio' = 0 /\ phase' = phase /\ now' = now /\ audible' = audible
      /\ cuts' = cuts /\ ~ Playing'
      /\ turns' = IF open = 0 THEN Append(turns, n) ELSE [turns EXCEPT ![open] = n]
  <2>1. ~ Playing
    BY NothingPlays DEF Taken
  <2> QED
    BY <2>1 DEF Taken, Playing
<1>3. UnderWay' /\ Recorded' /\ cuts' \subseteq cuts /\ now' >= now
  BY <1>1, <1>2 DEF UnderWay, Recorded
<1>4. CASE open = 0
  <2>1. Len(turns') = m + 1 /\ turns'[m + 1] = n /\ \A k \in 1 .. m : turns'[k] = turns[k]
    BY <1>0, <1>1, <1>2, <1>4, AppendProperties
  <2>2. n.pOffset = None
    BY <1>4 DEF NewOrReopenedTurn, NewTurn
  <2>3. \A c \in cuts : Continues(turns, turns', c, Closed)
    BY <1>0, <2>1, <2>2 DEF Continues
  <2>4. Len(turns') # Len(turns)
    BY <1>0, <2>1
  <2> QED
    BY <1>1, <1>3, <2>3, <2>4, CutsStandOn DEF CutInv
<1>5. CASE open # 0
  <2>1. turns' = [turns EXCEPT ![Len(turns)] = n] /\ NewOrReopenedTurn = turns[m]
    BY <1>0, <1>1, <1>2, <1>5 DEF NewOrReopenedTurn
  <2>2. Len(turns') = m /\ turns'[m] = n /\ \A k \in 1 .. m : k # m => turns'[k] = turns[k]
    BY <1>0, <1>1, <1>5, <2>1, LastReplaced
  <2>3. ~ Closed
    BY <1>5 DEF Closed
  <2>4. \A c \in cuts : Continues(turns, turns', c, Closed)
    BY <1>0, <1>5, <2>1, <2>2, <2>3 DEF Continues
  <2> QED
    BY <1>1, <1>3, <2>3, <2>4, CutsStandOn DEF CutInv
<1> QED
  BY <1>1, <1>4, <1>5

\* With words or, taken for noise, without.
LEMMA ArriveKeepsCuts ==
    ASSUME IInv, IInv', CutInv, NEW f \in Fragments, Arrive(f)
    PROVE  CutInv'
<1>1. /\ f.length \in Nat /\ f.length >= Confirm /\ Confirm \in Nat
      /\ onset \in {None} \cup 0 .. now /\ now \in Nat
  BY TimelineAssumption, TheLastTurn DEF IInv, Typed
<1>2. /\ phase = "live" /\ onset # None /\ now >= onset + Confirm
      /\ ~ answering /\ ~ InterruptDue /\ audio' = 0
      /\ phase' = phase /\ now' = now /\ audible' = audible /\ cuts' = cuts
  BY <1>1 DEF Arrive, clock
<1>3. CASE f.text = <<>>
  <2>1. turns' = turns /\ open' = open /\ answering' = answering
    BY <1>3 DEF Arrive
  <2>2. ~ Playing'
    BY <1>2, NothingPlays DEF Playing
  <2>3. Closed => Closed'
    BY <2>1, <2>2 DEF Closed
  <2>4. CutsStand /\ Len(turns) \in Nat /\ cuts' \subseteq cuts /\ now' >= now
    BY <1>1, <1>2, TheLastTurn DEF CutInv, IInv
  <2>5. \A c \in cuts : Continues(turns, turns', c, Closed)
    BY <2>1, <2>4, SameTurns
  <2>6. UnderWay' /\ Recorded'
    BY <1>2, <2>2 DEF UnderWay, Recorded
  <2> QED
    BY <2>3, <2>4, <2>5, <2>6, CutsStandOn DEF CutInv
<1>4. CASE f.text # <<>>
  <2> DEFINE t == NewOrReopenedTurn
             n == [t EXCEPT !.question = @ \o f.text, !.uEnd = now]
  <2>1. Taken(n)
    BY <1>2, <1>4 DEF Arrive, Taken, clock
  <2>2. t \in AnyTurn /\ Placed(t, now)
    BY <1>2, TakenUp
  <2> HIDE DEF t
  <2>3. n \in AnyTurn /\ n.pOffset = t.pOffset
    BY <1>1, <2>2, AskedTurn
  <2> HIDE DEF n
  <2> QED
    BY <2>1, <2>3, TakenKeepsCuts DEF t
<1> QED
  BY <1>3, <1>4

\* Or without a transcript.
LEMMA LoseKeepsCuts == ASSUME IInv, IInv', CutInv, Lose PROVE CutInv'
<1>1. Taken(NewOrReopenedTurn) /\ phase = "live"
  BY LoseTakes DEF Taken
<1>2. NewOrReopenedTurn \in AnyTurn
  BY <1>1, TakenUp
<1> QED
  BY <1>1, <1>2, TakenKeepsCuts

\* What is measured belongs to a Turn that is still open.
LEMMA AttachKeepsCuts ==
    ASSUME IInv, IInv', Awaited, CutInv, Attach
    PROVE  CutInv'
<1>0. PICK m \in Nat : m = Len(turns)
  BY LenProperties DEF IInv, Typed
<1>1. PICK r \in measuring : turns' = [turns EXCEPT ![m] = AttachMeasurements(turns[m], r)]
  BY <1>0 DEF Attach, Current
<1> DEFINE t == turns[m]
           n == AttachMeasurements(t, r)
<1>2. /\ Typed /\ CutsStand /\ answering /\ audio = 0 /\ Awaits(t, r, now)
  BY <1>0, <1>1 DEF IInv, Awaited, CutInv
<1>3. /\ phase = "live" /\ now' = now /\ phase' = phase /\ answering' = answering
      /\ audio' = audio /\ cuts' = cuts
  BY DEF Attach, clock
<1>4. /\ m > 0 /\ t \in AnyTurn /\ Placed(t, now) /\ now \in Nat /\ turns \in Seq(AnyTurn)
  BY <1>0, <1>2, TheLastTurn DEF Typed
<1>5. n \in AnyTurn /\ n.pOffset = t.pOffset
  BY <1>2, <1>4, AttachedTurn
<1> HIDE DEF n, t
<1>6. Len(turns') = m /\ turns'[m] = n /\ \A k \in 1 .. m : k # m => turns'[k] = turns[k]
  BY <1>0, <1>1, <1>4, <1>5, LastReplaced DEF n, t
<1>7. ~ Closed
  BY <1>2 DEF Closed
<1>8. \A c \in cuts : Continues(turns, turns', c, Closed)
  BY <1>0, <1>5, <1>6, <1>7 DEF Continues, t
<1>9. CutsStand'
  <2>1. cuts' \subseteq cuts /\ now' >= now
    BY <1>3, <1>4
  <2> QED
    BY <1>2, <1>7, <1>8, <2>1, CutsStandOn
<1>10. UnderWay' /\ Recorded'
  BY <1>2, <1>3 DEF UnderWay, Recorded
<1> QED
  BY <1>9, <1>10 DEF CutInv

\* What a barge-in leaves of a reply that lost audio: its line keeps its place and its
\* dispatched end, and is marked.
LEMMA CutReplyStands ==
    ASSUME now \in Nat, audio \in 0 .. MaxAudio, NEW t \in AnyTurn, NEW played \in Nat,
           Placed(t, now), Wide(t), played > 0,
           HeardOf(audio, played) \in 1 .. audio - 1, answering \/ t.reply = audio,
           NEW c \in Nat, t.pOffset <= c, t.pDispatched - c >= Yield
    PROVE  Standing(AfterCut(t, played), c)
<1> DEFINE heard == HeardOf(audio, played)
           end == Greater(t.pOffset, Lesser(t.pEnd, t.pOffset + played))
           n == [t EXCEPT !.pEnd = end, !.reply = heard, !.interrupted = TRUE]
<1>1. /\ t.pOffset \in 0 .. now /\ t.pOffset \in Int /\ t.pEnd \in Int /\ t.pEnd > t.pOffset
      /\ t.pEnd # None /\ t.pOffset # None /\ audio \in Nat
      /\ t.interrupted \in BOOLEAN /\ t.pDispatched \in Int
  BY TimelineAssumption DEF Placed, Wide, AnyTurn, None
<1>2. end \in Int /\ end > t.pOffset
  BY <1>1 DEF Greater, Lesser
<1>3. heard \in Nat /\ heard # 0 /\ heard < audio /\ heard \in 0 .. MaxAudio
  BY <1>1, TimelineAssumption
<1> HIDE DEF heard
<1>4. ~ (~ answering /\ heard >= t.reply)
  BY <1>1, <1>3
<1>5. audio # 0
  BY <1>1, <1>3
<1>6. AfterCut(t, played) = [TrimPersonaWindow(t, played) EXCEPT !.reply = heard, !.interrupted = TRUE]
  BY <1>3, <1>4, <1>5 DEF AfterCut, heard
<1>7. TrimPersonaWindow(t, played) = [t EXCEPT !.pEnd = end]
  BY <1>1 DEF TrimPersonaWindow
<1> HIDE DEF end
<1>8. AfterCut(t, played) = n
  <2>1. [[t EXCEPT !.pEnd = end] EXCEPT !.reply = heard, !.interrupted = TRUE] = n
    BY <1>2, <1>3 DEF AnyTurn
  <2> HIDE DEF n
  <2> QED
    BY <1>6, <1>7, <2>1
<1>9. /\ n.pOffset = t.pOffset /\ n.pEnd = end /\ n.reply = heard /\ n.interrupted = TRUE
      /\ n.pDispatched = t.pDispatched
  BY <1>2, <1>3 DEF AnyTurn
<1> HIDE DEF n
<1>10. n.pOffset \in 0 .. c
  BY <1>1, <1>9
<1> QED
  BY <1>2, <1>3, <1>8, <1>9, <1>10 DEF Standing

\* The reply cut off is closed: an earlier one goes on standing, and it stands itself.
LEMMA CutKeepsCuts ==
    ASSUME IInv, IInv', CutsStand, answering \/ Playing, phase = "live", CutOff(Played),
           now' = now, onset' = onset, cuts' \subseteq cuts \cup {onset},
           cuts' \subseteq cuts \/
               /\ onset \in Nat /\ onset < now
               /\ HeardOf(audio, Played) \in 1 .. audio - 1 /\ Played > 0
               /\ Wide(turns[Len(turns)]) /\ (answering \/ turns[Len(turns)].reply = audio)
               /\ turns[Len(turns)].pOffset <= onset
               /\ turns[Len(turns)].pDispatched - onset >= Yield
    PROVE  CutsStand' /\ ~ answering' /\ ~ Playing'
<1>0. PICK m \in Nat : m = Len(turns)
  BY LenProperties DEF IInv, Typed
<1> DEFINE t == turns[m]
           played == Played
           n == AfterCut(t, played)
           heard == HeardOf(audio, played)
<1>1. Typed /\ Reported
  BY DEF IInv
<1>2. /\ turns' = [turns EXCEPT ![m] = n] /\ open' = (IF heard = 0 THEN m ELSE 0)
      /\ answering' = FALSE /\ audible' = Lesser(audible, now)
  BY <1>0 DEF CutOff, Current
<1>3. /\ answering \in BOOLEAN /\ audio \in 0 .. MaxAudio
      /\ Playing => audio > 0
      /\ answering \/ audio > 0 => m > 0
  BY <1>0, <1>1 DEF Typed, Reported
<1>4. /\ m > 0 /\ t \in AnyTurn /\ Placed(t, now) /\ m \in 1 .. m
      /\ now \in Nat /\ audio \in Nat /\ tally \in Nat /\ audible \in Nat
      /\ turns \in Seq(AnyTurn) /\ tally <= audio /\ audible <= now + tally
  BY <1>0, <1>1, <1>3, TheLastTurn DEF Typed
<1>5. played \in Nat
  BY <1>4 DEF Played, Greater
<1> HIDE DEF played, t
<1>6. n \in AnyTurn /\ n.pOffset = t.pOffset
  BY <1>3, <1>4, <1>5, CutTurn
<1>7. ~ Playing'
  BY <1>2, <1>4 DEF Lesser, Playing
<1> HIDE DEF n
<1>8. /\ turns' \in Seq(AnyTurn) /\ Len(turns') = m /\ turns'[m] = n
      /\ \A k \in 1 .. m : k # m => turns'[k] = turns[k]
  BY <1>0, <1>2, <1>4, <1>6, LastReplaced
<1>9. ~ Closed
  BY DEF Closed
<1>10. ASSUME NEW c \in cuts PROVE c < now' /\ StandsIn(turns, c, Closed)'
  <2>1. Continues(turns, turns', c, Closed)
    BY <1>0, <1>6, <1>8, <1>9 DEF Continues, t
  <2>2. c < now /\ StandsIn(turns, c, Closed) /\ c \in Nat
    BY <1>1, CutsAreNumbers DEF CutsStand
  <2> DEFINE after == Closed'
             was == Closed
             tt == turns'
  <2>3. /\ tt \in Seq(AnyTurn) /\ after \in BOOLEAN /\ was \in BOOLEAN
        /\ StandsIn(turns, c, was) /\ Continues(turns, tt, c, was)
        /\ was /\ Len(tt) = Len(turns) => after
    BY <1>8, <1>9, <2>1, <2>2 DEF Closed, Playing
  <2>4. turns \in Seq(AnyTurn)
    BY <1>4
  <2> HIDE DEF after, was, tt
  <2>5. StandsIn(tt, c, after)
    BY <2>2, <2>3, <2>4, StandsOn
  <2> QED
    BY <2>2, <2>5 DEF tt, after
<1>11. ASSUME ~ (cuts' \subseteq cuts) PROVE onset < now' /\ StandsIn(turns, onset, Closed)'
  <2>1. /\ onset \in Nat /\ onset < now
        /\ heard \in 1 .. audio - 1 /\ played > 0
        /\ Wide(t) /\ (answering \/ t.reply = audio)
        /\ t.pOffset <= onset /\ t.pDispatched - onset >= Yield
    BY <1>0, <1>11 DEF t, played
  <2>2. Standing(n, onset)
    BY <1>3, <1>4, <1>5, <2>1, CutReplyStands DEF n
  <2>3. Closed'
    BY <1>2, <1>7, <2>1 DEF Closed
  <2>4. Standing(turns'[m], onset) /\ Behind(turns', m, onset)
    <3>1. m + 1 .. m = {}
      BY <1>4
    <3> QED
      BY <1>8, <2>2, <3>1 DEF Behind
  <2>5. \E k \in 1 .. Len(turns') : Standing(turns'[k], onset) /\ Behind(turns', k, onset)
                                    /\ (k < Len(turns') \/ Closed')
    BY <1>4, <1>8, <2>3, <2>4
  <2>6. onset < now'
    BY <2>1
  <2> QED
    BY <2>5, <2>6 DEF StandsIn
<1>12. CutsStand'
  <2> SUFFICES ASSUME NEW c \in cuts' PROVE c < now' /\ StandsIn(turns, c, Closed)'
    BY DEF CutsStand
  <2>1. CASE c \in cuts
    BY <1>10, <2>1
  <2>2. CASE c \notin cuts
    <3>1. c = onset /\ ~ (cuts' \subseteq cuts)
      BY <2>2
    <3> QED
      BY <1>11, <3>1
  <2> QED
    BY <2>1, <2>2
<1> QED
  BY <1>2, <1>7, <1>12

\* A barge-in.
LEMMA InterruptKeepsCuts ==
    ASSUME IInv, IInv', CutInv, Interrupt
    PROVE  CutInv'
<1>1. /\ phase = "live" /\ InterruptDue /\ CutOff(Played)
      /\ now' = now /\ phase' = phase /\ onset' = onset
  BY DEF Interrupt, clock
<1>2. /\ onset # None /\ now = onset + Confirm /\ (answering \/ Playing)
      /\ Confirm \in Nat \ {0} /\ onset \in {None} \cup 0 .. now /\ now \in Nat
      /\ audio \in Nat /\ CutsStand /\ UnderWay
  BY <1>1, TimelineAssumption, TheLastTurn DEF InterruptDue, IInv, Typed, CutInv
<1>3. onset \in Nat /\ onset < now
  BY <1>2
<1>4. \/ cuts' = cuts
      \/ /\ cuts' = cuts \cup {onset}
         /\ HeardOf(audio, Played) \in 1 .. audio - 1 /\ Played > 0
         /\ turns[Len(turns)].pOffset <= onset
         /\ turns[Len(turns)].pDispatched - onset >= Yield
  BY DEF Interrupt, Current
<1>5. CASE cuts' = cuts
  <2>1. CutsStand' /\ ~ answering' /\ ~ Playing'
    BY <1>1, <1>2, <1>5, CutKeepsCuts
  <2> QED
    BY <1>1, <2>1 DEF CutInv, UnderWay, Recorded
<1>6. CASE /\ cuts' = cuts \cup {onset}
           /\ HeardOf(audio, Played) \in 1 .. audio - 1 /\ Played > 0
           /\ turns[Len(turns)].pOffset <= onset
           /\ turns[Len(turns)].pDispatched - onset >= Yield
  <2>1. audio > 0
    <3>1. 1 .. audio - 1 # {}
      BY <1>6
    <3> QED
      BY <1>2, <3>1
  <2>2. Wide(turns[Len(turns)])
    BY <1>1, <1>2, <2>1 DEF UnderWay
  <2>3. answering \/ turns[Len(turns)].reply = audio
    BY <1>1, <1>2 DEF UnderWay
  <2>4. cuts' \subseteq cuts \cup {onset}
    BY <1>6
  <2>5. CutsStand' /\ ~ answering' /\ ~ Playing'
    BY <1>1, <1>2, <1>3, <1>6, <2>2, <2>3, <2>4, CutKeepsCuts
  <2> QED
    BY <1>1, <2>5 DEF CutInv, UnderWay, Recorded
<1> QED
  BY <1>4, <1>5, <1>6

\* What is stored at the end is of the Turns.
LEMMA PersistedIsRecorded ==
    ASSUME record' = Persisted(turns'), reverse' = reverse
    PROVE  Recorded'
<1> DEFINE kept == Persisted(turns)'
<1>1. record' = kept
  BY DEF Persisted
<1>2. kept = [rows |-> kept.rows, figures |-> kept.figures, findings |-> kept.findings,
              segments |-> kept.segments]
  BY DEF Persisted
<1>3. kept = Persisted(turns)'
  OBVIOUS
<1> HIDE DEF kept
<1>4. record' = [rows |-> record'.rows, figures |-> kept.figures, findings |-> kept.findings,
                 segments |-> record'.segments]
  BY <1>1, <1>2
<1> QED
  BY <1>3, <1>4 DEF Recorded

\* The end of the call.
LEMMA HangUpKeepsCuts ==
    ASSUME IInv, IInv', CutInv, HangUp
    PROVE  CutInv'
<1>0. PICK m \in Nat : m = Len(turns)
  BY LenProperties DEF IInv, Typed
<1>1. /\ phase = "live" /\ phase' = "stored" /\ record' = Persisted(turns')
      /\ now' = now /\ onset' = onset /\ cuts' = cuts /\ reverse' = reverse
  BY DEF HangUp
<1>2. Typed /\ CutsStand /\ now \in Nat /\ turns \in Seq(AnyTurn)
  BY TheLastTurn DEF IInv, CutInv, Typed
<1>3. UnderWay'
  BY <1>1 DEF UnderWay
<1>4. Recorded'
  BY <1>1, PersistedIsRecorded
<1>5. CASE (Playing \/ answering) /\ CutOff(Played)
  <2>1. CutsStand'
    BY <1>1, <1>2, <1>5, CutKeepsCuts
  <2> QED
    BY <1>3, <1>4, <2>1 DEF CutInv
<1>6. CASE /\ answering
           /\ turns' = [turns EXCEPT ![Current] =
                          IF audio = 0 THEN @ ELSE [@ EXCEPT !.reply = audio, !.interrupted = TRUE]]
           /\ UNCHANGED <<open, answering, audio, tally, audible, silenced>>
  <2> DEFINE t == turns[m]
             n == IF audio = 0 THEN t ELSE [t EXCEPT !.reply = audio, !.interrupted = TRUE]
  <2>1. turns' = [turns EXCEPT ![m] = n]
    BY <1>0, <1>6 DEF Current
  <2>2. m > 0 /\ t \in AnyTurn /\ audio \in 0 .. MaxAudio
    BY <1>0, <1>2, <1>6, TheLastTurn DEF Typed
  <2> HIDE DEF t
  <2>3. n \in AnyTurn /\ n.pOffset = t.pOffset
    BY <2>2 DEF AnyTurn
  <2> HIDE DEF n
  <2>4. /\ Len(turns') = m /\ turns'[m] = n /\ \A k \in 1 .. m : k # m => turns'[k] = turns[k]
    BY <1>0, <1>2, <2>1, <2>2, <2>3, LastReplaced
  <2>5. ~ Closed
    BY <1>6 DEF Closed
  <2>6. \A c \in cuts : Continues(turns, turns', c, Closed)
    BY <1>0, <2>3, <2>4, <2>5 DEF Continues, t
  <2>7. cuts' \subseteq cuts /\ now' >= now
    BY <1>1, <1>2
  <2>8. CutsStand'
    BY <1>2, <2>5, <2>6, <2>7, CutsStandOn
  <2> QED
    BY <1>3, <1>4, <2>8 DEF CutInv
<1>7. CASE ~ answering /\ UNCHANGED <<turns, open, answering, audio, tally, audible, silenced>>
  <2>1. \A c \in cuts : Continues(turns, turns', c, Closed)
    BY <1>0, <1>7, SameTurns
  <2>2. Closed => Closed'
    BY <1>1, <1>7 DEF Closed, Playing
  <2>3. cuts' \subseteq cuts /\ now' >= now
    BY <1>1, <1>2
  <2>4. CutsStand'
    BY <1>2, <2>1, <2>2, <2>3, CutsStandOn
  <2> QED
    BY <1>3, <1>4, <2>4 DEF CutInv
<1> QED
  BY <1>5, <1>6, <1>7 DEF HangUp

\* With a closing line: the reply it belongs to was not cut.
LEMMA SignOffKeepsCuts ==
    ASSUME IInv, IInv', CutInv, NEW length \in Chunks, SignOff(length)
    PROVE  CutInv'
<1>0. PICK m \in Nat : m = Len(turns)
  BY LenProperties DEF IInv, Typed
<1>1. /\ phase' = "stored" /\ record' = Persisted(turns') /\ reverse' = reverse
      /\ cuts' = cuts /\ now' = now
  BY DEF SignOff
<1>2. UnderWay' /\ Recorded'
  BY <1>1, PersistedIsRecorded DEF UnderWay
<1>3. /\ m > 0 /\ ~ turns[m].interrupted /\ turns' \in Seq(AnyTurn) /\ Len(turns') = m
      /\ \A k \in 1 .. m : k # m => turns'[k] = turns[k]
      /\ turns'[m].pOffset = (IF turns[m].pOffset = None THEN now ELSE turns[m].pOffset)
  BY <1>0, LineSpoken
<1>4. CutsStand /\ turns \in Seq(AnyTurn) /\ \A c \in cuts : c \in Nat
  BY CutsAreNumbers DEF CutInv, IInv
<1>5. ASSUME NEW c \in cuts PROVE c < now' /\ StandsIn(turns, c, Closed)'
  <2>1. c < now /\ StandsIn(turns, c, Closed) /\ c \in Nat
    BY <1>4 DEF CutsStand
  <2>2. StandsIn(turns, c, FALSE)
    <3>1. PICK k \in 1 .. m :
              Standing(turns[k], c) /\ Behind(turns, k, c) /\ (k < m \/ Closed)
      BY <1>0, <2>1 DEF StandsIn
    <3>2. k < m
      BY <1>3, <3>1 DEF Standing
    <3> QED
      BY <1>0, <3>1, <3>2 DEF StandsIn
  <2>3. Continues(turns, turns', c, FALSE)
    BY <1>0, <1>3, <2>1 DEF Continues
  <2> DEFINE after == Closed'
             tt == turns'
  <2>4. PICK was \in BOOLEAN : was = FALSE
    OBVIOUS
  <2>5. /\ tt \in Seq(AnyTurn) /\ after \in BOOLEAN
        /\ StandsIn(turns, c, was) /\ Continues(turns, tt, c, was)
        /\ was /\ Len(tt) = Len(turns) => after
    BY <1>3, <2>2, <2>3, <2>4 DEF Closed, Playing
  <2> HIDE DEF after, tt
  <2>6. StandsIn(tt, c, after)
    BY <1>4, <2>1, <2>5, StandsOn
  <2> QED
    BY <1>1, <2>1, <2>6 DEF tt, after
<1> QED
  BY <1>1, <1>2, <1>5 DEF CutInv, CutsStand

\* What is judged of a stored call leaves its figures.
LEMMA StoredKeepsCuts ==
    ASSUME IInv, CutInv,
           UNCHANGED <<phase, reverse, turns, open, answering, audio, now, audible, cuts>>,
           UNCHANGED record \/
               /\ phase = "stored"
               /\ \E rows, segments : record' = [record EXCEPT !.rows = rows, !.segments = segments]
    PROVE  CutInv'
<1>1. CutsStand'
  BY DEF CutInv, CutsStand, Closed, Playing
<1>2. UnderWay'
  BY DEF CutInv, UnderWay, Playing
<1>3. Persisted(turns)' = Persisted(turns)
  BY DEF Persisted
<1>4. CASE UNCHANGED record
  <2>1. Recorded'
    BY <1>3, <1>4 DEF CutInv, Recorded
  <2> QED
    BY <1>1, <1>2, <2>1 DEF CutInv
<1>5. CASE /\ phase = "stored"
           /\ \E rows, segments : record' = [record EXCEPT !.rows = rows, !.segments = segments]
  <2>1. PICK rows, segments : record' = [record EXCEPT !.rows = rows, !.segments = segments]
    BY <1>5
  <2>2. PICK r, g, figures, findings :
            /\ record = [rows |-> r, figures |-> figures, findings |-> findings, segments |-> g]
            /\ figures = Persisted(turns).figures /\ findings = Persisted(turns).findings
    BY <1>5 DEF CutInv, Recorded
  <2>3. [record EXCEPT !.rows = rows, !.segments = segments]
           = [rows |-> rows, figures |-> figures, findings |-> findings, segments |-> segments]
    <3> DEFINE x == [rows |-> r, figures |-> figures, findings |-> findings, segments |-> g]
               y == [x EXCEPT !.rows = rows, !.segments = segments]
               R == [rows : {r, rows}, figures : {figures}, findings : {findings},
                     segments : {g, segments}]
    <3>1. x \in R
      OBVIOUS
    <3>2. /\ y \in R /\ y.rows = rows /\ y.segments = segments
          /\ y.figures = figures /\ y.findings = findings
      BY <3>1
    <3>3. record = x
      BY <2>2
    <3> HIDE DEF x
    <3>4. y = [record EXCEPT !.rows = rows, !.segments = segments]
      BY <3>3
    <3> HIDE DEF y
    <3>5. y = [rows |-> y.rows, figures |-> y.figures, findings |-> y.findings,
               segments |-> y.segments]
      BY <3>2
    <3> QED
      BY <3>2, <3>4, <3>5
  <2>4. /\ record' = [rows |-> rows, figures |-> figures, findings |-> findings,
                      segments |-> segments]
        /\ record'.rows = rows /\ record'.segments = segments
    BY <2>1, <2>3
  <2>5. Recorded'
    BY <1>3, <2>2, <2>4 DEF Recorded
  <2> QED
    BY <1>1, <1>2, <2>5 DEF CutInv
<1> QED
  BY <1>4, <1>5

\* Every step keeps the replies that were cut.
LEMMA CutNext == IInv /\ IInv' /\ Awaited /\ CutInv /\ [Next]_vars => CutInv'
<1> SUFFICES ASSUME IInv, IInv', Awaited, CutInv, [Next]_vars PROVE CutInv'
  OBVIOUS
<1>0. now \in Nat
  BY TheLastTurn DEF IInv
<1>1. CASE Tick
  BY <1>0, <1>1, QuietKeepsCuts DEF Tick
<1>2. CASE StartPlayback
  BY <1>2, StartPlaybackKeepsCuts
<1>3. CASE Begin
  <2>1. /\ phase # "stored" /\ now' = now
        /\ UNCHANGED <<phase, turns, open, answering, audio, audible, cuts>>
    BY <1>3 DEF Begin, clock
  <2>2. now' >= now
    BY <1>0, <2>1
  <2> QED
    BY <2>1, <2>2, QuietKeepsCuts
<1>4. CASE Interrupt
  BY <1>4, InterruptKeepsCuts
<1>5. CASE Finish
  BY <1>5, FinishKeepsCuts
<1>6. CASE HangUp
  BY <1>6, HangUpKeepsCuts
<1>7. ASSUME NEW length \in Chunks, Chunk(length) PROVE CutInv'
  BY <1>7, ChunkKeepsCuts
<1>8. ASSUME NEW f \in Fragments, Arrive(f) PROVE CutInv'
  BY <1>8, ArriveKeepsCuts
<1>9. ASSUME NEW pressed \in SUBSET PersonaRows, Judge(pressed) PROVE CutInv'
  <2>1. /\ phase = "stored"
        /\ UNCHANGED <<phase, reverse, turns, open, answering, audio, now, audible, cuts>>
    BY <1>9 DEF Judge
  <2>2. \E rows, segments : record' = [record EXCEPT !.rows = rows, !.segments = segments]
    BY <1>9, Zenon DEF Judge
  <2> QED
    BY <2>1, <2>2, StoredKeepsCuts
<1>10. CASE UNCHANGED vars
  <2>1. /\ UNCHANGED record
        /\ UNCHANGED <<phase, reverse, turns, open, answering, audio, now, audible, cuts>>
    BY <1>10 DEF vars
  <2> QED
    BY <2>1, StoredKeepsCuts
<1>11. CASE Lose
  BY <1>11, LoseKeepsCuts
<1>12. CASE Attach
  BY <1>12, AttachKeepsCuts
<1>13. ASSUME NEW length \in Chunks, SignOff(length) PROVE CutInv'
  BY <1>13, SignOffKeepsCuts
<1> QED
  BY <1>1, <1>2, <1>3, <1>4, <1>5, <1>6, <1>7, <1>8, <1>9, <1>10, <1>11, <1>12, <1>13 DEF Next

\* Both hold throughout.
LEMMA CutInvariance == Spec => [](IInv /\ Awaited /\ CutInv)
<1>1. IInv /\ IInv' /\ Awaited /\ CutInv /\ [Next]_vars => CutInv'
  BY CutNext
<1> QED
  BY <1>1, CutInit, Invariance, PTL DEF Spec

\* Whoever cut a line off with audio outstanding is shown the interruption, whatever the
\* rest of the call was (interruptions.py, classify, and interruption_light).
THEOREM CutsAreFound == Spec => []CutsAreCounted
<1>1. IInv /\ CutInv => CutsAreCounted
  <2> SUFFICES ASSUME IInv, CutInv, phase = "stored", NEW c \in cuts,
                      NEW u \in ToSet(Timeline(turns)), u.speaker = "user", u.offset = c
               PROVE  /\ c \in record.findings
                      /\ \A f \in record.figures : Served(f).light # {LightFor(0)}
    BY DEF CutsAreCounted
  <2>1. Typed /\ c \in Nat /\ turns \in Seq(AnyTurn) /\ StandsIn(turns, c, Closed)
    BY CutsAreNumbers DEF IInv, CutInv, CutsStand
  <2>2. PICK k \in 1 .. Len(turns) : Standing(turns[k], c) /\ Behind(turns, k, c)
    BY <2>1 DEF StandsIn
  <2>3. turns[k].pDispatched >= turns[k].pEnd
    BY <2>1 DEF Typed, Placed
  <2>4. \A j \in k + 1 .. Len(turns) : turns[j].pOffset # None => turns[j].pOffset > c
    BY <2>2 DEF Behind
  <2> DEFINE hard == HardEvents(Timeline(turns))
             call == Conversation(turns, TRUE, reverse)
  <2>5. c \in {e.offset : e \in ToSet(hard)} /\ Len(hard) \in Nat \ {0}
    BY <2>1, <2>2, <2>3, <2>4, CutIsHard
  <2>6. /\ record.findings = Persisted(turns).findings
        /\ record.figures = Persisted(turns).figures
    BY DEF CutInv, Recorded
  <2>7. hard = Of("hard", Classify(call.timeline))
    BY DEF Conversation, HardEvents
  <2>8. Persisted(turns).findings = {e.offset : e \in ToSet(hard)}
    BY <2>7 DEF Persisted
  <2>9. Persisted(turns).figures = {Rows(Measure(call))}
    BY DEF Persisted
  <2> HIDE DEF hard, call
  <2>10. ASSUME NEW f \in record.figures PROVE Served(f).light # {LightFor(0)}
    <3>1. f = Rows(Measure(call))
      BY <2>6, <2>9
    <3>2. \A i \in f.interruptions : Len(i.hardOffsets) \in Nat \ {0}
      <4>1. ASSUME NEW i \in Interruptions(call) PROVE Len(i.hardOffsets) \in Nat \ {0}
        <5>1. i.hardOffsets = [j \in 1 .. Len(hard) |-> hard[j].offset]
          BY <2>7 DEF Interruptions
        <5>2. PICK n \in Nat \ {0} : n = Len(hard)
          BY <2>5
        <5>3. Len([j \in 1 .. n |-> hard[j].offset]) = n
          OBVIOUS
        <5> QED
          BY <5>1, <5>2, <5>3
      <4>2. f.interruptions \subseteq Interruptions(call)
        <5>1. DOMAIN Measure(call) = DOMAIN Measure(call) /\ "interruptions" \in DOMAIN Measure(call)
          BY DEF Measure
        <5>2. Measure(call).interruptions = Interruptions(call)
          BY DEF Measure
        <5>3. f.interruptions = IF "interruptions" \in Seeded THEN Measure(call).interruptions ELSE {}
          BY <3>1, <5>1 DEF Rows
        <5> QED
          BY <5>2, <5>3
      <4> QED
        BY <4>1, <4>2
    <3>3. Served(f).light = {LightFor(Len(i.hardOffsets)) : i \in f.interruptions}
      BY DEF Served
    <3>4. LightFor(0) = "green"
      BY FigureAssumption DEF LightFor
    <3>5. \A n \in Nat \ {0} : LightFor(n) # "green"
      BY FigureAssumption DEF LightFor
    <3> QED
      BY <3>2, <3>3, <3>4, <3>5
  <2> QED
    BY <2>5, <2>6, <2>8, <2>10
<1> QED
  BY <1>1, CutInvariance, PTL

-----------------------------------------------------------------------------
(* Types.                                                                   *)

\* Nothing is stored before the call has ended.
Unstored == phase # "stored" => record = NoRecord

\* Throughout the call.
LEMMA UnstoredInvariance == Spec => []Unstored
<1>1. Init => Unstored
  BY DEF Init, Unstored
<1>2. Unstored /\ [Next]_vars => Unstored'
  <2> SUFFICES ASSUME Unstored, [Next]_vars PROVE Unstored'
    OBVIOUS
  <2>1. CASE phase' = "stored"
    BY <2>1 DEF Unstored
  <2>2. CASE UNCHANGED record /\ (phase' # "stored" => phase # "stored")
    BY <2>2 DEF Unstored
  <2>3. CASE Tick \/ StartPlayback \/ Begin \/ Interrupt \/ Lose \/ Attach \/ Finish
    BY <2>2, <2>3 DEF Tick, StartPlayback, Begin, Interrupt, Lose, Attach, Finish, clock
  <2>4. CASE HangUp
    BY <2>1, <2>4 DEF HangUp
  <2>5. ASSUME NEW length \in Chunks, Chunk(length) PROVE Unstored'
    BY <2>2, <2>5 DEF Chunk, clock
  <2>6. ASSUME NEW f \in Fragments, Arrive(f) PROVE Unstored'
    BY <2>2, <2>6 DEF Arrive, clock
  <2>7. ASSUME NEW pressed \in SUBSET PersonaRows, Judge(pressed) PROVE Unstored'
    BY <2>1, <2>7 DEF Judge
  <2>8. ASSUME NEW length \in Chunks, SignOff(length) PROVE Unstored'
    BY <2>1, <2>8 DEF SignOff
  <2>9. CASE UNCHANGED vars
    BY <2>2, <2>9 DEF vars
  <2> QED
    BY <2>3, <2>4, <2>5, <2>6, <2>7, <2>8, <2>9 DEF Next
<1> QED
  BY <1>1, <1>2, PTL DEF Spec

\* The types of the clock, and that what is drawn of a curve lies in it (loudness_trend.py,
\* the course a report draws over the stored curve).
THEOREM TimelineTypes == Spec => []TypeOK
<1>1. IInv /\ Awaited /\ CutInv /\ Unstored => TypeOK
  <2> SUFFICES ASSUME IInv, Awaited, CutInv, Unstored PROVE TypeOK
    OBVIOUS
  <2>1. /\ Typed /\ MaxNow \in Nat /\ MaxAudio \in Nat /\ now \in Nat /\ audio \in Nat
        /\ tally \in Nat /\ audible \in Nat /\ Len(turns) \in Nat
        /\ \A k \in 1 .. Len(turns) : turns[k] \in AnyTurn
    BY TheLastTurn DEF IInv
  <2>2. audible \in 0 .. MaxNow + MaxAudio
    <3>1. audible <= now + tally /\ tally <= audio /\ audio <= MaxAudio /\ now <= MaxNow
      BY <2>1 DEF Typed
    <3> QED
      BY <2>1, <3>1
  <2>3. ASSUME NEW k \in 1 .. Current
        PROVE  LET t == turns[k] IN
               /\ t.reply \in 0 .. MaxAudio
               /\ {t.uOffset, t.uEnd} \subseteq {None} \cup 0 .. now
               /\ t.pOffset = None <=> t.pEnd = None
               /\ t.pDispatched >= t.pEnd
               /\ t.phonation <= t.speech
    <3>1. turns[k] \in AnyTurn /\ Placed(turns[k], now)
      BY <2>1 DEF Typed, Current
    <3> QED
      BY <3>1 DEF AnyTurn, Placed
  <2>4. DOMAIN silenced = 1 .. Current
    <3>1. silenced \in Seq(Nat) /\ Len(silenced) = Len(turns)
      BY <2>1 DEF Typed
    <3> QED
      BY <3>1, LenProperties DEF Current
  <2>5. ASSUME NEW f \in record.figures, NEW course \in Served(f).course, NEW stretch \in course
        PROVE  \E w \in f.loudness : stretch.peak \in DOMAIN w.curve
    <3>1. phase = "stored"
      BY DEF Unstored, NoRecord
    <3> DEFINE call == Conversation(turns, TRUE, reverse)
    <3>2. record.figures = {Rows(Measure(call))}
      <4>1. record.figures = Persisted(turns).figures
        BY <3>1 DEF CutInv, Recorded
      <4> QED
        BY <4>1 DEF Persisted
    <3>3. call.loudness \in Seq(Nat)
      BY LoudnessOfTheCall DEF IInv, Typed
    <3> HIDE DEF call
    <3>4. f = Rows(Measure(call))
      BY <3>2
    <3>5. Served(f).course = {Stretches(w.curve) : w \in f.loudness}
      BY DEF Served
    <3>6. PICK w \in f.loudness : course = Stretches(w.curve)
      BY <3>5
    <3>7. w.curve = call.loudness
      BY <3>4, LoudnessFigure
    <3>8. w.curve \in Seq(Int)
      <4>1. PICK curve \in Seq(Nat) : curve = w.curve
        BY <3>3, <3>7
      <4>2. Nat \subseteq Int
        OBVIOUS
      <4>3. curve \in Seq(Int)
        <5>1. PICK n \in Nat : curve \in [1 .. n -> Nat]
          BY SeqDef
        <5>2. curve \in [1 .. n -> Int]
          BY <5>1
        <5> QED
          BY <5>2, SeqDef
      <4> QED
        BY <4>1, <4>3
    <3>9. stretch.peak \in 1 .. Len(w.curve)
      BY <3>6, <3>8, PeakLiesWithin
    <3>10. DOMAIN w.curve = 1 .. Len(w.curve)
      BY <3>8, LenProperties
    <3> QED
      BY <3>9, <3>10
  <2>6. /\ phase \in {"waiting", "live", "stored"} /\ reverse \in BOOLEAN
        /\ now \in 0 .. MaxNow
        /\ Len(turns) <= MaxTurns /\ open \in {0, Current} /\ answering \in BOOLEAN
        /\ audio \in 0 .. MaxAudio /\ tally \in 0 .. audio
        /\ onset \in {None} \cup 0 .. now /\ cuts \subseteq 0 .. now
    BY <2>1 DEF Typed, Current
  <2>7. \A m \in measuring : /\ answering /\ audio = 0
                             /\ m.fragment \in Fragments /\ turns[Current].uEnd \in 0 .. now
    BY DEF Awaited, Awaits, Current
  <2> HIDE DEF Unstored, Awaited
  <2> QED
    BY <2>2, <2>3, <2>4, <2>5, <2>6, <2>7 DEF TypeOK
<1> QED
  BY <1>1, CutInvariance, UnstoredInvariance, PTL

-----------------------------------------------------------------------------
(* What is stored of a call.                                                *)

\* What the user said in a Turn, and what was measured of it, stays.
SameSaid(t, n) ==
    /\ n.question = t.question /\ n.uOffset = t.uOffset /\ n.complete = t.complete
    /\ n.speech = t.speech /\ n.phonation = t.phonation
    /\ n.pauses = t.pauses /\ n.loudness = t.loudness

\* A Turn as the call leaves it: only what was said was measured, and what was measured has
\* a place and a length.  The measurement may be awaited still, or never have come.
Orderly(t) ==
    /\ t.pOffset = None <=> t.pEnd = None
    /\ t.pOffset >= None /\ t.uOffset >= None /\ t.pEnd >= t.pOffset
    /\ t.question = <<>> => t.uOffset = None
    /\ t.uOffset = None => t.speech = 0 /\ t.pauses = <<>> /\ t.loudness = <<>>
    /\ t.uOffset # None /\ t.complete => t.speech > 0
    /\ 0 <= t.phonation /\ t.phonation <= t.speech

\* As its rows tell it, it is whole.
LEMMA OrderlyIsWhole ==
    ASSUME NEW t \in AnyTurn, Orderly(t)
    PROVE  Whole(AsStored(t))
<1>1. PICK m \in Int, s \in Int : m = t.phonation /\ s = t.speech
  BY DEF AnyTurn
<1>2. t.uOffset = None => m = 0 /\ t.speech = 0 /\ t.pauses = <<>> /\ t.loudness = <<>>
  <2>1. 0 <= m /\ m <= s
    BY <1>1 DEF Orderly
  <2>2. t.uOffset = None => s = 0 /\ t.pauses = <<>> /\ t.loudness = <<>>
    BY <1>1 DEF Orderly
  <2> QED
    BY <1>1, <2>1, <2>2
<1>3. CASE t.question # <<>> /\ Facts(t) = {}
  <2> DEFINE n == [t EXCEPT !.complete = FALSE]
  <2>1. AsStored(t) = n
    BY <1>3 DEF AsStored
  <2>2. /\ n.pOffset = t.pOffset /\ n.pEnd = t.pEnd /\ n.uOffset = t.uOffset
        /\ n.question = t.question /\ n.phonation = t.phonation /\ n.speech = t.speech
        /\ ~ n.complete
    BY DEF AnyTurn
  <2> HIDE DEF n
  <2> QED
    BY <1>3, <2>1, <2>2 DEF Orderly, Whole
<1>4. CASE ~ (t.question # <<>> /\ Facts(t) = {})
  <2>1. AsStored(t) = t
    BY <1>4 DEF AsStored
  <2>2. t.question # <<>> => t.uOffset # None
    BY <1>2, <1>4 DEF Facts
  <2>3. t.question = <<>> => /\ t.uOffset = None /\ t.phonation = 0
                             /\ t.pauses = <<>> /\ t.loudness = <<>>
    BY <1>1, <1>2 DEF Orderly
  <2> QED
    BY <2>1, <2>2, <2>3 DEF Orderly, Whole
<1> QED
  BY <1>3, <1>4

\* Of every Turn, so; the last without a reply is the one the next utterance joins.
Answers ==
    /\ \A k \in 1 .. Len(turns) : Orderly(turns[k])
    /\ \A k \in 1 .. Len(turns) : k # Len(turns) => turns[k].reply # 0
    /\ phase # "stored" /\ Len(turns) > 0 /\ turns[Len(turns)].reply = 0 => open = Len(turns)

\* A Turn whose user side stays is orderly as long as its window is placed.
LEMMA OrderlyStays ==
    ASSUME NEW t \in AnyTurn, NEW n \in AnyTurn, NEW at \in Nat,
           Orderly(t), SameSaid(t, n), Placed(n, at)
    PROVE  Orderly(n)
<1>1. n.pOffset \in Int /\ n.pEnd \in Int
  BY DEF AnyTurn
<1>2. /\ n.pOffset = None <=> n.pEnd = None
      /\ n.pOffset >= None /\ n.pEnd >= n.pOffset
  BY <1>1 DEF Placed, None
<1>3. /\ n.uOffset >= None
      /\ n.question = <<>> => n.uOffset = None
      /\ n.uOffset = None => n.speech = 0 /\ n.pauses = <<>> /\ n.loudness = <<>>
      /\ n.uOffset # None /\ n.complete => n.speech > 0
      /\ 0 <= n.phonation /\ n.phonation <= n.speech
  BY DEF Orderly, SameSaid
<1> QED
  BY <1>2, <1>3 DEF Orderly

\* What the Persona's side does leaves the user's alone.
LEMMA PersonaSideOnly ==
    ASSUME NEW t \in AnyTurn
    PROVE  /\ \A length : SameSaid(t, NotePersonaAudio(t, length))
           /\ \A played : SameSaid(t, AfterCut(t, played))
           /\ SameSaid(t, Shifted(t)) /\ Shifted(t).reply = t.reply
           /\ \A r : LET n == [t EXCEPT !.reply = r] IN SameSaid(t, n) /\ n.reply = r
           /\ \A r : LET n == [t EXCEPT !.reply = r, !.interrupted = TRUE] IN SameSaid(t, n) /\ n.reply = r
<1>1. ASSUME NEW length PROVE SameSaid(t, NotePersonaAudio(t, length))
  BY DEF SameSaid, NotePersonaAudio, AnyTurn
<1>2. ASSUME NEW played PROVE SameSaid(t, AfterCut(t, played))
  <2>1. /\ TrimPersonaWindow(t, played) = t
        \/ \E e : TrimPersonaWindow(t, played) = [t EXCEPT !.pEnd = e]
    BY DEF TrimPersonaWindow
  <2>2. \/ AfterCut(t, played) = t
        \/ \E r : AfterCut(t, played) = [TrimPersonaWindow(t, played) EXCEPT !.reply = r]
        \/ \E r : AfterCut(t, played) = [TrimPersonaWindow(t, played) EXCEPT !.reply = r, !.interrupted = TRUE]
    BY DEF AfterCut
  <2>3. SameSaid(t, t)
    BY DEF SameSaid
  <2>4. ASSUME NEW r, NEW e, NEW x \in {t, [t EXCEPT !.pEnd = e]}
        PROVE  SameSaid(t, [x EXCEPT !.reply = r]) /\ SameSaid(t, [x EXCEPT !.reply = r, !.interrupted = TRUE])
    <3>1. CASE x = t
      BY <3>1 DEF SameSaid, AnyTurn
    <3>2. CASE x = [t EXCEPT !.pEnd = e]
      BY <3>2 DEF SameSaid, AnyTurn
    <3> QED
      BY <2>4, <3>1, <3>2
  <2>5. PICK e : TrimPersonaWindow(t, played) \in {t, [t EXCEPT !.pEnd = e]}
    BY <2>1
  <2>6. PICK x : x = TrimPersonaWindow(t, played)
    OBVIOUS
  <2>7. \A r : SameSaid(t, [x EXCEPT !.reply = r]) /\ SameSaid(t, [x EXCEPT !.reply = r, !.interrupted = TRUE])
    <3>1. x \in {t, [t EXCEPT !.pEnd = e]}
      BY <2>5, <2>6
    <3> QED
      BY <2>4, <3>1
  <2>8. CASE AfterCut(t, played) = t
    BY <2>3, <2>8
  <2>9. ASSUME NEW r, AfterCut(t, played) = [x EXCEPT !.reply = r] PROVE SameSaid(t, AfterCut(t, played))
    BY <2>7, <2>9
  <2>10. ASSUME NEW r, AfterCut(t, played) = [x EXCEPT !.reply = r, !.interrupted = TRUE] PROVE SameSaid(t, AfterCut(t, played))
    BY <2>7, <2>10
  <2> QED
    BY <2>2, <2>6, <2>8, <2>9, <2>10
<1>3. SameSaid(t, Shifted(t)) /\ Shifted(t).reply = t.reply
  BY DEF SameSaid, Shifted, AnyTurn
<1>4. ASSUME NEW r PROVE LET n == [t EXCEPT !.reply = r] IN SameSaid(t, n) /\ n.reply = r
  BY DEF SameSaid, AnyTurn
<1>5. ASSUME NEW r PROVE LET n == [t EXCEPT !.reply = r, !.interrupted = TRUE] IN SameSaid(t, n) /\ n.reply = r
  BY DEF SameSaid, AnyTurn
<1> QED
  BY <1>1, <1>2, <1>3, <1>4, <1>5

\* What is measured of an utterance leaves its Turn orderly.
LEMMA AttachedIsOrderly ==
    ASSUME now \in Nat, NEW t \in AnyTurn, NEW r, Awaits(t, r, now), Placed(t, now),
           Orderly(t), t.question # <<>>
    PROVE  Orderly(AttachMeasurements(t, r))
<1> DEFINE n == AttachMeasurements(t, r)
           f == r.fragment
           started == Greater(0, t.uEnd - r.length)
           pause == Total([i \in 1 .. Len(f.pauses) |-> f.pauses[i][2]])
<1>1. n \in AnyTurn /\ Placed(n, now) /\ n.question = t.question
  BY AttachedTurn
<1>2. /\ started + f.lead \in 0 .. now /\ pause \in 0 .. r.length - f.lead - f.trail
      /\ f.lead \in Nat /\ f.trail \in Nat /\ f.length \in Nat
  BY VoiceInside
<1>3. /\ r.length \in Nat /\ r.length >= f.lead + f.length /\ t.uEnd \in 0 .. now
      /\ f.length >= Confirm /\ Confirm \in Nat \ {0} /\ f.measured \in BOOLEAN
  BY TimelineAssumption DEF Awaits
<1>4. PICK a \in Int, b \in Int, o \in Int :
         a = t.speech /\ b = t.phonation /\ o = t.uOffset
  BY DEF AnyTurn
<1>5. 0 <= b /\ b <= a /\ o >= None
  BY <1>4 DEF Orderly
<1>6. ~ f.measured => /\ ~ n.complete /\ n.speech = a /\ n.phonation = b
                      /\ n.uOffset = IF o = None THEN t.uEnd ELSE o
  BY <1>4 DEF AttachMeasurements, AnyTurn
<1>7. f.measured => /\ n.speech = a + r.length
                    /\ n.phonation = b + r.length - f.lead - f.trail - pause
                    /\ n.uOffset = IF o = None THEN started + f.lead ELSE o
  BY <1>4 DEF AttachMeasurements, AnyTurn
<1> HIDE DEF n, f, started, pause
<1>8. n.uOffset # None /\ n.uOffset >= None
  BY <1>2, <1>3, <1>5, <1>6, <1>7 DEF None
<1>9. (n.complete => n.speech > 0) /\ 0 <= n.phonation /\ n.phonation <= n.speech
  <2>1. CASE ~ f.measured
    BY <1>5, <1>6, <2>1
  <2>2. CASE f.measured
    <3>1. PICK l \in Nat, d \in Nat, e \in Nat, g \in Nat, h \in Nat, c \in Nat \ {0} :
             l = r.length /\ d = f.lead /\ e = f.trail /\ g = f.length /\ h = pause /\ c = Confirm
      BY <1>2, <1>3
    <3>2. l >= d + g /\ g >= c /\ h <= l - d - e
      BY <1>2, <1>3, <3>1
    <3>3. n.speech = a + l /\ n.phonation = b + l - d - e - h
      BY <1>7, <2>2, <3>1
    <3>4. a + l > 0 /\ 0 <= b + l - d - e - h /\ b + l - d - e - h <= a + l
      BY <1>5, <3>2
    <3> QED
      BY <3>3, <3>4
  <2> QED
    BY <2>1, <2>2
<1>10. PICK p \in Int, q \in Int : p = n.pOffset /\ q = n.pEnd
  BY <1>1 DEF AnyTurn
<1>11. /\ n.pOffset = None <=> n.pEnd = None
       /\ n.pOffset >= None /\ n.pEnd >= n.pOffset
  BY <1>1, <1>10 DEF Placed, None
<1>12. Orderly(n)
  BY <1>1, <1>8, <1>9, <1>11 DEF Orderly
<1> QED
  BY <1>12 DEF n

\* A step that leaves every user side keeps the Turns whole.
LEMMA OrderlyOn ==
    ASSUME Typed, Typed', \A k \in 1 .. Len(turns) : Orderly(turns[k]),
           Len(turns') = Len(turns),
           \A k \in 1 .. Len(turns) : SameSaid(turns[k], turns'[k])
    PROVE  \A k \in 1 .. Len(turns') : Orderly(turns'[k])
<1> SUFFICES ASSUME NEW k \in 1 .. Len(turns) PROVE Orderly(turns'[k])
  OBVIOUS
<1>1. turns \in Seq(AnyTurn) /\ turns' \in Seq(AnyTurn)
  BY DEF Typed
<1>2. turns[k] \in AnyTurn /\ turns'[k] \in AnyTurn
  BY <1>1, ElementOfSeq
<1>3. Placed(turns'[k], now') /\ now' \in Nat
  BY TimelineAssumption DEF Typed
<1> QED
  BY <1>2, <1>3, OrderlyStays

\* A call begins without an answer missing.
LEMMA AnswersInit == Init => Answers
<1> SUFFICES ASSUME Init PROVE Answers
  OBVIOUS
<1>1. Orderly(NewTurn)
  BY DEF Orderly, NewTurn, None
<1>2. CASE reverse
  <2>1. turns = <<NewTurn>> /\ open = 1
    BY <1>2 DEF Init
  <2>2. Len(turns) = 1 /\ turns[1] = NewTurn
    BY <2>1
  <2> QED
    BY <1>1, <2>1, <2>2 DEF Answers
<1>3. CASE ~ reverse
  <2>1. turns = <<>>
    BY <1>3 DEF Init
  <2>2. Len(turns) = 0
    BY <2>1, EmptySeq
  <2> QED
    BY <2>2 DEF Answers
<1> QED
  BY <1>2, <1>3

\* The last Turn is replaced by one with the same user side.
LEMMA LastReplacedAnswers ==
    ASSUME Typed, Typed', Answers, Len(turns) > 0, NEW n,
           turns' = [turns EXCEPT ![Len(turns)] = n], SameSaid(turns[Len(turns)], n),
           phase' # "stored" /\ n.reply = 0 => open' = Len(turns)
    PROVE  Answers'
<1>1. turns \in Seq(AnyTurn) /\ turns' \in Seq(AnyTurn)
  BY DEF Typed
<1>2. PICK m \in Nat : m = Len(turns) /\ m > 0
  BY <1>1, LenProperties
<1>3. /\ Len(turns') = m /\ turns'[m] = n
      /\ \A k \in 1 .. m : k # m => turns'[k] = turns[k]
  <2>1. DOMAIN turns = 1 .. m /\ turns = [k \in 1 .. m |-> turns[k]]
    BY <1>1, <1>2, LenProperties, ElementOfSeq
  <2>2. turns' = [k \in 1 .. m |-> IF k = m THEN n ELSE turns[k]]
    BY <1>2, <2>1
  <2>3. DOMAIN turns' = 1 .. m
    BY <2>2
  <2>4. Len(turns') = m
    BY <1>1, <1>2, <2>3, LenProperties
  <2> QED
    BY <1>2, <2>2, <2>4
<1>4. \A k \in 1 .. m : SameSaid(turns[k], turns'[k])
  <2> SUFFICES ASSUME NEW k \in 1 .. m PROVE SameSaid(turns[k], turns'[k])
    OBVIOUS
  <2>1. CASE k = m
    BY <1>2, <1>3, <2>1
  <2>2. CASE k # m
    BY <1>3, <2>2 DEF SameSaid
  <2> QED
    BY <2>1, <2>2
<1>5. \A k \in 1 .. Len(turns') : Orderly(turns'[k])
  <2>1. \A k \in 1 .. Len(turns) : Orderly(turns[k])
    BY DEF Answers
  <2>2. Len(turns') = Len(turns) /\ \A k \in 1 .. Len(turns) : SameSaid(turns[k], turns'[k])
    BY <1>2, <1>3, <1>4
  <2> QED
    BY <2>1, <2>2, OrderlyOn
<1>6. \A k \in 1 .. m : k # m => turns[k].reply # 0
  BY <1>2 DEF Answers
<1>7. \A k \in 1 .. Len(turns') : k # Len(turns') => turns'[k].reply # 0
  BY <1>3, <1>6
<1>8. phase' # "stored" /\ Len(turns') > 0 /\ turns'[Len(turns')].reply = 0 => open' = Len(turns')
  BY <1>2, <1>3
<1> QED
  BY <1>5, <1>7, <1>8 DEF Answers

\* The Turns stay, and which is open.
LEMMA SameTurnsAnswers ==
    ASSUME Answers, turns' = turns,
           phase' # "stored" => phase # "stored" /\ open' = open
    PROVE  Answers'
  BY DEF Answers

\* The steps of the Persona.
LEMMA ChunkAnswers ==
    ASSUME IInv, IInv', Answers, NEW length \in Chunks, Chunk(length)
    PROVE  Answers'
<1>1. Typed /\ Typed' /\ Len(turns) > 0 /\ open = Len(turns) /\ open' = open
  BY DEF IInv, Typed, Chunk
<1>2. turns[Len(turns)] \in AnyTurn
  BY <1>1, TheLastTurn
<1>3. turns' = [turns EXCEPT ![Len(turns)] = NotePersonaAudio(turns[Len(turns)], length)]
  BY DEF Chunk, Current
<1>4. SameSaid(turns[Len(turns)], NotePersonaAudio(turns[Len(turns)], length))
  BY <1>2, PersonaSideOnly
<1> QED
  BY <1>1, <1>3, <1>4, LastReplacedAnswers

\* A reply that was generated has text.
LEMMA FinishAnswers ==
    ASSUME IInv, IInv', Answers, Finish
    PROVE  Answers'
<1>1. Typed /\ Typed' /\ Len(turns) > 0 /\ audio # 0
  <2>1. Typed /\ Typed' /\ answering /\ audio > 0
    BY DEF IInv, Finish
  <2>2. Len(turns) > 0
    BY <2>1 DEF Typed
  <2>3. audio # 0
    BY <2>1
  <2> QED
    BY <2>1, <2>2, <2>3
<1>2. turns[Len(turns)] \in AnyTurn
  BY <1>1, TheLastTurn
<1>3. turns' = [turns EXCEPT ![Len(turns)] = [turns[Len(turns)] EXCEPT !.reply = audio]]
  BY DEF Finish, Current
<1>4. PICK n : n = [turns[Len(turns)] EXCEPT !.reply = audio]
  OBVIOUS
<1>5. SameSaid(turns[Len(turns)], n) /\ n.reply # 0
  BY <1>1, <1>2, <1>4, PersonaSideOnly
<1> QED
  BY <1>1, <1>3, <1>4, <1>5, LastReplacedAnswers

\* The shift to the client's clock keeps every Turn orderly.
LEMMA StartPlaybackAnswers ==
    ASSUME IInv, IInv', Answers, StartPlayback
    PROVE  Answers'
<1>1. Typed /\ Typed' /\ turns \in Seq(AnyTurn) /\ turns' \in Seq(AnyTurn)
  BY DEF IInv, Typed
<1>2. PICK m \in Nat : m = Len(turns)
  BY <1>1, LenProperties
<1>3. turns' = [k \in 1 .. m |-> Shifted(turns[k])]
  BY <1>2 DEF StartPlayback
<1>4. Len(turns') = m
  BY <1>2, <1>3
<1>5. \A k \in 1 .. m : SameSaid(turns[k], turns'[k]) /\ turns'[k].reply = turns[k].reply
  <2>1. \A k \in 1 .. m : turns[k] \in AnyTurn /\ turns'[k] = Shifted(turns[k])
    BY <1>1, <1>2, <1>3, ElementOfSeq
  <2> QED
    BY <2>1, PersonaSideOnly
<1>6. \A k \in 1 .. Len(turns') : Orderly(turns'[k])
  <2>1. \A k \in 1 .. Len(turns) : Orderly(turns[k])
    BY DEF Answers
  <2>2. Len(turns') = Len(turns) /\ \A k \in 1 .. Len(turns) : SameSaid(turns[k], turns'[k])
    BY <1>2, <1>4, <1>5
  <2> QED
    BY <1>1, <2>1, <2>2, OrderlyOn
<1>7. phase = "waiting" /\ open' = open
  BY DEF StartPlayback
<1>8. \A k \in 1 .. m : k # m => turns[k].reply # 0
  BY <1>2 DEF Answers
<1>9. m > 0 /\ turns[m].reply = 0 => open = m
  BY <1>2, <1>7 DEF Answers
<1>10. m > 0 => m \in 1 .. m
  OBVIOUS
<1>11. m > 0 /\ turns'[m].reply = 0 => open' = m
  BY <1>5, <1>7, <1>9, <1>10
<1>12. \A k \in 1 .. m : k # m => turns'[k].reply # 0
  BY <1>5, <1>8
<1> QED
  BY <1>4, <1>6, <1>11, <1>12 DEF Answers

\* A cut drops the reply only of the Turn it reopens.
LEMMA CutAnswers ==
    ASSUME IInv, IInv', UnderWay, Answers, phase = "live", answering \/ Playing, CutOff(Played)
    PROVE  Answers'
<1>1. Typed /\ Typed' /\ Len(turns) > 0
  <2>1. Typed /\ Reported /\ Typed'
    BY DEF IInv
  <2>2. CASE answering
    BY <2>1, <2>2 DEF Typed
  <2>3. CASE Playing
    BY <2>1, <2>3 DEF Typed, Reported
  <2> QED
    BY <2>1, <2>2, <2>3
<1>2. /\ turns[Len(turns)] \in AnyTurn /\ Placed(turns[Len(turns)], now)
      /\ now \in Nat /\ audio \in 0 .. MaxAudio /\ answering \in BOOLEAN
  BY <1>1, TheLastTurn DEF Typed
<1>3. Played \in Nat
  BY <1>1 DEF Typed, Played, Greater
<1>4. PICK t, n : t = turns[Len(turns)] /\ n = AfterCut(t, Played)
  OBVIOUS
<1>5. turns' = [turns EXCEPT ![Len(turns)] = n] /\ SameSaid(t, n)
  BY <1>2, <1>4, PersonaSideOnly DEF CutOff, Current
<1>6. n.reply = 0 => HeardOf(audio, Played) = 0
  <2>1. /\ t \in AnyTurn /\ Placed(t, now)
    BY <1>2, <1>4
  <2>2. /\ HeardOf(audio, Played) \in 0 .. audio
        /\ \/ audio = 0
           \/ HeardOf(audio, Played) = 0
           \/ audio # 0 /\ ~ answering /\ n = t
           \/ HeardOf(audio, Played) # 0 /\ n.reply = HeardOf(audio, Played)
    BY <1>2, <1>3, <1>4, <2>1, CutTurn
  <2>3. audio # 0 /\ ~ answering => t.reply = audio
    BY <1>4 DEF UnderWay
  <2>4. audio = 0 => HeardOf(audio, Played) = 0
    BY <1>2, <2>2
  <2> QED
    BY <2>2, <2>3, <2>4
<1>7. n.reply = 0 => open' = Len(turns)
  BY <1>6 DEF CutOff, Current
<1> QED
  BY <1>1, <1>4, <1>5, <1>7, LastReplacedAnswers

\* An utterance taken up joins the last Turn or opens one of its own.
LEMMA TakenAnswers ==
    ASSUME IInv, Answers, NEW n \in AnyTurn, Taken(n), Orderly(n)
    PROVE  Answers'
<1>0. PICK m \in Nat : m = Len(turns)
  BY LenProperties DEF IInv, Typed
<1>1. turns \in Seq(AnyTurn) /\ open \in {0, m} /\ phase # "stored"
  BY <1>0 DEF IInv, Typed, Taken
<1>2. /\ turns' = IF open = 0 THEN Append(turns, n) ELSE [turns EXCEPT ![open] = n]
      /\ open' = Len(turns')
  BY DEF Taken
<1>3. \A k \in 1 .. m : Orderly(turns[k]) /\ (k # m => turns[k].reply # 0)
  BY <1>0 DEF Answers
<1>4. CASE open = 0
  <2>1. /\ Len(turns') = m + 1 /\ turns'[m + 1] = n
        /\ \A k \in 1 .. m : turns'[k] = turns[k]
    BY <1>0, <1>1, <1>2, <1>4, AppendProperties
  <2>2. m > 0 => turns[m].reply # 0
    BY <1>0, <1>1, <1>4 DEF Answers
  <2>3. \A k \in 1 .. m + 1 : Orderly(turns'[k]) /\ (k # m + 1 => turns'[k].reply # 0)
    BY <1>3, <2>1, <2>2
  <2> QED
    BY <1>2, <2>1, <2>3 DEF Answers
<1>5. CASE open # 0
  <2>1. open = m /\ m > 0
    BY <1>1, <1>5
  <2>2. /\ Len(turns') = m /\ turns'[m] = n
        /\ \A k \in 1 .. m : k # m => turns'[k] = turns[k]
    BY <1>0, <1>1, <1>2, <2>1, LastReplaced
  <2>3. \A k \in 1 .. m : Orderly(turns'[k]) /\ (k # m => turns'[k].reply # 0)
    BY <1>3, <2>2
  <2> QED
    BY <1>2, <2>2, <2>3 DEF Answers
<1> QED
  BY <1>4, <1>5

\* The Turn taken up is orderly.
LEMMA TakenUpIsOrderly ==
    ASSUME IInv, Answers, phase = "live"
    PROVE  Orderly(NewOrReopenedTurn)
<1>1. CASE open = 0
  <2>1. Orderly(NewTurn)
    BY DEF Orderly, NewTurn, None
  <2> QED
    BY <1>1, <2>1, TakenUp
<1>2. CASE open # 0
  <2>1. NewOrReopenedTurn = turns[Len(turns)] /\ Len(turns) \in 1 .. Len(turns)
    BY <1>2, TakenUp
  <2> QED
    BY <2>1 DEF Answers
<1> QED
  BY <1>1, <1>2

\* With words or, taken for noise, without.
LEMMA ArriveAnswers ==
    ASSUME IInv, IInv', Answers, NEW f \in Fragments, Arrive(f)
    PROVE  Answers'
<1>1. /\ f.length \in Nat /\ f.length >= Confirm /\ Confirm \in Nat /\ f.text \in Seq(STRING)
      /\ onset \in {None} \cup 0 .. now /\ now \in Nat
  BY TimelineAssumption, TheLastTurn DEF IInv, Typed
<1>2. /\ phase = "live" /\ phase' = "live" /\ onset # None /\ now >= onset + Confirm
  BY <1>1 DEF Arrive, clock
<1>3. CASE f.text = <<>>
  <2>1. turns' = turns /\ open' = open
    BY <1>3 DEF Arrive
  <2> QED
    BY <1>2, <2>1, SameTurnsAnswers
<1>4. CASE f.text # <<>>
  <2> DEFINE t == NewOrReopenedTurn
             n == [t EXCEPT !.question = @ \o f.text, !.uEnd = now]
  <2>1. Taken(n)
    BY <1>2, <1>4 DEF Arrive, Taken, clock
  <2>2. t \in AnyTurn /\ Placed(t, now) /\ Orderly(t)
    BY <1>2, TakenUp, TakenUpIsOrderly
  <2> HIDE DEF t
  <2>3. /\ n \in AnyTurn /\ Placed(n, now) /\ n.uOffset = t.uOffset
        /\ n.question = t.question \o f.text
        /\ n.speech = t.speech /\ n.phonation = t.phonation /\ n.complete = t.complete
        /\ n.pauses = t.pauses /\ n.loudness = t.loudness
    BY <1>1, <2>2, AskedTurn
  <2> HIDE DEF n
  <2>4. n.question # <<>>
    BY <1>1, <1>4, <2>2, <2>3, LongerIsNotEmpty DEF AnyTurn
  <2>5. /\ n.pOffset = None <=> n.pEnd = None
        /\ n.pOffset >= None /\ n.pEnd >= n.pOffset
    BY <2>3 DEF Placed, None, AnyTurn
  <2>6. Orderly(n)
    BY <2>2, <2>3, <2>4, <2>5 DEF Orderly
  <2> QED
    BY <2>1, <2>3, <2>6, TakenAnswers
<1> QED
  BY <1>3, <1>4

\* Or without a transcript.
LEMMA LoseAnswers == ASSUME IInv, Answers, Lose PROVE Answers'
<1>1. Taken(NewOrReopenedTurn) /\ phase = "live"
  BY LoseTakes DEF Taken
<1> QED
  BY <1>1, TakenUp, TakenUpIsOrderly, TakenAnswers

\* What is measured belongs to the Turn whose question was written.
LEMMA AttachAnswers ==
    ASSUME IInv, Awaited, Answers, Attach
    PROVE  Answers'
<1>0. PICK m \in Nat : m = Len(turns)
  BY LenProperties DEF IInv, Typed
<1>1. PICK r \in measuring : turns' = [turns EXCEPT ![m] = AttachMeasurements(turns[m], r)]
  BY <1>0 DEF Attach, Current
<1> DEFINE t == turns[m]
           n == AttachMeasurements(t, r)
<1>2. /\ Typed /\ answering /\ audio = 0 /\ Awaits(t, r, now) /\ t.question # <<>>
  BY <1>0, <1>1 DEF IInv, Awaited, Awaits
<1>3. phase = "live" /\ open' = open
  BY DEF Attach, clock
<1>4. /\ m > 0 /\ t \in AnyTurn /\ Placed(t, now) /\ now \in Nat /\ m \in 1 .. m
      /\ turns \in Seq(AnyTurn) /\ open = m
  BY <1>0, <1>2, TheLastTurn DEF Typed
<1>5. Orderly(t)
  BY <1>0, <1>4 DEF Answers
<1>6. n \in AnyTurn /\ Orderly(n)
  BY <1>2, <1>4, <1>5, AttachedTurn, AttachedIsOrderly
<1> HIDE DEF n, t
<1>7. Len(turns') = m /\ turns'[m] = n /\ \A k \in 1 .. m : k # m => turns'[k] = turns[k]
  BY <1>0, <1>1, <1>4, <1>6, LastReplaced DEF n, t
<1>8. \A k \in 1 .. m : Orderly(turns[k]) /\ (k # m => turns[k].reply # 0)
  BY <1>0 DEF Answers
<1>9. \A k \in 1 .. m : Orderly(turns'[k]) /\ (k # m => turns'[k].reply # 0)
  BY <1>6, <1>7, <1>8
<1> QED
  BY <1>3, <1>4, <1>7, <1>9 DEF Answers

\* The user hangs up, or is lost: what was dispatched is the reply.
LEMMA HangUpAnswers ==
    ASSUME IInv, IInv', CutInv, Answers, HangUp
    PROVE  Answers'
<1>1. phase = "live" /\ phase' = "stored" /\ UnderWay /\ Typed /\ Typed'
  BY DEF HangUp, CutInv, IInv
<1>2. CASE (Playing \/ answering) /\ CutOff(Played)
  BY <1>1, <1>2, CutAnswers
<1>3. CASE answering /\ turns' = [turns EXCEPT ![Current] =
                         IF audio = 0 THEN @ ELSE [@ EXCEPT !.reply = audio, !.interrupted = TRUE]]
  <2>1. Len(turns) > 0
    BY <1>1, <1>3 DEF Typed
  <2>2. turns[Len(turns)] \in AnyTurn
    BY <1>1, <2>1, TheLastTurn
  <2>3. PICK t, n : /\ t = turns[Len(turns)]
                    /\ n = IF audio = 0 THEN t ELSE [t EXCEPT !.reply = audio, !.interrupted = TRUE]
    OBVIOUS
  <2>4. turns' = [turns EXCEPT ![Len(turns)] = n]
    BY <1>3, <2>3 DEF Current
  <2>5. SameSaid(t, t)
    BY DEF SameSaid
  <2>6. t \in AnyTurn
    BY <2>2, <2>3
  <2>7. SameSaid(t, [t EXCEPT !.reply = audio, !.interrupted = TRUE])
    BY <2>6, PersonaSideOnly
  <2>8. SameSaid(t, n)
    BY <2>3, <2>5, <2>7
  <2> QED
    BY <1>1, <2>1, <2>3, <2>4, <2>8, LastReplacedAnswers
<1>4. CASE turns' = turns
  BY <1>1, <1>4, SameTurnsAnswers
<1> QED
  BY <1>2, <1>3, <1>4 DEF HangUp

\* The closing line is the Persona's.
LEMMA SignOffAnswers ==
    ASSUME IInv, IInv', Answers, NEW length \in Chunks, SignOff(length)
    PROVE  Answers'
<1>0. PICK m \in Nat : m = Len(turns)
  BY LenProperties DEF IInv, Typed
<1> DEFINE t == turns[m]
           n == turns'[m]
           line == NotePersonaAudio(t, length)
<1>1. phase' = "stored" /\ Typed /\ Typed'
  BY DEF SignOff, IInv
<1>2. /\ m > 0 /\ t \in AnyTurn /\ line \in AnyTurn
      /\ turns' = [turns EXCEPT ![m] = n]
      /\ n = [line EXCEPT !.reply = audio + length] \/ n = AfterCut(line, Played)
  BY <1>0, LineSpoken
<1> HIDE DEF n
<1>3. SameSaid(t, line)
  BY <1>2, PersonaSideOnly
<1> HIDE DEF line, t
<1>4. SameSaid(line, n)
  BY <1>2, PersonaSideOnly
<1>5. SameSaid(t, n)
  BY <1>3, <1>4 DEF SameSaid
<1> QED
  BY <1>0, <1>1, <1>2, <1>5, LastReplacedAnswers DEF t

\* Every step keeps the answers.
LEMMA AnswersNext == IInv /\ IInv' /\ Awaited /\ CutInv /\ Answers /\ [Next]_vars => Answers'
<1> SUFFICES ASSUME IInv, IInv', Awaited, CutInv, Answers, [Next]_vars PROVE Answers'
  OBVIOUS
<1>1. CASE Tick
  BY <1>1, SameTurnsAnswers DEF Tick
<1>2. CASE StartPlayback
  BY <1>2, StartPlaybackAnswers
<1>3. CASE Begin
  BY <1>3, SameTurnsAnswers DEF Begin, clock
<1>4. CASE Interrupt
  <2>1. phase = "live" /\ (answering \/ Playing) /\ CutOff(Played)
    BY <1>4 DEF Interrupt, InterruptDue
  <2> QED
    BY <2>1, CutAnswers DEF CutInv
<1>5. CASE Finish
  BY <1>5, FinishAnswers
<1>6. CASE HangUp
  BY <1>6, HangUpAnswers
<1>7. CASE \E length \in Chunks : Chunk(length)
  BY <1>7, ChunkAnswers
<1>8. CASE \E f \in Fragments : Arrive(f)
  BY <1>8, ArriveAnswers
<1>9. CASE \E pressed \in SUBSET PersonaRows : Judge(pressed)
  <2>1. turns' = turns /\ phase' = "stored"
    BY <1>9 DEF Judge
  <2> QED
    BY <2>1, SameTurnsAnswers
<1>10. CASE UNCHANGED vars
  BY <1>10, SameTurnsAnswers DEF vars
<1>11. CASE Lose
  BY <1>11, LoseAnswers
<1>12. CASE Attach
  BY <1>12, AttachAnswers
<1>13. CASE \E length \in Chunks : SignOff(length)
  BY <1>13, SignOffAnswers
<1> QED
  BY <1>1, <1>2, <1>3, <1>4, <1>5, <1>6, <1>7, <1>8, <1>9, <1>10, <1>11, <1>12, <1>13 DEF Next

\* So of a stored call.
KeptRows ==
    phase = "stored" =>
        /\ SameButJudged(record.rows, StoredRows(turns))
        /\ record.segments = {} => record.rows = StoredRows(turns)
        /\ \A s \in record.segments : \E pressed :
              s = MeasureSegments(StoredRows(turns), pressed, TRUE, reverse)

\* Judged, and judged again.
LEMMA JudgeKeepsRows ==
    ASSUME Typed, Recorded, KeptRows, NEW pressed \in SUBSET PersonaRows, Judge(pressed)
    PROVE  KeptRows'
<1> DEFINE stored == StoredRows(turns)
           after == MeasureSegments(record.rows, pressed, TRUE, reverse)
           rows == [i \in 1 .. Len(record.rows) |->
                       IF i \in PersonaRows
                       THEN [record.rows[i] EXCEPT !.pressed = IF i \in pressed THEN "yes" ELSE "no"]
                       ELSE record.rows[i]]
<1>0. turns \in Seq(AnyTurn)
  BY DEF Typed
<1>1. stored \in Seq(AnyRow)
  BY <1>0, RowsOfACall
<1>2. SameButJudged(record.rows, stored)
  BY DEF KeptRows, Judge
<1>3. phase' = "stored" /\ turns' = turns /\ reverse' = reverse
  BY DEF Judge
<1>4. record' = [record EXCEPT !.rows = rows, !.segments = {after}]
  BY DEF Judge
<1>5. after = MeasureSegments(stored, pressed, TRUE, reverse)
  <2> HIDE DEF stored
  <2>1. PICK yes : yes = TRUE
    OBVIOUS
  <2>2. MeasureSegments(record.rows, pressed, yes, reverse) = MeasureSegments(stored, pressed, yes, reverse)
    BY <1>1, <1>2, JudgedRows
  <2> QED
    BY <2>1, <2>2
<1>6. PICK n \in Nat : n = Len(stored) /\ n = Len(record.rows)
  <2> HIDE DEF stored
  <2> QED
    BY <1>1, <1>2, LenProperties DEF SameButJudged
<1>7. SameButJudged(rows, stored)
  <2>1. Len(rows) = n
    BY <1>6
  <2>2. ASSUME NEW i \in 1 .. n PROVE \E p : rows[i] = Judged(stored[i], p)
    <3>1. PICK p : record.rows[i] = Judged(stored[i], p)
      BY <1>2, <1>6 DEF SameButJudged
    <3>2. CASE i \in PersonaRows
      <4>1. PICK q : q = IF i \in pressed THEN "yes" ELSE "no"
        OBVIOUS
      <4>2. rows[i] = [record.rows[i] EXCEPT !.pressed = q]
        BY <1>6, <3>2, <4>1
      <4>3. rows[i] = Judged(stored[i], q)
        BY <3>1, <4>2, JudgedRow
      <4> QED
        BY <4>3
    <3>3. CASE i \notin PersonaRows
      <4>1. rows[i] = record.rows[i]
        BY <1>6, <3>3
      <4> QED
        BY <3>1, <4>1
    <3> QED
      BY <3>2, <3>3
  <2> HIDE DEF rows, stored
  <2> QED
    BY <1>6, <2>1, <2>2 DEF SameButJudged
<1> HIDE DEF rows, after
<1>8. record'.rows = rows /\ record'.segments = {after}
  <2>1. PICK r, g, figures, findings :
            record = [rows |-> r, figures |-> figures, findings |-> findings, segments |-> g]
    BY DEF Recorded, Judge
  <2> DEFINE x == [rows |-> r, figures |-> figures, findings |-> findings, segments |-> g]
             y == [x EXCEPT !.rows = rows, !.segments = {after}]
             R == [rows : {r, rows}, figures : {figures}, findings : {findings},
                   segments : {g, {after}}]
  <2>2. x \in R
    OBVIOUS
  <2>3. y.rows = rows /\ y.segments = {after}
    BY <2>2
  <2>4. record = x
    BY <2>1
  <2> HIDE DEF x
  <2>5. y = record'
    BY <1>4, <2>4
  <2> QED
    BY <2>3, <2>5
<1>9. stored' = stored
  BY <1>3
<1>10. \A s \in record'.segments : \E p : s = MeasureSegments(stored, p, TRUE, reverse)
  BY <1>5, <1>8
<1>11. record'.segments # {}
  BY <1>8
<1>12. SameButJudged(record'.rows, stored)
  BY <1>7, <1>8
<1> QED
  BY <1>3, <1>9, <1>10, <1>11, <1>12 DEF KeptRows

\* A call in progress has nothing stored, and hanging up stores its rows.
LEMMA KeptNext == IInv /\ IInv' /\ CutInv /\ KeptRows /\ [Next]_vars => KeptRows'
<1> SUFFICES ASSUME IInv, IInv', CutInv, KeptRows, [Next]_vars PROVE KeptRows'
  OBVIOUS
<1>0. Typed /\ Typed' /\ Recorded
  BY DEF IInv, CutInv
<1>1. ASSUME record' = Persisted(turns') PROVE KeptRows'
  <2>1. turns' \in Seq(AnyTurn)
    BY <1>0 DEF Typed
  <2>2. record' = Persisted(turns')
    BY <1>1
  <2>3. PICK figures, findings :
           record' = [rows |-> StoredRows(turns'), figures |-> figures, findings |-> findings,
                      segments |-> {}]
    BY <2>2 DEF Persisted
  <2>4. record'.rows = StoredRows(turns') /\ record'.segments = {}
    BY <2>3
  <2>5. SameButJudged(StoredRows(turns'), StoredRows(turns'))
    BY <2>1, RowsOfACall
  <2>6. SameButJudged(record'.rows, StoredRows(turns'))
    BY <2>4, <2>5
  <2> QED
    BY <2>4, <2>6 DEF KeptRows
<1>2. CASE \E pressed \in SUBSET PersonaRows : Judge(pressed)
  BY <1>0, <1>2, JudgeKeepsRows
<1>3. CASE phase' # "stored"
  BY <1>3 DEF KeptRows
<1>4. CASE UNCHANGED <<phase, turns, record, reverse>>
  BY <1>4 DEF KeptRows
<1>5. CASE Tick
  BY <1>5, <1>3 DEF Tick
<1>6. CASE StartPlayback
  BY <1>6, <1>3 DEF StartPlayback
<1>7. CASE Begin
  BY <1>7, <1>3 DEF Begin, clock
<1>8. CASE Interrupt
  BY <1>8, <1>3 DEF Interrupt, clock
<1>9. CASE Finish
  BY <1>9, <1>3 DEF Finish, clock
<1>10. CASE \E length \in Chunks : Chunk(length)
  BY <1>10, <1>3 DEF Chunk, clock
<1>11. CASE \E f \in Fragments : Arrive(f)
  BY <1>11, <1>3 DEF Arrive, clock
<1>12. CASE UNCHANGED vars
  BY <1>4, <1>12 DEF vars
<1>13. CASE HangUp
  BY <1>1, <1>13 DEF HangUp
<1>14. CASE \E length \in Chunks : SignOff(length)
  BY <1>1, <1>14 DEF SignOff
<1>15. CASE Lose
  BY <1>15, <1>3 DEF Lose, clock
<1>16. CASE Attach
  BY <1>16, <1>3 DEF Attach, clock
<1> QED
  BY <1>2, <1>5, <1>6, <1>7, <1>8, <1>9, <1>10, <1>11, <1>12, <1>13, <1>14, <1>15, <1>16 DEF Next

\* The invariant of a stored call.
StoredInv == Unstored /\ Answers /\ KeptRows

\* The three invariants hold together.
LEMMA StoredInvariance == Spec => [](IInv /\ CutInv /\ StoredInv)
<1>1. Init => KeptRows /\ Unstored
  <2>1. Init => phase # "stored" /\ record = NoRecord
    BY DEF Init
  <2> QED
    BY <2>1 DEF KeptRows, Unstored
<1>2. IInv /\ IInv' /\ Awaited /\ CutInv /\ Answers /\ KeptRows /\ [Next]_vars
         => Answers' /\ KeptRows'
  BY AnswersNext, KeptNext
<1>3. Spec => [](Answers /\ KeptRows)
  BY <1>1, <1>2, AnswersInit, CutInvariance, PTL DEF Spec
<1>4. Spec => []Unstored
  BY UnstoredInvariance
<1> QED
  BY <1>3, <1>4, CutInvariance, PTL DEF StoredInv

\* The Turns are those of a call.
LEMMA TurnsAreACall ==
    ASSUME IInv, Answers
    PROVE  CallOf(turns)
<1>1. turns \in Seq(AnyTurn)
  BY DEF IInv, Typed
<1>2. \A k \in 1 .. Len(turns) : Orderly(turns[k]) /\ (turns[k].reply = 0 => k = Len(turns))
  BY DEF Answers
<1>3. \A k \in 1 .. Len(turns) : Whole(AsStored(turns[k]))
  BY <1>1, <1>2, ElementOfSeq, OrderlyIsWhole
<1> QED
  BY <1>1, <1>2, <1>3 DEF CallOf

\* The figures of a stored call are what its Turns measured.
LEMMA FiguresStored ==
    ASSUME Recorded, phase = "stored", NEW f \in record.figures
    PROVE  f = Rows(Measure(Conversation(turns, TRUE, reverse)))
<1>1. PICK rows, segments, findings :
         record = [rows |-> rows, figures |-> Persisted(turns).figures, findings |-> findings,
                   segments |-> segments]
  BY DEF Recorded
<1>2. record.figures = Persisted(turns).figures
  BY <1>1
<1>3. Persisted(turns).figures = {Rows(Measure(Conversation(turns, TRUE, reverse)))}
  BY DEF Persisted
<1> QED
  BY <1>2, <1>3

\* But for a Turn whose measurement was cancelled, the rows tell what the Turns did.
LEMMA RowsTellTheTurns ==
    ASSUME turns \in Seq(AnyTurn), ~ CancelledMeasurement
    PROVE  StoredOf(turns) = turns
<1>1. PICK n \in Nat : n = Len(turns) /\ turns = [k \in 1 .. n |-> turns[k]]
  BY LenProperties
<1>2. ASSUME NEW k \in 1 .. n PROVE AsStored(turns[k]) = turns[k]
  <2>1. PICK t \in AnyTurn : t = turns[k]
    BY <1>1, ElementOfSeq
  <2>2. t.question # <<>> /\ Facts(t) = {} => ~ t.complete
    BY <1>1, <1>2, <2>1 DEF CancelledMeasurement, Current
  <2>3. ~ t.complete => [t EXCEPT !.complete = FALSE] = t
    BY DEF AnyTurn
  <2> QED
    BY <2>1, <2>2, <2>3 DEF AsStored
<1>3. StoredOf(turns) = [k \in 1 .. n |-> AsStored(turns[k])]
  BY <1>1 DEF StoredOf
<1> QED
  BY <1>1, <1>2, <1>3

\* A call stored and read back measures as the live one did, unless a Turn's only measurement
\* was cancelled (StoredReadsBack): what is read back is the call of its rows' Turns, and those
\* are the live ones wherever nothing was lost without being marked.
THEOREM StoredCallsReadBack == Spec => []StoredReadsBack
<1>1. ASSUME IInv, CutInv, StoredInv PROVE StoredReadsBack
  <2> SUFFICES ASSUME phase = "stored", record.segments = {}, ~ CancelledMeasurement,
                      NEW f \in record.figures, NEW key \in StoredKeys
               PROVE  Rows(Measure(Conversation(Exchanges(record.rows), TRUE, reverse)))[key] = f[key]
    BY <1>1 DEF StoredReadsBack, ReadsBack
  <2>1. record.rows = StoredRows(turns)
    BY <1>1 DEF StoredInv, KeptRows
  <2>2. CallOf(turns)
    BY <1>1, TurnsAreACall DEF StoredInv
  <2>3. PICK yes : yes = TRUE
    OBVIOUS
  <2>8. StoredOf(turns) = turns
    BY <2>2, RowsTellTheTurns DEF CallOf
  <2>4. Basis(Conversation(Again(turns), yes, reverse)) = Basis(Conversation(turns, yes, reverse))
    BY <2>2, <2>8, ACallReadsBack
  <2>5. Rows(Measure(Conversation(Again(turns), yes, reverse)))[key]
           = Rows(Measure(Conversation(turns, yes, reverse)))[key]
    BY <2>4, SameBasisSameFigures
  <2>6. f = Rows(Measure(Conversation(turns, yes, reverse)))
    BY <1>1, <2>3, FiguresStored DEF CutInv
  <2>7. Again(turns) = Exchanges(record.rows)
    BY <2>1 DEF Again
  <2> QED
    BY <2>3, <2>5, <2>6, <2>7
<1> QED
  BY <1>1, StoredInvariance, PTL

\* The two segments of a stored call share it out (SegmentsAddUp).
THEOREM SegmentsShareItOut == Spec => []SegmentsAddUp
<1>1. ASSUME IInv, CutInv, StoredInv PROVE SegmentsAddUp
  <2> SUFFICES ASSUME NEW s \in record.segments, NEW f \in record.figures,
                      NEW p \in s["pressure"].talk_share, NEW r \in s["rest"].talk_share,
                      NEW c \in f.talk_share
               PROVE  p.user + r.user = c.user /\ p.persona + r.persona = c.persona
    BY DEF SegmentsAddUp
  <2>1. phase = "stored"
    BY <1>1 DEF StoredInv, Unstored, NoRecord
  <2>2. PICK pressed : s = MeasureSegments(StoredRows(turns), pressed, TRUE, reverse)
    BY <1>1, <2>1 DEF StoredInv, KeptRows
  <2>3. CallOf(turns) /\ turns \in Seq(AnyTurn)
    BY <1>1, TurnsAreACall DEF StoredInv, IInv, Typed
  <2>4. PICK rows : rows = StoredRows(turns) /\ rows \in Seq(AnyRow)
    BY <2>3, RowsOfACall
  <2>5. /\ Segment(rows, pressed, TRUE) \in Seq(AnyTurn)
        /\ Segment(rows, pressed, FALSE) \in Seq(AnyTurn)
        /\ Shares(Exchanges(rows), Segment(rows, pressed, TRUE), Segment(rows, pressed, FALSE))
    BY <2>4, SegmentsShareTheCall DEF SharedOut
  <2>6. PICK yes, one, other, whole : /\ yes = TRUE
                                      /\ one = Segment(rows, pressed, TRUE)
                                      /\ other = Segment(rows, pressed, FALSE)
                                      /\ whole = Exchanges(rows)
    OBVIOUS
  <2>7. /\ p.user = UserMs(one) /\ p.persona = PersonaMs(one)
        /\ r.user = UserMs(other) /\ r.persona = PersonaMs(other)
    <3>1. MeasuredOver(s, rows, pressed, yes, reverse)
      BY <2>2, <2>4, <2>6 DEF MeasuredOver
    <3>2. one \in Seq(AnyTurn) /\ other \in Seq(AnyTurn)
      BY <2>5, <2>6
    <3>3. Parted(rows, pressed, one, other)
      BY <2>6 DEF Parted
    <3>4. IsShare(p, one) /\ IsShare(r, other)
      BY <3>1, <3>2, <3>3, SharesOfTheSegments
    <3> QED
      BY <3>4 DEF IsShare
  <2>8. /\ UserMs(one) + UserMs(other) = UserMs(whole)
        /\ PersonaMs(one) + PersonaMs(other) = PersonaMs(whole)
    BY <2>5, <2>6 DEF Shares
  <2>9. c.user = UserMs(turns) /\ c.persona = PersonaMs(turns)
    <3> DEFINE call == Conversation(turns, yes, reverse)
    <3>1. f = Rows(Measure(call))
      BY <1>1, <2>1, <2>6, FiguresStored DEF CutInv
    <3>2. f.talk_share \in {TalkShare(call), {}}
      <4> HIDE DEF call
      <4>1. Measure(call).talk_share = TalkShare(call) /\ "talk_share" \in DOMAIN Measure(call)
        BY DEF Measure
      <4> QED
        BY <3>1, <4>1 DEF Rows
    <3>3. c \in TalkShare(call)
      BY <3>2
    <3>4. c.user = Voiced(call) /\ c.persona = call.personaMs
      <4> HIDE DEF call
      <4> QED
        BY <3>3, ShareOfTheTalk
    <3>5. Voiced(call) = UserMs(turns) /\ call.personaMs = PersonaMs(turns)
      BY <2>3, TalkOfACall
    <3> QED
      BY <3>4, <3>5
  <2>10. UserMs(whole) = UserMs(turns) /\ PersonaMs(whole) = PersonaMs(turns)
    <3>1. whole = Again(turns)
      BY <2>4, <2>6 DEF Again
    <3>0. PICK us \in Seq(AnyTurn) : us = StoredOf(turns)
      BY <2>3, StoredOfKeepsRows
    <3>2. PICK b : b = Basis(Conversation(Again(turns), yes, reverse)) /\ b = Basis(Conversation(us, yes, reverse))
      BY <2>3, <3>0, ACallReadsBack
    <3>3. ASSUME NEW ts \in Seq(AnyTurn), b = Basis(Conversation(ts, yes, reverse))
          PROVE  UserMs(ts) = b.phonation + PauseMs(b.pauses) /\ PersonaMs(ts) = b.personaMs
      <4>1. /\ b.phonation = Facts0(ts).phonation /\ b.pauses = Facts0(ts).pauses
            /\ b.personaMs = Facts0(ts).personaMs
        BY <3>3, BasisOfACall
      <4> QED
        BY <4>1, TalkOfACall
    <3>4. Again(turns) \in Seq(AnyTurn)
      BY <2>3, ACallReadsBack
    <3>5. UserMs(us) = b.phonation + PauseMs(b.pauses) /\ PersonaMs(us) = b.personaMs
      BY <3>0, <3>2, <3>3
    <3>7. UserMs(us) = UserMs(turns) /\ PersonaMs(us) = PersonaMs(turns)
      BY <2>3, <3>0, StoredTalk
    <3>6. /\ UserMs(Again(turns)) = b.phonation + PauseMs(b.pauses)
          /\ PersonaMs(Again(turns)) = b.personaMs
      BY <3>2, <3>3, <3>4
    <3> QED
      BY <3>1, <3>5, <3>6, <3>7
  <2> QED
    BY <2>7, <2>8, <2>9, <2>10
<1> QED
  BY <1>1, StoredInvariance, PTL
=============================================================================
