------------------------------ MODULE DialogueProofs ------------------------------
(* What a call says is right for any scenarios, sentences and caps: the types of     *)
(* its state, that a point is heard once, that a request to repeat is met once in a  *)
(* row, that the call is taken leave of, and that the notes hold what was heard.     *)
(*                                                                                   *)
(* The invariant is built in layers.  Frame says that only the last Turn is ever     *)
(* written; Once, on top of it, that the guards know every point heard so far;       *)
(* Counted, Closed and Noted say what the requests, the goodbyes and the notes rest  *)
(* on.  Every layer has its lemma for the first state and for a step.                *)
EXTENDS Dialogue, Induction, SequenceTheorems

\* One sentence further through a text.
OneFurther(text, dropped, V) ==
    [p \in Nat \X V |->
        IF p[1] < Len(text) /\ text[p[1] + 1] \notin dropped
        THEN Append(p[2], text[p[1] + 1]) ELSE p[2]]

\* Without drops what it says and makes nothing up: what is left are sentences of the
\* text, none of them among the dropped.
LEMMA WithoutKeeps ==
    ASSUME NEW S, NEW text \in Seq(S), NEW dropped
    PROVE  Without(text, dropped) \in Seq(S \ dropped)
<1> DEFINE V == Seq(S \ dropped)
           step == OneFurther(text, dropped, V)
           Body(kept) == [n \in 0 .. Len(text) |->
                            IF n = 0 THEN <<>>
                            ELSE IF text[n] \in dropped THEN kept[n - 1]
                            ELSE Append(kept[n - 1], text[n])]
           kept == CHOOSE k : k = Body(k)
<1>1. <<>> \in V
  OBVIOUS
<1>2. Within(step, V)
  <2> SUFFICES ASSUME NEW i \in Nat, NEW v \in V PROVE step[<<i, v>>] \in V
    BY DEF Within
  <2>1. step[<<i, v>>] = IF i < Len(text) /\ text[i + 1] \notin dropped
                         THEN Append(v, text[i + 1]) ELSE v
    BY DEF OneFurther
  <2>2. i < Len(text) /\ text[i + 1] \notin dropped =>
          text[i + 1] \in S \ dropped
    OBVIOUS
  <2>3. \A e \in S \ dropped : Append(v, e) \in V
    BY AppendProperties
  <2> HIDE DEF step, V
  <2> QED
    BY <2>1, <2>2, <2>3
<1>3. PICK f \in [Nat -> V] : Iterates(f, <<>>, step)
  <2> HIDE DEF V, step
  <2> QED
    BY <1>1, <1>2, Recursion
<1>4. \A i \in 0 .. Len(text) - 1 :
        f[i + 1] = IF text[i + 1] \in dropped THEN f[i] ELSE Append(f[i], text[i + 1])
  <2> SUFFICES ASSUME NEW i \in 0 .. Len(text) - 1
      PROVE f[i + 1] = IF text[i + 1] \in dropped THEN f[i] ELSE Append(f[i], text[i + 1])
    OBVIOUS
  <2>1. i \in Nat /\ f[i] \in V /\ i < Len(text)
    <3> HIDE DEF V
    <3> QED
      BY <1>3
  <2>2. f[i + 1] = step[<<i, f[i]>>]
    BY <1>3, <2>1 DEF Iterates
  <2> HIDE DEF V
  <2> QED
    BY <2>1, <2>2 DEF OneFurther
<1> DEFINE g == [n \in 0 .. Len(text) |-> f[n]]
<1>5. g = Body(g)
  <2>1. ASSUME NEW n \in 0 .. Len(text) PROVE g[n] = Body(g)[n]
    <3>1. CASE n = 0
      BY <3>1, <1>3 DEF Iterates
    <3>2. CASE n # 0
      <4>1. n - 1 \in 0 .. Len(text) - 1 /\ n - 1 + 1 = n /\ n - 1 \in 0 .. Len(text)
        BY <3>2
      <4> QED
        BY <3>2, <4>1, <1>4
    <3> QED
      BY <3>1, <3>2
  <2> HIDE DEF V
  <2> QED
    BY <2>1
<1>6. kept = Body(kept)
  <2> HIDE DEF g, Body
  <2> QED
    BY <1>5
<1>7. \A n \in Nat : n \in {m \in Nat : m <= Len(text) => kept[m] \in V}
  <2> DEFINE T == {m \in Nat : m <= Len(text) => kept[m] \in V}
  <2> HIDE DEF kept
  <2>1. 0 \in T
    BY <1>6, <1>1
  <2>2. ASSUME NEW n \in Nat, n \in T PROVE n + 1 \in T
    <3> SUFFICES ASSUME n + 1 <= Len(text) PROVE kept[n + 1] \in V
      OBVIOUS
    <3>1. n + 1 \in 0 .. Len(text) /\ n + 1 # 0 /\ n + 1 - 1 = n /\ text[n + 1] \in S
      OBVIOUS
    <3>2. kept[n] \in V
      BY <2>2
    <3>3. kept[n + 1] = IF text[n + 1] \in dropped THEN kept[n]
                        ELSE Append(kept[n], text[n + 1])
      <4>1. \A m \in 0 .. Len(text) :
              kept[m] = IF m = 0 THEN <<>> ELSE IF text[m] \in dropped THEN kept[m - 1]
                        ELSE Append(kept[m - 1], text[m])
        BY <1>6, Zenon
      <4>2. kept[n + 1] = IF n + 1 = 0 THEN <<>>
                          ELSE IF text[n + 1] \in dropped THEN kept[n + 1 - 1]
                          ELSE Append(kept[n + 1 - 1], text[n + 1])
        BY <3>1, <4>1
      <4> QED
        BY <3>1, <4>2
    <3>4. \A e \in S \ dropped : Append(kept[n], e) \in V
      BY <3>2, AppendProperties
    <3> HIDE DEF V
    <3> QED
      BY <3>1, <3>2, <3>3, <3>4
  <2> HIDE DEF T
  <2>3. \A n \in Nat : n \in T
    BY <2>1, <2>2, SetInduction
  <2> QED
    BY <2>3 DEF T
<1>8. kept[Len(text)] \in V
  <2> HIDE DEF kept, V
  <2> QED
    BY <1>7
<1> QED
  BY <1>8 DEF Without
-----------------------------------------------------------------------------
(* The inductive invariant, in layers: each is kept by every step of a state *)
(* of the layers before it.                                                  *)

\* Everything a request to the model is made of.
Reply ==
    [turn: 0 .. MaxTurns, instruction: Instruction, closing: BOOLEAN, allow: BOOLEAN,
     normal: BOOLEAN, said: SUBSET Sentence, cutOff: Seq(Sentence), round: 0 .. 1,
     attempt: 0 .. 1, first: BOOLEAN, endsCall: BOOLEAN, suppressed: BOOLEAN]

\* The notes, and the refresh under way.
Recorded == [turn: 1 .. MaxTurns, parts: 0 .. MaxParts, text: Seq(Sentence)]
Task == {Idle} \cup {Refresh(p[1], p[2]) : p \in (SUBSET Recorded) \X Recorded}
Notes == [text: SUBSET Recorded, base: SUBSET Recorded, turn: 0 .. MaxTurns, task: Task]

\* What TypeOK says of the system prompt.
OfTheCall(s, prompt) ==
    \A i \in DOMAIN prompt :
        prompt[i].side \in {Side(s), "either"} \/ prompt[i].name \in KeptFromTheCaller

\* The types of the variables.
Shapes ==
    /\ scenario \in Scenarios
    /\ OfTheCall(scenario, system)
    /\ turns \in Seq(Turn) /\ Len(turns) <= MaxTurns
    /\ replies \in Seq(Line)
    /\ reopen \in 0 .. Len(turns) /\ revisable \in 0 .. Len(turns)
    /\ repeats \in 0 .. 2
    /\ prompted \in 0 .. PickupPrompts
    /\ reply \in Reply
    /\ phase \in {"listening", "replying", "over"}
    /\ notes \in Notes

\* Only the last Turn is ever answered, reopened or revised: while a reply is made it
\* is the open one, and one that is open while the user may speak has no words.
LastTurnOnly ==
    /\ reopen \in {0, Len(turns)} /\ revisable \in {0, Len(turns)}
    /\ reopen = 0 \/ revisable = 0
    /\ phase = "replying" => /\ turns # <<>>
                             /\ reply.turn = Len(turns) /\ reopen = Len(turns)
    /\ phase = "listening" /\ reopen # 0 => turns[reopen].text = <<>>
    /\ revisable # 0 => phase = "listening"

\* The points of the first n of some Turns.
HeardBefore(ts, n) == UNION {HeardPoints(ts[t].text) : t \in 1 .. n}

\* The guards know every point the user has heard: the history's lines hold those of
\* every Turn, the last line those of the Turn that may yet be revised, and a reply
\* under the guards has none of them.
PointsKnown ==
    /\ phase = "listening" => HeardBefore(turns, Len(turns)) \subseteq SaidSentences(replies)
    /\ revisable # 0 =>
         /\ replies # <<>>
         /\ replies[Len(replies)].text = turns[revisable].text
         /\ HeardBefore(turns, revisable - 1) \subseteq
              SaidSentences(SubSeq(replies, 1, Len(replies) - 1))
    /\ phase = "replying" =>
         /\ HeardBefore(turns, reply.turn - 1) \subseteq SaidSentences(replies)
         /\ IF reply.normal
            THEN /\ HeardBefore(turns, reply.turn - 1) \subseteq reply.said
                 /\ HeardPoints(Spoken) \cap reply.said = {}
            ELSE SpokeYet => turns[reply.turn].exempt

\* The row of requests is the last Turn's: nothing is asked without an utterance, and
\* nobody stays silent once the user has spoken.
RequestsCounted ==
    /\ \A u \in DOMAIN turns : turns[u].parts = 0 => ~turns[u].asks /\ ~turns[u].closes
    /\ turns # <<>> /\ turns[Len(turns)].parts = 0 =>
         \A u \in DOMAIN turns : turns[u].parts = 0
    /\ repeats = 0 <=> turns = <<>> \/ ~turns[Len(turns)].asks

\* A closing reply answers a goodbye and is asked for as one, or owes the opening; and
\* once a reply has ended the call nothing is said any more.
ClosingsAsked ==
    /\ ended # <<>> => phase = "over"
    /\ phase = "replying" /\ reply.closing =>
         /\ turns[reply.turn].closes
         /\ reply.instruction.kind \in {"closing", "opening"}

\* An exchange stands in the notes as it was heard, or a refresh for it was lost.
Current(e) == e.text = turns[e.turn].text
Settled(e) == Current(e) \/ e.turn \in lost

\* The notes are ahead of the Turns by one exchange at most: the base holds only
\* Turns before the last, the text the last one only if it was the last refreshed,
\* and a refresh under way is about the last refreshed Turn as it was heard.
NotesKept ==
    /\ notes.turn <= Len(turns)
    /\ lost \subseteq DOMAIN turns
    /\ \A e \in notes.base : e.turn < Len(turns) /\ (phase # "over" => Settled(e))
    /\ \A e \in notes.text : e.turn <= Len(turns)
    /\ \A e \in notes.text : e.turn = Len(turns) => notes.turn = Len(turns)
    /\ reopen # 0 => notes.turn # Len(turns)
    /\ turns # <<>> /\ turns[Len(turns)].parts = 0 => notes.turn # Len(turns)
    /\ notes.task # Idle =>
         /\ notes.task[1].base = notes.base
         /\ notes.task[1].exchange.turn = notes.turn
         /\ notes.turn # 0
         /\ Current(notes.task[1].exchange)
         /\ phase # "over"
-----------------------------------------------------------------------------
(* Sentences, texts and lines                                              *)

\* The fixed lines are sentences of no substance.
LEMMA FixedLines ==
    /\ \A text \in Points \cup Phrases \cup Scraps : Whole(text) \in Sentence
    /\ \A text \in Phrases \cup Scraps : ~IsPoint(Whole(text))
BY VocabularyAssumption DEF Whole, Sentence, IsPoint

\* The points of a text are those of its parts.
LEMMA PointsOfAppend ==
    ASSUME NEW text \in Seq(Sentence), NEW s \in Sentence
    PROVE  /\ Append(text, s) \in Seq(Sentence)
           /\ HeardPoints(Append(text, s)) \subseteq HeardPoints(text) \cup {s}
           /\ HeardPoints(text) \subseteq HeardPoints(Append(text, s))
           /\ ~IsPoint(s) => HeardPoints(Append(text, s)) = HeardPoints(text)
<1> DEFINE more == Append(text, s)
<1>1. /\ more \in Seq(Sentence) /\ Len(more) = Len(text) + 1
      /\ \A i \in 1 .. Len(text) : more[i] = text[i]
      /\ more[Len(text) + 1] = s
  BY AppendProperties
<1>2. DOMAIN more = 1 .. Len(text) + 1 /\ DOMAIN text = 1 .. Len(text) /\ Len(text) \in Nat
  BY <1>1, LenProperties
<1> HIDE DEF more
<1>3. InText(more) = InText(text) \cup {s}
  BY <1>1, <1>2 DEF InText
<1> QED
  BY <1>1, <1>3 DEF HeardPoints, more

\* Two texts one after the other have the points of both.
LEMMA PointsOfConcat ==
    ASSUME NEW a \in Seq(Sentence), NEW b \in Seq(Sentence)
    PROVE  /\ a \o b \in Seq(Sentence)
           /\ HeardPoints(a \o b) = HeardPoints(a) \cup HeardPoints(b)
<1> DEFINE ab == a \o b
<1>1. /\ ab \in Seq(Sentence) /\ Len(ab) = Len(a) + Len(b)
      /\ \A i \in 1 .. Len(a) + Len(b) :
           ab[i] = IF i <= Len(a) THEN a[i] ELSE b[i - Len(a)]
  BY ConcatProperties
<1>2. /\ DOMAIN ab = 1 .. Len(a) + Len(b) /\ DOMAIN a = 1 .. Len(a) /\ DOMAIN b = 1 .. Len(b)
      /\ Len(a) \in Nat /\ Len(b) \in Nat
  BY <1>1, LenProperties
<1> HIDE DEF ab
<1>3. InText(ab) = InText(a) \cup InText(b)
  <2>1. InText(ab) \subseteq InText(a) \cup InText(b)
    <3> SUFFICES ASSUME NEW i \in DOMAIN ab PROVE ab[i] \in InText(a) \cup InText(b)
      BY DEF InText
    <3>1. CASE i <= Len(a)
      BY <1>1, <1>2, <3>1 DEF InText
    <3>2. CASE ~ i <= Len(a)
      <4>1. i - Len(a) \in 1 .. Len(b) /\ ab[i] = b[i - Len(a)]
        BY <1>1, <1>2, <3>2
      <4> QED
        BY <1>2, <4>1 DEF InText
    <3> QED
      BY <3>1, <3>2
  <2>2. InText(a) \subseteq InText(ab)
    <3> SUFFICES ASSUME NEW i \in DOMAIN a PROVE a[i] \in InText(ab)
      BY DEF InText
    <3>1. i \in DOMAIN ab /\ ab[i] = a[i]
      BY <1>1, <1>2
    <3> QED
      BY <3>1 DEF InText
  <2>3. InText(b) \subseteq InText(ab)
    <3> SUFFICES ASSUME NEW i \in DOMAIN b PROVE b[i] \in InText(ab)
      BY DEF InText
    <3>1. i + Len(a) \in DOMAIN ab /\ ab[i + Len(a)] = b[i]
      <4>1. i + Len(a) \in 1 .. Len(a) + Len(b) /\ ~ i + Len(a) <= Len(a)
            /\ i + Len(a) - Len(a) = i
        BY <1>2
      <4> QED
        BY <1>1, <1>2, <4>1
    <3> QED
      BY <3>1 DEF InText
  <2> QED
    BY <2>1, <2>2, <2>3
<1> QED
  BY <1>1, <1>3 DEF HeardPoints, ab

\* What may be heard of a text adds no point to it.
LEMMA CutsKeep ==
    ASSUME NEW text \in Seq(Sentence), NEW heard \in Cuts(text)
    PROVE  heard \in Seq(Sentence) /\ HeardPoints(heard) \subseteq HeardPoints(text)
<1>1. Len(text) \in Nat /\ DOMAIN text = 1 .. Len(text)
      /\ \A i \in 1 .. Len(text) : text[i] \in Sentence
  BY LenProperties, ElementOfSeq
<1>2. ASSUME NEW n \in 0 .. Len(text)
      PROVE  /\ SubSeq(text, 1, n) \in Seq(Sentence)
             /\ HeardPoints(SubSeq(text, 1, n)) \subseteq HeardPoints(text)
  <2> DEFINE part == SubSeq(text, 1, n)
  <2>1. \A i \in 1 .. n : text[i] \in Sentence
    BY <1>1
  <2>2. /\ part \in Seq(Sentence) /\ Len(part) = IF 1 <= n THEN n - 1 + 1 ELSE 0
        /\ \A i \in 1 .. n - 1 + 1 : part[i] = text[1 + i - 1]
    BY <2>1, SubSeqProperties
  <2>3. DOMAIN part = 1 .. n
    BY <2>2, LenProperties
  <2>4. \A i \in 1 .. n : part[i] = text[i] /\ i \in DOMAIN text
    BY <1>1, <2>2
  <2> HIDE DEF part
  <2>5. InText(part) \subseteq InText(text)
    BY <2>3, <2>4 DEF InText
  <2> QED
    BY <2>2, <2>5 DEF HeardPoints, part
<1>3. CASE heard \in {SubSeq(text, 1, n) : n \in 0 .. Len(text)}
  BY <1>2, <1>3
<1>4. CASE heard \in {Append(SubSeq(text, 1, n - 1), [text[n] EXCEPT !.whole = FALSE]) :
                        n \in {k \in DOMAIN text : IsPoint(text[k])}}
  <2>1. PICK n \in DOMAIN text :
          heard = Append(SubSeq(text, 1, n - 1), [text[n] EXCEPT !.whole = FALSE])
    BY <1>4
  <2>2. n - 1 \in 0 .. Len(text) /\ text[n] \in Sentence
    BY <1>1
  <2>3. /\ [text[n] EXCEPT !.whole = FALSE] \in Sentence
        /\ ~IsPoint([text[n] EXCEPT !.whole = FALSE])
    BY <2>2 DEF Sentence, IsPoint
  <2>4. /\ heard \in Seq(Sentence)
        /\ HeardPoints(heard) = HeardPoints(SubSeq(text, 1, n - 1))
    BY <1>2, <2>1, <2>2, <2>3, PointsOfAppend
  <2> QED
    BY <1>2, <2>2, <2>4
<1> QED
  BY <1>3, <1>4 DEF Cuts

\* The points of the history are those of its lines.
LEMMA SaidIsHeard ==
    ASSUME NEW lines
    PROVE  SaidSentences(lines) = UNION {HeardPoints(lines[i].text) : i \in DOMAIN lines}
BY DEF SaidSentences, HeardPoints

\* What was said is a set of sentences.
LEMMA SaidIsSentences ==
    ASSUME NEW lines \in Seq(Line)
    PROVE  SaidSentences(lines) \in SUBSET Sentence
<1>1. ASSUME NEW i \in DOMAIN lines PROVE InText(lines[i].text) \subseteq Sentence
  <2>1. lines[i] \in Line
    BY LenProperties, ElementOfSeq
  <2>2. lines[i].text \in Seq(Sentence)
    BY <2>1 DEF Line
  <2>3. \A k \in DOMAIN lines[i].text : lines[i].text[k] \in Sentence
    BY <2>2
  <2> QED
    BY <2>3 DEF InText
<1> QED
  BY <1>1 DEF SaidSentences

\* A line more adds its points to what was said.
LEMMA SaidAppend ==
    ASSUME NEW lines \in Seq(Line), NEW line \in Line
    PROVE  /\ Append(lines, line) \in Seq(Line)
           /\ Append(lines, line) # <<>>
           /\ Append(lines, line)[Len(Append(lines, line))] = line
           /\ SubSeq(Append(lines, line), 1, Len(Append(lines, line)) - 1) = lines
           /\ SaidSentences(Append(lines, line)) =
                SaidSentences(lines) \cup HeardPoints(line.text)
<1> DEFINE more == Append(lines, line)
<1>1. /\ more \in Seq(Line) /\ more # <<>> /\ Len(more) = Len(lines) + 1
      /\ \A i \in 1 .. Len(lines) : more[i] = lines[i]
      /\ more[Len(lines) + 1] = line
  BY AppendProperties
<1>2. DOMAIN more = 1 .. Len(lines) + 1 /\ DOMAIN lines = 1 .. Len(lines) /\ Len(lines) \in Nat
  BY <1>1, LenProperties
<1>3. SubSeq(more, 1, Len(more) - 1) = lines
  BY <1>1, <1>2
<1> HIDE DEF more
<1>4. {HeardPoints(more[i].text) : i \in DOMAIN more} =
        {HeardPoints(lines[i].text) : i \in DOMAIN lines} \cup {HeardPoints(line.text)}
  BY <1>1, <1>2
<1>5. SaidSentences(more) = SaidSentences(lines) \cup HeardPoints(line.text)
  BY <1>4, SaidIsHeard
<1> QED
  BY <1>1, <1>2, <1>3, <1>5 DEF more

\* A chunk through the opening checks is still a text.
LEMMA OpenedIsText ==
    ASSUME NEW chunk \in Chunks
    PROVE  Opened(chunk) \in Seq(Sentence)
<1>1. chunk \in Seq(Sentence)
  BY DialogueAssumption
<1>2. StripEchoedPrefix(chunk) \in Seq(Sentence)
  BY <1>1 DEF StripEchoedPrefix
<1> DEFINE own == IF turns[reply.turn].parts > 0 THEN StripEchoedPrefix(chunk) ELSE chunk
<1>3. own \in Seq(Sentence)
  BY <1>1, <1>2
<1>4. own # <<>> => WithoutFirstSentence(own) \in Seq(Sentence)
  BY <1>3, HeadTailProperties DEF WithoutFirstSentence
<1> QED
  BY <1>1, <1>3, <1>4 DEF Opened

\* _drop_repeats lets nothing through that a filtered reply may not say.
LEMMA CleanedKeeps ==
    ASSUME NEW chunk \in Chunks
    PROVE  /\ Cleaned(chunk) \in Seq(Sentence)
           /\ reply.normal => HeardPoints(Cleaned(chunk)) \cap reply.said = {}
<1>1. Opened(chunk) \in Seq(Sentence)
  BY OpenedIsText
<1>2. CASE ~reply.normal
  BY <1>1, <1>2 DEF Cleaned
<1>3. CASE reply.normal
  <2> DEFINE once == DropSaidSentences(Opened(chunk), reply.said)
  <2>1. once \in Seq(Sentence \ reply.said)
    BY <1>1, WithoutKeeps DEF DropSaidSentences
  <2>2. DropResumedSentences(once, reply.cutOff) \in
          Seq((Sentence \ reply.said) \ {s \in InText(once) : Resumes(s, reply.cutOff)})
    <3> HIDE DEF once
    <3> QED
      BY <2>1, WithoutKeeps DEF DropResumedSentences
  <2>3. Cleaned(chunk) \in Seq(Sentence \ reply.said)
    BY <1>3, <2>2, SeqMonotonic DEF Cleaned
  <2>4. \A i \in DOMAIN Cleaned(chunk) : Cleaned(chunk)[i] \in Sentence \ reply.said
    BY <2>3, ElementOfSeq, LenProperties
  <2> QED
    BY <2>3, <2>4, SeqMonotonic DEF HeardPoints, InText
<1> QED
  BY <1>2, <1>3

-----------------------------------------------------------------------------
(* What the model is told                                                  *)

\* The sections that may speak of a side, or of neither.
SectionNames ==
    {"casting", "facts", "goal", "goal_rule", "case_language", "identity", "role",
     "character", "objections", "fill_gaps", "improvise", "no_restart", "closing_rules",
     "authored_note", "how_you_talk", "reply_language"}

LEMMA NamedSections ==
    /\ "casting" \in SectionNames /\ "facts" \in SectionNames /\ "goal" \in SectionNames
    /\ "goal_rule" \in SectionNames /\ "case_language" \in SectionNames
    /\ "identity" \in SectionNames /\ "role" \in SectionNames
    /\ "character" \in SectionNames /\ "objections" \in SectionNames
    /\ "fill_gaps" \in SectionNames /\ "improvise" \in SectionNames
    /\ "no_restart" \in SectionNames /\ "closing_rules" \in SectionNames
    /\ "authored_note" \in SectionNames /\ "how_you_talk" \in SectionNames
    /\ "reply_language" \in SectionNames
BY DEF SectionNames

\* What a prompt may hold: text of one's own side or of either, the description and
\* the example calls.
OwnSection(s) == [name : SectionNames, side : {Side(s), "either"}]
CallersSection == [name : KeptFromTheCaller, side : {"caller"}]
OfSide(s) == Seq(OwnSection(s) \cup CallersSection)

\* Prompts are put together of sections, each there or not.
LEMMA Sections ==
    ASSUME NEW s
    PROVE  /\ \A name \in SectionNames, side \in {Side(s), "either"} : <<Section(name, side)>> \in OfSide(s)
           /\ \A name \in KeptFromTheCaller : <<Section(name, "caller")>> \in OfSide(s)
           /\ \A a, b \in OfSide(s) : a \o b \in OfSide(s)
           /\ \A condition \in BOOLEAN, a \in OfSide(s) : If(condition, a) \in OfSide(s)
<1>1. \A name \in SectionNames, side \in {Side(s), "either"} : Section(name, side) \in OwnSection(s)
  BY DEF Section, OwnSection
<1>2. \A name \in KeptFromTheCaller : Section(name, "caller") \in CallersSection
  BY DEF Section, CallersSection
<1> DEFINE S == OwnSection(s) \cup CallersSection
<1> HIDE DEF S
<1>3. \A e \in S : <<e>> \in Seq(S)
  OBVIOUS
<1>4. \A a, b \in Seq(S) : a \o b \in Seq(S)
  OBVIOUS
<1>5. <<>> \in Seq(S)
  OBVIOUS
<1>6. OwnSection(s) \subseteq S /\ CallersSection \subseteq S /\ OfSide(s) = Seq(S)
  BY DEF S, OfSide
<1>7. \A name \in SectionNames, side \in {Side(s), "either"} : <<Section(name, side)>> \in Seq(S)
  BY <1>1, <1>3, <1>6
<1>8. \A name \in KeptFromTheCaller : <<Section(name, "caller")>> \in Seq(S)
  BY <1>2, <1>3, <1>6
<1> QED
  BY <1>4, <1>5, <1>6, <1>7, <1>8 DEF If

\* build_system_prompt leaves the caller's description and the example calls in a
\* reverse, and nothing else of the caller's.
LEMMA PromptOfOneSide ==
    ASSUME NEW s \in Scenario
    PROVE  \A i \in DOMAIN SystemPrompt(s) :
             \/ SystemPrompt(s)[i].side \in {Side(s), "either"}
             \/ SystemPrompt(s)[i].name \in KeptFromTheCaller
<1> DEFINE side == Side(s)
           O == OfSide(s)
<1>1. /\ s.reverse \in BOOLEAN /\ s.facts \in BOOLEAN /\ s.goal \in BOOLEAN
      /\ s.authored \in BOOLEAN /\ s.objections \in BOOLEAN
  BY DEF Scenario
<1>2. \A name \in SectionNames : <<Section(name, side)>> \in O /\ <<Section(name, "either")>> \in O
  BY Sections
<1>3. \A a, b \in O : a \o b \in O
  BY Sections
<1>4. \A condition \in BOOLEAN, a \in O : If(condition, a) \in O
  BY Sections
<1>5. ~s.reverse => side = "caller"
  BY DEF Side
<1>6. \A condition \in BOOLEAN, name \in SectionNames :
        (condition => ~s.reverse) => If(condition, <<Section(name, "caller")>>) \in O
  <2> SUFFICES ASSUME NEW condition \in BOOLEAN, NEW name \in SectionNames, condition => ~s.reverse
               PROVE  If(condition, <<Section(name, "caller")>>) \in O
    OBVIOUS
  <2>1. CASE condition
    BY <1>2, <1>4, <1>5, <2>1
  <2>2. CASE ~condition
    <3>1. If(FALSE, <<Section(name, side)>>) \in O
      BY <1>2, <1>4
    <3> QED
      BY <2>2, <3>1 DEF If
  <2> QED
    BY <2>1, <2>2
<1> HIDE DEF O, side
<1>7. /\ Casting(s) \in O /\ NoRestartRule(s) \in O /\ ClosingRules(s) \in O
  BY <1>2, NamedSections DEF Casting, NoRestartRule, ClosingRules, side
<1>8. ImprovisationRule(s) \in O
  BY <1>2, NamedSections DEF ImprovisationRule
<1>9. CaseBlock(s) \in O
  <2>1. <<Section("goal", side), Section("goal_rule", side)>> \in O
    <3>1. <<Section("goal", side), Section("goal_rule", side)>> =
            <<Section("goal", side)>> \o <<Section("goal_rule", side)>>
      OBVIOUS
    <3>2. <<Section("goal", side)>> \in O /\ <<Section("goal_rule", side)>> \in O
      BY <1>2, NamedSections
    <3> QED
      BY <1>3, <3>1, <3>2
  <2>2. If(s.goal, <<Section("goal", side), Section("goal_rule", side)>>) \in O
    BY <1>1, <1>4, <2>1
  <2>3. If(s.facts, <<Section("facts", side)>>) \in O
    BY <1>1, <1>2, <1>4, NamedSections
  <2> QED
    BY <1>3, <2>2, <2>3 DEF CaseBlock, side
<1>10. LanguageOfTheCase(s) \in O
  <2>1. (s.facts \/ s.goal) \in BOOLEAN
    BY <1>1
  <2> QED
    BY <1>2, <1>4, <2>1, NamedSections DEF LanguageOfTheCase
<1>11. PersonaBlock(s) \in O
  <2>1. If(~s.reverse, <<Section("role", "caller")>>) \in O
    BY <1>1, <1>6, NamedSections
  <2>2. If(~s.reverse /\ s.objections, <<Section("objections", "caller")>>) \in O
    <3>1. (~s.reverse /\ s.objections) \in BOOLEAN
      BY <1>1
    <3> QED
      BY <1>6, <3>1, NamedSections
  <2> QED
    BY <1>2, <1>3, <2>1, <2>2, NamedSections DEF PersonaBlock
<1>12. If(s.authored, <<Section("authored_note", "either")>>) \in O
  BY <1>1, <1>2, <1>4, NamedSections
<1>13. /\ <<Section("context", "caller")>> \in O /\ <<Section("example", "caller")>> \in O
       /\ <<Section("how_you_talk", "either")>> \in O
       /\ <<Section("reply_language", "either")>> \in O
  BY <1>2, NamedSections, Sections DEF KeptFromTheCaller, O
<1>14. SystemPrompt(s) \in O
  BY <1>3, <1>7, <1>8, <1>9, <1>10, <1>11, <1>12, <1>13 DEF SystemPrompt
<1>15. \A i \in DOMAIN SystemPrompt(s) : SystemPrompt(s)[i] \in OwnSection(s) \cup CallersSection
  BY <1>14, ElementOfSeq, LenProperties DEF O, OfSide
<1> QED
  BY <1>15 DEF OwnSection, CallersSection

\* One instruction goes with a reply, and a closing reply is asked for as one unless
\* the opening is still owed.
LEMMA OneInstruction ==
    ASSUME NEW t, NEW closing \in BOOLEAN, NEW requests
    PROVE  /\ InstructionFor(t, closing, requests) \in Instruction
           /\ closing => InstructionFor(t, closing, requests).kind \in {"closing", "opening"}
<1>1. Opening \in Instruction /\ NoInstruction \in Instruction
      /\ Opening.kind = "opening"
  BY DEF Opening, NoInstruction, Instruction, Instructions
<1>2. \A kind \in Instructions : /\ [NoInstruction EXCEPT !.kind = kind] \in Instruction
                                 /\ [NoInstruction EXCEPT !.kind = kind].kind = kind
  BY DEF NoInstruction, Instruction, Instructions
<1>3. \A i \in Instruction : \A b \in BOOLEAN : /\ [i EXCEPT !.beforeLast = b] \in Instruction
                                                /\ [i EXCEPT !.settle = b] \in Instruction
  BY DEF Instruction
<1>4. AntiRepeat(scenario) \in Instructions
      /\ {"closing", "interrupted", "clarify_again", "clarify"} \subseteq Instructions
  BY DEF AntiRepeat, Instructions
<1>5. Interrupted(t) \in BOOLEAN /\ SettlementCheck(Len(replies)) \in BOOLEAN
  BY DEF Interrupted, SettlementCheck
<1> DEFINE interrupted == Interrupted(t)
           n == Len(replies)
<1>6. /\ ForTurn(scenario, closing, interrupted, requests, n) \in Instruction
      /\ closing => ForTurn(scenario, closing, interrupted, requests, n).kind = "closing"
  <2> HIDE DEF interrupted, n
  <2>1. CASE closing
    BY <1>2, <1>4, <2>1 DEF ForTurn
  <2>2. CASE ~closing /\ interrupted
    BY <1>2, <1>3, <1>4, <2>2 DEF ForTurn
  <2>3. CASE ~closing /\ ~interrupted /\ requests >= 2
    BY <1>2, <1>4, <2>3 DEF ForTurn
  <2>4. CASE ~closing /\ ~interrupted /\ ~ requests >= 2
    <3>1. CASE requests = 1
      BY <1>2, <1>4, <2>4, <3>1 DEF ForTurn
    <3>2. CASE requests = 0 /\ n > 0
      <4>1. SettlementCheck(n) \in BOOLEAN
        BY DEF SettlementCheck
      <4>2. 0 # 1
        OBVIOUS
      <4> QED
        BY <1>2, <1>3, <1>4, <2>4, <3>2, <4>1, <4>2 DEF ForTurn
    <3>3. CASE requests # 1 /\ ~(requests = 0 /\ n > 0)
      BY <1>1, <2>4, <3>3 DEF ForTurn
    <3> QED
      BY <3>1, <3>2, <3>3
  <2> QED
    BY <2>1, <2>2, <2>3, <2>4
<1> QED
  BY <1>1, <1>6 DEF InstructionFor
-----------------------------------------------------------------------------
(* Turns and replies                                                       *)

\* The bounds are numbers.
LEMMA Bounds ==
    MaxTurns \in Nat \ {0} /\ MaxParts \in Nat \ {0} /\ PickupPrompts \in Nat
BY DialogueAssumption

\* What becomes of the Turns: one of them, or the next, is this one now.
TurnIs(t, turn) ==
    /\ turns' \in Seq(Turn)
    /\ Len(turns') = IF t <= Len(turns) THEN Len(turns) ELSE t
    /\ turns'[t] = turn
    /\ \A u \in 1 .. Len(turns) : u # t => turns'[u] = turns[u]

\* The Turns with one of them changed.
LEMMA TurnChanged ==
    ASSUME turns \in Seq(Turn), NEW t \in 1 .. Len(turns), NEW turn \in Turn,
           turns' = [turns EXCEPT ![t] = turn]
    PROVE  TurnIs(t, turn)
<1>1. Len(turns) \in Nat
  BY LenProperties
<1> QED
  BY <1>1, ExceptSeq DEF TurnIs

\* The Turns with one more.
LEMMA TurnAdded ==
    ASSUME turns \in Seq(Turn), NEW turn \in Turn, turns' = Append(turns, turn)
    PROVE  TurnIs(Len(turns) + 1, turn)
<1>1. Len(turns) \in Nat
  BY LenProperties
<1> QED
  BY <1>1, AppendProperties DEF TurnIs

\* The Turns there are.
LEMMA TurnTypes ==
    ASSUME turns \in Seq(Turn)
    PROVE  /\ Len(turns) \in Nat
           /\ DOMAIN turns = 1 .. Len(turns)
           /\ turns = <<>> <=> Len(turns) = 0
           /\ \A u \in 1 .. Len(turns) :
                /\ turns[u] \in Turn /\ turns[u].text \in Seq(Sentence)
                /\ turns[u].parts \in 0 .. MaxParts
                /\ turns[u].asks \in BOOLEAN /\ turns[u].closes \in BOOLEAN
<1>1. Len(turns) \in Nat /\ DOMAIN turns = 1 .. Len(turns)
  BY LenProperties
<1>2. turns = <<>> <=> Len(turns) = 0
  BY <1>1, EmptySeq
<1>3. \A u \in 1 .. Len(turns) : turns[u] \in Turn
  BY ElementOfSeq
<1> QED
  BY <1>1, <1>2, <1>3 DEF Turn

\* A Turn nobody has spoken in.
LEMMA FreshTurnType ==
    /\ FreshTurn \in Turn /\ FreshTurn.parts = 0 /\ FreshTurn.asks = FALSE
    /\ FreshTurn.closes = FALSE /\ FreshTurn.text = <<>> /\ FreshTurn.exempt = FALSE
    /\ FreshTurn.interrupted = FALSE
    /\ [FreshTurn EXCEPT !.text = <<Whole("hallo")>>] \in Turn
<1>1. 0 \in 0 .. MaxParts
  BY DialogueAssumption
<1>2. <<Whole("hallo")>> \in Seq(Sentence) /\ <<>> \in Seq(Sentence)
  BY FixedLines DEF Scraps
<1> QED
  BY <1>1, <1>2 DEF FreshTurn, Turn

\* The sentence a reply was cut off in is a sentence of a Turn before.
LEMMA CutOffIsText ==
    ASSUME turns \in Seq(Turn), NEW t \in 1 .. Len(turns) + 1
    PROVE  CutOffSentence(t) \in Seq(Sentence)
<1>1. CASE ~Interrupted(t)
  BY <1>1 DEF CutOffSentence
<1>2. CASE Interrupted(t)
  <2> DEFINE LastSpoken(u) == /\ turns[u].text # <<>>
                        /\ \A v \in (u + 1) .. (t - 1) : turns[v].text = <<>>
             u == CHOOSE u \in 1 .. (t - 1) : LastSpoken(u)
  <2>1. \E v \in 1 .. (t - 1) : LastSpoken(v)
    BY <1>2 DEF Interrupted
  <2>2. u \in 1 .. (t - 1) /\ LastSpoken(u)
    <3> HIDE DEF LastSpoken
    <3> QED
      BY <2>1
  <2>3. CutOffSentence(t) = <<LastSentence(turns[u].text)>>
    BY <1>2 DEF CutOffSentence
  <2> HIDE DEF u
  <2>4. turns[u].text \in Seq(Sentence) /\ turns[u].text # <<>>
    BY <2>2, TurnTypes
  <2>5. Len(turns[u].text) \in 1 .. Len(turns[u].text)
    BY <2>4, EmptySeq
  <2>6. LastSentence(turns[u].text) \in Sentence
    BY <2>4, <2>5, ElementOfSeq DEF LastSentence
  <2> QED
    BY <2>3, <2>6
<1> QED
  BY <1>1, <1>2

\* What a reply is asked for with.
LEMMA FreshReplyType ==
    ASSUME NEW t \in 0 .. MaxTurns, NEW instruction \in Instruction,
           NEW closing \in BOOLEAN, NEW allow \in BOOLEAN, NEW cutOff \in Seq(Sentence),
           SaidSentences(replies) \in SUBSET Sentence
    PROVE  FreshReply(t, instruction, closing, allow, cutOff) \in Reply
<1>1. {} \in SUBSET Sentence /\ <<>> \in Seq(Sentence) /\ 0 \in 0 .. 1
  OBVIOUS
<1>2. (~closing /\ ~allow) \in BOOLEAN
  OBVIOUS
<1> QED
  BY <1>1, <1>2 DEF FreshReply, Reply

\* No reply is a reply of the right type.
LEMMA NoReplyType == NoReply \in Reply /\ NoReply' \in Reply
<1>1. 0 \in 0 .. MaxTurns /\ NoInstruction \in Instruction /\ <<>> \in Seq(Sentence)
      /\ {} \in SUBSET Sentence /\ 0 \in 0 .. 1
  BY DialogueAssumption DEF NoInstruction, Instruction, Instructions
<1> QED
  BY <1>1 DEF NoReply, FreshReply, Reply

\* A history line.
LEMMA LineType ==
    ASSUME NEW text \in Seq(Sentence), NEW mark \in BOOLEAN
    PROVE  [text |-> text, mark |-> mark] \in Line
BY DEF Line

\* The history with one line more.
LEMMA LineAdded ==
    ASSUME NEW lines \in Seq(Line), NEW text \in Seq(Sentence), NEW mark \in BOOLEAN
    PROVE  Append(lines, [text |-> text, mark |-> mark]) \in Seq(Line)
BY LineType, AppendProperties

\* The notes and the refresh under way stay what they are.
LEMMA RefreshTypes ==
    ASSUME turns \in Seq(Turn), Len(turns) <= MaxTurns, notes \in Notes,
           NEW t \in 1 .. Len(turns), NEW text \in Seq(Sentence)
    PROVE  /\ Exchange(t, text) \in Recorded
           /\ Exchange(t, text).turn = t /\ Exchange(t, text).text = text
           /\ RefreshNotes(t, text) => notes' \in Notes
           /\ DiscardNotes(t) => notes' \in Notes
<1>1. turns[t].parts \in 0 .. MaxParts /\ t \in 1 .. MaxTurns /\ t \in 0 .. MaxTurns
      /\ 0 \in 0 .. MaxTurns
  BY TurnTypes, DialogueAssumption
<1>2. /\ Exchange(t, text) \in Recorded
      /\ Exchange(t, text).turn = t /\ Exchange(t, text).text = text
  BY <1>1 DEF Exchange, Recorded
<1> DEFINE base == IF notes.turn # t THEN notes.text ELSE notes.base
<1>3. base \in SUBSET Recorded
  BY DEF Notes
<1>4. Refresh(base, Exchange(t, text)) \in Task /\ Idle \in Task
  <2> DEFINE e == Exchange(t, text)
  <2>1. <<base, e>> \in (SUBSET Recorded) \X Recorded
    BY <1>2, <1>3
  <2>2. Refresh(<<base, e>>[1], <<base, e>>[2]) = Refresh(base, e)
    OBVIOUS
  <2> HIDE DEF base, e
  <2>3. Refresh(base, e) \in Task
    BY <2>1, <2>2 DEF Task
  <2> QED
    BY <2>3 DEF Task, e
<1>5. ASSUME RefreshNotes(t, text) PROVE notes' \in Notes
  <2>1. \/ notes' = notes
        \/ notes' = [notes EXCEPT !.base = base, !.turn = t,
                                  !.task = Refresh(base, Exchange(t, text))]
    BY <1>5 DEF RefreshNotes
  <2> HIDE DEF base
  <2> QED
    BY <1>1, <1>3, <1>4, <2>1 DEF Notes
<1>6. ASSUME DiscardNotes(t) PROVE notes' \in Notes
  BY <1>1, <1>4, <1>6 DEF DiscardNotes, Notes
<1> QED
  BY <1>2, <1>5, <1>6
-----------------------------------------------------------------------------
(* What each step does to the Turns                                        *)

Frame == Shapes /\ LastTurnOnly

\* The Turn the next utterance or prompt goes to.
NextTurn == IF reopen # 0 THEN reopen ELSE Len(turns) + 1
OpenTurn == IF reopen # 0 THEN turns[reopen] ELSE FreshTurn
Asked(asks, closes) ==
    [OpenTurn EXCEPT !.parts = @ + 1, !.asks = OpenTurn.asks \/ asks,
                     !.closes = OpenTurn.closes \/ closes]
Prompted == [FreshTurn EXCEPT !.text = <<Whole("hallo")>>]
WithText(t, text) == [turns[t] EXCEPT !.text = text]
WithChunk(text) ==
    [turns[reply.turn] EXCEPT !.text = Spoken \o text, !.exempt = ~reply.normal]
WithCut(t, heard) == [turns[t] EXCEPT !.text = heard, !.interrupted = TRUE]

\* The open Turn is the last one or comes after it.
LEMMA NextTurnIsLast ==
    ASSUME Frame
    PROVE  /\ NextTurn \in 1 .. Len(turns) + 1 /\ Len(turns) \in Nat
           /\ reopen # 0 => NextTurn = Len(turns)
           /\ reopen = 0 => NextTurn = Len(turns) + 1
           /\ OpenTurn \in Turn
           /\ phase = "listening" => OpenTurn.text = <<>>
<1>1. /\ turns \in Seq(Turn) /\ reopen \in {0, Len(turns)} /\ reopen \in 0 .. Len(turns)
      /\ phase = "listening" /\ reopen # 0 => turns[reopen].text = <<>>
  BY DEF Frame, Shapes, LastTurnOnly
<1>2. Len(turns) \in Nat /\ \A u \in 1 .. Len(turns) : turns[u] \in Turn
  BY <1>1, TurnTypes
<1>3. CASE reopen = 0
  BY <1>2, <1>3, FreshTurnType DEF NextTurn, OpenTurn
<1>4. CASE reopen # 0
  <2>1. reopen \in 1 .. Len(turns) /\ reopen = Len(turns)
    BY <1>1, <1>2, <1>4
  <2> QED
    BY <1>1, <1>2, <1>4, <2>1 DEF NextTurn, OpenTurn
<1> QED
  BY <1>3, <1>4

\* An utterance.
LEMMA UserSpeaksEffect ==
    ASSUME Frame, NEW asks \in BOOLEAN, NEW closes \in BOOLEAN, UserSpeaks(asks, closes)
    PROVE  /\ TurnIs(NextTurn, Asked(asks, closes)) /\ Asked(asks, closes) \in Turn
           /\ NextTurn \in 1 .. MaxTurns /\ Len(turns') = NextTurn
           /\ Asked(asks, closes).text = <<>>
           /\ Asked(asks, closes).parts = OpenTurn.parts + 1
           /\ Asked(asks, closes).asks = (OpenTurn.asks \/ asks)
           /\ Asked(asks, closes).closes = (OpenTurn.closes \/ closes)
           /\ reopen' = NextTurn /\ revisable' = 0
           /\ repeats' = CountRequests(Asked(asks, closes).asks)
           /\ LET closing == Asked(asks, closes).closes
                  requests == CountRequests(Asked(asks, closes).asks)
              IN  reply' = FreshReply(NextTurn, InstructionFor(NextTurn, closing, requests),
                                      closing, requests = 1, CutOffSentence(NextTurn))
           /\ phase = "listening" /\ phase' = "replying"
           /\ UNCHANGED <<scenario, system, replies, prompted, ended, notes, lost>>
<1> DEFINE turn == Asked(asks, closes)
<1>1. /\ NextTurn \in 1 .. Len(turns) + 1 /\ Len(turns) \in Nat /\ OpenTurn \in Turn
      /\ reopen # 0 => NextTurn = Len(turns)
      /\ reopen = 0 => NextTurn = Len(turns) + 1
      /\ phase = "listening" => OpenTurn.text = <<>>
  BY NextTurnIsLast
<1>2. /\ phase = "listening" /\ NextTurn <= MaxTurns /\ OpenTurn.parts < MaxParts
      /\ turns' = IF reopen # 0 THEN [turns EXCEPT ![NextTurn] = turn]
                                ELSE Append(turns, turn)
  BY DEF UserSpeaks, NextTurn, OpenTurn, Asked
<1>3. OpenTurn.parts + 1 \in 0 .. MaxParts
  BY <1>1, <1>2, DialogueAssumption DEF Turn
<1>4. /\ turn \in Turn /\ turn.text = <<>>
      /\ turn.parts = OpenTurn.parts + 1
      /\ turn.asks = (OpenTurn.asks \/ asks)
      /\ turn.closes = (OpenTurn.closes \/ closes)
  <2>1. (OpenTurn.asks \/ asks) \in BOOLEAN /\ (OpenTurn.closes \/ closes) \in BOOLEAN
    BY <1>1 DEF Turn
  <2> QED
    BY <1>1, <1>2, <1>3, <2>1 DEF Turn, Asked
<1> HIDE DEF turn
<1>5. TurnIs(NextTurn, turn)
  <2>1. turns \in Seq(Turn)
    BY DEF Frame, Shapes
  <2>2. CASE reopen # 0
    <3>1. NextTurn \in 1 .. Len(turns)
      BY <1>1, <2>2
    <3> QED
      BY <1>2, <1>4, <2>1, <2>2, <3>1, TurnChanged
  <2>3. CASE reopen = 0
    BY <1>1, <1>2, <1>4, <2>1, <2>3, TurnAdded
  <2> QED
    BY <2>2, <2>3
<1>6. NextTurn \in 1 .. MaxTurns /\ Len(turns') = NextTurn
  BY <1>1, <1>2, <1>5, DialogueAssumption DEF TurnIs
<1>7. /\ reopen' = NextTurn /\ revisable' = 0
      /\ repeats' = CountRequests(turn.asks)
      /\ phase = "listening" /\ phase' = "replying"
      /\ LET closing == turn.closes
             requests == CountRequests(turn.asks)
         IN  reply' = FreshReply(NextTurn, InstructionFor(NextTurn, closing, requests),
                                 closing, requests = 1, CutOffSentence(NextTurn))
      /\ UNCHANGED <<scenario, system, replies, prompted, ended, notes, lost>>
  BY DEF UserSpeaks, NextTurn, OpenTurn, Asked, turn
<1> QED
  BY <1>4, <1>5, <1>6, <1>7 DEF turn

\* A "Hallo?" into the silence.
LEMMA PickupPromptEffect ==
    ASSUME Frame, PickupPrompt
    PROVE  /\ TurnIs(NextTurn, Prompted) /\ Prompted \in Turn
           /\ NextTurn \in 1 .. MaxTurns /\ Len(turns') = NextTurn
           /\ Prompted.text = <<Whole("hallo")>> /\ Prompted.parts = 0
           /\ Prompted.asks = FALSE /\ Prompted.closes = FALSE
           /\ replies' = Append(replies, [text |-> <<Whole("hallo")>>, mark |-> FALSE])
           /\ reopen' = 0 /\ revisable' = NextTurn
           /\ prompted' = prompted + 1 /\ prompted < PickupPrompts
           /\ phase = "listening"
           /\ \A u \in DOMAIN turns : turns[u].parts = 0
           /\ UNCHANGED <<scenario, system, repeats, reply, phase, ended, notes, lost>>
<1>1. /\ NextTurn \in 1 .. Len(turns) + 1 /\ Len(turns) \in Nat
      /\ reopen # 0 => NextTurn = Len(turns)
      /\ reopen = 0 => NextTurn = Len(turns) + 1
  BY NextTurnIsLast
<1>2. /\ phase = "listening" /\ NextTurn < MaxTurns
      /\ turns' = IF reopen # 0 THEN [turns EXCEPT ![NextTurn] = Prompted]
                                ELSE Append(turns, Prompted)
      /\ replies' = Append(replies, [text |-> <<Whole("hallo")>>, mark |-> FALSE])
      /\ reopen' = 0 /\ revisable' = NextTurn
      /\ prompted' = prompted + 1 /\ prompted < PickupPrompts
      /\ \A u \in DOMAIN turns : turns[u].parts = 0
      /\ UNCHANGED <<scenario, system, repeats, reply, phase, ended, notes, lost>>
  BY DEF PickupPrompt, NextTurn, Prompted
<1>3. /\ Prompted \in Turn /\ Prompted.text = <<Whole("hallo")>> /\ Prompted.parts = 0
      /\ Prompted.asks = FALSE /\ Prompted.closes = FALSE
  BY FreshTurnType DEF Prompted, FreshTurn
<1>4. TurnIs(NextTurn, Prompted)
  <2>1. turns \in Seq(Turn)
    BY DEF Frame, Shapes
  <2>2. CASE reopen # 0
    <3>1. NextTurn \in 1 .. Len(turns)
      BY <1>1, <2>2
    <3> QED
      BY <1>2, <1>3, <2>1, <2>2, <3>1, TurnChanged
  <2>3. CASE reopen = 0
    BY <1>1, <1>2, <1>3, <2>1, <2>3, TurnAdded
  <2> QED
    BY <2>2, <2>3
<1>5. NextTurn \in 1 .. MaxTurns /\ Len(turns') = NextTurn
  BY <1>1, <1>2, <1>4, DialogueAssumption DEF TurnIs
<1> QED
  BY <1>2, <1>3, <1>4, <1>5

\* While a reply is made, its Turn is the last.
LEMMA ReplyingTurn ==
    ASSUME Frame, phase = "replying"
    PROVE  /\ reply.turn = Len(turns) /\ reply.turn \in 1 .. Len(turns)
           /\ reply.turn \in 1 .. MaxTurns
           /\ turns[reply.turn] \in Turn /\ Spoken \in Seq(Sentence)
           /\ reopen = Len(turns) /\ revisable = 0
<1>1. /\ turns \in Seq(Turn) /\ turns # <<>> /\ reply.turn = Len(turns)
      /\ reopen = Len(turns) /\ Len(turns) <= MaxTurns
  BY DEF Frame, Shapes, LastTurnOnly
<1>2. /\ Len(turns) \in Nat /\ Len(turns) # 0
      /\ \A u \in 1 .. Len(turns) : turns[u] \in Turn /\ turns[u].text \in Seq(Sentence)
  BY <1>1, TurnTypes
<1>3. reply.turn \in 1 .. Len(turns)
  BY <1>1, <1>2
<1>4. reply.turn \in 1 .. MaxTurns
  BY <1>1, <1>2, <1>3, Bounds
<1>5. revisable = 0
  BY <1>1, <1>2 DEF Frame, LastTurnOnly
<1> QED
  BY <1>1, <1>2, <1>3, <1>4, <1>5 DEF Spoken

\* A chunk added to the reply.
LEMMA ChunkEffect ==
    ASSUME Frame, NEW chunk \in Chunks, NEW marker \in BOOLEAN, ChunkArrives(chunk, marker)
    PROVE  /\ phase = "replying"
           /\ TurnIs(reply.turn, WithChunk(Cleaned(chunk)))
           /\ WithChunk(Cleaned(chunk)) \in Turn
           /\ WithChunk(Cleaned(chunk)).text = Spoken \o Cleaned(chunk)
           /\ WithChunk(Cleaned(chunk)).exempt = ~reply.normal
           /\ WithChunk(Cleaned(chunk)).parts = turns[reply.turn].parts
           /\ WithChunk(Cleaned(chunk)).asks = turns[reply.turn].asks
           /\ WithChunk(Cleaned(chunk)).closes = turns[reply.turn].closes
           /\ Len(turns') = Len(turns)
           /\ UNCHANGED <<scenario, system, replies, reopen, revisable, repeats, prompted,
                          phase, ended, notes, lost>>
<1> DEFINE turn == WithChunk(Cleaned(chunk))
<1>1. phase = "replying"
  BY DEF ChunkArrives, StreamOpen
<1>2. /\ reply.turn \in 1 .. Len(turns) /\ turns[reply.turn] \in Turn
      /\ Spoken \in Seq(Sentence) /\ turns \in Seq(Turn)
  BY <1>1, ReplyingTurn DEF Frame, Shapes
<1>3. Spoken \o Cleaned(chunk) \in Seq(Sentence)
  BY <1>2, CleanedKeeps, PointsOfConcat
<1>4. (~reply.normal) \in BOOLEAN
  OBVIOUS
<1>5. /\ turn \in Turn /\ turn.text = Spoken \o Cleaned(chunk) /\ turn.exempt = ~reply.normal
      /\ turn.parts = turns[reply.turn].parts /\ turn.asks = turns[reply.turn].asks
      /\ turn.closes = turns[reply.turn].closes
  BY <1>2, <1>3, <1>4 DEF WithChunk, Turn
<1>6. turns' = [turns EXCEPT ![reply.turn] = turn]
  BY <1>2 DEF ChunkArrives, WithChunk, Spoken
<1> HIDE DEF turn
<1>7. TurnIs(reply.turn, turn)
  BY <1>2, <1>5, <1>6, TurnChanged
<1>8. Len(turns') = Len(turns)
  BY <1>2, <1>7, LenProperties DEF TurnIs
<1>9. UNCHANGED <<scenario, system, replies, reopen, revisable, repeats, prompted,
                  phase, ended, notes, lost>>
  BY DEF ChunkArrives
<1> QED
  BY <1>1, <1>5, <1>7, <1>8, <1>9 DEF turn

\* A text put in the place of a reply, as spoken or as cut.
LEMMA TextEffect ==
    ASSUME Frame, NEW t \in 1 .. Len(turns), NEW text \in Seq(Sentence),
           NEW turn \in {WithText(t, text), WithCut(t, text)},
           turns' = [turns EXCEPT ![t] = turn]
    PROVE  /\ TurnIs(t, turn) /\ turn \in Turn /\ turn.text = text
           /\ turn.exempt = turns[t].exempt /\ turn.parts = turns[t].parts
           /\ turn.asks = turns[t].asks /\ turn.closes = turns[t].closes
           /\ Len(turns') = Len(turns)
<1>1. turns[t] \in Turn /\ turns \in Seq(Turn) /\ Len(turns) \in Nat
  BY TurnTypes DEF Frame, Shapes
<1>2. /\ turn \in Turn /\ turn.text = text
      /\ turn.exempt = turns[t].exempt /\ turn.parts = turns[t].parts
      /\ turn.asks = turns[t].asks /\ turn.closes = turns[t].closes
  BY <1>1 DEF WithText, WithCut, Turn
<1>3. TurnIs(t, turn)
  BY <1>1, <1>2, TurnChanged
<1> QED
  BY <1>1, <1>2, <1>3 DEF TurnIs
\* A finished reply ends the call, signed off or not, or leaves it to the user.
EndsTheCall(text) ==
    /\ turns' = [turns EXCEPT ![reply.turn] = WithText(reply.turn, text)]
    /\ replies' = Append(replies, [text |-> text, mark |-> FALSE])
    /\ CallOver
    /\ UNCHANGED revisable
GoesOn ==
    /\ replies' = Append(replies, [text |-> Spoken, mark |-> FALSE])
    /\ RefreshNotes(reply.turn, Spoken)
    /\ revisable' = reply.turn
    /\ phase' = "listening"
    /\ reply' = NoReply
    /\ UNCHANGED <<turns, ended>>

\* What a finished reply does to the Turns, the history and the notes.
LEMMA ReplyDoneEffect ==
    ASSUME Frame, ReplyDone
    PROVE  /\ phase = "replying" /\ reopen' = 0
           /\ UNCHANGED <<scenario, system, repeats, prompted>>
           /\ \/ \E text \in {Spoken, Append(Spoken, Whole("signoff"))} :
                   /\ EndsTheCall(text)
                   /\ text \in Seq(Sentence) /\ HeardPoints(text) = HeardPoints(Spoken)
              \/ GoesOn
<1>1. phase = "replying" /\ reopen' = 0 /\ UNCHANGED <<scenario, system, repeats, prompted>>
  BY DEF ReplyDone
<1>2. /\ reply.turn \in 1 .. Len(turns) /\ Spoken \in Seq(Sentence) /\ turns \in Seq(Turn)
      /\ turns[reply.turn] \in Turn
  BY <1>1, ReplyingTurn DEF Frame, Shapes
<1>3. Whole("signoff") \in Sentence /\ ~IsPoint(Whole("signoff"))
  BY FixedLines DEF Phrases
<1>4. /\ Append(Spoken, Whole("signoff")) \in Seq(Sentence)
      /\ HeardPoints(Append(Spoken, Whole("signoff"))) = HeardPoints(Spoken)
  BY <1>2, <1>3, PointsOfAppend
<1> DEFINE marker == reply.endsCall \/ (~SpokeYet /\ reply.suppressed)
           ending == Ending(Spoken, replies, marker, reply.closing, reply.allow)
<1>5. CASE ending.ends
  <2>1. PICK signedOff \in BOOLEAN :
          LET text == IF signedOff THEN Append(Spoken, Whole("signoff")) ELSE Spoken
          IN  /\ turns' = [turns EXCEPT ![reply.turn].text = text]
              /\ replies' = Append(replies, [text |-> text, mark |-> FALSE])
              /\ CallOver
              /\ UNCHANGED revisable
    BY <1>5 DEF ReplyDone
  <2> DEFINE text == IF signedOff THEN Append(Spoken, Whole("signoff")) ELSE Spoken
  <2>2. [turns EXCEPT ![reply.turn].text = text] =
          [turns EXCEPT ![reply.turn] = WithText(reply.turn, text)]
    BY <1>2 DEF WithText
  <2>3. EndsTheCall(text)
    BY <2>1, <2>2 DEF EndsTheCall
  <2>4. text \in Seq(Sentence) /\ HeardPoints(text) = HeardPoints(Spoken)
        /\ text \in {Spoken, Append(Spoken, Whole("signoff"))}
    BY <1>2, <1>4
  <2> QED
    BY <1>1, <2>3, <2>4
<1>6. CASE ~ending.ends
  BY <1>1, <1>6 DEF ReplyDone, GoesOn
<1> QED
  BY <1>5, <1>6

\* A reply talked over: what was heard of it stands, or the Turn stays open.
LEMMA TalkedOverEffect ==
    ASSUME Frame, NEW heard \in Cuts(Spoken), TalkedOver(heard)
    PROVE  /\ phase = "replying" /\ phase' = "listening" /\ reply' = NoReply
           /\ heard \in Seq(Sentence) /\ HeardPoints(heard) \subseteq HeardPoints(Spoken)
           /\ UNCHANGED <<scenario, system, revisable, repeats, prompted, ended>>
           /\ \/ /\ heard # <<>>
                 /\ turns' = [turns EXCEPT ![reply.turn] = WithCut(reply.turn, heard)]
                 /\ replies' = Append(replies, [text |-> heard, mark |-> TRUE])
                 /\ reopen' = 0
                 /\ RefreshNotes(reply.turn, heard)
              \/ /\ heard = <<>>
                 /\ turns' = [turns EXCEPT ![reply.turn] = WithText(reply.turn, heard)]
                 /\ UNCHANGED <<replies, reopen, notes, lost>>
<1>1. phase = "replying"
  BY DEF TalkedOver
<1>2. /\ reply.turn \in 1 .. Len(turns) /\ Spoken \in Seq(Sentence) /\ turns \in Seq(Turn)
      /\ turns[reply.turn] \in Turn
  BY <1>1, ReplyingTurn DEF Frame, Shapes
<1>3. heard \in Seq(Sentence) /\ HeardPoints(heard) \subseteq HeardPoints(Spoken)
  BY <1>2, CutsKeep
<1>4. /\ Trimmed(reply.turn, heard) =
           [turns EXCEPT ![reply.turn] = WithCut(reply.turn, heard)]
      /\ [turns EXCEPT ![reply.turn].text = heard] =
           [turns EXCEPT ![reply.turn] = WithText(reply.turn, heard)]
  BY <1>2 DEF Trimmed, WithCut, WithText
<1> QED
  BY <1>1, <1>3, <1>4 DEF TalkedOver

\* The Turn that may be revised is the last, with its line the history's last.
LEMMA TalkedOverTailEffect ==
    ASSUME Frame, revisable # 0, NEW heard \in Cuts(turns[revisable].text),
           TalkedOverTail(heard)
    PROVE  /\ phase = "listening" /\ revisable = Len(turns) /\ revisable \in 1 .. Len(turns)
           /\ reopen = 0 /\ revisable' = 0
           /\ heard \in Seq(Sentence)
           /\ HeardPoints(heard) \subseteq HeardPoints(turns[revisable].text)
           /\ UNCHANGED <<scenario, system, repeats, prompted, reply, phase, ended>>
           /\ LET earlier == SubSeq(replies, 1, Len(replies) - 1)
              IN  \/ /\ heard = <<>>
                     /\ turns' = [turns EXCEPT ![revisable] = WithText(revisable, heard)]
                     /\ replies' = earlier
                     /\ reopen' = revisable
                     /\ DiscardNotes(revisable)
                  \/ /\ heard # <<>>
                     /\ turns' = [turns EXCEPT ![revisable] = WithCut(revisable, heard)]
                     /\ replies' = Append(earlier, [text |-> heard, mark |-> TRUE])
                     /\ reopen' = 0
                     /\ RefreshNotes(revisable, heard)
                  \/ UNCHANGED <<turns, replies, reopen, notes, lost>>
<1>1. /\ revisable = Len(turns) /\ turns \in Seq(Turn) /\ reopen = 0
      /\ phase = "listening" /\ revisable \in 0 .. Len(turns)
  BY DEF Frame, Shapes, LastTurnOnly
<1>2. /\ revisable \in 1 .. Len(turns) /\ turns[revisable] \in Turn
      /\ turns[revisable].text \in Seq(Sentence)
  BY <1>1, TurnTypes
<1>3. heard \in Seq(Sentence) /\ HeardPoints(heard) \subseteq HeardPoints(turns[revisable].text)
  BY <1>2, CutsKeep
<1>4. /\ Trimmed(revisable, heard) =
           [turns EXCEPT ![revisable] = WithCut(revisable, heard)]
      /\ [turns EXCEPT ![revisable].text = heard] =
           [turns EXCEPT ![revisable] = WithText(revisable, heard)]
  BY <1>2 DEF Trimmed, WithCut, WithText
<1>5. /\ revisable' = 0
      /\ UNCHANGED <<scenario, system, repeats, prompted, reply, phase, ended>>
  BY DEF TalkedOverTail
<1>6. LET earlier == SubSeq(replies, 1, Len(replies) - 1)
      IN  \/ /\ heard = <<>>
             /\ turns' = [turns EXCEPT ![revisable] = WithText(revisable, heard)]
             /\ replies' = earlier
             /\ reopen' = revisable
             /\ DiscardNotes(revisable)
          \/ /\ heard # <<>>
             /\ turns' = [turns EXCEPT ![revisable] = WithCut(revisable, heard)]
             /\ replies' = Append(earlier, [text |-> heard, mark |-> TRUE])
             /\ reopen' = 0
             /\ RefreshNotes(revisable, heard)
          \/ UNCHANGED <<turns, replies, reopen, notes, lost>>
  BY <1>4 DEF TalkedOverTail
<1> QED
  BY <1>1, <1>2, <1>3, <1>5, <1>6

\* What a refresh holds.
LEMMA TaskParts ==
    ASSUME notes \in Notes, notes.task # Idle
    PROVE  /\ notes.task[1].base \in SUBSET Recorded
           /\ notes.task[1].exchange \in Recorded
<1>1. PICK p \in (SUBSET Recorded) \X Recorded : notes.task = Refresh(p[1], p[2])
  BY DEF Notes, Task
<1>2. notes.task[1].base = p[1] /\ notes.task[1].exchange = p[2]
  BY <1>1 DEF Refresh
<1> QED
  BY <1>2

-----------------------------------------------------------------------------
(* Types and structure                                                     *)

\* What the end of the call on the server's side leaves.
LEMMA CallOverShapes ==
    ASSUME notes \in Notes, CallOver
    PROVE  notes' \in Notes /\ reply' \in Reply /\ phase' = "over"
<1>1. Idle \in Task
  BY DEF Task
<1> QED
  BY <1>1, NoReplyType DEF CallOver, Notes

\* Every call starts with these types, and nothing to reopen or revise but the last Turn.
LEMMA FrameInit == Init => Frame
<1> SUFFICES ASSUME Init PROVE Frame
  OBVIOUS
<1>1. scenario \in Scenarios /\ scenario \in Scenario
  BY DialogueAssumption DEF Init
<1>2. OfTheCall(scenario, system)
  BY <1>1, PromptOfOneSide DEF Init, OfTheCall
<1>3. /\ replies = <<>> /\ revisable = 0 /\ repeats = 0 /\ prompted = 0 /\ notes = NoNotes
  BY DEF Init
<1>4. notes \in Notes
  <2>1. {} \in SUBSET Recorded /\ 0 \in 0 .. MaxTurns /\ Idle \in Task
    BY Bounds DEF Task
  <2> QED
    BY <1>3, <2>1 DEF NoNotes, Notes
<1>5. replies \in Seq(Line) /\ 0 \in 0 .. 2 /\ 0 \in 0 .. PickupPrompts
  BY <1>3, Bounds
<1>6. CASE scenario.reverse
  <2>1. /\ turns = <<FreshTurn>> /\ reopen = 1 /\ phase = "replying"
        /\ reply = FreshReply(1, Opening, FALSE, FALSE, <<>>)
    BY <1>6 DEF Init
  <2>2. turns \in Seq(Turn) /\ Len(turns) = 1 /\ turns # <<>>
    BY <2>1, FreshTurnType
  <2>3. /\ reply \in Reply /\ reply.turn = 1
    <3>1. 1 \in 0 .. MaxTurns /\ <<>> \in Seq(Sentence) /\ FALSE \in BOOLEAN
      BY Bounds
    <3>2. Opening \in Instruction
      BY DEF Opening, Instruction, Instructions
    <3>3. SaidSentences(replies) \in SUBSET Sentence
      BY <1>5, SaidIsSentences
    <3> QED
      BY <2>1, <3>1, <3>2, <3>3, FreshReplyType DEF FreshReply
  <2>4. /\ Len(turns) <= MaxTurns
        /\ reopen \in 0 .. Len(turns) /\ revisable \in 0 .. Len(turns)
    BY <1>3, <2>1, <2>2, Bounds
  <2>5. Shapes
    BY <1>1, <1>2, <1>3, <1>4, <1>5, <2>1, <2>2, <2>3, <2>4 DEF Shapes
  <2> QED
    BY <1>3, <2>1, <2>2, <2>3, <2>5 DEF Frame, LastTurnOnly
<1>7. CASE ~scenario.reverse
  <2>1. turns = <<>> /\ reopen = 0 /\ phase = "listening" /\ reply = NoReply
    BY <1>7 DEF Init
  <2>2. turns \in Seq(Turn) /\ Len(turns) = 0
    BY <2>1
  <2>3. Shapes
    BY <1>1, <1>2, <1>3, <1>4, <1>5, <2>1, <2>2, NoReplyType, Bounds DEF Shapes
  <2> QED
    BY <1>3, <2>1, <2>2, <2>3 DEF Frame, LastTurnOnly
<1> QED
  BY <1>6, <1>7
\* Nothing a step leaves alone loses its shape.
LEMMA FrameStutters == Frame /\ UNCHANGED vars => Frame'
<1> SUFFICES ASSUME Frame, UNCHANGED vars PROVE Frame'
  OBVIOUS
<1>1. Shapes'
  BY DEF Frame, Shapes, vars
<1>2. LastTurnOnly'
  BY DEF Frame, LastTurnOnly, vars
<1> QED
  BY <1>1, <1>2 DEF Frame

\* Every step keeps the types, and the last Turn the only one at work.
LEMMA FrameKept == Frame /\ Next => Frame'
<1> SUFFICES ASSUME Frame, Next PROVE Frame'
  OBVIOUS
<1>1. /\ scenario \in Scenarios
      /\ OfTheCall(scenario, system)
      /\ turns \in Seq(Turn) /\ Len(turns) <= MaxTurns /\ Len(turns) \in Nat
      /\ replies \in Seq(Line)
      /\ reopen \in 0 .. Len(turns) /\ revisable \in 0 .. Len(turns)
      /\ repeats \in 0 .. 2
      /\ prompted \in 0 .. PickupPrompts
      /\ reply \in Reply
      /\ phase \in {"listening", "replying", "over"}
      /\ notes \in Notes
  BY TurnTypes DEF Frame, Shapes
<1>2. /\ reopen \in {0, Len(turns)} /\ revisable \in {0, Len(turns)}
      /\ reopen = 0 \/ revisable = 0
      /\ phase = "listening" /\ reopen # 0 => turns[reopen].text = <<>>
      /\ revisable # 0 => phase = "listening"
  BY DEF Frame, LastTurnOnly
<1>3. ASSUME NEW question \in Questions, UserSpeaks(question.asks, question.closes)
      PROVE Frame'
  <2>1. question.asks \in BOOLEAN /\ question.closes \in BOOLEAN
    BY DialogueAssumption
  <2> DEFINE turn == Asked(question.asks, question.closes)
             closing == turn.closes
             requests == CountRequests(turn.asks)
  <2>2. /\ TurnIs(NextTurn, turn) /\ turn \in Turn /\ NextTurn \in 1 .. MaxTurns
        /\ Len(turns') = NextTurn /\ reopen' = NextTurn /\ revisable' = 0
        /\ repeats' = requests
        /\ reply' = FreshReply(NextTurn, InstructionFor(NextTurn, closing, requests),
                               closing, requests = 1, CutOffSentence(NextTurn))
        /\ phase' = "replying"
        /\ UNCHANGED <<scenario, system, replies, prompted, ended, notes, lost>>
    BY <1>3, <2>1, UserSpeaksEffect
  <2>3. NextTurn \in 1 .. Len(turns) + 1
    BY NextTurnIsLast
  <2>4. closing \in BOOLEAN /\ (requests = 1) \in BOOLEAN
    BY <2>2 DEF Turn
  <2>5. requests \in 0 .. 2
    BY <1>1 DEF CountRequests
  <2> HIDE DEF turn, closing, requests
  <2>6. reply' \in Reply /\ reply'.turn = NextTurn
    <3>1. NextTurn \in 0 .. MaxTurns
      BY <2>2
    <3>2. InstructionFor(NextTurn, closing, requests) \in Instruction
      BY <2>4, OneInstruction
    <3>3. CutOffSentence(NextTurn) \in Seq(Sentence)
      BY <1>1, <2>3, CutOffIsText
    <3>4. SaidSentences(replies) \in SUBSET Sentence
      BY <1>1, SaidIsSentences
    <3>5. reply' \in Reply
      BY <2>2, <2>4, <3>1, <3>2, <3>3, <3>4, FreshReplyType
    <3>6. reply'.turn = NextTurn
      BY <2>2 DEF FreshReply
    <3> QED
      BY <3>5, <3>6
  <2>7. turns' \in Seq(Turn)
    BY <2>2 DEF TurnIs
  <2>8. /\ Len(turns') <= MaxTurns /\ turns' # <<>>
        /\ reopen' \in 0 .. Len(turns') /\ revisable' \in 0 .. Len(turns')
    BY <2>2, <2>7, Bounds
  <2>9. Shapes'
    BY <1>1, <2>2, <2>5, <2>6, <2>7, <2>8 DEF Shapes
  <2>10. LastTurnOnly'
    BY <2>2, <2>6, <2>8 DEF LastTurnOnly
  <2> QED
    BY <2>9, <2>10 DEF Frame
<1>4. ASSUME PickupPrompt PROVE Frame'
  <2>1. /\ TurnIs(NextTurn, Prompted) /\ NextTurn \in 1 .. MaxTurns /\ Len(turns') = NextTurn
        /\ replies' = Append(replies, [text |-> <<Whole("hallo")>>, mark |-> FALSE])
        /\ reopen' = 0 /\ revisable' = NextTurn
        /\ prompted' = prompted + 1 /\ prompted < PickupPrompts
        /\ phase = "listening"
        /\ UNCHANGED <<scenario, system, repeats, reply, phase, ended, notes, lost>>
    BY <1>4, PickupPromptEffect
  <2>2. replies' \in Seq(Line)
    <3>1. <<Whole("hallo")>> \in Seq(Sentence)
      BY FixedLines DEF Scraps
    <3>2. [text |-> <<Whole("hallo")>>, mark |-> FALSE] \in Line
      BY <3>1 DEF Line
    <3> QED
      BY <1>1, <2>1, <3>2, AppendProperties
  <2>3. turns' \in Seq(Turn)
    BY <2>1 DEF TurnIs
  <2>4. /\ Len(turns') <= MaxTurns /\ reopen' \in 0 .. Len(turns')
        /\ revisable' \in 0 .. Len(turns') /\ prompted' \in 0 .. PickupPrompts
    BY <1>1, <2>1, Bounds
  <2>5. Shapes'
    BY <1>1, <2>1, <2>2, <2>3, <2>4 DEF Shapes
  <2>6. LastTurnOnly'
    BY <2>1 DEF LastTurnOnly
  <2> QED
    BY <2>5, <2>6 DEF Frame
<1>5. ASSUME AskAgain, phase = "replying" PROVE Frame'
  <2>1. /\ reply' = [reply EXCEPT !.round = 1, !.attempt = 0, !.first = TRUE,
                                  !.endsCall = FALSE, !.suppressed = FALSE]
        /\ UNCHANGED <<scenario, system, turns, replies, reopen, revisable, repeats,
                       prompted, phase, ended, notes, lost>>
    BY <1>5 DEF AskAgain
  <2>2. reply' \in Reply /\ reply'.turn = reply.turn
    <3>1. 0 \in 0 .. 1 /\ 1 \in 0 .. 1 /\ TRUE \in BOOLEAN /\ FALSE \in BOOLEAN
      OBVIOUS
    <3>2. reply' \in Reply
      BY <1>1, <2>1, <3>1 DEF Reply
    <3>3. reply'.turn = reply.turn
      BY <1>1, <2>1 DEF Reply
    <3> QED
      BY <3>2, <3>3
  <2>3. Shapes'
    BY <1>1, <2>1, <2>2 DEF Shapes
  <2>4. LastTurnOnly'
    BY <2>1, <2>2 DEF Frame, LastTurnOnly
  <2> QED
    BY <2>3, <2>4 DEF Frame
<1>6. ASSUME NEW chunk \in Chunks, NEW marker \in BOOLEAN, ChunkArrives(chunk, marker)
      PROVE Frame'
  <2>1. /\ phase = "replying" /\ TurnIs(reply.turn, WithChunk(Cleaned(chunk)))
        /\ Len(turns') = Len(turns)
        /\ UNCHANGED <<scenario, system, replies, reopen, revisable, repeats, prompted,
                       phase, ended, notes, lost>>
    BY <1>6, ChunkEffect
  <2>2. reply' \in Reply /\ reply'.turn = reply.turn
    <3>1. /\ (reply.first /\ Cleaned(chunk) = <<>>) \in BOOLEAN
          /\ (reply.suppressed \/ Cleaned(chunk) = <<>>) \in BOOLEAN
          /\ Marked(chunk, marker) \in BOOLEAN
      BY DEF Marked
    <3>2. reply' = [reply EXCEPT !.first = @ /\ Cleaned(chunk) = <<>>,
                                 !.endsCall = Marked(chunk, marker),
                                 !.suppressed = @ \/ Cleaned(chunk) = <<>>]
      BY <1>6 DEF ChunkArrives
    <3> QED
      BY <1>1, <3>1, <3>2 DEF Reply
  <2>3. turns' \in Seq(Turn)
    BY <2>1 DEF TurnIs
  <2>4. Shapes'
    BY <1>1, <2>1, <2>2, <2>3 DEF Shapes
  <2>5. turns' # <<>>
    BY <1>1, <2>1, <2>3, ReplyingTurn, EmptySeq
  <2>6. LastTurnOnly'
    BY <2>1, <2>2, <2>5 DEF Frame, LastTurnOnly
  <2> QED
    BY <2>4, <2>6 DEF Frame
<1>7. ASSUME Failed, phase = "replying" PROVE Frame'
  <2>1. /\ notes' \in Notes /\ reply' \in Reply /\ phase' = "over"
        /\ UNCHANGED <<scenario, system, turns, replies, reopen, revisable, repeats,
                       prompted, ended>>
    BY <1>1, <1>7, CallOverShapes DEF Failed
  <2>2. Shapes'
    BY <1>1, <2>1 DEF Shapes
  <2>3. revisable = 0
    BY <1>7, ReplyingTurn
  <2>4. LastTurnOnly'
    BY <1>2, <2>1, <2>3 DEF LastTurnOnly
  <2> QED
    BY <2>2, <2>4 DEF Frame
<1>8. ASSUME StreamBreaks PROVE Frame'
  <2>1. CASE Failed
    BY <1>7, <1>8, <2>1 DEF StreamBreaks
  <2>2. CASE ~Failed
    <3>1. /\ phase = "replying"
          /\ reply' = [reply EXCEPT !.attempt = 1, !.first = TRUE]
          /\ UNCHANGED <<scenario, system, turns, replies, reopen, revisable, repeats,
                         prompted, phase, ended, notes, lost>>
      BY <1>8, <2>2 DEF StreamBreaks
    <3>2. reply' \in Reply /\ reply'.turn = reply.turn
      <4>1. 1 \in 0 .. 1 /\ TRUE \in BOOLEAN
        OBVIOUS
      <4>2. reply' \in Reply
        BY <1>1, <3>1, <4>1 DEF Reply
      <4>3. reply'.turn = reply.turn
        BY <1>1, <3>1 DEF Reply
      <4> QED
        BY <4>2, <4>3
    <3>3. Shapes'
      BY <1>1, <3>1, <3>2 DEF Shapes
    <3>4. LastTurnOnly'
      BY <3>1, <3>2 DEF Frame, LastTurnOnly
    <3> QED
      BY <3>3, <3>4 DEF Frame
  <2> QED
    BY <2>1, <2>2
<1>9. ASSUME ReplyDone PROVE Frame'
  <2>1. /\ phase = "replying" /\ reopen' = 0
        /\ UNCHANGED <<scenario, system, repeats, prompted>>
    BY <1>9, ReplyDoneEffect
  <2>2. /\ reply.turn \in 1 .. Len(turns) /\ Spoken \in Seq(Sentence) /\ revisable = 0
        /\ reply.turn = Len(turns)
    BY <2>1, ReplyingTurn
  <2>3. ASSUME NEW text \in Seq(Sentence), EndsTheCall(text) PROVE Frame'
    <3>1. turns' \in Seq(Turn) /\ Len(turns') = Len(turns)
      <4>1. turns' = [turns EXCEPT ![reply.turn] = WithText(reply.turn, text)]
        BY <2>3 DEF EndsTheCall
      <4> QED
        BY <2>2, <4>1, TextEffect DEF TurnIs
    <3>2. replies' \in Seq(Line)
      BY <1>1, <2>3, LineAdded DEF EndsTheCall
    <3>3. notes' \in Notes /\ reply' \in Reply /\ phase' = "over" /\ revisable' = 0
      BY <1>1, <2>2, <2>3, CallOverShapes DEF EndsTheCall
    <3>4. reopen' \in 0 .. Len(turns') /\ revisable' \in 0 .. Len(turns')
      BY <1>1, <2>1, <3>1, <3>3
    <3>5. Shapes'
      BY <1>1, <2>1, <3>1, <3>2, <3>3, <3>4 DEF Shapes
    <3>6. LastTurnOnly'
      BY <2>1, <3>3 DEF LastTurnOnly
    <3> QED
      BY <3>5, <3>6 DEF Frame
  <2>4. ASSUME GoesOn PROVE Frame'
    <3>1. /\ revisable' = Len(turns) /\ phase' = "listening" /\ UNCHANGED turns
          /\ reply' = NoReply
          /\ replies' = Append(replies, [text |-> Spoken, mark |-> FALSE])
          /\ RefreshNotes(reply.turn, Spoken)
      BY <2>2, <2>4 DEF GoesOn
    <3>2. replies' \in Seq(Line)
      BY <1>1, <2>2, <3>1, LineAdded
    <3>3. notes' \in Notes /\ reply' \in Reply
      BY <1>1, <2>2, <3>1, RefreshTypes, NoReplyType
    <3>4. reopen' \in 0 .. Len(turns') /\ revisable' \in 0 .. Len(turns')
      BY <1>1, <2>1, <3>1
    <3>5. Shapes'
      BY <1>1, <2>1, <3>1, <3>2, <3>3, <3>4 DEF Shapes
    <3>6. LastTurnOnly'
      BY <2>1, <3>1 DEF LastTurnOnly
    <3> QED
      BY <3>5, <3>6 DEF Frame
  <2> QED
    BY <1>9, <2>3, <2>4, ReplyDoneEffect
<1>10. ASSUME NEW heard \in Cuts(Spoken), TalkedOver(heard) PROVE Frame'
  <2> DEFINE t == reply.turn
  <2>1. /\ phase = "replying" /\ phase' = "listening" /\ reply' = NoReply
        /\ heard \in Seq(Sentence)
        /\ UNCHANGED <<scenario, system, revisable, repeats, prompted, ended>>
        /\ \/ /\ heard # <<>>
              /\ turns' = [turns EXCEPT ![t] = WithCut(t, heard)]
              /\ replies' = Append(replies, [text |-> heard, mark |-> TRUE])
              /\ reopen' = 0
              /\ RefreshNotes(t, heard)
           \/ /\ heard = <<>>
              /\ turns' = [turns EXCEPT ![t] = WithText(t, heard)]
              /\ UNCHANGED <<replies, reopen, notes, lost>>
    BY <1>10, TalkedOverEffect
  <2>2. t = Len(turns) /\ t \in 1 .. Len(turns) /\ revisable = 0 /\ reopen = Len(turns)
    BY <2>1, ReplyingTurn
  <2>3. /\ turns' \in Seq(Turn) /\ Len(turns') = Len(turns)
        /\ turns'[t].text = heard
    BY <2>1, <2>2, TextEffect DEF TurnIs
  <2> HIDE DEF t
  <2>4. replies' \in Seq(Line)
    BY <1>1, <2>1, LineAdded
  <2>5. notes' \in Notes
    BY <1>1, <2>1, <2>2, RefreshTypes
  <2>6. /\ reopen' \in 0 .. Len(turns') /\ reopen' \in {0, Len(turns')}
        /\ reopen' # 0 => reopen' = t /\ turns'[t].text = <<>>
        /\ revisable' = 0 /\ revisable' \in 0 .. Len(turns')
    BY <1>1, <2>1, <2>2, <2>3
  <2>7. Shapes'
    BY <1>1, <2>1, <2>3, <2>4, <2>5, <2>6, NoReplyType DEF Shapes
  <2>8. LastTurnOnly'
    BY <2>1, <2>6 DEF LastTurnOnly
  <2> QED
    BY <2>7, <2>8 DEF Frame
<1>11. ASSUME revisable # 0, NEW heard \in Cuts(turns[revisable].text),
              TalkedOverTail(heard)
       PROVE Frame'
  <2> DEFINE earlier == SubSeq(replies, 1, Len(replies) - 1)
             t == revisable
  <2>1. /\ phase = "listening" /\ t = Len(turns) /\ t \in 1 .. Len(turns)
        /\ reopen = 0 /\ revisable' = 0 /\ heard \in Seq(Sentence)
        /\ UNCHANGED <<scenario, system, repeats, prompted, reply, phase, ended>>
    BY <1>11, TalkedOverTailEffect
  <2>2. \/ /\ heard = <<>>
           /\ turns' = [turns EXCEPT ![t] = WithText(t, heard)]
           /\ replies' = earlier
           /\ reopen' = t
           /\ DiscardNotes(t)
        \/ /\ heard # <<>>
           /\ turns' = [turns EXCEPT ![t] = WithCut(t, heard)]
           /\ replies' = Append(earlier, [text |-> heard, mark |-> TRUE])
           /\ reopen' = 0
           /\ RefreshNotes(t, heard)
        \/ UNCHANGED <<turns, replies, reopen, notes, lost>>
    BY <1>11, TalkedOverTailEffect
  <2>3. earlier \in Seq(Line)
    BY <1>1
  <2> HIDE DEF earlier, t
  <2>4. /\ turns' \in Seq(Turn) /\ Len(turns') = Len(turns)
        /\ reopen' # 0 => turns'[t].text = <<>>
    <3>1. CASE UNCHANGED <<turns, reopen>>
      BY <1>1, <2>1, <3>1
    <3>2. CASE ~UNCHANGED <<turns, reopen>>
      BY <2>1, <2>2, <3>2, TextEffect DEF TurnIs
    <3> QED
      BY <3>1, <3>2
  <2>5. replies' \in Seq(Line)
    BY <1>1, <2>1, <2>2, <2>3, LineAdded
  <2>6. notes' \in Notes
    BY <1>1, <2>1, <2>2, RefreshTypes
  <2>7. /\ reopen' \in 0 .. Len(turns') /\ reopen' \in {0, Len(turns')}
        /\ reopen' # 0 => reopen' = t
        /\ revisable' \in 0 .. Len(turns')
    BY <1>1, <2>1, <2>2, <2>4
  <2>8. Shapes'
    BY <1>1, <2>1, <2>4, <2>5, <2>6, <2>7 DEF Shapes
  <2>9. LastTurnOnly'
    BY <2>1, <2>4, <2>7 DEF LastTurnOnly
  <2> QED
    BY <2>8, <2>9 DEF Frame
<1>12. ASSUME NotesArrive \/ NotesFail PROVE Frame'
  <2>1. UNCHANGED <<scenario, system, turns, replies, reopen, revisable, repeats,
                    prompted, reply, phase, ended>>
    BY <1>12 DEF NotesArrive, NotesFail
  <2>2. notes' \in Notes
    <3>1. notes.task # Idle
      BY <1>12 DEF NotesArrive, NotesFail
    <3>2. (notes.task[1].base \cup {notes.task[1].exchange}) \in SUBSET Recorded
      BY <1>1, <3>1, TaskParts
    <3>3. Idle \in Task
      BY DEF Task
    <3>4. \/ notes' = [notes EXCEPT !.text =
                              notes.task[1].base \cup {notes.task[1].exchange},
                                    !.task = Idle]
          \/ notes' = [notes EXCEPT !.task = Idle]
      BY <1>12 DEF NotesArrive, NotesFail
    <3> QED
      BY <1>1, <3>2, <3>3, <3>4 DEF Notes
  <2>3. Shapes'
    BY <1>1, <2>1, <2>2 DEF Shapes
  <2>4. LastTurnOnly'
    BY <2>1 DEF Frame, LastTurnOnly
  <2> QED
    BY <2>3, <2>4 DEF Frame
<1> QED
  BY <1>3, <1>4, <1>5, <1>6, <1>7, <1>8, <1>9, <1>10, <1>11, <1>12
     DEF Next, ChunkRestarts, StreamOpen, SynthesisFails, NothingButRepeats
-----------------------------------------------------------------------------
(* Points are heard once                                                   *)

Once == Frame /\ PointsKnown /\ PointsAreHeardOnce

\* Neither silence nor a greeting has any point.
LEMMA NoPoints == HeardPoints(<<>>) = {} /\ HeardPoints(<<Whole("hallo")>>) = {}
<1>1. ~IsPoint(Whole("hallo"))
  BY FixedLines DEF Scraps
<1>2. InText(<<Whole("hallo")>>) = {Whole("hallo")} /\ InText(<<>>) = {}
  BY DEF InText
<1> QED
  BY <1>1, <1>2 DEF HeardPoints

\* A Turn that becomes another leaves what was heard before it.
LEMMA HeardAfter ==
    ASSUME NEW t \in 1 .. Len(turns) + 1, NEW turn, TurnIs(t, turn), Len(turns) \in Nat
    PROVE  /\ HeardBefore(turns', t - 1) = HeardBefore(turns, t - 1)
           /\ HeardBefore(turns', t) = HeardBefore(turns, t - 1) \cup HeardPoints(turn.text)
           /\ HeardBefore(turns, t - 1) \subseteq HeardBefore(turns, Len(turns))
<1>1. \A u \in 1 .. t - 1 : turns'[u] = turns[u]
  BY DEF TurnIs
<1>2. turns'[t] = turn
  BY DEF TurnIs
<1>3. HeardBefore(turns', t - 1) = HeardBefore(turns, t - 1)
  BY <1>1 DEF HeardBefore
<1>4. {HeardPoints(turns'[u].text) : u \in 1 .. t} =
        {HeardPoints(turns'[u].text) : u \in 1 .. t - 1} \cup {HeardPoints(turns'[t].text)}
  <2>1. 1 .. t = (1 .. t - 1) \cup {t}
    OBVIOUS
  <2> QED
    BY <2>1
<1>5. HeardBefore(turns', t) = HeardBefore(turns', t - 1) \cup HeardPoints(turn.text)
  BY <1>2, <1>4 DEF HeardBefore
<1>6. 1 .. t - 1 \subseteq 1 .. Len(turns)
  OBVIOUS
<1>7. HeardBefore(turns, t - 1) \subseteq HeardBefore(turns, Len(turns))
  BY <1>6 DEF HeardBefore
<1> QED
  BY <1>3, <1>5, <1>7

\* What the last Turn repeats, it may.
LEMMA OnceForOne ==
    ASSUME turns \in Seq(Turn), PointsAreHeardOnce, NEW t \in 1 .. Len(turns)
    PROVE  HeardPoints(turns[t].text) \cap HeardBefore(turns, t - 1) = {} \/ turns[t].exempt
<1>1. DOMAIN turns = 1 .. Len(turns) /\ Len(turns) \in Nat
  BY TurnTypes
<1>2. ASSUME NEW u \in 1 .. t - 1,
             HeardPoints(turns[t].text) \cap HeardPoints(turns[u].text) # {}
      PROVE  turns[t].exempt
  <2>1. u \in DOMAIN turns /\ t \in DOMAIN turns /\ u < t
    BY <1>1
  <2>2. HeardPoints(turns[u].text) \cap HeardPoints(turns[t].text) # {}
    BY <1>2
  <2> QED
    BY <2>1, <2>2 DEF PointsAreHeardOnce
<1> QED
  BY <1>2 DEF HeardBefore

\* A change of the last Turn keeps the points heard once if what it adds is new.
LEMMA OnceAfter ==
    ASSUME turns \in Seq(Turn), PointsAreHeardOnce,
           NEW t \in {Len(turns), Len(turns) + 1}, t # 0,
           NEW turn, TurnIs(t, turn),
           HeardPoints(turn.text) \cap HeardBefore(turns, t - 1) = {} \/ turn.exempt
    PROVE  PointsAreHeardOnce'
<1>1. DOMAIN turns = 1 .. Len(turns) /\ Len(turns) \in Nat
  BY TurnTypes
<1>2. /\ DOMAIN turns' = 1 .. t /\ turns'[t] = turn
      /\ \A u \in 1 .. t - 1 : turns'[u] = turns[u] /\ u \in 1 .. Len(turns)
  BY <1>1, LenProperties DEF TurnIs
<1> SUFFICES ASSUME NEW v \in 1 .. t, NEW u \in 1 .. t, v < u,
                    HeardPoints(turns'[v].text) \cap HeardPoints(turns'[u].text) # {}
    PROVE turns'[u].exempt
  BY <1>2 DEF PointsAreHeardOnce, HeardPoints
<1>3. v \in 1 .. t - 1 /\ turns'[v] = turns[v] /\ v \in 1 .. Len(turns)
  BY <1>1, <1>2
<1>4. CASE u = t
  <2>1. HeardPoints(turns[v].text) \cap HeardPoints(turn.text) # {}
    BY <1>2, <1>3, <1>4
  <2>2. HeardPoints(turns[v].text) \subseteq HeardBefore(turns, t - 1)
    BY <1>3 DEF HeardBefore
  <2> QED
    BY <1>2, <1>4, <2>1, <2>2
<1>5. CASE u # t
  <2>1. u \in 1 .. t - 1 /\ turns'[u] = turns[u] /\ u \in 1 .. Len(turns)
    BY <1>1, <1>2, <1>5
  <2>2. HeardPoints(turns[v].text) \cap HeardPoints(turns[u].text) # {}
    BY <1>3, <2>1
  <2>3. turns[u].exempt
    BY <1>1, <1>3, <2>1, <2>2 DEF PointsAreHeardOnce
  <2> QED
    BY <2>1, <2>3
<1> QED
  BY <1>4, <1>5

\* Dropping the last line drops its points at most.
LEMMA SaidAgain ==
    ASSUME NEW lines \in Seq(Line), NEW text \in Seq(Sentence), NEW mark \in BOOLEAN
    PROVE  LET more == Append(lines, [text |-> text, mark |-> mark])
           IN  /\ more # <<>> /\ more[Len(more)].text = text
               /\ SubSeq(more, 1, Len(more) - 1) = lines
               /\ SaidSentences(more) = SaidSentences(lines) \cup HeardPoints(text)
<1> DEFINE line == [text |-> text, mark |-> mark]
<1>1. line \in Line /\ line.text = text
  BY LineType
<1> HIDE DEF line
<1> QED
  BY <1>1, SaidAppend DEF line

\* A call starts with nothing heard but the greeting.
LEMMA OnceInit == Init => PointsKnown /\ PointsAreHeardOnce
<1> SUFFICES ASSUME Init PROVE PointsKnown /\ PointsAreHeardOnce
  OBVIOUS
<1>1. revisable = 0 /\ turns \in {<<FreshTurn>>, <<>>}
  BY DEF Init
<1>2. \A t \in DOMAIN turns : HeardPoints(turns[t].text) = {}
  BY <1>1, NoPoints, FreshTurnType
<1>3. PointsAreHeardOnce
  BY <1>2 DEF PointsAreHeardOnce
<1>4. CASE phase = "listening"
  <2>1. turns = <<>> /\ Len(turns) = 0
    BY <1>4 DEF Init
  <2>2. HeardBefore(turns, Len(turns)) = {}
    BY <2>1 DEF HeardBefore
  <2> QED
    BY <1>1, <1>3, <1>4, <2>2 DEF PointsKnown
<1>5. CASE phase # "listening"
  <2>1. /\ turns = <<FreshTurn>> /\ reply = FreshReply(1, Opening, FALSE, FALSE, <<>>)
        /\ phase = "replying"
    BY <1>5 DEF Init
  <2>2. reply.turn = 1 /\ reply.normal = TRUE /\ turns[1].text = <<>>
    BY <2>1, FreshTurnType DEF FreshReply
  <2>3. HeardBefore(turns, 0) = {}
    BY DEF HeardBefore
  <2>4. HeardPoints(Spoken) = {} /\ HeardBefore(turns, reply.turn - 1) = {}
    BY <2>2, <2>3, NoPoints DEF Spoken
  <2> QED
    BY <1>1, <1>3, <2>1, <2>4, <2>2 DEF PointsKnown
<1> QED
  BY <1>4, <1>5
\* What was heard is what was heard before the last Turn and in it.
LEMMA HeardSplit ==
    ASSUME NEW t \in 1 .. Len(turns), Len(turns) \in Nat
    PROVE  HeardBefore(turns, t) = HeardBefore(turns, t - 1) \cup HeardPoints(turns[t].text)
<1>1. 1 .. t = (1 .. t - 1) \cup {t}
  OBVIOUS
<1>2. {HeardPoints(turns[u].text) : u \in 1 .. t} =
        {HeardPoints(turns[u].text) : u \in 1 .. t - 1} \cup {HeardPoints(turns[t].text)}
  BY <1>1
<1> QED
  BY <1>2 DEF HeardBefore

\* What is not about the Turns, the history or the reply tells the guards nothing new.
LEMMA OnceStutters ==
    ASSUME PointsKnown, PointsAreHeardOnce, Frame,
           UNCHANGED <<turns, replies, revisable>>,
           \/ UNCHANGED <<phase, reply>>
           \/ phase' = "over" /\ revisable = 0
           \/ /\ UNCHANGED phase /\ reply'.turn = reply.turn
              /\ reply'.normal = reply.normal /\ reply'.said = reply.said
    PROVE  PointsKnown' /\ PointsAreHeardOnce'
<1>1. PointsAreHeardOnce'
  BY DEF PointsAreHeardOnce
<1>2. PointsKnown'
  <2>1. CASE phase' = "over" /\ revisable = 0
    BY <2>1 DEF PointsKnown
  <2>2. CASE /\ UNCHANGED phase /\ reply'.turn = reply.turn
             /\ reply'.normal = reply.normal /\ reply'.said = reply.said
    BY <2>2 DEF PointsKnown, Spoken, SpokeYet, HeardBefore
  <2>3. CASE UNCHANGED <<phase, reply>>
    BY <2>2, <2>3
  <2> QED
    BY <2>1, <2>2, <2>3
<1> QED
  BY <1>1, <1>2

\* Every step keeps the guards informed, and so no point is heard twice.
LEMMA OnceKept == Once /\ Next => PointsKnown' /\ PointsAreHeardOnce'
<1> SUFFICES ASSUME Once, Next PROVE PointsKnown' /\ PointsAreHeardOnce'
  OBVIOUS
<1>1. /\ turns \in Seq(Turn) /\ Len(turns) \in Nat /\ replies \in Seq(Line)
      /\ reply \in Reply /\ Frame /\ PointsAreHeardOnce /\ PointsKnown
  BY TurnTypes DEF Once, Frame, Shapes
<1>2. phase = "listening" => HeardBefore(turns, Len(turns)) \subseteq SaidSentences(replies)
  BY <1>1 DEF PointsKnown
<1>3. ASSUME NEW question \in Questions, UserSpeaks(question.asks, question.closes)
      PROVE PointsKnown' /\ PointsAreHeardOnce'
  <2>1. question.asks \in BOOLEAN /\ question.closes \in BOOLEAN
    BY DialogueAssumption
  <2> DEFINE turn == Asked(question.asks, question.closes)
             closing == turn.closes
             requests == CountRequests(turn.asks)
             instruction == InstructionFor(NextTurn, closing, requests)
  <2>2. /\ TurnIs(NextTurn, turn) /\ turn.text = <<>> /\ revisable' = 0
        /\ reply' = FreshReply(NextTurn, instruction, closing, requests = 1,
                               CutOffSentence(NextTurn))
        /\ phase = "listening" /\ phase' = "replying" /\ replies' = replies
    BY <1>1, <1>3, <2>1, UserSpeaksEffect
  <2>3. /\ NextTurn \in 1 .. Len(turns) + 1 /\ NextTurn \in {Len(turns), Len(turns) + 1}
        /\ NextTurn # 0
    BY <1>1, NextTurnIsLast
  <2> HIDE DEF turn, closing, requests, instruction
  <2>4. HeardPoints(turn.text) = {}
    BY <2>2, NoPoints
  <2>5. PointsAreHeardOnce'
    BY <1>1, <2>2, <2>3, <2>4, OnceAfter
  <2>6. /\ reply'.turn = NextTurn
        /\ reply'.normal => reply'.said = SaidSentences(replies)
    BY <2>2 DEF FreshReply
  <2>7. HeardBefore(turns', NextTurn - 1) \subseteq SaidSentences(replies)
    BY <1>1, <1>2, <2>2, <2>3, HeardAfter
  <2>8. turns'[reply'.turn].text = <<>> /\ HeardPoints(turns'[reply'.turn].text) = {}
    BY <2>2, <2>4, <2>6 DEF TurnIs
  <2>9. Spoken' = <<>> /\ HeardPoints(Spoken)' = {} /\ ~SpokeYet'
    BY <2>8, NoPoints DEF Spoken, SpokeYet
  <2>10. PointsKnown'
    BY <2>2, <2>6, <2>7, <2>9 DEF PointsKnown
  <2> QED
    BY <2>5, <2>10
<1>4. ASSUME PickupPrompt PROVE PointsKnown' /\ PointsAreHeardOnce'
  <2> DEFINE line == <<Whole("hallo")>>
  <2>1. /\ TurnIs(NextTurn, Prompted) /\ Prompted.text = line
        /\ Len(turns') = NextTurn /\ revisable' = NextTurn
        /\ replies' = Append(replies, [text |-> line, mark |-> FALSE])
        /\ phase = "listening" /\ phase' = phase
    BY <1>1, <1>4, PickupPromptEffect
  <2>2. line \in Seq(Sentence) /\ HeardPoints(line) = {}
    BY NoPoints, FixedLines DEF Scraps
  <2> HIDE DEF line
  <2>3. /\ NextTurn \in 1 .. Len(turns) + 1 /\ NextTurn \in {Len(turns), Len(turns) + 1}
        /\ NextTurn # 0
    BY <1>1, NextTurnIsLast
  <2>4. PointsAreHeardOnce'
    BY <1>1, <2>1, <2>2, <2>3, OnceAfter
  <2>5. /\ replies' # <<>> /\ replies'[Len(replies')].text = line
        /\ SubSeq(replies', 1, Len(replies') - 1) = replies
        /\ SaidSentences(replies') = SaidSentences(replies)
    <3>1. /\ replies' # <<>> /\ replies'[Len(replies')].text = line
          /\ SubSeq(replies', 1, Len(replies') - 1) = replies
          /\ SaidSentences(replies') = SaidSentences(replies) \cup HeardPoints(line)
      BY <1>1, <2>1, <2>2, SaidAgain
    <3> QED
      BY <2>2, <3>1
  <2>6. /\ HeardBefore(turns', NextTurn) \subseteq SaidSentences(replies)
        /\ HeardBefore(turns', NextTurn - 1) \subseteq SaidSentences(replies)
    BY <1>1, <1>2, <2>1, <2>2, <2>3, HeardAfter
  <2>7. turns'[NextTurn].text = line
    BY <2>1 DEF TurnIs
  <2>8. PointsKnown'
    BY <2>1, <2>5, <2>6, <2>7 DEF PointsKnown
  <2> QED
    BY <2>4, <2>8
<1>5. ASSUME AskAgain PROVE PointsKnown' /\ PointsAreHeardOnce'
  <2>1. /\ reply'.turn = reply.turn /\ reply'.normal = reply.normal
        /\ reply'.said = reply.said
    BY <1>1, <1>5 DEF AskAgain, Reply
  <2>2. UNCHANGED <<turns, replies, revisable, phase>>
    BY <1>5 DEF AskAgain
  <2> QED
    BY <1>1, <2>1, <2>2, OnceStutters
<1>6. ASSUME NEW chunk \in Chunks, NEW marker \in BOOLEAN, ChunkArrives(chunk, marker)
      PROVE PointsKnown' /\ PointsAreHeardOnce'
  <2> DEFINE t == reply.turn
             turn == WithChunk(Cleaned(chunk))
  <2>1. /\ phase = "replying" /\ TurnIs(t, turn)
        /\ turn.text = Spoken \o Cleaned(chunk) /\ turn.exempt = ~reply.normal
        /\ Len(turns') = Len(turns)
        /\ UNCHANGED <<replies, revisable, phase>>
    BY <1>1, <1>6, ChunkEffect
  <2>2. /\ t = Len(turns) /\ t \in 1 .. Len(turns) /\ t # 0 /\ Spoken \in Seq(Sentence)
        /\ revisable = 0
    BY <1>1, <2>1, ReplyingTurn
  <2> HIDE DEF turn
  <2>3. reply'.turn = t /\ reply'.normal = reply.normal /\ reply'.said = reply.said
    BY <1>1, <1>6 DEF ChunkArrives, Reply
  <2>4. /\ HeardBefore(turns, t - 1) \subseteq SaidSentences(replies)
        /\ reply.normal => /\ HeardBefore(turns, t - 1) \subseteq reply.said
                           /\ HeardPoints(Spoken) \cap reply.said = {}
    BY <1>1, <2>1 DEF PointsKnown
  <2>5. HeardPoints(turn.text) = HeardPoints(Spoken) \cup HeardPoints(Cleaned(chunk))
    BY <2>1, <2>2, CleanedKeeps, PointsOfConcat
  <2>6. reply.normal => HeardPoints(turn.text) \cap reply.said = {}
    BY <2>4, <2>5, CleanedKeeps
  <2>7. HeardPoints(turn.text) \cap HeardBefore(turns, t - 1) = {} \/ turn.exempt
    BY <2>1, <2>4, <2>6
  <2>8. PointsAreHeardOnce'
    BY <1>1, <2>1, <2>2, <2>7, OnceAfter
  <2>9. HeardBefore(turns', t - 1) = HeardBefore(turns, t - 1)
    BY <1>1, <2>1, <2>2, HeardAfter
  <2>10. turns'[t] = turn
    BY <2>1 DEF TurnIs
  <2>11. Spoken' = turn.text /\ (HeardPoints(Spoken))' = HeardPoints(turn.text)
    BY <2>3, <2>10 DEF Spoken, HeardPoints, InText
  <2> HIDE DEF t
  <2>12. PointsKnown'
    BY <2>1, <2>2, <2>3, <2>4, <2>6, <2>9, <2>10, <2>11 DEF PointsKnown
  <2> QED
    BY <2>8, <2>12
<1>7. ASSUME Failed, phase = "replying" PROVE PointsKnown' /\ PointsAreHeardOnce'
  <2>1. revisable = 0
    BY <1>1, <1>7, ReplyingTurn
  <2> QED
    BY <1>1, <1>7, <2>1, OnceStutters DEF Failed, CallOver
<1>8. ASSUME StreamBreaks PROVE PointsKnown' /\ PointsAreHeardOnce'
  <2>1. CASE Failed
    BY <1>7, <1>8, <2>1 DEF StreamBreaks
  <2>2. CASE ~Failed
    <3>1. /\ reply' = [reply EXCEPT !.attempt = 1, !.first = TRUE]
          /\ UNCHANGED <<turns, replies, revisable, phase>>
      BY <1>8, <2>2 DEF StreamBreaks
    <3>2. /\ reply'.turn = reply.turn /\ reply'.normal = reply.normal
          /\ reply'.said = reply.said
      BY <1>1, <3>1 DEF Reply
    <3> QED
      BY <1>1, <3>1, <3>2, OnceStutters
  <2> QED
    BY <2>1, <2>2
<1>9. ASSUME ReplyDone PROVE PointsKnown' /\ PointsAreHeardOnce'
  <2> DEFINE t == reply.turn
  <2>1. phase = "replying"
    BY <1>1, <1>9, ReplyDoneEffect
  <2>2. /\ t = Len(turns) /\ t \in 1 .. Len(turns) /\ t # 0 /\ Spoken \in Seq(Sentence)
        /\ revisable = 0 /\ Spoken = turns[t].text
    BY <1>1, <2>1, ReplyingTurn DEF Spoken
  <2>3. HeardPoints(Spoken) \cap HeardBefore(turns, t - 1) = {} \/ turns[t].exempt
    BY <1>1, <2>2, OnceForOne
  <2>4. ASSUME NEW text \in Seq(Sentence), EndsTheCall(text),
               HeardPoints(text) = HeardPoints(Spoken)
        PROVE PointsKnown' /\ PointsAreHeardOnce'
    <3> DEFINE turn == WithText(t, text)
    <3>1. turns' = [turns EXCEPT ![t] = turn] /\ phase' = "over" /\ revisable' = 0
      BY <2>2, <2>4 DEF EndsTheCall, CallOver
    <3>2. TurnIs(t, turn) /\ turn.text = text /\ turn.exempt = turns[t].exempt
      BY <1>1, <2>2, <3>1, TextEffect
    <3> HIDE DEF turn
    <3>3. PointsAreHeardOnce'
      BY <1>1, <2>2, <2>3, <2>4, <3>2, OnceAfter
    <3>4. PointsKnown'
      BY <3>1 DEF PointsKnown
    <3> QED
      BY <3>3, <3>4
  <2>5. ASSUME GoesOn PROVE PointsKnown' /\ PointsAreHeardOnce'
    <3>1. /\ replies' = Append(replies, [text |-> Spoken, mark |-> FALSE])
          /\ revisable' = t /\ phase' = "listening" /\ turns' = turns
      BY <2>5 DEF GoesOn
    <3>2. PointsAreHeardOnce'
      BY <1>1, <3>1 DEF PointsAreHeardOnce
    <3>3. HeardBefore(turns, t - 1) \subseteq SaidSentences(replies)
      BY <1>1, <2>1 DEF PointsKnown
    <3>4. /\ replies' # <<>> /\ replies'[Len(replies')].text = Spoken
          /\ SubSeq(replies', 1, Len(replies') - 1) = replies
          /\ SaidSentences(replies') = SaidSentences(replies) \cup HeardPoints(Spoken)
      BY <1>1, <2>2, <3>1, SaidAgain
    <3>5. HeardBefore(turns, t) \subseteq SaidSentences(replies')
      BY <1>1, <2>2, <3>3, <3>4, HeardSplit
    <3> HIDE DEF t
    <3>6. PointsKnown'
      BY <2>2, <3>1, <3>3, <3>4, <3>5 DEF PointsKnown
    <3> QED
      BY <3>2, <3>6
  <2> QED
    BY <1>1, <1>9, <2>4, <2>5, ReplyDoneEffect
<1>10. ASSUME NEW heard \in Cuts(Spoken), TalkedOver(heard)
       PROVE PointsKnown' /\ PointsAreHeardOnce'
  <2> DEFINE t == reply.turn
  <2>1. /\ phase = "replying" /\ phase' = "listening" /\ heard \in Seq(Sentence)
        /\ HeardPoints(heard) \subseteq HeardPoints(Spoken) /\ UNCHANGED revisable
        /\ \/ /\ heard # <<>>
              /\ turns' = [turns EXCEPT ![t] = WithCut(t, heard)]
              /\ replies' = Append(replies, [text |-> heard, mark |-> TRUE])
           \/ /\ heard = <<>>
              /\ turns' = [turns EXCEPT ![t] = WithText(t, heard)]
              /\ UNCHANGED replies
    BY <1>1, <1>10, TalkedOverEffect
  <2>2. /\ t = Len(turns) /\ t \in 1 .. Len(turns) /\ t # 0 /\ Spoken = turns[t].text
        /\ revisable = 0
    BY <1>1, <2>1, ReplyingTurn DEF Spoken
  <2>3. /\ HeardPoints(turns[t].text) \cap HeardBefore(turns, t - 1) = {} \/ turns[t].exempt
        /\ HeardBefore(turns, t - 1) \subseteq SaidSentences(replies)
    BY <1>1, <2>1, <2>2, OnceForOne DEF PointsKnown
  <2>4. PICK turn \in {WithText(t, heard), WithCut(t, heard)} :
          turns' = [turns EXCEPT ![t] = turn]
    BY <2>1
  <2>5. /\ TurnIs(t, turn) /\ turn.text = heard /\ turn.exempt = turns[t].exempt
        /\ Len(turns') = Len(turns)
    <3> HIDE DEF t
    <3>1. Frame /\ heard \in Seq(Sentence) /\ t \in 1 .. Len(turns)
      BY <1>1, <2>1, <2>2
    <3> QED
      BY <2>4, <3>1, TextEffect
  <2>6. HeardPoints(turn.text) \cap HeardBefore(turns, t - 1) = {} \/ turn.exempt
    BY <2>1, <2>2, <2>3, <2>5
  <2>7. PointsAreHeardOnce'
    BY <1>1, <2>2, <2>5, <2>6, OnceAfter
  <2>8. HeardBefore(turns', t) = HeardBefore(turns, t - 1) \cup HeardPoints(heard)
    BY <1>1, <2>2, <2>5, HeardAfter
  <2>9. SaidSentences(replies) \cup HeardPoints(heard) \subseteq SaidSentences(replies')
    BY <1>1, <2>1, NoPoints, SaidAgain
  <2> HIDE DEF t
  <2>10. PointsKnown'
    BY <2>1, <2>2, <2>3, <2>5, <2>8, <2>9 DEF PointsKnown
  <2> QED
    BY <2>7, <2>10
<1>11. ASSUME revisable # 0, NEW heard \in Cuts(turns[revisable].text),
              TalkedOverTail(heard)
       PROVE PointsKnown' /\ PointsAreHeardOnce'
  <2> DEFINE earlier == SubSeq(replies, 1, Len(replies) - 1)
             t == revisable
  <2>1. /\ phase = "listening" /\ t = Len(turns) /\ t \in 1 .. Len(turns) /\ t # 0
        /\ revisable' = 0 /\ heard \in Seq(Sentence)
        /\ HeardPoints(heard) \subseteq HeardPoints(turns[t].text)
        /\ UNCHANGED <<reply, phase>>
    BY <1>1, <1>11, TalkedOverTailEffect
  <2>2. \/ /\ turns' = [turns EXCEPT ![t] = WithText(t, heard)]
           /\ replies' = earlier /\ heard = <<>>
        \/ /\ turns' = [turns EXCEPT ![t] = WithCut(t, heard)]
           /\ replies' = Append(earlier, [text |-> heard, mark |-> TRUE])
        \/ UNCHANGED <<turns, replies>>
    BY <1>1, <1>11, TalkedOverTailEffect
  <2>3. earlier \in Seq(Line)
    BY <1>1
  <2>4. HeardBefore(turns, t - 1) \subseteq SaidSentences(earlier)
    BY <1>1, <1>11 DEF PointsKnown
  <2> HIDE DEF earlier, t
  <2>5. CASE UNCHANGED <<turns, replies>>
    <3>1. PointsAreHeardOnce'
      BY <1>1, <2>5 DEF PointsAreHeardOnce
    <3>2. PointsKnown'
      BY <1>2, <2>1, <2>5 DEF PointsKnown, HeardBefore
    <3> QED
      BY <3>1, <3>2
  <2>6. CASE ~UNCHANGED <<turns, replies>>
    <3>1. PICK turn \in {WithText(t, heard), WithCut(t, heard)} :
            turns' = [turns EXCEPT ![t] = turn]
      BY <2>2, <2>6
    <3>2. /\ TurnIs(t, turn) /\ turn.text = heard /\ turn.exempt = turns[t].exempt
          /\ Len(turns') = Len(turns)
      BY <1>1, <2>1, <3>1, TextEffect
    <3>3. HeardPoints(turns[t].text) \cap HeardBefore(turns, t - 1) = {} \/ turns[t].exempt
      BY <1>1, <2>1, OnceForOne
    <3>4. HeardPoints(turn.text) \cap HeardBefore(turns, t - 1) = {} \/ turn.exempt
      BY <2>1, <3>2, <3>3
    <3>5. PointsAreHeardOnce'
      BY <1>1, <2>1, <3>2, <3>4, OnceAfter
    <3>6. HeardBefore(turns', t) = HeardBefore(turns, t - 1) \cup HeardPoints(heard)
      BY <1>1, <2>1, <3>2, HeardAfter
    <3>7. SaidSentences(earlier) \cup HeardPoints(heard) \subseteq SaidSentences(replies')
      BY <2>1, <2>2, <2>3, <2>6, NoPoints, SaidAgain
    <3>8. PointsKnown'
      BY <2>1, <2>4, <3>2, <3>6, <3>7 DEF PointsKnown
    <3> QED
      BY <3>5, <3>8
  <2> QED
    BY <2>5, <2>6
<1>12. ASSUME NotesArrive \/ NotesFail PROVE PointsKnown' /\ PointsAreHeardOnce'
  <2>1. UNCHANGED <<turns, replies, revisable, phase, reply>>
    BY <1>12 DEF NotesArrive, NotesFail
  <2> QED
    BY <1>1, <2>1, OnceStutters
<1> QED
  BY <1>3, <1>4, <1>5, <1>6, <1>7, <1>8, <1>9, <1>10, <1>11, <1>12
     DEF Once, Next, ChunkRestarts, StreamOpen, SynthesisFails, NothingButRepeats
-----------------------------------------------------------------------------
(* Requests to repeat, and how the call ends                               *)

Counted == RequestsCounted /\ RepeatedOnRequestOnce
Closed == ClosingsAsked /\ EndedWithGoodbye

\* What the user asked for stays as it was, and a reply is still the answer to it.
SameRequests ==
    /\ turns' \in Seq(Turn) /\ Len(turns') = Len(turns)
    /\ \A u \in 1 .. Len(turns) : /\ turns'[u].parts = turns[u].parts
                                  /\ turns'[u].asks = turns[u].asks
                                  /\ turns'[u].closes = turns[u].closes
    /\ UNCHANGED repeats
    /\ phase' = "replying" => /\ phase = "replying" /\ reply'.turn = reply.turn
                              /\ reply'.allow = reply.allow
                              /\ reply'.closing = reply.closing
                              /\ reply'.instruction = reply.instruction

\* A Turn whose words change keeps its requests.
LEMMA SameRequestsOneTurn ==
    ASSUME Frame, NEW t \in 1 .. Len(turns), NEW turn, TurnIs(t, turn),
           Len(turns') = Len(turns),
           turn.parts = turns[t].parts, turn.asks = turns[t].asks,
           turn.closes = turns[t].closes, UNCHANGED repeats,
           phase' = "replying" => /\ phase = "replying" /\ reply'.turn = reply.turn
                                  /\ reply'.allow = reply.allow
                                  /\ reply'.closing = reply.closing
                                  /\ reply'.instruction = reply.instruction
    PROVE  SameRequests
BY DEF SameRequests, TurnIs

\* A step that leaves the Turns alone keeps their requests.
LEMMA SameRequestsNoTurn ==
    ASSUME Frame, UNCHANGED <<turns, repeats>>,
           phase' = "replying" => /\ phase = "replying" /\ reply'.turn = reply.turn
                                  /\ reply'.allow = reply.allow
                                  /\ reply'.closing = reply.closing
                                  /\ reply'.instruction = reply.instruction
    PROVE  SameRequests
BY DEF SameRequests, Frame, Shapes

\* Only an utterance and a "Hallo?" change what has been asked for.
LEMMA OthersKeepRequests ==
    ASSUME Frame, Next
    PROVE  \/ \E question \in Questions : UserSpeaks(question.asks, question.closes)
           \/ PickupPrompt
           \/ SameRequests
<1>1. reply \in Reply /\ turns \in Seq(Turn)
  BY DEF Frame, Shapes
<1>2. ASSUME AskAgain PROVE SameRequests
  <2>1. /\ reply'.turn = reply.turn /\ reply'.allow = reply.allow
        /\ reply'.closing = reply.closing /\ reply'.instruction = reply.instruction
    BY <1>1, <1>2 DEF AskAgain, Reply
  <2> QED
    BY <1>2, <2>1, SameRequestsNoTurn DEF AskAgain
<1>3. ASSUME NEW chunk \in Chunks, NEW marker \in BOOLEAN, ChunkArrives(chunk, marker)
      PROVE SameRequests
  <2> DEFINE turn == WithChunk(Cleaned(chunk))
  <2>1. /\ phase = "replying" /\ TurnIs(reply.turn, turn) /\ Len(turns') = Len(turns)
        /\ turn.parts = turns[reply.turn].parts /\ turn.asks = turns[reply.turn].asks
        /\ turn.closes = turns[reply.turn].closes /\ UNCHANGED repeats
    BY <1>3, ChunkEffect
  <2>2. /\ reply'.turn = reply.turn /\ reply'.allow = reply.allow
        /\ reply'.closing = reply.closing /\ reply'.instruction = reply.instruction
    BY <1>1, <1>3 DEF ChunkArrives, Reply
  <2>3. reply.turn \in 1 .. Len(turns)
    BY <2>1, ReplyingTurn
  <2> HIDE DEF turn
  <2> QED
    BY <2>1, <2>2, <2>3, SameRequestsOneTurn
<1>4. ASSUME Failed PROVE SameRequests
  BY <1>4, SameRequestsNoTurn DEF Failed, CallOver
<1>5. ASSUME StreamBreaks PROVE SameRequests
  <2>1. CASE Failed
    BY <1>4, <2>1
  <2>2. CASE ~Failed
    <3>1. /\ reply' = [reply EXCEPT !.attempt = 1, !.first = TRUE]
          /\ UNCHANGED <<turns, repeats, phase>>
      BY <1>5, <2>2 DEF StreamBreaks
    <3>2. /\ reply'.turn = reply.turn /\ reply'.allow = reply.allow
          /\ reply'.closing = reply.closing /\ reply'.instruction = reply.instruction
      BY <1>1, <3>1 DEF Reply
    <3> QED
      BY <3>1, <3>2, SameRequestsNoTurn
  <2> QED
    BY <2>1, <2>2
<1>6. ASSUME NEW t \in 1 .. Len(turns), NEW text \in Seq(Sentence),
             NEW turn \in {WithText(t, text), WithCut(t, text)},
             turns' = [turns EXCEPT ![t] = turn], UNCHANGED repeats, phase' # "replying"
      PROVE SameRequests
  <2>1. /\ TurnIs(t, turn) /\ turn.parts = turns[t].parts /\ turn.asks = turns[t].asks
        /\ turn.closes = turns[t].closes /\ Len(turns') = Len(turns)
    BY <1>6, TextEffect
  <2> QED
    BY <1>6, <2>1, SameRequestsOneTurn
<1>7. ASSUME ReplyDone PROVE SameRequests
  <2>1. phase = "replying" /\ UNCHANGED repeats
    BY <1>7, ReplyDoneEffect
  <2>2. reply.turn \in 1 .. Len(turns)
    BY <2>1, ReplyingTurn
  <2>3. ASSUME NEW text \in Seq(Sentence), EndsTheCall(text) PROVE SameRequests
    <3>1. /\ turns' = [turns EXCEPT ![reply.turn] = WithText(reply.turn, text)]
          /\ phase' = "over"
      BY <2>3 DEF EndsTheCall, CallOver
    <3> QED
      BY <1>6, <2>1, <2>2, <3>1
  <2>4. ASSUME GoesOn PROVE SameRequests
    BY <2>1, <2>4, SameRequestsNoTurn DEF GoesOn
  <2> QED
    BY <1>7, <2>3, <2>4, ReplyDoneEffect
<1>8. ASSUME NEW heard \in Cuts(Spoken), TalkedOver(heard) PROVE SameRequests
  <2>1. /\ phase = "replying" /\ phase' = "listening" /\ heard \in Seq(Sentence)
        /\ UNCHANGED repeats
    BY <1>8, TalkedOverEffect
  <2>2. PICK turn \in {WithText(reply.turn, heard), WithCut(reply.turn, heard)} :
          turns' = [turns EXCEPT ![reply.turn] = turn]
    BY <1>8, TalkedOverEffect
  <2>3. reply.turn \in 1 .. Len(turns)
    BY <2>1, ReplyingTurn
  <2> QED
    BY <1>6, <2>1, <2>2, <2>3
<1>9. ASSUME revisable # 0, NEW heard \in Cuts(turns[revisable].text),
             TalkedOverTail(heard)
      PROVE SameRequests
  <2>1. /\ phase = "listening" /\ UNCHANGED <<phase, repeats>> /\ heard \in Seq(Sentence)
        /\ revisable \in 1 .. Len(turns)
    BY <1>9, TalkedOverTailEffect
  <2>2. \/ turns' = turns
        \/ \E turn \in {WithText(revisable, heard), WithCut(revisable, heard)} :
             turns' = [turns EXCEPT ![revisable] = turn]
    BY <1>9, TalkedOverTailEffect
  <2>3. CASE turns' = turns
    BY <2>1, <2>3, SameRequestsNoTurn
  <2>4. CASE turns' # turns
    BY <1>6, <2>1, <2>2, <2>4
  <2> QED
    BY <2>3, <2>4
<1>10. ASSUME NotesArrive \/ NotesFail PROVE SameRequests
  BY <1>10, SameRequestsNoTurn DEF NotesArrive, NotesFail
<1> QED
  BY <1>2, <1>3, <1>4, <1>5, <1>7, <1>8, <1>9, <1>10
     DEF Next, ChunkRestarts, SynthesisFails, NothingButRepeats

\* A call starts with no request counted.
LEMMA CountedInit == Init => Counted
<1> SUFFICES ASSUME Init PROVE Counted
  OBVIOUS
<1>1. /\ turns \in {<<FreshTurn>>, <<>>} /\ repeats = 0
      /\ phase = "replying" => turns = <<FreshTurn>> /\ reply.turn = 1
  BY DEF Init, FreshReply
<1>2. /\ \A u \in DOMAIN turns : turns[u] = FreshTurn
      /\ turns = <<>> \/ (turns # <<>> /\ Len(turns) = 1 /\ turns[Len(turns)] = FreshTurn)
      /\ turns = <<FreshTurn>> => turns[1] = FreshTurn
  BY <1>1
<1>3. RequestsCounted
  BY <1>1, <1>2, FreshTurnType DEF RequestsCounted
<1>4. RepeatedOnRequestOnce
  <2>1. phase = "replying" => turns[reply.turn].parts # 1
    BY <1>1, <1>2, FreshTurnType
  <2> QED
    BY <2>1 DEF RepeatedOnRequestOnce
<1> QED
  BY <1>3, <1>4 DEF Counted

\* The steps that change no request count none.
LEMMA CountedOthers ==
    ASSUME Frame, Counted, SameRequests
    PROVE  Counted'
<1>1. turns \in Seq(Turn) /\ turns' \in Seq(Turn) /\ Len(turns') = Len(turns)
  BY DEF Frame, Shapes, SameRequests
<1>2. /\ DOMAIN turns = 1 .. Len(turns) /\ DOMAIN turns' = 1 .. Len(turns)
      /\ Len(turns) \in Nat /\ (turns = <<>> <=> Len(turns) = 0)
      /\ (turns' = <<>> <=> Len(turns) = 0)
  BY <1>1, LenProperties, EmptySeq
<1>3. turns # <<>> => Len(turns) \in 1 .. Len(turns)
  BY <1>2
<1>4. RequestsCounted'
  BY <1>1, <1>2, <1>3 DEF Counted, RequestsCounted, SameRequests
<1>5. RepeatedOnRequestOnce'
  <2> SUFFICES ASSUME phase' = "replying", turns'[reply'.turn].parts = 1
      PROVE reply'.allow <=> /\ turns'[reply'.turn].asks
                             /\ ~\E u \in DOMAIN turns' :
                                   u = reply'.turn - 1 /\ turns'[u].asks
    BY DEF RepeatedOnRequestOnce
  <2>1. phase = "replying" /\ reply'.turn = reply.turn /\ reply'.allow = reply.allow
    BY DEF SameRequests
  <2>2. reply.turn \in 1 .. Len(turns)
    BY <2>1, ReplyingTurn
  <2>3. turns[reply.turn].parts = 1
    BY <2>1, <2>2 DEF SameRequests
  <2>4. reply.allow <=> /\ turns[reply.turn].asks
                        /\ ~\E u \in DOMAIN turns : u = reply.turn - 1 /\ turns[u].asks
    BY <2>1, <2>3 DEF Counted, RepeatedOnRequestOnce
  <2> QED
    BY <1>2, <2>1, <2>2, <2>4 DEF SameRequests
<1> QED
  BY <1>4, <1>5 DEF Counted

\* The row of requests is counted as they come.
LEMMA CountedKept == Frame /\ Counted /\ Next => Counted'
<1> SUFFICES ASSUME Frame, Counted, Next PROVE Counted'
  OBVIOUS
<1>1. /\ turns \in Seq(Turn) /\ Len(turns) \in Nat /\ DOMAIN turns = 1 .. Len(turns)
      /\ (turns = <<>> <=> Len(turns) = 0)
      /\ \A u \in 1 .. Len(turns) : turns[u].asks \in BOOLEAN
  BY TurnTypes DEF Frame, Shapes
<1>2. /\ \A u \in 1 .. Len(turns) : turns[u].parts = 0 => ~turns[u].asks /\ ~turns[u].closes
      /\ Len(turns) # 0 /\ turns[Len(turns)].parts = 0 =>
           \A u \in 1 .. Len(turns) : turns[u].parts = 0
      /\ repeats = 0 <=> Len(turns) = 0 \/ ~turns[Len(turns)].asks
  BY <1>1 DEF Counted, RequestsCounted
<1>3. repeats \in 0 .. 2
  BY DEF Frame, Shapes
<1>4. /\ NextTurn \in 1 .. Len(turns) + 1
      /\ reopen # 0 => NextTurn = Len(turns)
      /\ reopen = 0 => NextTurn = Len(turns) + 1
      /\ OpenTurn \in Turn
      /\ reopen # 0 => OpenTurn = turns[NextTurn]
      /\ reopen = 0 => OpenTurn = FreshTurn
  BY NextTurnIsLast DEF OpenTurn, NextTurn
<1>5. NextTurn \in Nat /\ NextTurn # 0 /\ (NextTurn = Len(turns) \/ NextTurn = Len(turns) + 1)
  BY NextTurnIsLast
<1>6. \A u \in 1 .. NextTurn - 1 : u # NextTurn /\ u \in 1 .. Len(turns)
  <2>1. Len(turns) \in Nat
    BY <1>1
  <2> QED
    BY <1>5, <2>1
<1>7. \A u \in 1 .. NextTurn : u # NextTurn => u \in 1 .. NextTurn - 1
  BY <1>5
<1>8. ASSUME NEW question \in Questions, UserSpeaks(question.asks, question.closes)
      PROVE Counted'
  <2> DEFINE turn == Asked(question.asks, question.closes)
             closing == turn.closes
             requests == CountRequests(turn.asks)
             instruction == InstructionFor(NextTurn, closing, requests)
  <2>1. question.asks \in BOOLEAN /\ question.closes \in BOOLEAN
    BY DialogueAssumption
  <2>2. /\ TurnIs(NextTurn, turn) /\ turn \in Turn /\ Len(turns') = NextTurn
        /\ turn.parts = OpenTurn.parts + 1 /\ turn.asks = (OpenTurn.asks \/ question.asks)
        /\ repeats' = requests
        /\ reply' = FreshReply(NextTurn, instruction, closing, requests = 1,
                               CutOffSentence(NextTurn))
    BY <1>8, <2>1, UserSpeaksEffect
  <2>3. reply'.turn = NextTurn /\ reply'.allow = (requests = 1)
    BY <2>2 DEF FreshReply
  <2> HIDE DEF turn, closing, instruction
  <2>4. /\ OpenTurn.parts \in 0 .. MaxParts /\ OpenTurn.asks \in BOOLEAN
        /\ turn.parts # 0 /\ (turn.parts = 1 => OpenTurn.parts = 0)
        /\ turn.asks \in BOOLEAN
    BY <1>4, <2>2, Bounds DEF Turn
  <2>5. requests = 0 <=> ~turn.asks
    BY <1>3, <2>4 DEF CountRequests
  <2>6. /\ turns' \in Seq(Turn) /\ turns'[NextTurn] = turn
        /\ DOMAIN turns' = 1 .. NextTurn /\ turns' # <<>>
        /\ \A u \in 1 .. NextTurn - 1 : turns'[u] = turns[u] /\ u \in 1 .. Len(turns)
    <3>1. turns' \in Seq(Turn) /\ turns'[NextTurn] = turn
      BY <2>2 DEF TurnIs
    <3>2. DOMAIN turns' = 1 .. NextTurn /\ turns' # <<>>
      BY <1>5, <2>2, <3>1, LenProperties, EmptySeq
    <3>3. \A u \in 1 .. NextTurn - 1 : turns'[u] = turns[u] /\ u \in 1 .. Len(turns)
      BY <1>6, <2>2 DEF TurnIs
    <3> QED
      BY <3>1, <3>2, <3>3
  <2>7. RequestsCounted'
    <3>1. \A u \in 1 .. NextTurn : turns'[u].parts = 0 =>
            ~turns'[u].asks /\ ~turns'[u].closes
      BY <1>2, <1>7, <2>4, <2>6
    <3>2. turns'[Len(turns')].parts # 0
      BY <2>2, <2>4, <2>6
    <3>3. repeats' = 0 <=> ~turns'[Len(turns')].asks
      BY <2>2, <2>5, <2>6
    <3> QED
      BY <2>6, <3>1, <3>2, <3>3 DEF RequestsCounted
  <2>8. RepeatedOnRequestOnce'
    <3> SUFFICES ASSUME turn.parts = 1
        PROVE (requests = 1) <=> /\ turn.asks
                                 /\ ~\E u \in DOMAIN turns' :
                                       u = NextTurn - 1 /\ turns'[u].asks
      BY <2>3, <2>6 DEF RepeatedOnRequestOnce
    <3>1. OpenTurn.parts = 0
      BY <2>4
    <3>2. CASE reopen # 0
      <4>1. turns[Len(turns)].parts = 0 /\ Len(turns) # 0 /\ NextTurn = Len(turns)
        <5>1. NextTurn = Len(turns) /\ OpenTurn = turns[NextTurn]
          BY <1>4, <3>2
        <5> QED
          BY <1>5, <3>1, <5>1
      <4>2. \A u \in 1 .. Len(turns) : turns[u].parts = 0 /\ ~turns[u].asks
        BY <1>2, <4>1
      <4>3. repeats = 0
        BY <1>1, <1>2, <4>1, <4>2
      <4>4. requests = 1 <=> turn.asks
        BY <2>4, <4>3 DEF CountRequests
      <4>5. ~\E u \in DOMAIN turns' : u = NextTurn - 1 /\ turns'[u].asks
        <5> SUFFICES ASSUME NEW u \in DOMAIN turns', u = NextTurn - 1, turns'[u].asks
            PROVE FALSE
          OBVIOUS
        <5>1. u \in 1 .. NextTurn - 1
          <6>1. u \in 1 .. NextTurn
            BY <2>6
          <6> QED
            BY <1>5, <6>1
        <5> QED
          BY <2>6, <4>2, <5>1
      <4> QED
        BY <4>4, <4>5
    <3>3. CASE reopen = 0
      <4>1. NextTurn = Len(turns) + 1
        BY <1>4, <3>3
      <4>2. requests = 1 <=> turn.asks /\ repeats = 0
        BY <1>3, <2>4 DEF CountRequests
      <4>3. CASE Len(turns) = 0
        <5>1. NextTurn = 1 /\ DOMAIN turns' = 1 .. 1
          BY <2>6, <4>1, <4>3
        <5>2. ~\E u \in DOMAIN turns' : u = NextTurn - 1 /\ turns'[u].asks
          BY <5>1
        <5> QED
          BY <1>2, <4>2, <4>3, <5>2
      <4>4. CASE Len(turns) # 0
        <5>1. /\ NextTurn - 1 = Len(turns) /\ Len(turns) \in 1 .. NextTurn - 1
              /\ Len(turns) \in DOMAIN turns'
          BY <1>1, <2>6, <4>1, <4>4
        <5>2. turns'[Len(turns)] = turns[Len(turns)]
          BY <2>6, <5>1
        <5>3. (\E u \in DOMAIN turns' : u = NextTurn - 1 /\ turns'[u].asks)
                <=> turns[Len(turns)].asks
          BY <5>1, <5>2
        <5> QED
          BY <1>2, <4>2, <4>4, <5>3
      <4> QED
        BY <4>3, <4>4
    <3> QED
      BY <3>2, <3>3
  <2> QED
    BY <2>7, <2>8 DEF Counted
<1>9. ASSUME PickupPrompt PROVE Counted'
  <2>1. /\ TurnIs(NextTurn, Prompted) /\ Len(turns') = NextTurn
        /\ Prompted.parts = 0 /\ Prompted.asks = FALSE /\ Prompted.closes = FALSE
        /\ phase' = "listening" /\ UNCHANGED repeats
        /\ \A u \in 1 .. Len(turns) : turns[u].parts = 0
    BY <1>1, <1>9, PickupPromptEffect
  <2>2. /\ turns' \in Seq(Turn) /\ turns'[NextTurn] = Prompted
        /\ \A u \in 1 .. NextTurn - 1 : turns'[u] = turns[u] /\ u \in 1 .. Len(turns)
    BY <1>6, <2>1 DEF TurnIs
  <2>3. DOMAIN turns' = 1 .. NextTurn /\ turns' # <<>>
    BY <1>5, <2>1, <2>2, LenProperties, EmptySeq
  <2>4. \A u \in 1 .. NextTurn : turns'[u].parts = 0 /\ ~turns'[u].asks /\ ~turns'[u].closes
    BY <1>2, <1>7, <2>1, <2>2
  <2>5. repeats = 0
    <3>1. Len(turns) # 0 => Len(turns) \in 1 .. Len(turns)
      BY <1>1
    <3> QED
      BY <1>2, <2>1, <3>1
  <2>6. RequestsCounted'
    BY <2>1, <2>2, <2>3, <2>4, <2>5 DEF RequestsCounted
  <2>7. RepeatedOnRequestOnce'
    BY <2>1 DEF RepeatedOnRequestOnce
  <2> QED
    BY <2>6, <2>7 DEF Counted
<1> QED
  BY <1>8, <1>9, OthersKeepRequests, CountedOthers
\* Only a finished reply ends the call.
LEMMA OnlyRepliesEnd ==
    ASSUME Frame, ClosingsAsked, Next
    PROVE  \/ ReplyDone
           \/ ended = <<>> /\ ended' = <<>>
           \/ UNCHANGED <<turns, ended, phase>>
<1>1. ended # <<>> => phase = "over"
  BY DEF ClosingsAsked
<1>2. ASSUME NEW question \in Questions, UserSpeaks(question.asks, question.closes)
      PROVE ended = <<>> /\ ended' = <<>>
  BY <1>1, <1>2 DEF UserSpeaks
<1>3. ASSUME PickupPrompt PROVE ended = <<>> /\ ended' = <<>>
  BY <1>1, <1>3 DEF PickupPrompt
<1>4. ASSUME AskAgain, phase = "replying" PROVE ended = <<>> /\ ended' = <<>>
  BY <1>1, <1>4 DEF AskAgain
<1>5. ASSUME NEW chunk \in Chunks, NEW marker \in BOOLEAN, ChunkArrives(chunk, marker)
      PROVE ended = <<>> /\ ended' = <<>>
  BY <1>1, <1>5 DEF ChunkArrives, StreamOpen
<1>6. ASSUME SynthesisFails \/ StreamBreaks PROVE ended = <<>> /\ ended' = <<>>
  BY <1>1, <1>6 DEF SynthesisFails, StreamBreaks, StreamOpen, Failed
<1>7. ASSUME NEW heard, TalkedOver(heard) PROVE ended = <<>> /\ ended' = <<>>
  BY <1>1, <1>7 DEF TalkedOver
<1>8. ASSUME NEW heard, TalkedOverTail(heard) PROVE ended = <<>> /\ ended' = <<>>
  BY <1>1, <1>8 DEF TalkedOverTail
<1>9. ASSUME NotesArrive \/ NotesFail PROVE UNCHANGED <<turns, ended, phase>>
  BY <1>9 DEF NotesArrive, NotesFail
<1> QED
  BY <1>2, <1>3, <1>4, <1>5, <1>6, <1>7, <1>8, <1>9
     DEF Next, ChunkRestarts, StreamOpen, NothingButRepeats

\* A goodbye once said is there whatever follows it in the text.
LEMMA SignedOff ==
    ASSUME NEW text \in Seq(Sentence), NEW s \in Sentence
    PROVE  s \in InText(Append(text, s))
<1>1. DOMAIN Append(text, s) = 1 .. Len(text) + 1 /\ Append(text, s)[Len(text) + 1] = s
      /\ Len(text) + 1 \in 1 .. Len(text) + 1
  BY AppendProperties, LenProperties
<1> QED
  BY <1>1 DEF InText

\* No call has ended when it starts.
LEMMA ClosedInit == Init => Closed
<1> SUFFICES ASSUME Init PROVE Closed
  OBVIOUS
<1>1. ended = <<>>
  BY DEF Init
<1>2. phase = "replying" => reply.closing = FALSE
  BY DEF Init, FreshReply
<1> QED
  BY <1>1, <1>2 DEF Closed, ClosingsAsked, EndedWithGoodbye

\* A finished reply that ends the call is a goodbye or is followed by one.
LEMMA EndsWithGoodbye ==
    ASSUME Frame, Closed, ReplyDone
    PROVE  Closed'
<1> DEFINE t == reply.turn
           marker == reply.endsCall \/ (~SpokeYet /\ reply.suppressed)
           ending == Ending(Spoken, replies, marker, reply.closing, reply.allow)
<1>1. phase = "replying"
  BY DEF ReplyDone
<1>2. /\ t \in 1 .. Len(turns) /\ Spoken \in Seq(Sentence) /\ turns \in Seq(Turn)
      /\ turns[t] \in Turn /\ Spoken = turns[t].text
  BY <1>1, ReplyingTurn DEF Frame, Shapes, Spoken
<1>3. reply.closing => /\ turns[t].closes
                       /\ reply.instruction.kind \in {"closing", "opening"}
  BY <1>1 DEF Closed, ClosingsAsked
<1>4. CASE ~ending.ends
  <2>1. phase' = "listening" /\ ended' = ended /\ ended = <<>>
    BY <1>1, <1>4 DEF ReplyDone, Closed, ClosingsAsked
  <2> QED
    BY <2>1 DEF Closed, ClosingsAsked, EndedWithGoodbye
<1>5. CASE ending.ends
  <2>1. PICK signedOff \in (IF ending.needsFallback THEN BOOLEAN ELSE {FALSE}) :
          LET text == IF signedOff THEN Append(Spoken, Whole("signoff")) ELSE Spoken
          IN  /\ turns' = [turns EXCEPT ![t].text = text]
              /\ ended' = <<[turn |-> t, instruction |-> reply.instruction.kind,
                             unvoiced |-> ending.needsFallback /\ ~signedOff]>>
              /\ CallOver
    BY <1>5 DEF ReplyDone
  <2> DEFINE text == IF signedOff THEN Append(Spoken, Whole("signoff")) ELSE Spoken
             done == [turn |-> t, instruction |-> reply.instruction.kind,
                      unvoiced |-> ending.needsFallback /\ ~signedOff]
  <2>2. /\ turns' = [turns EXCEPT ![t].text = text] /\ ended' = <<done>>
        /\ phase' = "over"
    BY <2>1 DEF CallOver
  <2>3. turns'[t].text = text /\ turns'[t].closes = turns[t].closes
    BY <1>2, <2>2 DEF Turn
  <2>4. /\ ended'[1].turn = t /\ ended'[1].instruction = reply.instruction.kind
        /\ ended'[1].unvoiced = (ending.needsFallback /\ ~signedOff) /\ ended' # <<>>
    BY <2>2
  <2>5. ASSUME Whole("goodbye") \in InText(text) \/ Whole("signoff") \in InText(text)
        PROVE Closed'
    <3> HIDE DEF text, done, ending
    <3>1. ClosingsAsked'
      BY <2>2 DEF ClosingsAsked
    <3>2. InText(turns'[ended'[1].turn].text) = InText(text)
      BY <2>3, <2>4
    <3>3. EndedWithGoodbye'
      BY <2>5, <3>2 DEF EndedWithGoodbye, InText
    <3> QED
      BY <3>1, <3>3 DEF Closed
  <2>6. CASE signedOff
    <3>1. Whole("signoff") \in Sentence
      BY FixedLines DEF Phrases
    <3>2. Whole("signoff") \in InText(text)
      BY <1>2, <2>6, <3>1, SignedOff
    <3> QED
      BY <2>5, <3>2
  <2>7. CASE ~signedOff /\ ending.needsFallback
    BY <2>2, <2>4, <2>7 DEF Closed, ClosingsAsked, EndedWithGoodbye
  <2>8. CASE ~signedOff /\ ~ending.needsFallback
    <3>1. SaysGoodbye(Spoken) \/ reply.closing
      BY <1>5, <2>8 DEF Ending
    <3>2. CASE SaysGoodbye(Spoken)
      <4>1. Whole("goodbye") \in InText(text)
        BY <2>8, <3>2 DEF SaysGoodbye
      <4> QED
        BY <2>5, <4>1
    <3>3. CASE reply.closing
      BY <1>3, <2>2, <2>3, <2>4, <3>3 DEF Closed, ClosingsAsked, EndedWithGoodbye
    <3> QED
      BY <3>1, <3>2, <3>3
  <2> QED
    BY <2>1, <2>6, <2>7, <2>8
<1> QED
  BY <1>4, <1>5

\* Every step leaves a closing reply asked for, and an ended call as it ended.
LEMMA ClosedKept == Frame /\ Closed /\ Next => Closed'
<1> SUFFICES ASSUME Frame, Closed, Next PROVE Closed'
  OBVIOUS
<1>1. ClosingsAsked /\ EndedWithGoodbye /\ (ended # <<>> => phase = "over")
  BY DEF Closed, ClosingsAsked
<1>2. CASE ReplyDone
  BY <1>2, EndsWithGoodbye
<1>3. ASSUME ended' # <<>>, ~ReplyDone PROVE UNCHANGED <<turns, ended, phase>>
  BY <1>1, <1>3, OnlyRepliesEnd
<1>4. CASE ~ReplyDone
  <2>1. (ended' # <<>> => phase' = "over") /\ EndedWithGoodbye'
    BY <1>1, <1>3, <1>4 DEF EndedWithGoodbye, InText
  <2>2. ASSUME phase' = "replying", reply'.closing
        PROVE  /\ turns'[reply'.turn].closes
               /\ reply'.instruction.kind \in {"closing", "opening"}
    <3>1. CASE SameRequests
      <4>1. /\ phase = "replying" /\ reply'.turn = reply.turn
            /\ reply.closing /\ reply'.instruction = reply.instruction
        BY <2>2, <3>1 DEF SameRequests
      <4>2. reply.turn \in 1 .. Len(turns)
        BY <4>1, ReplyingTurn
      <4>3. turns[reply.turn].closes /\ reply.instruction.kind \in {"closing", "opening"}
        BY <1>1, <4>1 DEF ClosingsAsked
      <4> QED
        BY <3>1, <4>1, <4>2, <4>3 DEF SameRequests
    <3>2. ASSUME NEW question \in Questions, UserSpeaks(question.asks, question.closes)
          PROVE  /\ turns'[reply'.turn].closes
                 /\ reply'.instruction.kind \in {"closing", "opening"}
      <4> DEFINE turn == Asked(question.asks, question.closes)
                 closing == turn.closes
                 requests == CountRequests(turn.asks)
                 instruction == InstructionFor(NextTurn, closing, requests)
      <4>1. question.asks \in BOOLEAN /\ question.closes \in BOOLEAN
        BY DialogueAssumption
      <4>2. /\ TurnIs(NextTurn, turn) /\ turn \in Turn
            /\ reply' = FreshReply(NextTurn, instruction, closing, requests = 1,
                                   CutOffSentence(NextTurn))
        BY <3>2, <4>1, UserSpeaksEffect
      <4>3. closing \in BOOLEAN
        BY <4>2 DEF Turn
      <4> HIDE DEF turn, requests
      <4>4. reply'.turn = NextTurn /\ reply'.closing = closing
            /\ reply'.instruction = instruction
        BY <4>2 DEF FreshReply
      <4>5. turn.closes /\ instruction.kind \in {"closing", "opening"}
        BY <2>2, <4>3, <4>4, OneInstruction
      <4>6. turns'[NextTurn] = turn
        BY <4>2 DEF TurnIs
      <4> QED
        BY <4>4, <4>5, <4>6
    <3>3. ~PickupPrompt
      BY <2>2 DEF PickupPrompt
    <3> QED
      BY <3>1, <3>2, <3>3, OthersKeepRequests
  <2> QED
    BY <2>1, <2>2 DEF Closed, ClosingsAsked
<1> QED
  BY <1>2, <1>4
-----------------------------------------------------------------------------
(* The notes                                                               *)

Noted == NotesKept /\ NotesRecordWhatWasHeard

\* The invariant in the form the steps use it.
LEMMA NotedParts ==
    ASSUME Frame, Noted
    PROVE  /\ turns \in Seq(Turn) /\ Len(turns) \in Nat /\ DOMAIN turns = 1 .. Len(turns)
           /\ (turns = <<>> <=> Len(turns) = 0)
           /\ notes.text \in SUBSET Recorded /\ notes.base \in SUBSET Recorded
           /\ notes.turn \in Nat /\ notes.turn <= Len(turns)
           /\ lost \subseteq 1 .. Len(turns)
           /\ \A e \in notes.base : e.turn \in Nat /\ e.turn # 0 /\ e.turn < Len(turns)
           /\ \A e \in notes.text : e.turn \in 1 .. Len(turns)
           /\ \A e \in notes.text : e.turn = Len(turns) => notes.turn = Len(turns)
           /\ phase # "over" =>
                /\ \A e \in notes.base : Settled(e)
                /\ \A e \in notes.text :
                     Settled(e) \/ (notes.task # Idle /\ notes.turn = e.turn)
           /\ notes.task # Idle =>
                /\ notes.task[1].base = notes.base
                /\ notes.task[1].exchange.turn = notes.turn
                /\ notes.task[1].exchange \in Recorded
                /\ notes.turn \in 1 .. Len(turns)
                /\ Current(notes.task[1].exchange)
                /\ phase # "over"
<1>1. /\ turns \in Seq(Turn) /\ Len(turns) \in Nat /\ DOMAIN turns = 1 .. Len(turns)
      /\ (turns = <<>> <=> Len(turns) = 0)
      /\ notes \in Notes
  BY TurnTypes DEF Frame, Shapes
<1>2. /\ notes.text \in SUBSET Recorded /\ notes.base \in SUBSET Recorded
      /\ notes.turn \in Nat
  BY <1>1 DEF Notes
<1>3. \A e \in Recorded : e.turn \in Nat /\ e.turn # 0
  BY DEF Recorded
<1>4. NotesKept
  BY DEF Noted
<1>5. notes.task # Idle => notes.task[1].exchange \in Recorded
  BY <1>1, TaskParts
<1>6. /\ notes.turn <= Len(turns) /\ lost \subseteq DOMAIN turns
      /\ \A e \in notes.base : e.turn < Len(turns) /\ (phase # "over" => Settled(e))
      /\ \A e \in notes.text : e.turn <= Len(turns)
      /\ \A e \in notes.text : e.turn = Len(turns) => notes.turn = Len(turns)
      /\ notes.task # Idle =>
           /\ notes.task[1].base = notes.base
           /\ notes.task[1].exchange.turn = notes.turn
           /\ notes.turn # 0
           /\ Current(notes.task[1].exchange)
           /\ phase # "over"
  BY <1>4 DEF NotesKept
<1>7. phase # "over" =>
        \A e \in notes.text : Settled(e) \/ (notes.task # Idle /\ notes.turn = e.turn)
  BY <1>6 DEF Noted, NotesRecordWhatWasHeard, Settled, Current
<1>8. \A e \in notes.text : e.turn \in 1 .. Len(turns)
  BY <1>1, <1>2, <1>3, <1>6
<1>9. \A e \in notes.base : e.turn \in Nat /\ e.turn # 0 /\ e.turn < Len(turns)
  BY <1>2, <1>3, <1>6
<1>10. notes.task # Idle => notes.turn \in 1 .. Len(turns)
  BY <1>1, <1>2, <1>6
<1> QED
  BY <1>1, <1>2, <1>5, <1>6, <1>7, <1>8, <1>9, <1>10

\* A Turn the notes hold nothing of may change as it likes.
LEMMA NotedElsewhere ==
    ASSUME Frame, Noted, NEW t \in {Len(turns), Len(turns) + 1}, t # 0, NEW turn,
           TurnIs(t, turn), UNCHANGED <<notes, lost>>, notes.turn # t,
           phase # "over", phase' # "over"
    PROVE  Noted'
<1>1. /\ turns \in Seq(Turn) /\ Len(turns) \in Nat
      /\ notes.turn \in Nat /\ notes.turn <= Len(turns)
      /\ lost \subseteq 1 .. Len(turns)
      /\ \A e \in notes.base : e.turn \in Nat /\ e.turn # 0 /\ e.turn < Len(turns)
                               /\ Settled(e)
      /\ \A e \in notes.text :
           /\ e.turn \in 1 .. Len(turns)
           /\ e.turn = Len(turns) => notes.turn = Len(turns)
           /\ Settled(e) \/ (notes.task # Idle /\ notes.turn = e.turn)
      /\ notes.task # Idle =>
           /\ notes.task[1].base = notes.base
           /\ notes.task[1].exchange.turn = notes.turn
           /\ notes.turn \in 1 .. Len(turns)
           /\ Current(notes.task[1].exchange)
  BY NotedParts
<1>2. /\ turns' \in Seq(Turn) /\ Len(turns') = t /\ DOMAIN turns' = 1 .. t /\ t \in Nat
      /\ \A u \in 1 .. Len(turns) : u # t => turns'[u] = turns[u]
      /\ 1 .. Len(turns) \subseteq 1 .. t /\ Len(turns) <= t
  BY <1>1, LenProperties DEF TurnIs
<1>3. \A e : e.turn \in 1 .. Len(turns) /\ e.turn # t /\ Current(e) => Current(e)'
  BY <1>2 DEF Current
<1>4. \A e : e.turn \in 1 .. Len(turns) /\ e.turn # t /\ Settled(e) => Settled(e)'
  BY <1>3 DEF Settled
<1>5. \A e \in notes.base : e.turn \in 1 .. Len(turns) /\ e.turn # t /\ e.turn < t
  BY <1>1, <1>2
<1>6. \A e \in notes.text : e.turn \in 1 .. Len(turns) /\ e.turn # t /\ e.turn <= t
  BY <1>1, <1>2
<1>7. NotesKept'
  <2>1. \A e \in notes.base : Settled(e)'
    BY <1>1, <1>4, <1>5
  <2>2. notes.task # Idle => Current(notes.task[1].exchange)'
    BY <1>1, <1>3
  <2>3. lost' \subseteq DOMAIN turns' /\ notes.turn <= Len(turns')
    BY <1>1, <1>2
  <2>4. notes.turn # 0 \/ notes.task = Idle
    BY <1>1
  <2> QED
    BY <1>1, <1>2, <1>5, <1>6, <2>1, <2>2, <2>3, <2>4 DEF NotesKept, Settled, Current
<1>8. NotesRecordWhatWasHeard'
  <2>1. \A e \in notes.text : Settled(e)' \/ (notes.task # Idle /\ notes.turn = e.turn)
    BY <1>1, <1>4, <1>6
  <2> QED
    BY <1>1, <2>1 DEF NotesRecordWhatWasHeard, Settled, Current
<1> QED
  BY <1>7, <1>8 DEF Noted

\* The call is over: nothing is refreshed any more.
LEMMA NotedAtTheEnd ==
    ASSUME Frame, Noted, CallOver, turns' \in Seq(Turn), Len(turns') = Len(turns),
           \A u \in 1 .. Len(turns) : turns'[u].parts = turns[u].parts,
           reopen' = 0 \/ UNCHANGED reopen
    PROVE  Noted'
<1>1. /\ turns \in Seq(Turn) /\ Len(turns) \in Nat
      /\ lost \subseteq 1 .. Len(turns) /\ (turns = <<>> <=> Len(turns) = 0)
  BY NotedParts
<1>2. DOMAIN turns' = 1 .. Len(turns) /\ (turns' = <<>> <=> Len(turns) = 0)
  BY <1>1, LenProperties, EmptySeq
<1>3. /\ notes'.text = notes.text /\ notes'.base = notes.base /\ notes'.turn = notes.turn
      /\ notes'.task = Idle /\ lost' = lost /\ phase' = "over"
  BY DEF CallOver, Frame, Shapes, Notes
<1>4. Len(turns) # 0 => Len(turns) \in 1 .. Len(turns)
  BY <1>1
<1>5. NotesKept
  BY DEF Noted
<1>6. NotesKept'
  BY <1>1, <1>2, <1>3, <1>4, <1>5 DEF NotesKept
<1>7. NotesRecordWhatWasHeard'
  BY <1>3 DEF NotesRecordWhatWasHeard
<1> QED
  BY <1>6, <1>7 DEF Noted

\* A refresh for the last Turn starts from what is settled, and settles the rest.
LEMMA NotedRefresh ==
    ASSUME Frame, Noted, NEW t, t = Len(turns), t # 0, NEW turn, TurnIs(t, turn),
           NEW text \in Seq(Sentence), turn.text = text, turn.parts = turns[t].parts,
           text # <<>> \/ notes.turn # t,
           RefreshNotes(t, text), reopen' = 0, phase # "over", phase' # "over"
    PROVE  Noted'
<1>1. /\ turns \in Seq(Turn) /\ Len(turns) \in Nat /\ t \in 1 .. Len(turns)
      /\ notes \in Notes /\ Len(turns) <= MaxTurns
      /\ notes.turn \in Nat /\ notes.turn <= Len(turns)
      /\ lost \subseteq 1 .. Len(turns)
      /\ \A e \in notes.base : e.turn \in Nat /\ e.turn # 0 /\ e.turn < Len(turns)
                               /\ Settled(e)
      /\ \A e \in notes.text :
           /\ e.turn \in 1 .. Len(turns)
           /\ e.turn = Len(turns) => notes.turn = Len(turns)
           /\ Settled(e) \/ (notes.task # Idle /\ notes.turn = e.turn)
      /\ notes.task # Idle =>
           /\ notes.task[1].exchange.turn = notes.turn
           /\ notes.turn \in 1 .. Len(turns)
  BY NotedParts DEF Frame, Shapes
<1>2. CASE turns[t].parts = 0 \/ text = <<>>
  <2>1. UNCHANGED <<notes, lost>>
    BY <1>2 DEF RefreshNotes
  <2>2. notes.turn # t
    BY <1>1, <1>2, NotedParts DEF Noted, NotesKept
  <2> QED
    BY <2>1, <2>2, NotedElsewhere
<1>3. CASE turns[t].parts # 0 /\ text # <<>>
  <2> DEFINE base == IF notes.turn # t THEN notes.text ELSE notes.base
             e0 == Exchange(t, text)
  <2>1. /\ notes' = [notes EXCEPT !.base = base, !.turn = t, !.task = Refresh(base, e0)]
        /\ lost' = IF notes.task # Idle /\ notes.task[1].exchange.turn # t
                   THEN lost \cup {notes.task[1].exchange.turn} ELSE lost
    BY <1>3 DEF RefreshNotes
  <2>2. e0 \in Recorded /\ e0.turn = t /\ e0.text = text
    BY <1>1, RefreshTypes
  <2> HIDE DEF base, e0
  <2>3. /\ notes'.text = notes.text /\ notes'.base = base /\ notes'.turn = t
        /\ notes'.task = Refresh(base, e0)
    BY <1>1, <2>1 DEF Notes
  <2>4. /\ notes'.task[1].base = base /\ notes'.task[1].exchange = e0
        /\ notes'.task # Idle
    BY <2>3 DEF Refresh, Idle
  <2>5. /\ turns' \in Seq(Turn) /\ Len(turns') = t /\ DOMAIN turns' = 1 .. t
        /\ turns'[t] = turn /\ turns' # <<>>
        /\ \A u \in 1 .. Len(turns) : u # t => turns'[u] = turns[u]
    BY <1>1, LenProperties, EmptySeq DEF TurnIs
  <2>6. /\ lost \subseteq lost'
        /\ notes.task # Idle /\ notes.turn # t => notes.turn \in lost'
        /\ lost' \subseteq 1 .. t
    BY <1>1, <2>1
  <2>7. \A e : e.turn \in 1 .. Len(turns) /\ e.turn # t /\ Settled(e) => Settled(e)'
    BY <2>5, <2>6 DEF Settled, Current
  <2>8. \A e \in notes.text : e.turn # t => Settled(e)'
    <3>1. ASSUME NEW e \in notes.text, e.turn # t PROVE Settled(e)'
      <4>1. CASE Settled(e)
        BY <1>1, <2>7, <3>1, <4>1
      <4>2. CASE ~Settled(e)
        <5>1. notes.turn = e.turn /\ notes.turn # t /\ notes.task # Idle
          BY <1>1, <3>1, <4>2
        <5>2. e.turn \in lost'
          BY <2>6, <5>1
        <5> QED
          BY <5>2 DEF Settled
      <4> QED
        BY <4>1, <4>2
    <3> QED
      BY <3>1
  <2>9. \A e \in notes.base : e.turn # t /\ Settled(e)'
    <3>1. \A e \in notes.base : e.turn \in 1 .. Len(turns) /\ e.turn # t /\ Settled(e)
      BY <1>1
    <3> QED
      BY <2>7, <3>1
  <2>10. \A e \in base : e.turn < t /\ Settled(e)'
    <3>1. CASE notes.turn # t
      <4>1. base = notes.text
        BY <3>1 DEF base
      <4>2. \A e \in base : e.turn # t /\ e.turn \in 1 .. Len(turns)
        BY <1>1, <3>1, <4>1
      <4>3. \A e \in base : e.turn < t
        BY <1>1, <4>2
      <4> QED
        BY <2>8, <4>1, <4>2, <4>3
    <3>2. CASE notes.turn = t
      <4>1. base = notes.base
        BY <3>2 DEF base
      <4> QED
        BY <1>1, <2>9, <4>1
    <3> QED
      BY <3>1, <3>2
  <2>11. turns'[e0.turn].text = e0.text
    BY <2>2, <2>5, <1>1
  <2>12. \A e \in notes.text : e.turn <= t
    BY <1>1
  <2>13. NotesKept'
    <3>1. lost' \subseteq DOMAIN turns' /\ notes'.turn <= Len(turns')
      BY <1>1, <2>3, <2>5, <2>6
    <3>2. \A e \in notes'.base : e.turn < Len(turns') /\ Settled(e)'
      BY <2>3, <2>5, <2>10
    <3>3. /\ \A e \in notes'.text : e.turn <= Len(turns')
          /\ notes'.turn = Len(turns')
      BY <2>3, <2>5, <2>12
    <3>4. turns'[Len(turns')].parts # 0
      BY <1>3, <2>5
    <3>5. /\ notes'.task[1].base = notes'.base
          /\ notes'.task[1].exchange.turn = notes'.turn
          /\ notes'.turn # 0
          /\ notes'.task[1].exchange.text = turns'[notes'.task[1].exchange.turn].text
      BY <1>1, <2>2, <2>3, <2>4, <2>11
    <3>6. reopen' = 0 /\ phase' # "over"
      BY <1>1
    <3>7. \A e \in notes'.base : Settled(e)'
      BY <3>2
    <3>8. \A e \in notes'.base :
             e.text = turns'[e.turn].text \/ e.turn \in lost'
      BY <3>7 DEF Settled, Current
    <3> QED
      BY <3>1, <3>2, <3>3, <3>4, <3>5, <3>6, <3>8 DEF NotesKept, Settled, Current
  <2>14. NotesRecordWhatWasHeard'
    <3>1. \A e \in notes'.text : Settled(e)' \/ notes'.task[1].exchange.turn = e.turn
      BY <2>2, <2>3, <2>4, <2>8
    <3> QED
      BY <2>4, <3>1 DEF NotesRecordWhatWasHeard, Settled, Current
  <2> QED
    BY <2>13, <2>14 DEF Noted
<1> QED
  BY <1>2, <1>3

\* A reply dropped whole takes its exchange out of the notes with it.
LEMMA NotedDiscard ==
    ASSUME Frame, Noted, NEW t, t = Len(turns), t # 0, NEW turn, TurnIs(t, turn),
           DiscardNotes(t), phase # "over", phase' # "over"
    PROVE  Noted'
<1>1. /\ turns \in Seq(Turn) /\ Len(turns) \in Nat /\ t \in 1 .. Len(turns)
      /\ notes \in Notes
      /\ lost \subseteq 1 .. Len(turns)
      /\ \A e \in notes.base : e.turn \in Nat /\ e.turn # 0 /\ e.turn < Len(turns)
                               /\ Settled(e)
  BY NotedParts DEF Frame, Shapes
<1>2. CASE notes.turn # t
  <2>1. UNCHANGED <<notes, lost>>
    BY <1>2 DEF DiscardNotes
  <2> QED
    BY <1>2, <2>1, NotedElsewhere
<1>3. CASE notes.turn = t
  <2>1. /\ notes'.text = notes.base /\ notes'.base = notes.base /\ notes'.turn = 0
        /\ notes'.task = Idle /\ lost' = lost
    BY <1>1, <1>3 DEF DiscardNotes, Notes
  <2>2. /\ turns' \in Seq(Turn) /\ Len(turns') = t /\ DOMAIN turns' = 1 .. t
        /\ \A u \in 1 .. Len(turns) : u # t => turns'[u] = turns[u]
    BY <1>1, LenProperties DEF TurnIs
  <2>3. \A e \in notes.base : e.turn \in 1 .. Len(turns) /\ e.turn # t /\ e.turn < t
                              /\ e.turn <= t
    BY <1>1
  <2>4. \A e \in notes.base : Settled(e)'
    BY <1>1, <2>1, <2>2, <2>3 DEF Settled, Current
  <2>5. lost' \subseteq DOMAIN turns' /\ notes'.turn <= Len(turns') /\ Len(turns') # 0
    BY <1>1, <2>1, <2>2
  <2>6. NotesKept'
    BY <2>1, <2>2, <2>3, <2>4, <2>5 DEF NotesKept, Settled, Current
  <2>7. NotesRecordWhatWasHeard'
    BY <2>1, <2>4 DEF NotesRecordWhatWasHeard, Settled, Current
  <2> QED
    BY <2>6, <2>7 DEF Noted
<1> QED
  BY <1>2, <1>3

\* A step that leaves Turns and notes alone, and the call open.
LEMMA NotedStutters ==
    ASSUME Noted, UNCHANGED <<turns, reopen, notes, lost, phase>>
    PROVE  Noted'
<1>1. NotesKept'
  BY DEF Noted, NotesKept, Settled, Current
<1>2. NotesRecordWhatWasHeard'
  BY DEF Noted, NotesRecordWhatWasHeard
<1> QED
  BY <1>1, <1>2 DEF Noted

\* The notes start empty.
LEMMA NotedInit == Init => Noted
<1> SUFFICES ASSUME Init PROVE Noted
  OBVIOUS
<1>1. /\ notes.text = {} /\ notes.base = {} /\ notes.turn = 0 /\ notes.task = Idle
      /\ lost = {}
  BY DEF Init, NoNotes
<1>2. Len(turns) \in Nat /\ (turns # <<>> => Len(turns) # 0)
      /\ (reopen # 0 => turns # <<>>)
  BY DEF Init
<1> QED
  BY <1>1, <1>2 DEF Noted, NotesKept, NotesRecordWhatWasHeard

\* The background refresh comes back, with notes or without.
LEMMA NotedBack ==
    ASSUME Frame, Noted, NotesArrive \/ NotesFail
    PROVE  Noted'
<1>1. /\ turns \in Seq(Turn) /\ Len(turns) \in Nat /\ DOMAIN turns = 1 .. Len(turns)
      /\ notes \in Notes
      /\ notes.turn \in 1 .. Len(turns) /\ lost \subseteq 1 .. Len(turns)
      /\ \A e \in notes.base : e.turn < Len(turns) /\ e.turn \in Nat
      /\ \A e \in notes.text :
           /\ e.turn \in 1 .. Len(turns)
           /\ e.turn = Len(turns) => notes.turn = Len(turns)
      /\ phase # "over"
      /\ \A e \in notes.base : Settled(e)
      /\ \A e \in notes.text : Settled(e) \/ notes.turn = e.turn
      /\ notes.task[1].base = notes.base
      /\ notes.task[1].exchange.turn = notes.turn
      /\ Current(notes.task[1].exchange)
  <2>1. notes.task # Idle
    BY DEF NotesArrive, NotesFail
  <2> QED
    BY <2>1, NotedParts DEF Frame, Shapes
<1>2. /\ reopen # 0 => notes.turn # Len(turns)
      /\ turns # <<>> /\ turns[Len(turns)].parts = 0 => notes.turn # Len(turns)
  BY DEF Noted, NotesKept
<1>3. UNCHANGED <<turns, reopen, phase>>
  BY DEF NotesArrive, NotesFail
<1> DEFINE e0 == notes.task[1].exchange
<1>4. CASE NotesArrive
  <2>1. /\ notes'.text = notes.base \cup {e0} /\ notes'.base = notes.base
        /\ notes'.turn = notes.turn /\ notes'.task = Idle /\ lost' = lost
    BY <1>1, <1>4 DEF NotesArrive, Notes
  <2> HIDE DEF e0
  <2>2. e0.turn = notes.turn /\ Current(e0)
    BY <1>1 DEF e0
  <2>3. \A e \in notes'.text : /\ e.turn <= Len(turns)
                               /\ e.turn = Len(turns) => notes'.turn = Len(turns)
                               /\ Settled(e)
    BY <1>1, <2>1, <2>2 DEF Settled
  <2>4. NotesKept'
    <3>1. \A e \in notes'.base : /\ e.turn < Len(turns)
                                 /\ e.text = turns[e.turn].text \/ e.turn \in lost
      BY <1>1, <2>1 DEF Settled, Current
    <3>2. notes'.turn <= Len(turns) /\ lost \subseteq DOMAIN turns
      BY <1>1, <2>1
    <3> QED
      BY <1>2, <1>3, <2>1, <2>3, <3>1, <3>2 DEF NotesKept, Settled, Current
  <2>5. NotesRecordWhatWasHeard'
    BY <1>3, <2>1, <2>3 DEF NotesRecordWhatWasHeard, Settled, Current
  <2> QED
    BY <2>4, <2>5 DEF Noted
<1>5. CASE NotesFail
  <2>1. /\ notes'.text = notes.text /\ notes'.base = notes.base
        /\ notes'.turn = notes.turn /\ notes'.task = Idle
        /\ lost' = lost \cup {notes.turn}
    BY <1>1, <1>5 DEF NotesFail, Notes
  <2>2. \A e \in notes'.text : /\ e.turn <= Len(turns)
                               /\ e.turn = Len(turns) => notes'.turn = Len(turns)
                               /\ Current(e) \/ e.turn \in lost'
    BY <1>1, <2>1 DEF Settled
  <2>3. \A e \in notes'.base : Current(e) \/ e.turn \in lost'
    BY <1>1, <2>1 DEF Settled
  <2>4. NotesKept'
    <3>1. \A e \in notes'.base : /\ e.turn < Len(turns)
                                 /\ e.text = turns[e.turn].text \/ e.turn \in lost'
      BY <1>1, <2>1, <2>3 DEF Current
    <3>2. notes'.turn <= Len(turns) /\ lost' \subseteq DOMAIN turns
      <4>1. /\ notes.turn \in 1 .. Len(turns) /\ lost \subseteq 1 .. Len(turns)
            /\ DOMAIN turns = 1 .. Len(turns) /\ Len(turns) \in Nat
        BY <1>1
      <4>2. notes'.turn <= Len(turns)
        BY <2>1, <4>1
      <4>3. lost' = lost \cup {notes.turn}
        BY <2>1
      <4>4. lost' \subseteq 1 .. Len(turns)
        BY <4>1, <4>3
      <4>5. lost' \subseteq DOMAIN turns
        BY <4>1, <4>4, Zenon
      <4> QED
        BY <4>2, <4>5
    <3> QED
      BY <1>2, <1>3, <2>1, <2>2, <3>1, <3>2 DEF NotesKept, Settled, Current
  <2>5. NotesRecordWhatWasHeard'
    BY <1>3, <2>1, <2>2 DEF NotesRecordWhatWasHeard, Current
  <2> QED
    BY <2>4, <2>5 DEF Noted
<1> QED
  BY <1>4, <1>5

\* Every step keeps the notes at what was heard.
LEMMA NotedKept == Frame /\ Noted /\ Next => Noted'
<1> SUFFICES ASSUME Frame, Noted, Next PROVE Noted'
  OBVIOUS
<1>1. /\ turns \in Seq(Turn) /\ Len(turns) \in Nat
      /\ notes.turn \in Nat /\ notes.turn <= Len(turns)
      /\ reopen # 0 => notes.turn # Len(turns)
  BY NotedParts DEF Noted, NotesKept
<1>2. /\ NextTurn \in {Len(turns), Len(turns) + 1} /\ NextTurn # 0
      /\ notes.turn # NextTurn
  <2>1. /\ NextTurn \in 1 .. Len(turns) + 1
        /\ reopen # 0 => NextTurn = Len(turns)
        /\ reopen = 0 => NextTurn = Len(turns) + 1
    BY NextTurnIsLast
  <2> QED
    BY <1>1, <2>1
<1>3. phase = "replying" => /\ reply.turn = Len(turns) /\ reply.turn # 0
                            /\ reply.turn \in 1 .. Len(turns)
                            /\ notes.turn # reply.turn
                            /\ turns[reply.turn] \in Turn /\ Spoken \in Seq(Sentence)
  BY <1>1, ReplyingTurn
<1>4. ASSUME NEW question \in Questions, UserSpeaks(question.asks, question.closes)
      PROVE Noted'
  <2> DEFINE turn == Asked(question.asks, question.closes)
  <2>1. question.asks \in BOOLEAN /\ question.closes \in BOOLEAN
    BY DialogueAssumption
  <2>2. /\ TurnIs(NextTurn, turn) /\ phase = "listening" /\ phase' = "replying"
        /\ UNCHANGED <<notes, lost>>
    BY <1>4, <2>1, UserSpeaksEffect
  <2> HIDE DEF turn
  <2> QED
    BY <1>2, <2>2, NotedElsewhere
<1>5. ASSUME PickupPrompt PROVE Noted'
  <2>1. /\ TurnIs(NextTurn, Prompted) /\ phase = "listening" /\ phase' = phase
        /\ UNCHANGED <<notes, lost>>
    BY <1>5, PickupPromptEffect
  <2> QED
    BY <1>2, <2>1, NotedElsewhere
<1>6. ASSUME AskAgain PROVE Noted'
  BY <1>6, NotedStutters DEF AskAgain
<1>7. ASSUME NEW chunk \in Chunks, NEW marker \in BOOLEAN, ChunkArrives(chunk, marker)
      PROVE Noted'
  <2> DEFINE turn == WithChunk(Cleaned(chunk))
  <2>1. /\ phase = "replying" /\ TurnIs(reply.turn, turn)
        /\ UNCHANGED <<phase, notes, lost>>
    BY <1>7, ChunkEffect
  <2> HIDE DEF turn
  <2> QED
    BY <1>3, <2>1, NotedElsewhere
<1>8. ASSUME Failed PROVE Noted'
  BY <1>1, <1>8, NotedAtTheEnd DEF Failed
<1>9. ASSUME StreamBreaks PROVE Noted'
  <2>1. CASE Failed
    BY <1>8, <2>1
  <2>2. CASE ~Failed
    BY <1>9, <2>2, NotedStutters DEF StreamBreaks
  <2> QED
    BY <2>1, <2>2
<1>10. ASSUME ReplyDone PROVE Noted'
  <2>1. phase = "replying" /\ reopen' = 0
    BY <1>10, ReplyDoneEffect
  <2>2. ASSUME NEW text \in Seq(Sentence), EndsTheCall(text) PROVE Noted'
    <3> DEFINE turn == WithText(reply.turn, text)
    <3>1. turns' = [turns EXCEPT ![reply.turn] = turn] /\ CallOver
      BY <2>2 DEF EndsTheCall
    <3>2. /\ TurnIs(reply.turn, turn) /\ turn.parts = turns[reply.turn].parts
          /\ Len(turns') = Len(turns)
      BY <1>3, <2>1, <3>1, TextEffect
    <3> HIDE DEF turn
    <3>3. /\ turns' \in Seq(Turn)
          /\ \A u \in 1 .. Len(turns) : turns'[u].parts = turns[u].parts
      BY <3>2 DEF TurnIs
    <3> QED
      BY <2>1, <3>1, <3>2, <3>3, NotedAtTheEnd
  <2>3. ASSUME GoesOn PROVE Noted'
    <3>1. /\ RefreshNotes(reply.turn, Spoken) /\ turns' = turns /\ phase' = "listening"
      BY <2>3 DEF GoesOn
    <3>2. TurnIs(reply.turn, turns[reply.turn])
      BY <1>1, <1>3, <2>1, <3>1 DEF TurnIs
    <3>3. turns[reply.turn].text = Spoken
      BY DEF Spoken
    <3> QED
      BY <1>3, <2>1, <3>1, <3>2, <3>3, NotedRefresh
  <2> QED
    BY <1>10, <2>2, <2>3, ReplyDoneEffect
<1>11. ASSUME NEW heard \in Cuts(Spoken), TalkedOver(heard) PROVE Noted'
  <2> DEFINE t == reply.turn
  <2>1. /\ phase = "replying" /\ phase' = "listening" /\ heard \in Seq(Sentence)
        /\ \/ /\ heard # <<>>
              /\ turns' = [turns EXCEPT ![t] = WithCut(t, heard)]
              /\ reopen' = 0
              /\ RefreshNotes(t, heard)
           \/ /\ heard = <<>>
              /\ turns' = [turns EXCEPT ![t] = WithText(t, heard)]
              /\ UNCHANGED <<notes, lost>>
    BY <1>11, TalkedOverEffect
  <2>2. t = Len(turns) /\ t # 0 /\ t \in 1 .. Len(turns) /\ notes.turn # t
    BY <1>3, <2>1
  <2> HIDE DEF t
  <2>3. PICK turn \in {WithText(t, heard), WithCut(t, heard)} :
          turns' = [turns EXCEPT ![t] = turn]
    BY <2>1
  <2>4. heard \in Seq(Sentence)
    BY <2>1
  <2>5. TurnIs(t, turn) /\ turn.text = heard /\ turn.parts = turns[t].parts
    BY <2>2, <2>3, <2>4, TextEffect
  <2>6. CASE heard # <<>>
    BY <2>1, <2>2, <2>5, <2>6, NotedRefresh
  <2>7. CASE heard = <<>>
    BY <2>1, <2>2, <2>5, <2>7, NotedElsewhere
  <2> QED
    BY <2>6, <2>7
<1>12. ASSUME revisable # 0, NEW heard \in Cuts(turns[revisable].text),
              TalkedOverTail(heard)
       PROVE Noted'
  <2> DEFINE t == revisable
  <2>1. /\ phase = "listening" /\ t = Len(turns) /\ t \in 1 .. Len(turns) /\ t # 0
        /\ heard \in Seq(Sentence) /\ UNCHANGED phase
    BY <1>12, TalkedOverTailEffect
  <2>2. \/ /\ heard = <<>>
           /\ turns' = [turns EXCEPT ![t] = WithText(t, heard)]
           /\ DiscardNotes(t)
        \/ /\ heard # <<>>
           /\ turns' = [turns EXCEPT ![t] = WithCut(t, heard)]
           /\ reopen' = 0
           /\ RefreshNotes(t, heard)
        \/ UNCHANGED <<turns, reopen, notes, lost>>
    BY <1>12, TalkedOverTailEffect
  <2> HIDE DEF t
  <2>3. CASE UNCHANGED <<turns, reopen, notes, lost>>
    BY <2>1, <2>3, NotedStutters
  <2>4. CASE ~UNCHANGED <<turns, reopen, notes, lost>>
    <3>1. PICK turn \in {WithText(t, heard), WithCut(t, heard)} :
            turns' = [turns EXCEPT ![t] = turn]
      BY <2>2, <2>4
    <3>2. TurnIs(t, turn) /\ turn.text = heard /\ turn.parts = turns[t].parts
      BY <2>1, <3>1, TextEffect
    <3>3. CASE heard # <<>>
      BY <2>1, <2>2, <2>4, <3>2, <3>3, NotedRefresh
    <3>4. CASE heard = <<>>
      BY <2>1, <2>2, <2>4, <3>2, <3>4, NotedDiscard
    <3> QED
      BY <3>3, <3>4
  <2> QED
    BY <2>3, <2>4
<1>13. ASSUME NotesArrive \/ NotesFail PROVE Noted'
  BY <1>13, NotedBack
<1> QED
  BY <1>4, <1>5, <1>6, <1>7, <1>8, <1>9, <1>10, <1>11, <1>12, <1>13
     DEF Next, ChunkRestarts, SynthesisFails, NothingButRepeats
-----------------------------------------------------------------------------
(* The invariant of the whole specification, and the theorems.               *)

Inv == Once /\ Counted /\ Closed /\ Noted

\* Every call starts in the invariant.
LEMMA InvInit == Init => Inv
<1> SUFFICES ASSUME Init PROVE Inv
  OBVIOUS
<1>1. Once
  BY FrameInit, OnceInit DEF Once
<1> QED
  BY <1>1, CountedInit, ClosedInit, NotedInit DEF Inv

\* Every step of a call keeps it.
LEMMA InvNext == Inv /\ [Next]_vars => Inv'
<1> SUFFICES ASSUME Inv, [Next]_vars PROVE Inv'
  OBVIOUS
<1>1. Frame /\ Once /\ Counted /\ Closed /\ Noted
  BY DEF Inv, Once
<1>2. CASE Next
  <2>1. Once'
    BY <1>1, <1>2, FrameKept, OnceKept DEF Once
  <2> QED
    BY <1>1, <1>2, <2>1, CountedKept, ClosedKept, NotedKept DEF Inv
<1>3. CASE UNCHANGED vars
  <2>1. Once'
    BY <1>1, <1>3, FrameStutters, OnceStutters DEF Once, vars
  <2>2. Counted'
    <3>1. SameRequests
      BY <1>1, <1>3, SameRequestsNoTurn DEF vars
    <3> QED
      BY <1>1, <3>1, CountedOthers
  <2>3. Closed'
    BY <1>1, <1>3 DEF Closed, ClosingsAsked, EndedWithGoodbye, vars
  <2>4. Noted'
    BY <1>1, <1>3, NotedStutters DEF vars
  <2> QED
    BY <2>1, <2>2, <2>3, <2>4 DEF Inv
<1> QED
  BY <1>2, <1>3

\* Every state of a call is in the invariant.
LEMMA Invariance == Spec => []Inv
<1> QED
  BY InvInit, InvNext, PTL DEF Spec

\* For any sentences, chunks and caps: the state of a call has its types, the system
\* prompt of a reverse keeps of the caller's text the description and the example calls
\* only, and only Turns there are can be reopened, revised or lost (orchestrator.py,
\* prompting.py).
THEOREM TypeCorrect == Spec => []TypeOK
<1>1. Inv => TypeOK
  <2> SUFFICES ASSUME Inv PROVE TypeOK
    OBVIOUS
  <2>1. Shapes /\ lost \subseteq DOMAIN turns
    BY DEF Inv, Once, Frame, Noted, NotesKept
  <2>2. reply.instruction \in Instruction
    BY <2>1 DEF Shapes, Reply
  <2> QED
    BY <2>1, <2>2 DEF Shapes, TypeOK, OfTheCall
<1> QED
  BY <1>1, Invariance, PTL

\* However a reply is cut off, talked over, revised, regenerated or retried: the user
\* hears a sentence of any substance in two Turns only if the later was exempt from
\* the guards (orchestrator.py, _speak_reply and repetition.py).
THEOREM HeardOnce == Spec => []PointsAreHeardOnce
<1>1. Inv => PointsAreHeardOnce
  BY DEF Inv, Once
<1> QED
  BY <1>1, Invariance, PTL

\* However the utterances of a Turn are joined: the first request in a row is answered
\* with a repetition and the next is not (orchestrator.py, run_turn).
THEOREM RepeatedOnce == Spec => []RepeatedOnRequestOnce
<1>1. Inv => RepeatedOnRequestOnce
  BY DEF Inv, Counted
<1> QED
  BY <1>1, Invariance, PTL

\* A call the Persona ends is taken leave of, or ends on the opening owed to a user who
\* said goodbye first (orchestrator.py, _generate_reply and _speak_fallback_closing).
THEOREM LeaveIsTaken == Spec => []EndedWithGoodbye
<1>1. Inv => EndedWithGoodbye
  BY DEF Inv, Closed
<1> QED
  BY <1>1, Invariance, PTL

\* Whatever the user talks over and whenever a refresh comes back, fails or is
\* cancelled: an exchange stands in the notes as it was heard, or the refresh that
\* would correct it is under way or lost (call_notes.py).
THEOREM NotesAreHeard == Spec => []NotesRecordWhatWasHeard
<1>1. Inv => NotesRecordWhatWasHeard
  BY DEF Inv, Noted
<1> QED
  BY <1>1, Invariance, PTL
================================================================================
