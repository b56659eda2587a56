------------------------------ MODULE ReplyChecks ------------------------------
(***************************************************************************)
(* The text comparisons behind the repetition guards                       *)
(* (backend/session/repetition.py) and the verdicts on one reply           *)
(* (backend/session/reply_checks.py), over sentences instead of            *)
(* characters.                                                             *)
(*                                                                         *)
(* A text is a sequence of sentences.  A sentence is one of a small        *)
(* vocabulary, whole or cut off; its length class and what the language    *)
(* pack's patterns find in it are fixed by the vocabulary.  A fragment is  *)
(* never said again word for word, and holds at least the three words      *)
(* resumes() asks for.                                                     *)
(***************************************************************************)
EXTENDS Naturals, Sequences, FiniteSets

CONSTANTS Points,   \* sentences of MIN_LOOP_REPLY_CHARS and more
          Demands   \* of these, the ones that end on a question or a demand

\* Of MIN_SENTENCE_LEN but not MIN_LOOP_REPLY_CHARS: a greeting with the Persona's
\* name, a farewell, the pack's fallback_closing_line.  Shorter than both: the
\* user's words read back, the lower-case end of a cut-off sentence, a "Hallo?".
Phrases == {"greeting", "goodbye", "signoff"}
Scraps == {"echo", "tail", "hallo"}

\* The length classes do not overlap.
ASSUME VocabularyAssumption ==
    /\ Demands \subseteq Points
    /\ Points \cap (Phrases \cup Scraps) = {}

Sentence == [text: Points \cup Phrases \cup Scraps, whole: BOOLEAN]
Whole(text) == [text |-> text, whole |-> TRUE]

\* A history line: what was heard of a reply, and the dash of a cut-off one.
Line == [text: Seq(Sentence), mark: BOOLEAN]

-----------------------------------------------------------------------------
(* repetition.py *)

InText(text) == {text[i] : i \in DOMAIN text}

\* Sentences long enough to be content.
IsPoint(s) == s.whole /\ s.text \in Points
\* long_sentences: long enough to count as shared between replies.
IsLong(s) == s.whole /\ s.text \in Points \cup Phrases

StripEchoedPrefix(text) ==
    IF text # <<>> /\ Head(text) = Whole("echo") THEN Tail(text) ELSE text
WithoutFirstSentence(text) == Tail(text)
LastSentence(text) == text[Len(text)]

\* What is left of a text, in order, once some sentences are dropped.
Without(text, dropped) ==
    LET kept[n \in 0..Len(text)] ==
          IF n = 0 THEN <<>>
          ELSE IF text[n] \in dropped THEN kept[n - 1]
          ELSE Append(kept[n - 1], text[n])
    IN  kept[Len(text)]

\* A cut-off sentence taken up from its start, reworded or not; <<>> when the
\* previous reply was not cut off.
Resumes(s, cutOff) == cutOff # <<>> /\ s.text = cutOff[1].text
DropResumedSentences(text, cutOff) ==
    Without(text, {s \in InText(text) : Resumes(s, cutOff)})

SaidSentences(lines) ==
    UNION {{s \in InText(lines[i].text) : IsPoint(s)} : i \in DOMAIN lines}
DropSaidSentences(text, said) == Without(text, said)

HasRepeatedSentence(text) ==
    \E i, j \in DOMAIN text : i < j /\ IsLong(text[i]) /\ text[i] = text[j]

\* The dash ends the last sentence of a line, which then equals no other.
LongSentences(line) ==
    LET last == Len(line.text)
        n == IF line.mark THEN last - 1 ELSE last
    IN  {line.text[i] : i \in {k \in 1..n : IsLong(line.text[k])}}

Restates(text, previous) ==
    LET sentences == {s \in InText(text) : IsLong(s)}
        carried == LongSentences(previous) \cap sentences
    IN  /\ Cardinality(sentences) >= 2
        /\ 2 * Cardinality(carried) > Cardinality(sentences)

-----------------------------------------------------------------------------
(* reply_checks.py *)

SameText(text, line) == text # <<>> /\ line = [text |-> text, mark |-> FALSE]

RepeatsLast(text, replies) ==
    replies # <<>> /\ SameText(text, replies[Len(replies)])

\* Shorter replies recur naturally.
LoopLength(text) ==
    \/ \E s \in InText(text) : IsPoint(s)
    \/ Cardinality({i \in DOMAIN text : IsLong(text[i])}) >= 2
RepeatsEarlier(text, replies, excludeLast) ==
    /\ LoopLength(text)
    /\ \E i \in DOMAIN replies :
          /\ excludeLast => i < Len(replies)
          /\ SameText(text, replies[i])

RestatesPrevious(text, replies) ==
    replies # <<>> /\ Restates(text, replies[Len(replies)])

Reintroduces(chunk, replies) ==
    replies # <<>> /\ Head(chunk) = Whole("greeting")

RepeatsEarlierOpening(chunk, replies) ==
    /\ IsPoint(Head(chunk))
    /\ \E i \in DOMAIN replies :
          replies[i].text # <<>> /\ Head(replies[i].text) = Head(chunk)

SaysGoodbye(text) == Whole("goodbye") \in InText(text)
StillPressing(text) ==
    /\ ~SaysGoodbye(text)
    /\ text # <<>>
    /\ LastSentence(text).text \in Demands

Looping(text, replies, allowRepetition) ==
    \/ HasRepeatedSentence(text)
    \/ RepeatsEarlier(text, replies, allowRepetition)
    \/ ~allowRepetition /\ RepeatsLast(text, replies)
    \/ ~allowRepetition /\ RestatesPrevious(text, replies)

\* Mutant of Ending: a wordless ending needs no sign-off.
EndingWithoutWords(text, replies, marker, closing, allowRepetition) ==
    LET loops == Looping(text, replies, allowRepetition)
        ends == marker \/ closing \/ loops \/ SaysGoodbye(text)
    IN  [ends |-> ends,
         needsFallback |-> ends /\ text # <<>> /\ (loops \/ (marker /\ ~closing))]

\* ending(): whether the reply ends the call, and whether a goodbye must follow.
Ending(text, replies, marker, closing, allowRepetition) ==
    LET loops == Looping(text, replies, allowRepetition)
        ends == marker \/ closing \/ loops \/ SaysGoodbye(text)
    IN  [ends |-> ends,
         needsFallback |-> ends /\ (text = <<>> \/ loops \/ (marker /\ ~closing))]
================================================================================
