---------------------------- MODULE LiveCallProofs ----------------------------
(***************************************************************************)
(* Proofs about LiveCall, for every value of its constants.  First the     *)
(* types and the order of Turns and prompts; then the words of the call.   *)
(***************************************************************************)
EXTENDS LiveCall, SequenceTheorems, TLAPS

-----------------------------------------------------------------------------
(* Types of the data                                                       *)

\* A Turn stays a Turn when it is opened, emptied or cut down to what was heard.
LEMMA TurnTypes ==
    /\ FreshTurn \in Turn
    /\ \A turn \in Turn : Unsaid(turn) \in Turn /\ Silent(Unsaid(turn))
    /\ \A turn \in Turn, n \in Nat :
          Trimmed(turn, n) \in Turn /\ (n # 0 => ~Silent(Trimmed(turn, n)))
    /\ \A turn \in Turn : OneChunkMore(turn) \in Turn /\ ~Silent(OneChunkMore(turn))
<1>1. FreshTurn \in Turn
  BY DEF FreshTurn, Turn
<1>2. ASSUME NEW turn \in Turn PROVE Unsaid(turn) \in Turn /\ Silent(Unsaid(turn))
  BY DEF Unsaid, Turn, Silent
<1>3. ASSUME NEW turn \in Turn, NEW n \in Nat
      PROVE  Trimmed(turn, n) \in Turn /\ (n # 0 => ~Silent(Trimmed(turn, n)))
  BY DEF Trimmed, Turn, Silent
<1>4. ASSUME NEW turn \in Turn
      PROVE  OneChunkMore(turn) \in Turn /\ ~Silent(OneChunkMore(turn))
  <2>1. OneChunkMore(turn) \in Turn /\ OneChunkMore(turn).words # 0
    BY DEF OneChunkMore, Turn
  <2>2. QED
    BY <2>1 DEF Silent
<1>5. QED BY <1>1, <1>2, <1>3, <1>4

\* Both kinds of message are messages.
LEMMA MessageTypes ==
    /\ \A t \in Nat, n \in Nat : Question(t, n) \in Message
    /\ \A t \in Nat, turn \in Turn, mark \in BOOLEAN : Reply(t, turn, mark) \in Message
<1>1. \A t \in Nat, n \in Nat : Question(t, n) \in Message
  BY DEF Question, Message
<1>2. \A t \in Nat, turn \in Turn, mark \in BOOLEAN : Reply(t, turn, mark) \in Message
  BY DEF Reply, Message, Turn
<1>3. QED BY <1>1, <1>2

\* Dropping the last element of a sequence leaves a sequence.
LEMMA FrontType ==
    ASSUME NEW S, NEW s \in Seq(S)
    PROVE  Front(s) \in Seq(S)
<1>1. CASE s = <<>>
  BY <1>1, SubSeqEmpty DEF Front
<1>2. CASE s # <<>>
  <2>1. Len(s) \in Nat /\ Len(s) # 0
    BY <1>2
  <2>2. QED
    BY <2>1 DEF Front
<1>3. QED BY <1>1, <1>2

\* One Turn of the list is replaced; the others and their number stay.
LEMMA SetTurn ==
    ASSUME NEW turns \in Seq(Turn), NEW t \in 1..Len(turns), NEW e \in Turn
    PROVE  /\ [turns EXCEPT ![t] = e] \in Seq(Turn)
           /\ Len([turns EXCEPT ![t] = e]) = Len(turns)
           /\ [turns EXCEPT ![t] = e][t] = e
           /\ \A s \in 1..Len(turns) : s # t => [turns EXCEPT ![t] = e][s] = turns[s]
BY ExceptSeq

\* A reported position never reaches past what was voiced.
LEMMA CutType ==
    ASSUME NEW g \in Generator, NEW pos \in Position
    PROVE  Cut(g, pos) \in Position /\ Cut(g, pos) \in Nat
BY CallAssumption DEF Cut, Generator, Position

-----------------------------------------------------------------------------
(* What a handler of a played position may do to the call                  *)

\* The Turn numbered t is the last one, and unanswered only while it is open.
AnsweredOrOpen(o, t) == o.reopen = 0 => ~Silent(o.turns[t])

\* The handler turned o into r: it touched Turn t only, opened no other, and
\* neither ended the call nor revived it.
Handled(o, r, t) ==
    /\ r \in Orchestrator
    /\ Len(r.turns) = Len(o.turns)
    /\ \A s \in 1..Len(o.turns) : s # t => r.turns[s] = o.turns[s]
    /\ r.ended = o.ended
    /\ r.reopen \in {0, t, o.reopen}
    /\ r.revisable \in {0, o.revisable}
    /\ AnsweredOrOpen(o, t) => AnsweredOrOpen(r, t)

\* Committing a heard part closes the Turn with words in it.
LEMMA CommitHeardHandled ==
    ASSUME NEW o \in Orchestrator, NEW t \in 1..Len(o.turns),
           NEW heard \in Position \ {0}, NEW earlier \in Seq(Message)
    PROVE  Handled(o, CommitHeard(o, t, heard, earlier), t)
<1> DEFINE e == Trimmed(o.turns[t], heard)
           turns1 == [o.turns EXCEPT ![t] = e]
           history1 == Append(earlier, Reply(t, e, TRUE))
<1>1. heard \in Nat /\ heard # 0 /\ t \in Nat /\ o.turns \in Seq(Turn)
  BY CallAssumption DEF Position, Orchestrator
<1>2. o.turns[t] \in Turn
  BY <1>1, ElementOfSeq
<1>3. e \in Turn /\ ~Silent(e)
  BY <1>1, <1>2, TurnTypes
<1> HIDE DEF e
<1>4. history1 \in Seq(Message)
  <2>1. Reply(t, e, TRUE) \in Message
    BY <1>1, <1>3, MessageTypes
  <2>2. QED
    BY <2>1, AppendProperties
<1>5. /\ turns1 \in Seq(Turn)
      /\ Len(turns1) = Len(o.turns)
      /\ turns1[t] = e
      /\ \A s \in 1..Len(o.turns) : s # t => turns1[s] = o.turns[s]
  BY <1>1, <1>3, SetTurn
<1>6. CommitHeard(o, t, heard, earlier)
        = [o EXCEPT !.turns = turns1, !.history = history1, !.reopen = 0]
  BY DEF CommitHeard, Orchestrator, e
<1> HIDE DEF turns1, history1
<1> DEFINE r == [o EXCEPT !.turns = turns1, !.history = history1, !.reopen = 0]
<1>7. /\ r \in Orchestrator /\ r.turns = turns1 /\ r.reopen = 0
      /\ r.ended = o.ended /\ r.revisable = o.revisable
  BY <1>4, <1>5 DEF Orchestrator
<1> HIDE DEF r
<1>8. QED
  BY <1>3, <1>5, <1>6, <1>7 DEF Handled, AnsweredOrOpen, r

\* Two handlers in a row are a handler.
LEMMA HandledTransitive ==
    ASSUME NEW o \in Orchestrator, NEW p, NEW r, NEW t \in 1..Len(o.turns),
           Handled(o, p, t), Handled(p, r, t)
    PROVE  Handled(o, r, t)
BY DEF Handled

\* Consuming the position and closing the reply for revision are handlers.
LEMMA TakenAndClosedHandled ==
    ASSUME NEW o \in Orchestrator, NEW t \in 1..Len(o.turns), NEW pos \in Position
    PROVE  /\ Handled(o, [o EXCEPT !.bargeIn = pos], t)
           /\ Handled(o, [o EXCEPT !.revisable = 0], t)
<1>1. Handled(o, [o EXCEPT !.bargeIn = pos], t)
  BY DEF Handled, Orchestrator, AnsweredOrOpen
<1>2. Handled(o, [o EXCEPT !.revisable = 0], t)
  BY DEF Handled, Orchestrator, AnsweredOrOpen
<1>3. QED BY <1>1, <1>2

\* Emptying a Turn is a handler as long as the Turn is open afterwards.
LEMMA UnsaidHandled ==
    ASSUME NEW o \in Orchestrator, NEW t \in 1..Len(o.turns), NEW h \in Seq(Message)
    PROVE  Handled(o, [o EXCEPT !.turns[t] = Unsaid(@), !.history = h, !.reopen = t], t)
<1> DEFINE turns1 == [o.turns EXCEPT ![t] = Unsaid(o.turns[t])]
           r == [o EXCEPT !.turns = turns1, !.history = h, !.reopen = t]
<1>1. o.turns \in Seq(Turn) /\ t \in Nat /\ t # 0
  BY DEF Orchestrator
<1>2. Unsaid(o.turns[t]) \in Turn
  BY <1>1, ElementOfSeq, TurnTypes
<1>3. /\ turns1 \in Seq(Turn)
      /\ Len(turns1) = Len(o.turns)
      /\ \A s \in 1..Len(o.turns) : s # t => turns1[s] = o.turns[s]
  BY <1>1, <1>2, SetTurn
<1>4. [o EXCEPT !.turns[t] = Unsaid(@), !.history = h, !.reopen = t] = r
  BY DEF Orchestrator
<1> HIDE DEF turns1
<1>5. r \in Orchestrator /\ r.turns = turns1 /\ r.reopen = t
      /\ r.ended = o.ended /\ r.revisable = o.revisable
  BY <1>1, <1>3 DEF Orchestrator
<1> HIDE DEF r
<1>6. QED
  BY <1>1, <1>3, <1>4, <1>5 DEF Handled, AnsweredOrOpen

\* _revise_committed_reply is a handler of the generator's Turn.
LEMMA ReviseHandled ==
    ASSUME NEW o \in Orchestrator, NEW g \in Generator, NEW pos \in Position,
           g.turn \in 1..Len(o.turns)
    PROVE  Handled(o, ReviseCommittedReply(o, g, pos), g.turn)
<1> DEFINE t == g.turn
           closed == [o EXCEPT !.revisable = 0]
           heard == Cut(g, pos)
<1>1. /\ Handled(o, closed, t) /\ closed \in Orchestrator
      /\ closed.turns = o.turns /\ closed.history = o.history
  <2>1. Handled(o, closed, t)
    BY CallAssumption, TakenAndClosedHandled DEF Position
  <2>2. QED
    BY <2>1 DEF Handled, Orchestrator
<1>2. Front(o.history) \in Seq(Message)
  BY FrontType DEF Orchestrator
<1>3. heard \in Position
  BY CutType
<1> HIDE DEF closed, heard
<1>4. Handled(o, [closed EXCEPT !.turns[t] = Unsaid(@), !.history = Front(@), !.reopen = t], t)
  <2>1. Handled(closed, [closed EXCEPT !.turns[t] = Unsaid(@), !.history = Front(o.history),
                                       !.reopen = t], t)
    BY <1>1, <1>2, UnsaidHandled
  <2>2. [closed EXCEPT !.turns[t] = Unsaid(@), !.history = Front(@), !.reopen = t]
        = [closed EXCEPT !.turns[t] = Unsaid(@), !.history = Front(o.history), !.reopen = t]
    BY <1>1
  <2>3. QED
    BY <1>1, <2>1, <2>2, HandledTransitive
<1>5. CASE heard = 0
  BY <1>1, <1>4, <1>5 DEF ReviseCommittedReply, closed, heard
<1>6. CASE heard # 0
  <2>1. Handled(closed, CommitHeard(closed, t, heard, Front(o.history)), t)
    BY <1>1, <1>2, <1>3, <1>6, CommitHeardHandled
  <2>2. Handled(o, CommitHeard(closed, t, heard, Front(o.history)), t)
    BY <1>1, <2>1, HandledTransitive
  <2>3. QED
    BY <1>1, <1>6, <2>2 DEF ReviseCommittedReply, closed, heard
<1>7. QED BY <1>5, <1>6

\* So are both ways a position is taken up.
LEMMA NoteHandled ==
    ASSUME NEW o \in Orchestrator, NEW g \in Generator, NEW pos \in Position,
           g.turn \in 1..Len(o.turns)
    PROVE  /\ Handled(o, NoteBargeIn(o, g, pos), g.turn)
           /\ Handled(o, NoteLateBargeIn(o, g, pos), g.turn)
<1>1. Handled(o, ReviseCommittedReply(o, g, pos), g.turn)
  BY ReviseHandled
<1>2. Handled(o, [o EXCEPT !.bargeIn = pos], g.turn)
  BY TakenAndClosedHandled
<1>3. Handled(o, o, g.turn)
  BY DEF Handled
<1>4. QED
  BY <1>1, <1>2, <1>3 DEF NoteBargeIn, NoteLateBargeIn

\* The teardown is one, when the Turn of an uncommitted reply is the open one.
LEMMA FinalizeHandled ==
    ASSUME NEW o \in Orchestrator, NEW g \in Generator,
           g.turn \in 1..Len(o.turns),
           ~g.committed => o.reopen = g.turn
    PROVE  Handled(o, FinalizeInterrupted(o, g), g.turn)
<1> DEFINE t == g.turn
           taken == [o EXCEPT !.bargeIn = AllPlayed]
           heard == Cut(g, o.bargeIn)
<1>1. AllPlayed \in Position /\ o.bargeIn \in Position
  BY CallAssumption DEF AllPlayed, Position, Orchestrator
<1>2. /\ Handled(o, taken, t) /\ taken \in Orchestrator
      /\ taken.turns = o.turns /\ taken.history = o.history /\ taken.reopen = o.reopen
      /\ o.history \in Seq(Message)
  <2>1. Handled(o, taken, t)
    BY <1>1, TakenAndClosedHandled
  <2>2. QED
    BY <2>1 DEF Handled, Orchestrator
<1>3. heard \in Position /\ heard \in Nat
  BY <1>1, CutType
<1> HIDE DEF taken, heard
<1>4. CASE g.committed
  <2>1. Handled(taken, ReviseCommittedReply(taken, g, o.bargeIn), t)
    BY <1>1, <1>2, ReviseHandled
  <2>2. Handled(o, ReviseCommittedReply(taken, g, o.bargeIn), t)
    BY <1>2, <2>1, HandledTransitive
  <2>3. QED
    BY <1>4, <2>2 DEF FinalizeInterrupted, taken
<1>5. CASE ~g.committed /\ g.spokeYet /\ heard # 0
  <2>1. Handled(taken, CommitHeard(taken, t, heard, o.history), t)
    BY <1>2, <1>3, <1>5, CommitHeardHandled
  <2>2. Handled(o, CommitHeard(taken, t, heard, o.history), t)
    BY <1>2, <2>1, HandledTransitive
  <2>3. QED
    BY <1>3, <1>5, <2>2 DEF FinalizeInterrupted, taken, heard
<1>6. ASSUME ~g.committed
      PROVE  Handled(o, [taken EXCEPT !.turns[t] = Unsaid(@)], t)
  <2>1. Handled(taken, [taken EXCEPT !.turns[t] = Unsaid(@), !.history = o.history,
                                     !.reopen = t], t)
    BY <1>2, UnsaidHandled
  <2>2. [taken EXCEPT !.turns[t] = Unsaid(@), !.history = o.history, !.reopen = t]
        = [taken EXCEPT !.turns[t] = Unsaid(@)]
    BY <1>2, <1>6 DEF Orchestrator
  <2>3. QED
    BY <1>2, <2>1, <2>2, HandledTransitive
<1>7. QED
  BY <1>3, <1>4, <1>5, <1>6 DEF FinalizeInterrupted, taken, heard

-----------------------------------------------------------------------------
(* The inductive invariant                                                 *)

\* Somebody may still touch the generator's Turn.
Running == phase \in TurnPhases \/ orch.revisable # 0 \/ parked

\* It is the last one, and there is one.
RunsLastTurn == Running => Len(orch.turns) # 0 /\ gen.turn = Len(orch.turns)

\* A generator is parked only after the call.
ParkedAfterwards == parked => phase \in {"over", "recorded"}

\* A Turn stays open until its reply is committed.
OpenUntilCommitted ==
    (phase \in TurnPhases \/ parked) /\ ~gen.committed => orch.reopen = gen.turn

\* Nothing is committed before the reply is whole, nothing sounds before the Turn's
\* question is known, and nothing is revisable then.
NotCommittedEarly ==
    /\ phase \in {"transcribing", "measuring", "replying", "announcing"} => ~gen.committed
    /\ phase \in {"transcribing", "measuring"} => ~gen.spokeYet
    /\ phase = "transcribing" => orch.revisable = 0

\* The last Turn is answered, or the next utterance reopens it.
LastAnsweredOrOpen == Len(orch.turns) # 0 => AnsweredOrOpen(orch, Len(orch.turns))

\* Where the Turn must have words.
Voiced ==
    \/ phase = "announcing"
    \/ phase = "replying" /\ gen.spokeYet
    \/ phase \in {"completing", "settling"} /\ ~orch.ended
VoicedHasWords == Voiced => ~Silent(Current)

\* The fixed closing line belongs to an ending.
FarewellEnds == phase \in {"farewell", "signingOff"} => orch.ended

IInv ==
    /\ TypeOK
    /\ RunsLastTurn
    /\ ParkedAfterwards
    /\ OpenUntilCommitted
    /\ NotCommittedEarly
    /\ EarlierTurnsAnswered
    /\ LastAnsweredOrOpen
    /\ VoicedHasWords
    /\ FarewellEnds
    /\ EndedNeverRevived

-----------------------------------------------------------------------------
(* Facts the steps share                                                   *)

\* What the invariant says of the list of Turns, in the form the provers use.
LEMMA TurnList ==
    ASSUME NEW o \in Orchestrator
    PROVE  /\ o.turns \in Seq(Turn)
           /\ o.history \in Seq(Message)
           /\ Len(o.turns) \in Nat
           /\ DOMAIN o.turns = 1..Len(o.turns)
           /\ \A t \in 1..Len(o.turns) : o.turns[t] \in Turn
           /\ o.turns = <<>> <=> Len(o.turns) = 0
<1>1. o.turns \in Seq(Turn) /\ o.history \in Seq(Message)
  BY DEF Orchestrator
<1>2. QED
  BY <1>1, ElementOfSeq, LenProperties, EmptySeq

\* A fresh or an exited generator is one, of the same Turn.
LEMMA GeneratorTypes ==
    /\ \A kind \in {"opening", "prompt", "user"}, t \in Nat, b \in BOOLEAN :
          FreshGenerator(kind, t, b) \in Generator
    /\ \A g \in Generator :
          /\ Exited(g) \in Generator
          /\ Exited(g).turn = g.turn
          /\ Exited(g).committed = g.committed
<1>1. 0 \in Position
  BY CallAssumption DEF Position
<1>2. ASSUME NEW kind \in {"opening", "prompt", "user"}, NEW t \in Nat, NEW b \in BOOLEAN
      PROVE  FreshGenerator(kind, t, b) \in Generator
  BY <1>1 DEF FreshGenerator, Generator
<1>3. ASSUME NEW g \in Generator
      PROVE  /\ Exited(g) \in Generator
             /\ Exited(g).turn = g.turn
             /\ Exited(g).committed = g.committed
  <2> DEFINE f == FreshGenerator("user", g.turn, FALSE)
  <2>1. f \in Generator /\ f.turn = g.turn
    BY <1>2 DEF FreshGenerator, Generator
  <2>2. Exited(g) = [f EXCEPT !.spoken = g.spoken, !.committed = g.committed]
    BY DEF Exited
  <2> HIDE DEF f
  <2>3. QED
    BY <2>1, <2>2 DEF Generator
<1>4. QED BY <1>2, <1>3

\* A regeneration starts the generator's attempt over.
LEMMA RegeneratedType ==
    ASSUME NEW g \in Generator,
           NEW r, r = [g EXCEPT !.round = 1, !.attempt = 0, !.endsCall = FALSE,
                                !.suppressed = FALSE]
    PROVE  /\ r \in Generator /\ r.turn = g.turn /\ r.committed = g.committed
           /\ r.spokeYet = g.spokeYet
<1> DEFINE g1 == [g EXCEPT !.round = 1]
           g2 == [g1 EXCEPT !.attempt = 0]
<1>1. /\ g1 \in Generator /\ g1.turn = g.turn /\ g1.committed = g.committed
      /\ g1.spokeYet = g.spokeYet
  BY DEF Generator
<1>2. r = [g2 EXCEPT !.endsCall = FALSE, !.suppressed = FALSE]
  BY DEF Generator
<1> HIDE DEF g1
<1>3. /\ g2 \in Generator /\ g2.turn = g1.turn /\ g2.committed = g1.committed
      /\ g2.spokeYet = g1.spokeYet
  BY <1>1 DEF Generator
<1> HIDE DEF g2
<1>4. QED
  BY <1>1, <1>2, <1>3 DEF Generator

\* A transcript consists of Turns.
LEMMA UtterancesType ==
    ASSUME NEW o \in Orchestrator, NEW t \in DOMAIN Utterances(o)
    PROVE  Utterances(o)[t] \in Turn
BY TurnList DEF Utterances

\* One Turn is rewritten, and perhaps the history with it.
Edited(o, t, e, h) == [o EXCEPT !.turns[t] = e, !.history = h]

\* Editing one Turn and the messages keeps the object's type, and every other Turn.
LEMMA EditTurn ==
    ASSUME NEW o \in Orchestrator, NEW t \in 1..Len(o.turns), NEW e \in Turn,
           NEW h \in Seq(Message)
    PROVE  /\ Edited(o, t, e, h) \in Orchestrator
           /\ Len(Edited(o, t, e, h).turns) = Len(o.turns)
           /\ Edited(o, t, e, h).turns[t] = e
           /\ \A s \in 1..Len(o.turns) : s # t => Edited(o, t, e, h).turns[s] = o.turns[s]
           /\ Edited(o, t, e, h).reopen = o.reopen
           /\ Edited(o, t, e, h).revisable = o.revisable
           /\ Edited(o, t, e, h).ended = o.ended
           /\ Edited(o, t, e, h).history = h
<1> DEFINE turns1 == [o.turns EXCEPT ![t] = e]
           r == [o EXCEPT !.turns = turns1, !.history = h]
<1>1. /\ turns1 \in Seq(Turn)
      /\ Len(turns1) = Len(o.turns)
      /\ turns1[t] = e
      /\ \A s \in 1..Len(o.turns) : s # t => turns1[s] = o.turns[s]
  BY TurnList, SetTurn
<1>2. Edited(o, t, e, h) = r
  BY DEF Orchestrator, Edited
<1> HIDE DEF turns1
<1>3. /\ r \in Orchestrator /\ r.turns = turns1 /\ r.reopen = o.reopen /\ r.history = h
      /\ r.revisable = o.revisable /\ r.ended = o.ended
  BY <1>1 DEF Orchestrator
<1> HIDE DEF r
<1>4. QED
  BY <1>1, <1>2, <1>3

-----------------------------------------------------------------------------
(* The steps                                                               *)

\* The running Turn is in the list.
LEMMA RunningTurn ==
    ASSUME IInv
    PROVE  /\ orch \in Orchestrator /\ gen \in Generator
           /\ Running => gen.turn \in 1..Len(orch.turns) /\ Current \in Turn
BY TurnList DEF IInv, TypeOK, RunsLastTurn, Current

\* Steps that leave the Turns alone and advance the generator only.
LEMMA GeneratorSteps ==
    ASSUME IInv,
           \/ TranscriptionFails \/ SpeakingAnnounced \/ SynthesisFails \/ MarkerAlone
           \/ ChunkSuppressed \/ FarewellSynthesized \/ FarewellFails \/ Finished
    PROVE  IInv'
<1> USE DEF IInv, RunsLastTurn, Running, ParkedAfterwards, OpenUntilCommitted,
            NotCommittedEarly, EarlierTurnsAnswered, LastAnsweredOrOpen, AnsweredOrOpen,
            VoicedHasWords, Voiced, Current, FarewellEnds, EndedNeverRevived, TypeOK,
            TurnPhases, Phases, endVars, observed
<1>1. /\ orch' = orch
      /\ gen' \in Generator /\ gen'.turn = gen.turn /\ gen'.committed = gen.committed
  BY DEF TranscriptionFails, SpeakingAnnounced, SynthesisFails, MarkerAlone, ChunkSuppressed,
         FarewellSynthesized, FarewellFails, Finished, vars, Generator
<1>2. sent' \in Nat
  BY DEF TranscriptionFails, SpeakingAnnounced, SynthesisFails, MarkerAlone, ChunkSuppressed,
         FarewellSynthesized, FarewellFails, Finished, vars
<1>3. phase = "replying" /\ phase' = "replying" => gen'.spokeYet = gen.spokeYet
  BY DEF TranscriptionFails, SpeakingAnnounced, SynthesisFails, MarkerAlone, ChunkSuppressed,
         FarewellSynthesized, FarewellFails, Finished, vars, Generator
<1>4. CASE TranscriptionFails
  BY <1>1, <1>2, <1>4 DEF TranscriptionFails
<1>5. CASE SpeakingAnnounced
  BY <1>1, <1>2, <1>5 DEF SpeakingAnnounced
<1>6. CASE SynthesisFails
  BY <1>1, <1>2, <1>6 DEF SynthesisFails
<1>7. CASE MarkerAlone
  BY <1>1, <1>2, <1>3, <1>7 DEF MarkerAlone
<1>8. CASE ChunkSuppressed
  BY <1>1, <1>2, <1>3, <1>8 DEF ChunkSuppressed
<1>9. CASE FarewellSynthesized
  BY <1>1, <1>2, <1>9 DEF FarewellSynthesized
<1>10. CASE FarewellFails
  BY <1>1, <1>2, <1>10 DEF FarewellFails
<1>11. CASE Finished
  BY <1>1, <1>2, <1>11 DEF Finished, vars
<1>12. QED BY <1>4, <1>5, <1>6, <1>7, <1>8, <1>9, <1>10, <1>11

\* Opening a Turn: the one left open, or a new one behind the answered ones.
LEMMA NewOrReopenedTurnStep ==
    ASSUME IInv, NEW o \in Orchestrator, NEW kind \in {"opening", "prompt", "user"},
           phase \in {"dialled", "between"},
           o.turns = orch.turns, o.reopen = orch.reopen, o.ended = orch.ended,
           NewOrReopenedTurn(o, kind),
           phase' \in {"transcribing", "replying"}, UNCHANGED endVars
    PROVE  IInv'
<1> USE DEF IInv, RunsLastTurn, Running, ParkedAfterwards, OpenUntilCommitted,
            NotCommittedEarly, EarlierTurnsAnswered, LastAnsweredOrOpen, AnsweredOrOpen,
            VoicedHasWords, Voiced, Current, FarewellEnds, EndedNeverRevived, TypeOK,
            TurnPhases, Phases, endVars, observed
<1> DEFINE t == IF o.reopen # 0 THEN o.reopen ELSE Len(o.turns) + 1
           turns1 == IF o.reopen # 0 THEN o.turns ELSE Append(o.turns, FreshTurn)
<1>1. /\ o.turns \in Seq(Turn) /\ Len(o.turns) \in Nat
      /\ AllPlayed \in Position /\ t \in Nat
  BY TurnList, CallAssumption DEF AllPlayed, Position, Orchestrator
<1>2. /\ turns1 \in Seq(Turn) /\ t = Len(turns1) /\ t # 0
      /\ \A s \in 1..Len(o.turns) : turns1[s] = o.turns[s]
      /\ Len(turns1) = IF o.reopen # 0 THEN Len(o.turns) ELSE Len(o.turns) + 1
  BY <1>1, AppendProperties, TurnTypes
<1>3. orch' = [o EXCEPT !.turns = turns1, !.reopen = t, !.revisable = 0, !.bargeIn = AllPlayed]
  BY DEF NewOrReopenedTurn
<1>4. gen' = FreshGenerator(kind, t, o.reopen # 0)
  BY DEF NewOrReopenedTurn
<1>5. gen' \in Generator /\ gen'.turn = t /\ ~gen'.committed /\ ~gen'.spokeYet
  BY <1>1, <1>4, GeneratorTypes DEF FreshGenerator
<1> HIDE DEF turns1, t
<1>6. /\ orch' \in Orchestrator /\ orch'.turns = turns1 /\ orch'.reopen = t
      /\ orch'.revisable = 0 /\ orch'.ended = o.ended
  BY <1>1, <1>2, <1>3 DEF Orchestrator
<1>7. TypeOK'
  BY <1>5, <1>6, CallAssumption DEF NewOrReopenedTurn, Unreported
<1>8. EarlierTurnsAnswered'
  <2>1. ASSUME NEW s \in 1..Len(o.turns), s < Len(turns1)
        PROVE  ~Silent(turns1[s])
    BY <1>1, <1>2, <2>1
  <2>2. QED
    BY <1>1, <1>2, <1>6, <2>1, TurnList
<1>9. QED
  BY <1>1, <1>2, <1>5, <1>6, <1>7, <1>8

\* Picking up, a silence, an utterance.
LEMMA StartSteps ==
    ASSUME IInv, OpenCall \/ SilenceElapses \/ TurnAudioArrives \/ Activate
    PROVE  IInv'
<1>1. orch \in Orchestrator
  BY RunningTurn
<1>2. CASE OpenCall /\ Reverse
  <2>1. /\ NewOrReopenedTurn(orch, "opening") /\ phase = "dialled" /\ phase' = "replying"
        /\ UNCHANGED endVars
    BY <1>2 DEF OpenCall
  <2>2. QED
    BY <1>1, <2>1, NewOrReopenedTurnStep
<1>3. CASE OpenCall /\ ~Reverse
  BY <1>3 DEF OpenCall, IInv, RunsLastTurn, Running, ParkedAfterwards, OpenUntilCommitted,
              NotCommittedEarly, EarlierTurnsAnswered, LastAnsweredOrOpen, AnsweredOrOpen,
              VoicedHasWords, Voiced, Current, FarewellEnds, EndedNeverRevived, TypeOK,
              TurnPhases, Phases, endVars, observed
<1>4. CASE SilenceElapses
  <2> DEFINE o == [orch EXCEPT !.said = @ + 1]
  <2>1. o \in Orchestrator /\ o.turns = orch.turns /\ o.reopen = orch.reopen
        /\ o.ended = orch.ended
    <3>1. orch.said < Prompts
      BY <1>4 DEF SilenceElapses
    <3>2. orch.said + 1 \in 0..Prompts
      BY <1>1, <3>1, CallAssumption DEF Orchestrator
    <3>3. QED
      BY <1>1, <3>2 DEF Orchestrator
  <2>2. /\ NewOrReopenedTurn(o, "prompt") /\ phase = "between" /\ phase' = "replying"
        /\ UNCHANGED endVars
    BY <1>4 DEF SilenceElapses
  <2> HIDE DEF o
  <2>3. QED
    BY <2>1, <2>2, NewOrReopenedTurnStep
<1>5. CASE TurnAudioArrives
  <2>1. /\ NewOrReopenedTurn(orch, "user") /\ phase = "between" /\ phase' = "transcribing"
        /\ UNCHANGED endVars
    BY <1>5 DEF TurnAudioArrives
  <2>2. QED
    BY <1>1, <2>1, NewOrReopenedTurnStep
<1>6. CASE Activate
  <2> USE DEF IInv, RunsLastTurn, Running, ParkedAfterwards, OpenUntilCommitted,
            NotCommittedEarly, EarlierTurnsAnswered, LastAnsweredOrOpen, AnsweredOrOpen,
            VoicedHasWords, Voiced, Current, FarewellEnds, EndedNeverRevived, TypeOK,
            TurnPhases, Phases, endVars, observed
  <2>1. /\ orch' \in Orchestrator /\ orch'.turns = orch.turns /\ orch'.reopen = orch.reopen
        /\ orch'.revisable = orch.revisable /\ orch'.ended = orch.ended
    BY <1>1, <1>6 DEF Activate, Orchestrator
  <2>2. QED
    BY <1>6, <2>1 DEF Activate
<1>7. QED BY <1>2, <1>3, <1>4, <1>5, <1>6

\* The question: a misfire is taken back, a transcript is joined, measurements come in.
LEMMA QuestionSteps ==
    ASSUME IInv,
           Phantom \/ \E b \in BOOLEAN : Transcribed(b) \/ Measured(b)
    PROVE  IInv'
<1> USE DEF IInv, RunsLastTurn, Running, ParkedAfterwards, OpenUntilCommitted,
            NotCommittedEarly, EarlierTurnsAnswered, LastAnsweredOrOpen, AnsweredOrOpen,
            VoicedHasWords, Voiced, Current, FarewellEnds, EndedNeverRevived, TypeOK,
            TurnPhases, Phases, endVars, observed
<1>1. /\ orch \in Orchestrator /\ orch.turns \in Seq(Turn) /\ Len(orch.turns) \in Nat
      /\ orch.history \in Seq(Message) /\ gen \in Generator
  BY RunningTurn, TurnList
<1>2. CASE Phantom
  <2>1. gen' \in Generator /\ gen'.turn = gen.turn /\ gen'.committed = gen.committed
    BY <1>1, <1>2, GeneratorTypes DEF Phantom
  <2>2. CASE gen.reopened
    BY <1>2, <2>1, <2>2 DEF Phantom
  <2>3. CASE ~gen.reopened
    <3> DEFINE turns1 == Front(orch.turns)
    <3>1. Len(orch.turns) # 0 /\ gen.turn = Len(orch.turns) /\ orch.revisable = 0
      BY <1>2 DEF Phantom
    <3>2. /\ turns1 \in Seq(Turn) /\ Len(turns1) = Len(orch.turns) - 1
          /\ \A s \in 1..Len(turns1) : turns1[s] = orch.turns[s]
          /\ DOMAIN turns1 = 1..Len(turns1)
      BY <1>1, <3>1, FrontType DEF Front
    <3>3. orch' = [orch EXCEPT !.turns = turns1, !.reopen = 0]
      BY <1>2, <2>3 DEF Phantom
    <3> HIDE DEF turns1
    <3>4. /\ orch' \in Orchestrator /\ orch'.turns = turns1 /\ orch'.reopen = 0
          /\ orch'.revisable = 0 /\ orch'.ended = orch.ended
      BY <1>1, <3>1, <3>2, <3>3 DEF Orchestrator
    <3>5. \A s \in 1..Len(turns1) : ~Silent(turns1[s])
      BY <1>1, <3>1, <3>2, TurnList
    <3>6. Len(turns1) \in Nat
      BY <3>2
    <3>7. EarlierTurnsAnswered'
      BY <3>2, <3>4, <3>5
    <3>8. LastAnsweredOrOpen'
      BY <3>4, <3>5, <3>6
    <3>9. ~Running'
      BY <1>2, <3>4 DEF Phantom
    <3>10. QED
      BY <1>2, <2>1, <3>4, <3>7, <3>8, <3>9 DEF Phantom
  <2>4. QED BY <2>2, <2>3
<1>3. ASSUME NEW b \in BOOLEAN, Transcribed(b) PROVE IInv'
  <2> DEFINE t == gen.turn
             n == IF gen.reopened /\ orch.turns[t].question > 0
                  THEN orch.turns[t].question + 1 ELSE 1
             e == Asked(orch.turns[t], n, b)
             last == Len(orch.history)
             h == IF gen.reopened /\ orch.turns[t].question > 0
                  THEN [orch.history EXCEPT
                          ![last] = [Question(t, n) EXCEPT !.role = orch.history[last].role]]
                  ELSE Append(orch.history, Question(t, n))
             r == Edited(orch, t, e, h)
  <2>1. t \in 1..Len(orch.turns) /\ orch.turns[t] \in Turn /\ phase = "transcribing"
    BY <1>3, RunningTurn DEF Transcribed
  <2>2. n \in Nat /\ e \in Turn /\ (Silent(e) <=> Silent(orch.turns[t]))
    <3>1. n \in Nat
      BY <2>1 DEF Turn
    <3>2. (orch.turns[t].asks \/ b) \in BOOLEAN
      OBVIOUS
    <3> HIDE DEF n
    <3>3. e \in Turn /\ e.words = orch.turns[t].words /\ e.farewell = orch.turns[t].farewell
      BY <2>1, <3>1, <3>2 DEF Turn, Asked
    <3>4. QED
      BY <3>1, <3>3 DEF Silent
  <2>3. Question(t, n) \in Message
    BY <1>1, <2>1, <2>2, MessageTypes
  <2> HIDE DEF n
  <2>4. h \in Seq(Message)
    <3>1. CASE last \in 1..Len(orch.history)
      <4>1. orch.history[last] \in Message
        BY <1>1, <3>1, ElementOfSeq
      <4>2. [Question(t, n) EXCEPT !.role = orch.history[last].role] \in Message
        BY <2>3, <4>1 DEF Message
      <4>3. QED
        BY <1>1, <2>3, <3>1, <4>2, ExceptSeq, AppendProperties
    <3>2. CASE last \notin 1..Len(orch.history)
      <4>1. [orch.history EXCEPT ![last] = [Question(t, n) EXCEPT !.role = orch.history[last].role]]
              = orch.history
        BY <1>1, <3>2
      <4>2. QED
        BY <1>1, <2>3, <4>1, AppendProperties
    <3>3. QED BY <3>1, <3>2
  <2>5. orch' = r
    BY <1>3 DEF Transcribed, n, Edited
  <2> HIDE DEF e, h, t
  <2>6. /\ r \in Orchestrator /\ Len(r.turns) = Len(orch.turns) /\ r.turns[t] = e
        /\ \A s \in 1..Len(orch.turns) : s # t => r.turns[s] = orch.turns[s]
        /\ r.reopen = orch.reopen /\ r.revisable = orch.revisable /\ r.ended = orch.ended
    BY <1>1, <2>1, <2>2, <2>4, EditTurn
  <2> HIDE DEF r
  <2>7. EarlierTurnsAnswered' /\ LastAnsweredOrOpen'
    BY <1>1, <2>1, <2>2, <2>5, <2>6, TurnList
  <2>8. QED
    BY <1>1, <1>3, <2>1, <2>2, <2>5, <2>6, <2>7 DEF Transcribed
<1>4. ASSUME NEW b \in BOOLEAN, Measured(b) PROVE IInv'
  <2> DEFINE repeats == IF ~orch.turns[gen.turn].asks THEN 0
                        ELSE IF orch.repeats < 2 THEN orch.repeats + 1 ELSE 2
             normal == ~b /\ repeats # 1
  <2>1. repeats \in 0..2 /\ normal \in BOOLEAN
    BY <1>1 DEF Orchestrator
  <2>2. /\ orch' = [orch EXCEPT !.repeats = repeats]
        /\ gen' = [gen EXCEPT !.closing = b, !.normal = normal]
        /\ phase = "measuring" /\ phase' = "replying" /\ UNCHANGED <<observed, endVars>>
    BY <1>4 DEF Measured
  <2> HIDE DEF repeats, normal
  <2>3. /\ orch' \in Orchestrator /\ orch'.turns = orch.turns /\ orch'.reopen = orch.reopen
        /\ orch'.revisable = orch.revisable /\ orch'.ended = orch.ended
    BY <1>1, <2>1, <2>2 DEF Orchestrator
  <2>4. /\ gen' \in Generator /\ gen'.turn = gen.turn /\ gen'.committed = gen.committed
        /\ gen'.spokeYet = gen.spokeYet
    BY <1>1, <2>1, <2>2 DEF Generator
  <2>5. QED
    BY <2>2, <2>3, <2>4
<1>5. QED BY <1>2, <1>3, <1>4

\* Rewriting the running Turn without touching the history.
LEMMA EditedAlone ==
    ASSUME NEW o \in Orchestrator, NEW t, NEW e
    PROVE  [o EXCEPT !.turns[t] = e] = Edited(o, t, e, o.history)
BY DEF Edited, Orchestrator

\* Rewriting it keeps the order of the Turns.
LEMMA EditedKeepsEarlier ==
    ASSUME IInv, phase \in TurnPhases, NEW e \in Turn, NEW h \in Seq(Message),
           orch' = Edited(orch, gen.turn, e, h),
           orch.reopen # 0 \/ ~Silent(e)
    PROVE  /\ orch' \in Orchestrator
           /\ Len(orch'.turns) = Len(orch.turns)
           /\ orch'.turns[gen.turn] = e
           /\ orch'.reopen = orch.reopen /\ orch'.revisable = orch.revisable
           /\ orch'.ended = orch.ended
           /\ EarlierTurnsAnswered' /\ LastAnsweredOrOpen'
<1>1. orch \in Orchestrator /\ gen.turn \in 1..Len(orch.turns) /\ gen.turn = Len(orch.turns)
  BY RunningTurn DEF IInv, RunsLastTurn, Running
<1>2. /\ orch' \in Orchestrator /\ Len(orch'.turns) = Len(orch.turns)
      /\ orch'.turns[gen.turn] = e
      /\ \A s \in 1..Len(orch.turns) : s # gen.turn => orch'.turns[s] = orch.turns[s]
      /\ orch'.reopen = orch.reopen /\ orch'.revisable = orch.revisable
      /\ orch'.ended = orch.ended
  BY <1>1, EditTurn
<1>3. EarlierTurnsAnswered'
  <2>1. DOMAIN orch.turns = 1..Len(orch.turns) /\ DOMAIN orch'.turns = 1..Len(orch.turns)
    BY <1>1, <1>2, TurnList
  <2>2. ASSUME NEW s \in 1..Len(orch.turns), s < Len(orch.turns)
        PROVE  ~Silent(orch'.turns[s])
    BY <1>1, <1>2, <2>1, <2>2 DEF IInv, EarlierTurnsAnswered
  <2>3. orch'.reopen \in {0, Len(orch'.turns)}
    BY <1>2 DEF IInv, EarlierTurnsAnswered
  <2>4. QED
    BY <1>2, <2>1, <2>2, <2>3 DEF EarlierTurnsAnswered
<1>4. LastAnsweredOrOpen'
  BY <1>1, <1>2 DEF LastAnsweredOrOpen, AnsweredOrOpen
<1>5. QED BY <1>2, <1>3, <1>4

\* The reply: chunks, retries and regenerations before its end.
LEMMA ReplySteps ==
    ASSUME IInv,
           Regenerate \/ \E b \in BOOLEAN : ChunkVoiced(b) \/ CompletionFails(b)
    PROVE  IInv'
<1> USE DEF IInv, RunsLastTurn, Running, ParkedAfterwards, OpenUntilCommitted,
            NotCommittedEarly, EarlierTurnsAnswered, LastAnsweredOrOpen, AnsweredOrOpen,
            VoicedHasWords, Voiced, Current, FarewellEnds, EndedNeverRevived, TypeOK,
            TurnPhases, Phases, endVars, observed
<1> DEFINE t == gen.turn
           said == OneChunkMore(orch.turns[t])
           unsaid == Unsaid(orch.turns[t])
<1>1. phase = "replying"
  BY DEF Regenerate, ChunkVoiced, CompletionFails
<1>2. /\ orch \in Orchestrator /\ gen \in Generator /\ orch.history \in Seq(Message)
      /\ t \in 1..Len(orch.turns) /\ orch.turns[t] \in Turn
      /\ orch.reopen # 0 /\ ~gen.committed
  BY <1>1, RunningTurn, TurnList
<1>3. said \in Turn /\ ~Silent(said) /\ unsaid \in Turn
  BY <1>2, TurnTypes
<1> HIDE DEF said, unsaid
<1>4. CASE Regenerate
  <2>1. /\ orch' = [orch EXCEPT !.turns[t] = unsaid]
        /\ gen' = [gen EXCEPT !.round = 1, !.attempt = 0, !.endsCall = FALSE,
                              !.suppressed = FALSE]
        /\ ~gen.spokeYet /\ phase' = phase /\ UNCHANGED <<observed, endVars>>
    BY <1>4 DEF Regenerate, unsaid
  <2>2. /\ gen' \in Generator /\ gen'.turn = gen.turn /\ gen'.committed = gen.committed
        /\ gen'.spokeYet = gen.spokeYet
    BY <1>2, <2>1, RegeneratedType
  <2>3. orch' = Edited(orch, gen.turn, unsaid, orch.history)
    BY <1>2, <2>1, EditedAlone
  <2>4. /\ orch' \in Orchestrator /\ Len(orch'.turns) = Len(orch.turns)
        /\ orch'.reopen = orch.reopen /\ orch'.revisable = orch.revisable
        /\ orch'.ended = orch.ended /\ EarlierTurnsAnswered' /\ LastAnsweredOrOpen'
    BY <1>1, <1>2, <1>3, <2>3, EditedKeepsEarlier
  <2>5. QED
    BY <1>1, <1>2, <2>1, <2>2, <2>4
<1>5. ASSUME NEW b \in BOOLEAN, CompletionFails(b) PROVE IInv'
  <2>1. CASE gen.spokeYet \/ gen.attempt = 1
    BY <1>1, <1>5, <2>1 DEF CompletionFails
  <2>2. CASE ~(gen.spokeYet \/ gen.attempt = 1)
    <3>1. /\ orch' = [orch EXCEPT !.turns[t] = unsaid] /\ gen' = [gen EXCEPT !.attempt = 1]
          /\ ~gen.spokeYet /\ phase' = phase /\ UNCHANGED <<observed, endVars>>
      BY <1>5, <2>2 DEF CompletionFails, unsaid
    <3>2. /\ gen' \in Generator /\ gen'.turn = gen.turn /\ gen'.committed = gen.committed
          /\ gen'.spokeYet = gen.spokeYet
      BY <1>2, <3>1 DEF Generator
    <3>3. orch' = Edited(orch, gen.turn, unsaid, orch.history)
      BY <1>2, <3>1, EditedAlone
    <3>4. /\ orch' \in Orchestrator /\ Len(orch'.turns) = Len(orch.turns)
          /\ orch'.reopen = orch.reopen /\ orch'.revisable = orch.revisable
          /\ orch'.ended = orch.ended /\ EarlierTurnsAnswered' /\ LastAnsweredOrOpen'
      BY <1>1, <1>2, <1>3, <3>3, EditedKeepsEarlier
    <3>5. QED
      BY <1>1, <1>2, <3>1, <3>2, <3>4
  <2>3. QED BY <2>1, <2>2
<1>6. ASSUME NEW b \in BOOLEAN, ChunkVoiced(b) PROVE IInv'
  <2>1. /\ orch' = [orch EXCEPT !.turns[t] = said]
        /\ gen' = [gen EXCEPT !.spoken = @ + 1, !.endsCall = b] /\ gen.spoken < MaxChunks
        /\ phase' \in {"replying", "announcing"} /\ sent' \in {sent, sent + 1}
        /\ UNCHANGED <<report, muddled, endVars>>
    BY <1>1, <1>6 DEF ChunkVoiced, said
  <2>2. /\ gen' \in Generator /\ gen'.turn = gen.turn /\ gen'.committed = gen.committed
    <3>1. gen.spoken + 1 \in Position
      BY <1>2, <2>1, CallAssumption DEF Generator, Position
    <3>2. QED
      BY <1>2, <2>1, <3>1 DEF Generator
  <2>3. orch' = Edited(orch, gen.turn, said, orch.history)
    BY <1>2, <2>1, EditedAlone
  <2>4. /\ orch' \in Orchestrator /\ Len(orch'.turns) = Len(orch.turns)
        /\ orch'.turns[gen.turn] = said
        /\ orch'.reopen = orch.reopen /\ orch'.revisable = orch.revisable
        /\ orch'.ended = orch.ended /\ EarlierTurnsAnswered' /\ LastAnsweredOrOpen'
    BY <1>1, <1>2, <1>3, <2>3, EditedKeepsEarlier
  <2>5. QED
    BY <1>1, <1>2, <1>3, <2>1, <2>2, <2>4
<1>7. QED BY <1>4, <1>5, <1>6

\* Committing the finished reply.
LEMMA CommitSteps ==
    ASSUME IInv,
           PromptFinished \/ \E looping, goodbye \in BOOLEAN : ReplyFinished(looping, goodbye)
    PROVE  IInv'
<1> USE DEF IInv, RunsLastTurn, Running, ParkedAfterwards, OpenUntilCommitted,
            NotCommittedEarly, EarlierTurnsAnswered, LastAnsweredOrOpen, AnsweredOrOpen,
            VoicedHasWords, Voiced, Current, FarewellEnds, EndedNeverRevived, TypeOK,
            TurnPhases, Phases, endVars, observed
<1>1. phase = "replying"
  BY DEF PromptFinished, ReplyFinished
<1>2. /\ orch \in Orchestrator /\ gen \in Generator /\ orch.history \in Seq(Message)
      /\ gen.turn \in 1..Len(orch.turns) /\ gen.turn \in Nat /\ Current \in Turn
      /\ orch.reopen # 0
  BY <1>1, RunningTurn, TurnList
<1> DEFINE h == Append(orch.history, Reply(gen.turn, Current, FALSE))
<1>3. h \in Seq(Message)
  <2>1. Reply(gen.turn, Current, FALSE) \in Message
    BY <1>2, MessageTypes, FALSE \in BOOLEAN
  <2>2. QED
    BY <1>2, <2>1, AppendProperties
<1>4. CASE PromptFinished
  <2>1. /\ orch' = [orch EXCEPT !.history = h, !.reopen = 0] /\ gen.spokeYet
        /\ gen' = [gen EXCEPT !.committed = TRUE] /\ phase' = "completing"
        /\ UNCHANGED <<observed, endVars>>
    BY <1>4 DEF PromptFinished
  <2> HIDE DEF h
  <2>2. /\ orch' \in Orchestrator /\ orch'.turns = orch.turns /\ orch'.reopen = 0
        /\ orch'.revisable = orch.revisable /\ orch'.ended = orch.ended
    BY <1>2, <1>3, <2>1 DEF Orchestrator
  <2>3. gen' \in Generator /\ gen'.turn = gen.turn /\ gen'.committed
    BY <1>2, <2>1 DEF Generator
  <2>4. QED
    BY <1>1, <1>2, <2>1, <2>2, <2>3
<1>5. ASSUME NEW looping \in BOOLEAN, NEW goodbye \in BOOLEAN, ReplyFinished(looping, goodbye)
      PROVE  IInv'
  <2> DEFINE marker == gen.endsCall \/ (Silent(Current) /\ gen.suppressed)
             ends == marker \/ gen.closing \/ looping \/ goodbye
             needsFallback ==
               ends /\ (Silent(Current) \/ looping \/ (marker /\ ~gen.closing))
  <2>1. /\ orch' = [orch EXCEPT !.history = h, !.ended = @ \/ ends]
        /\ gen' = [gen EXCEPT !.committed = TRUE, !.endsCall = marker]
        /\ phase' = IF needsFallback THEN "farewell" ELSE "completing"
        /\ Silent(Current) => marker
        /\ UNCHANGED <<observed, endVars>>
    BY <1>5 DEF ReplyFinished
  <2>2. marker \in BOOLEAN /\ ends \in BOOLEAN
    <3>1. gen.endsCall \in BOOLEAN /\ gen.closing \in BOOLEAN
      BY <1>2 DEF Generator
    <3>2. QED
      BY <3>1
  <2>3. (needsFallback => ends) /\ (marker => ends)
    OBVIOUS
  <2> HIDE DEF h, marker, ends, needsFallback
  <2>4. (orch.ended \/ ends) \in BOOLEAN
    OBVIOUS
  <2>5. /\ orch' \in Orchestrator /\ orch'.turns = orch.turns /\ orch'.reopen = orch.reopen
        /\ orch'.revisable = orch.revisable /\ (orch'.ended <=> orch.ended \/ ends)
    BY <1>2, <1>3, <2>1, <2>4 DEF Orchestrator
  <2>6. gen' \in Generator /\ gen'.turn = gen.turn /\ gen'.committed
    BY <1>2, <2>1, <2>2 DEF Generator
  <2>7. QED
    BY <1>1, <1>2, <2>1, <2>3, <2>5, <2>6
<1>6. QED BY <1>4, <1>5

\* The end of a reply: the closing line, turn.completed, listening, an error frame.
LEMMA EndSteps ==
    ASSUME IInv, FarewellSent \/ Completed \/ Settled \/ FailureSent
    PROVE  IInv'
<1> USE DEF IInv, RunsLastTurn, Running, ParkedAfterwards, OpenUntilCommitted,
            NotCommittedEarly, EarlierTurnsAnswered, LastAnsweredOrOpen, AnsweredOrOpen,
            VoicedHasWords, Voiced, Current, FarewellEnds, EndedNeverRevived, TypeOK,
            TurnPhases, Phases, endVars, observed
<1>1. orch \in Orchestrator /\ gen \in Generator /\ orch.history \in Seq(Message)
  BY RunningTurn, TurnList
<1>2. \A t \in DOMAIN Utterances(orch) : Utterances(orch)[t] \in Turn
  BY <1>1, UtterancesType
<1>3. CASE FarewellSent
  <2> DEFINE e == [orch.turns[gen.turn] EXCEPT !.farewell = TRUE]
             last == Len(orch.history)
             h == [orch.history EXCEPT ![last] = [orch.history[last] EXCEPT
                     !.words = e.words, !.farewell = TRUE, !.mark = FALSE]]
  <2>1. phase = "signingOff" /\ phase' = "completing" /\ UNCHANGED <<gen, observed, endVars>>
    BY <1>3 DEF FarewellSent
  <2>2. orch.turns[gen.turn] \in Turn
    BY <2>1, RunningTurn
  <2>3. e \in Turn /\ e.words \in Nat /\ e.farewell
    BY <2>2 DEF Turn
  <2>4. ~Silent(e)
    BY <2>3 DEF Silent
  <2> HIDE DEF e
  <2>5. h \in Seq(Message)
    <3>1. CASE last \in 1..Len(orch.history)
      <4>1. orch.history[last] \in Message
        BY <1>1, <3>1, ElementOfSeq
      <4>2. [orch.history[last] EXCEPT !.words = e.words, !.farewell = TRUE, !.mark = FALSE]
              \in Message
        BY <2>3, <4>1 DEF Message
      <4>3. QED
        BY <1>1, <3>1, <4>2, ExceptSeq
    <3>2. CASE last \notin 1..Len(orch.history)
      <4>1. h = orch.history
        BY <1>1, <3>2
      <4>2. QED
        BY <1>1, <4>1
    <3>3. QED BY <3>1, <3>2
  <2>6. orch' = Edited(orch, gen.turn, e, h)
    <3>1. orch' = [orch EXCEPT !.turns[gen.turn] = e,
                     !.history[last] = [orch.history[last] EXCEPT
                        !.words = e.words, !.farewell = TRUE, !.mark = FALSE]]
      BY <1>3 DEF FarewellSent, e
    <3>2. QED
      BY <1>1, <3>1 DEF Edited, Orchestrator
  <2> HIDE DEF h
  <2>7. /\ orch' \in Orchestrator /\ Len(orch'.turns) = Len(orch.turns)
        /\ orch'.turns[gen.turn] = e
        /\ orch'.reopen = orch.reopen /\ orch'.revisable = orch.revisable
        /\ orch'.ended = orch.ended /\ EarlierTurnsAnswered' /\ LastAnsweredOrOpen'
    BY <2>1, <2>3, <2>4, <2>5, <2>6, EditedKeepsEarlier
  <2>8. QED
    BY <1>1, <2>1, <2>4, <2>7
<1>4. CASE Completed /\ orch.ended
  BY <1>1, <1>2, <1>4 DEF Completed, Over
<1>5. CASE Completed /\ ~orch.ended
  <2>1. /\ orch' = [orch EXCEPT !.revisable = gen.turn] /\ gen.turn \in Nat
        /\ phase = "completing" /\ phase' = "settling" /\ UNCHANGED <<gen, observed, endVars>>
    BY <1>1, <1>5 DEF Completed, Generator
  <2>2. /\ orch' \in Orchestrator /\ orch'.turns = orch.turns /\ orch'.reopen = orch.reopen
        /\ orch'.ended = orch.ended
    BY <1>1, <2>1 DEF Orchestrator
  <2>3. QED
    BY <1>1, <1>5, <2>1, <2>2
<1>6. CASE Settled
  <2>1. gen' \in Generator /\ gen'.turn = gen.turn /\ gen'.committed = gen.committed
    BY <1>1, <1>6, GeneratorTypes DEF Settled
  <2>2. /\ orch' \in Orchestrator /\ orch'.turns = orch.turns
        /\ orch'.reopen \in {0, orch.reopen}
        /\ orch'.revisable = orch.revisable /\ orch'.ended = orch.ended
    BY <1>1, <1>6 DEF Settled, Orchestrator
  <2>3. phase = "settling" /\ phase' = "between" /\ UNCHANGED <<observed, endVars>>
    BY <1>6 DEF Settled
  <2>4. QED
    BY <1>1, <2>1, <2>2, <2>3
<1>7. CASE FailureSent
  BY <1>1, <1>2, <1>7 DEF FailureSent, Over
<1>8. QED BY <1>3, <1>4, <1>5, <1>6, <1>7

\* A handler of the generator's Turn leaves the parts of the invariant about the
\* Turns alone, whatever becomes of the generator's frame.
LEMMA HandlerStep ==
    ASSUME IInv, Running, Handled(orch, orch', gen.turn)
    PROVE  /\ orch' \in Orchestrator
           /\ Len(orch'.turns) = Len(orch.turns)
           /\ orch'.ended = orch.ended
           /\ orch'.revisable \in {0, orch.revisable}
           /\ EarlierTurnsAnswered' /\ LastAnsweredOrOpen'
<1>1. /\ orch \in Orchestrator /\ gen.turn \in 1..Len(orch.turns)
      /\ gen.turn = Len(orch.turns) /\ Len(orch.turns) \in Nat
  BY RunningTurn, TurnList DEF IInv, RunsLastTurn
<1>2. /\ orch' \in Orchestrator /\ Len(orch'.turns) = Len(orch.turns)
      /\ \A s \in 1..Len(orch.turns) : s # gen.turn => orch'.turns[s] = orch.turns[s]
      /\ orch'.ended = orch.ended /\ orch'.reopen \in {0, gen.turn, orch.reopen}
      /\ orch'.revisable \in {0, orch.revisable}
      /\ AnsweredOrOpen(orch, gen.turn) => AnsweredOrOpen(orch', gen.turn)
  BY DEF Handled
<1>3. EarlierTurnsAnswered'
  <2>1. DOMAIN orch.turns = 1..Len(orch.turns) /\ DOMAIN orch'.turns = 1..Len(orch.turns)
    BY <1>1, <1>2, TurnList
  <2>2. ASSUME NEW s \in 1..Len(orch.turns), s < Len(orch.turns)
        PROVE  ~Silent(orch'.turns[s])
    BY <1>1, <1>2, <2>1, <2>2 DEF IInv, EarlierTurnsAnswered
  <2>3. orch'.reopen \in {0, Len(orch'.turns)}
    BY <1>1, <1>2 DEF IInv, EarlierTurnsAnswered
  <2>4. QED
    BY <1>2, <2>1, <2>2, <2>3 DEF EarlierTurnsAnswered
<1>4. LastAnsweredOrOpen'
  BY <1>1, <1>2 DEF IInv, LastAnsweredOrOpen
<1>5. QED BY <1>2, <1>3, <1>4

\* The client: an interrupt, a late one, leaving, the time limit.
LEMMA ClientSteps ==
    ASSUME IInv,
           \/ \E pos \in Position : Interrupt(pos) \/ LateInterrupt(pos)
           \/ \E why \in {"user", "disconnected"} : Leave(why)
           \/ TimeLimit
    PROVE  IInv'
<1> USE DEF IInv, RunsLastTurn, Running, ParkedAfterwards, OpenUntilCommitted,
            NotCommittedEarly, EarlierTurnsAnswered, LastAnsweredOrOpen, AnsweredOrOpen,
            VoicedHasWords, Voiced, Current, FarewellEnds, EndedNeverRevived, TypeOK,
            TurnPhases, Phases, endVars, observed
<1>1. orch \in Orchestrator /\ gen \in Generator
  BY RunningTurn
<1>2. \A p \in Orchestrator : \A t \in DOMAIN Utterances(p) : Utterances(p)[t] \in Turn
  BY UtterancesType
<1>3. /\ Exited(gen) \in Generator /\ Exited(gen).turn = gen.turn
      /\ Exited(gen).committed = gen.committed
  BY <1>1, GeneratorTypes
<1>4. ASSUME NEW pos \in Position, Interrupt(pos) PROVE IInv'
  <2> DEFINE noted == NoteBargeIn(orch, gen, pos)
             o == FinalizeInterrupted(noted, gen)
  <2>1. /\ phase \in TurnPhases /\ gen' = Exited(gen) /\ orch' = o
        /\ sent' = sent
        /\ report' \in {pos, report}
        /\ muddled' = (muddled \/ (o.reopen # 0 /\ ~Silent(o.turns[o.reopen])))
        /\ IF o.ended THEN Over("completed", o, FALSE)
                      ELSE phase' = "between" /\ UNCHANGED endVars
    BY <1>4 DEF Interrupt
  <2>2. Running /\ gen.turn \in 1..Len(orch.turns)
    BY <2>1, RunningTurn
  <2>3. Handled(orch, noted, gen.turn)
    BY <1>1, <2>2, NoteHandled
  <2>4. noted \in Orchestrator /\ gen.turn \in 1..Len(noted.turns)
    BY <2>2, <2>3 DEF Handled
  <2>5. ~gen.committed => noted.reopen = gen.turn
    <3>1. ASSUME ~gen.committed PROVE noted.reopen = orch.reopen
      BY <3>1 DEF NoteBargeIn, ReviseCommittedReply, Orchestrator
    <3>2. QED
      BY <2>1, <3>1
  <2> HIDE DEF noted
  <2>6. Handled(noted, o, gen.turn)
    BY <1>1, <2>4, <2>5, FinalizeHandled
  <2> HIDE DEF o
  <2>7. Handled(orch, o, gen.turn)
    BY <1>1, <2>2, <2>3, <2>6, HandledTransitive
  <2>8. /\ o \in Orchestrator /\ Len(o.turns) = Len(orch.turns) /\ o.ended = orch.ended
        /\ o.revisable \in {0, orch.revisable} /\ EarlierTurnsAnswered' /\ LastAnsweredOrOpen'
    BY <2>1, <2>2, <2>7, HandlerStep
  <2>9. report' \in 0..Unreported /\ muddled' \in BOOLEAN
    BY <2>1, CallAssumption DEF Position, Unreported
  <2>10. CASE o.ended
    BY <1>2, <1>3, <2>1, <2>2, <2>8, <2>9, <2>10 DEF Over
  <2>11. CASE ~o.ended
    BY <1>3, <2>1, <2>2, <2>8, <2>9, <2>11
  <2>12. QED BY <2>10, <2>11
<1>5. ASSUME NEW pos \in Position, LateInterrupt(pos) PROVE IInv'
  <2>1. /\ phase = "between" /\ orch' = NoteLateBargeIn(orch, gen, pos)
        /\ report' \in {pos, report} /\ UNCHANGED <<gen, phase, sent, muddled, endVars>>
    BY <1>5 DEF LateInterrupt
  <2>2. report' \in 0..Unreported
    BY <2>1, CallAssumption DEF Position, Unreported
  <2>3. CASE orch.revisable = 0
    <3>1. orch' = orch
      BY <2>1, <2>3 DEF NoteLateBargeIn
    <3>2. QED
      BY <2>1, <2>2, <3>1
  <2>4. CASE orch.revisable # 0
    <3>1. gen.turn \in 1..Len(orch.turns)
      BY <2>4, RunningTurn
    <3>2. Handled(orch, orch', gen.turn)
      BY <1>1, <2>1, <3>1, NoteHandled
    <3>3. /\ orch' \in Orchestrator /\ Len(orch'.turns) = Len(orch.turns)
          /\ orch'.ended = orch.ended /\ orch'.revisable \in {0, orch.revisable}
          /\ EarlierTurnsAnswered' /\ LastAnsweredOrOpen'
      BY <2>4, <3>2, HandlerStep
    <3>4. QED
      BY <2>1, <2>2, <2>4, <3>3
  <2>5. QED BY <2>3, <2>4
<1>6. ASSUME NEW why \in {"user", "disconnected"}, Leave(why) PROVE IInv'
  <2>1. CASE phase = "between"
    <3>1. /\ orch' = orch /\ gen' = gen /\ Over(why, orch, FALSE) /\ UNCHANGED observed
      BY <1>6, <2>1 DEF Leave
    <3>2. QED
      BY <1>1, <1>2, <2>1, <3>1 DEF Over
  <2>2. CASE phase \in TurnPhases
    <3> DEFINE o == FinalizeInterrupted(orch, gen)
    <3>1. /\ orch' = o /\ gen' = Exited(gen) /\ Over(why, o, FALSE) /\ UNCHANGED observed
      BY <1>6, <2>2 DEF Leave
    <3>2. gen.turn \in 1..Len(orch.turns) /\ (~gen.committed => orch.reopen = gen.turn)
      BY <2>2, RunningTurn
    <3>3. Handled(orch, o, gen.turn)
      BY <1>1, <3>2, FinalizeHandled
    <3> HIDE DEF o
    <3>4. /\ o \in Orchestrator /\ Len(o.turns) = Len(orch.turns) /\ o.ended = orch.ended
          /\ o.revisable \in {0, orch.revisable}
          /\ EarlierTurnsAnswered' /\ LastAnsweredOrOpen'
      BY <2>2, <3>1, <3>3, HandlerStep
    <3>5. QED
      BY <1>2, <1>3, <2>2, <3>1, <3>4 DEF Over
  <2>3. QED BY <1>6, <2>1, <2>2 DEF Leave
<1>7. CASE TimeLimit
  BY <1>1, <1>2, <1>7 DEF TimeLimit, Over
<1>8. QED BY <1>4, <1>5, <1>6, <1>7

\* After the call: the parked generator is closed, the Turns are recorded.
LEMMA AfterSteps ==
    ASSUME IInv, CloseParked \/ Record
    PROVE  IInv'
<1> USE DEF IInv, RunsLastTurn, Running, ParkedAfterwards, OpenUntilCommitted,
            NotCommittedEarly, EarlierTurnsAnswered, LastAnsweredOrOpen, AnsweredOrOpen,
            VoicedHasWords, Voiced, Current, FarewellEnds, EndedNeverRevived, TypeOK,
            TurnPhases, Phases, endVars, observed
<1>1. orch \in Orchestrator /\ gen \in Generator
  BY RunningTurn
<1>2. CASE CloseParked
  <2>1. /\ parked /\ orch' = FinalizeInterrupted(orch, gen) /\ gen' = Exited(gen) /\ ~parked'
        /\ parked' \in BOOLEAN
        /\ UNCHANGED <<phase, abandoned, reason, transcript, stored, observed>>
    BY <1>2 DEF CloseParked
  <2>2. gen.turn \in 1..Len(orch.turns) /\ (~gen.committed => orch.reopen = gen.turn)
    BY <2>1, RunningTurn
  <2>3. Handled(orch, orch', gen.turn)
    BY <1>1, <2>1, <2>2, FinalizeHandled
  <2>4. /\ orch' \in Orchestrator /\ Len(orch'.turns) = Len(orch.turns)
        /\ orch'.ended = orch.ended /\ orch'.revisable \in {0, orch.revisable}
        /\ EarlierTurnsAnswered' /\ LastAnsweredOrOpen'
    BY <2>1, <2>3, HandlerStep
  <2>5. gen' \in Generator /\ gen'.turn = gen.turn /\ gen'.committed = gen.committed
    BY <1>1, <2>1, GeneratorTypes
  <2>6. QED
    BY <2>1, <2>4, <2>5
<1>3. CASE Record
  <2>1. \A t \in DOMAIN Utterances(orch) : Utterances(orch)[t] \in Turn
    BY <1>1, UtterancesType
  <2>2. QED
    BY <1>3, <2>1 DEF Record
<1>4. QED BY <1>2, <1>3

-----------------------------------------------------------------------------
(* The theorems                                                            *)

\* The invariant holds when the call is dialled.
LEMMA InitIInv == Init => IInv
<1> SUFFICES ASSUME Init PROVE IInv
  OBVIOUS
<1>1. gen \in Generator
  BY GeneratorTypes DEF Init
<1>2. orch \in Orchestrator /\ Len(orch.turns) = 0 /\ orch.revisable = 0 /\ orch.reopen = 0
  BY EmptySeq, CallAssumption DEF Init, Orchestrator, AllPlayed, Position
<1>3. TypeOK
  <2>1. DOMAIN transcript = {} /\ DOMAIN stored = {}
    BY DEF Init
  <2>2. report \in 0..Unreported
    BY CallAssumption DEF Init, Unreported
  <2>3. QED
    BY <1>1, <1>2, <2>1, <2>2 DEF Init, TypeOK, Phases
<1>4. EarlierTurnsAnswered
  BY <1>2 DEF Init, EarlierTurnsAnswered
<1>5. QED
  BY <1>2, <1>3, <1>4
     DEF Init, IInv, RunsLastTurn, Running, ParkedAfterwards, OpenUntilCommitted,
         NotCommittedEarly, LastAnsweredOrOpen, VoicedHasWords, Voiced, FarewellEnds,
         EndedNeverRevived, TurnPhases

\* Every action, and stuttering, keeps it: one step per action.
LEMMA NextIInv == IInv /\ [Next]_vars => IInv'
<1> SUFFICES ASSUME IInv, [Next]_vars PROVE IInv'
  OBVIOUS
<1>1. CASE UNCHANGED vars
  BY <1>1 DEF vars, IInv, RunsLastTurn, Running, ParkedAfterwards, OpenUntilCommitted,
              NotCommittedEarly, EarlierTurnsAnswered, LastAnsweredOrOpen, AnsweredOrOpen,
              VoicedHasWords, Voiced, Current, FarewellEnds, EndedNeverRevived, TypeOK
<1>2. CASE Machine
  BY <1>2, GeneratorSteps, StartSteps, QuestionSteps, ReplySteps, CommitSteps, EndSteps,
     AfterSteps DEF Machine
<1>3. CASE Client
  BY <1>3, StartSteps, ClientSteps DEF Client
<1>4. CASE Finished
  BY <1>4, GeneratorSteps
<1>5. QED BY <1>1, <1>2, <1>3, <1>4 DEF Next

\* Every reachable state of a call satisfies the inductive invariant.
THEOREM Invariance == Spec => []IInv
BY InitIInv, NextIInv, PTL DEF Spec

\* orchestrator.py, session_ws.py: every field keeps its type, whatever the client
\* sends and whichever leg of the pipeline fails.
THEOREM TypeCorrect == Spec => []TypeOK
<1>1. IInv => TypeOK
  BY DEF IInv
<1>2. QED
  BY Invariance, <1>1, PTL

\* orchestrator.py:171: a call the Persona has ended is never revived, for any
\* number of Turns, chunks and prompts.
THEOREM GoodbyeStands == Spec => []EndedNeverRevived
<1>1. IInv => EndedNeverRevived
  BY DEF IInv
<1>2. QED
  BY Invariance, <1>1, PTL

\* orchestrator.py:207-216: only the last Turn can be without a reply, and only it is
\* ever reopened.
THEOREM NoQuestionLeftBehind == Spec => []EarlierTurnsAnswered
<1>1. IInv => EarlierTurnsAnswered
  BY DEF IInv
<1>2. QED
  BY Invariance, <1>1, PTL

-----------------------------------------------------------------------------
(***************************************************************************)
(* The words of a call, for any number of Turns, utterances, chunks and    *)
(* prompts.  First the message history: whichever                          *)
(* of the trimming paths ran, the messages are the Turns' current text in  *)
(* order, and a question that may still be extended is the last of them.   *)
(* Then what was heard: a committed reply is what was handed to the        *)
(* socket, and a reply the user talked over keeps no more than the first   *)
(* position reported.  Last, that a reply cut down to what was heard is    *)
(* final, also in the calls in which a Turn was left open over its reply.  *)
(***************************************************************************)

-----------------------------------------------------------------------------
(* Messages and Turns                                                      *)

\* One message is its Turn's current text; a Turn without a question has none.
MessageCurrent(turns, m) ==
    /\ m.turn \in 1..Len(turns)
    /\ m.role = "user" => /\ turns[m.turn].question # 0
                          /\ m = Question(m.turn, turns[m.turn].question)
    /\ m.role = "assistant" => m = Reply(m.turn, turns[m.turn], turns[m.turn].interrupted)
Before(m, n) ==
    m.turn < n.turn \/ (m.turn = n.turn /\ m.role = "user" /\ n.role = "assistant")

\* The messages are current and in order, and every question asked is among them.
Faithful(turns, h) ==
    /\ \A i \in 1..Len(h) : MessageCurrent(turns, h[i])
    /\ \A i, j \in 1..Len(h) : i < j => Before(h[i], h[j])
    /\ \A t \in 1..Len(turns) : turns[t].question # 0 =>
          \E i \in 1..Len(h) : h[i].turn = t /\ h[i].role = "user"

\* The last Turn has no reply among the messages, and has not been cut.
Owed(turns, h) ==
    /\ ~turns[Len(turns)].interrupted
    /\ \A i \in 1..Len(h) : h[i].turn = Len(turns) => h[i].role = "user"

\* The last message is the last Turn's reply, whole.
Given(turns, h) == Len(h) # 0 /\ h[Len(h)] = Reply(Len(turns), turns[Len(turns)], FALSE)

\* What a message says, by its kind.
LEMMA MessageFields ==
    /\ \A t, n : /\ Question(t, n).turn = t /\ Question(t, n).role = "user"
                 /\ Question(t, n).words = n
    /\ \A t, turn, mark : /\ Reply(t, turn, mark).turn = t
                          /\ Reply(t, turn, mark).role = "assistant"
                          /\ Reply(t, turn, mark).mark = mark
    /\ \A m \in Message : m.role \in {"user", "assistant"} /\ m.turn \in Nat
BY DEF Question, Reply, Message

\* Everything but the last element.
LEMMA FrontElements ==
    ASSUME NEW S, NEW s \in Seq(S), Len(s) # 0
    PROVE  /\ Front(s) \in Seq(S) /\ Len(Front(s)) = Len(s) - 1
           /\ \A i \in 1..Len(s) - 1 : Front(s)[i] = s[i]
<1>1. Front(s) \in Seq(S)
  BY FrontType
<1>2. /\ Len(s) \in Nat /\ Len(s) - 1 \in Nat /\ 1 \in Int /\ Len(s) - 1 \in Int
      /\ \A i \in 1..Len(s) - 1 : s[i] \in S
  BY ElementOfSeq
<1>3. Len(Front(s)) = Len(s) - 1
  <2> DEFINE n == Len(s) - 1
  <2>1. Len(Front(s)) = IF 1 <= n THEN n - 1 + 1 ELSE 0
    BY <1>2, SubSeqProperties DEF Front
  <2>2. n \in Nat
    BY <1>2
  <2> HIDE DEF n
  <2>3. Len(Front(s)) = n
    BY <2>1, <2>2
  <2>4. QED BY <2>3 DEF n
<1>4. \A i \in 1..Len(s) - 1 : Front(s)[i] = s[i]
  <2>1. \A i \in 1..Len(s) - 1 - 1 + 1 : Front(s)[i] = s[1 + i - 1]
    BY <1>2, SubSeqProperties DEF Front
  <2>2. Len(s) - 1 - 1 + 1 = Len(s) - 1 /\ \A i \in 1..Len(s) - 1 : 1 + i - 1 = i
    BY <1>2
  <2>3. QED
    BY <2>1, <2>2
<1>5. QED BY <1>1, <1>3, <1>4

\* A message of a Turn that was not rewritten stays current.
LEMMA OtherMessageCurrent ==
    ASSUME NEW turns, NEW turns1, NEW m \in Message, MessageCurrent(turns, m),
           m.turn \in 1..Len(turns1), turns1[m.turn] = turns[m.turn]
    PROVE  MessageCurrent(turns1, m)
BY DEF MessageCurrent

\* While the last Turn's reply is owed, rewriting anything but its question is safe.
LEMMA RewriteOwed ==
    ASSUME NEW turns \in Seq(Turn), NEW h \in Seq(Message), Len(turns) # 0,
           Faithful(turns, h), Owed(turns, h),
           NEW e \in Turn, e.question = turns[Len(turns)].question, ~e.interrupted
    PROVE  /\ Faithful([turns EXCEPT ![Len(turns)] = e], h)
           /\ Owed([turns EXCEPT ![Len(turns)] = e], h)
<1> DEFINE t == Len(turns)
           turns1 == [turns EXCEPT ![t] = e]
<1>1. /\ t \in 1..Len(turns) /\ Len(h) \in Nat
      /\ Len(turns1) = Len(turns) /\ turns1[t] = e
      /\ \A s \in 1..Len(turns) : s # t => turns1[s] = turns[s]
  BY SetTurn
<1> HIDE DEF turns1, t
<1>2. ASSUME NEW i \in 1..Len(h) PROVE MessageCurrent(turns1, h[i])
  <2>1. h[i] \in Message /\ MessageCurrent(turns, h[i])
    BY <1>2, ElementOfSeq DEF Faithful
  <2>2. CASE h[i].turn # t
    BY <1>1, <2>1, <2>2, OtherMessageCurrent DEF MessageCurrent
  <2>3. CASE h[i].turn = t
    <3>1. h[i].role = "user"
      BY <2>3 DEF Owed, t
    <3>2. QED
      BY <1>1, <2>1, <2>3, <3>1 DEF MessageCurrent, t
  <2>4. QED BY <2>2, <2>3
<1>3. \A s \in 1..Len(turns1) : turns1[s].question = turns[s].question
  BY <1>1 DEF t
<1>4. QED
  BY <1>1, <1>2, <1>3 DEF Faithful, Owed, t, turns1

\* The reply that was owed is appended, as the Turn now has it.
LEMMA AppendReply ==
    ASSUME NEW turns \in Seq(Turn), NEW h \in Seq(Message), Len(turns) # 0,
           Faithful(turns, h), Owed(turns, h),
           NEW e \in Turn, e.question = turns[Len(turns)].question
    PROVE  Faithful([turns EXCEPT ![Len(turns)] = e],
                    Append(h, Reply(Len(turns), e, e.interrupted)))
<1> DEFINE t == Len(turns)
           turns1 == [turns EXCEPT ![t] = e]
           m == Reply(t, e, e.interrupted)
           h1 == Append(h, m)
<1>1. /\ t \in 1..Len(turns) /\ t \in Nat /\ Len(h) \in Nat
      /\ Len(turns1) = Len(turns) /\ turns1[t] = e
      /\ \A s \in 1..Len(turns) : s # t => turns1[s] = turns[s]
  BY SetTurn
<1>2. m \in Message /\ m.turn = t /\ m.role = "assistant"
  <2>1. e.interrupted \in BOOLEAN
    BY DEF Turn
  <2>2. QED
    BY <1>1, <2>1, MessageTypes DEF Reply
<1>3. /\ Len(h1) = Len(h) + 1 /\ h1[Len(h) + 1] = m
      /\ \A i \in 1..Len(h) : h1[i] = h[i]
  BY <1>2, AppendProperties
<1>4. ASSUME NEW i \in 1..Len(h)
      PROVE  MessageCurrent(turns1, h[i]) /\ Before(h[i], m)
  <2>1. h[i] \in Message /\ MessageCurrent(turns, h[i])
    BY <1>4, ElementOfSeq DEF Faithful
  <2>2. CASE h[i].turn # t
    <3>1. MessageCurrent(turns1, h[i])
      BY <1>1, <2>1, <2>2, OtherMessageCurrent DEF MessageCurrent
    <3>2. h[i].turn \in 1..Len(turns)
      BY <2>1 DEF MessageCurrent
    <3>3. QED
      BY <1>1, <1>2, <2>2, <3>1, <3>2 DEF Before
  <2>3. CASE h[i].turn = t
    <3>1. h[i].role = "user"
      BY <2>3 DEF Owed
    <3>2. MessageCurrent(turns1, h[i])
      BY <1>1, <2>1, <2>3, <3>1 DEF MessageCurrent
    <3>3. QED
      BY <1>2, <2>3, <3>1, <3>2 DEF Before
  <2>4. QED BY <2>2, <2>3
<1>5. MessageCurrent(turns1, m)
  BY <1>1, <1>2 DEF MessageCurrent
<1>6. \A s \in 1..Len(turns1) : turns1[s].question = turns[s].question
  BY <1>1
<1> HIDE DEF turns1, m, h1, t
<1>7. \A i \in 1..Len(h1) : MessageCurrent(turns1, h1[i])
  BY <1>1, <1>3, <1>4, <1>5
<1>8. ASSUME NEW i \in 1..Len(h1), NEW j \in 1..Len(h1), i < j
      PROVE  Before(h1[i], h1[j])
  <2>1. CASE j \in 1..Len(h)
    BY <1>1, <1>3, <1>8, <2>1 DEF Faithful
  <2>2. CASE j = Len(h) + 1
    BY <1>1, <1>3, <1>4, <1>8, <2>2
  <2>3. QED BY <1>1, <1>3, <2>1, <2>2
<1>9. ASSUME NEW s \in 1..Len(turns1), turns1[s].question # 0
      PROVE  \E i \in 1..Len(h1) : h1[i].turn = s /\ h1[i].role = "user"
  <2>1. PICK i \in 1..Len(h) : h[i].turn = s /\ h[i].role = "user"
    BY <1>1, <1>6, <1>9 DEF Faithful
  <2>2. QED
    BY <1>1, <1>3, <2>1
<1>10. QED
  BY <1>7, <1>8, <1>9 DEF Faithful, turns1, m, h1, t

\* A reply given whole has not been cut.
LEMMA GivenUncut ==
    ASSUME NEW turns \in Seq(Turn), NEW h \in Seq(Message),
           Faithful(turns, h), Given(turns, h)
    PROVE  ~turns[Len(turns)].interrupted
<1> DEFINE t == Len(turns)
           m == h[Len(h)]
<1>1. Len(h) \in 1..Len(h) /\ m = Reply(t, turns[t], FALSE)
  BY DEF Given
<1>2. m.turn = t /\ m.role = "assistant" /\ m.mark = FALSE
  BY <1>1 DEF Reply
<1>3. MessageCurrent(turns, m)
  BY <1>1 DEF Faithful
<1>4. m = Reply(t, turns[t], turns[t].interrupted)
  BY <1>2, <1>3 DEF MessageCurrent
<1>5. m.mark = turns[t].interrupted
  BY <1>4 DEF Reply
<1>6. QED
  BY <1>2, <1>5

\* Taking the last Turn's reply back leaves it owed again.
LEMMA DropReply ==
    ASSUME NEW turns \in Seq(Turn), NEW h \in Seq(Message), Len(turns) # 0,
           Faithful(turns, h), Given(turns, h)
    PROVE  Faithful(turns, Front(h)) /\ Owed(turns, Front(h))
<1> DEFINE t == Len(turns)
           last == Len(h)
           m == h[last]
           h1 == Front(h)
<1>1. /\ t \in 1..Len(turns) /\ last \in 1..Len(h) /\ last \in Nat
      /\ h1 \in Seq(Message) /\ Len(h1) = last - 1
      /\ \A i \in 1..Len(h1) : h1[i] = h[i]
  BY FrontElements DEF Given
<1>2. m.turn = t /\ m.role = "assistant" /\ m.mark = FALSE
  BY DEF Given, Reply
<1>3. ~turns[t].interrupted
  BY GivenUncut
<1> HIDE DEF h1, t
<1>4. ASSUME NEW i \in 1..Len(h1), h1[i].turn = t PROVE h1[i].role = "user"
  <2>1. i \in 1..Len(h) /\ i < last /\ h1[i] = h[i]
    BY <1>1
  <2>2. Before(h[i], m)
    BY <1>1, <2>1 DEF Faithful
  <2>3. QED
    BY <1>1, <1>2, <1>4, <2>1, <2>2 DEF Before
<1>5. ASSUME NEW s \in 1..Len(turns), turns[s].question # 0
      PROVE  \E i \in 1..Len(h1) : h1[i].turn = s /\ h1[i].role = "user"
  <2>1. PICK i \in 1..Len(h) : h[i].turn = s /\ h[i].role = "user"
    BY <1>5 DEF Faithful
  <2>2. i # last
    BY <1>2, <2>1
  <2>3. QED
    BY <1>1, <2>1, <2>2
<1>6. Faithful(turns, h1)
  BY <1>1, <1>5 DEF Faithful
<1>7. QED
  BY <1>3, <1>4, <1>6 DEF Owed, h1, t

\* A new Turn has nothing among the messages.
LEMMA OpenTurn ==
    ASSUME NEW turns \in Seq(Turn), NEW h \in Seq(Message), Faithful(turns, h)
    PROVE  /\ Faithful(Append(turns, FreshTurn), h)
           /\ Owed(Append(turns, FreshTurn), h)
<1> DEFINE turns1 == Append(turns, FreshTurn)
<1>1. /\ Len(turns) \in Nat /\ Len(turns1) = Len(turns) + 1
      /\ turns1[Len(turns) + 1] = FreshTurn
      /\ \A s \in 1..Len(turns) : turns1[s] = turns[s]
  BY TurnTypes, AppendProperties
<1>2. FreshTurn.question = 0 /\ ~FreshTurn.interrupted
  BY DEF FreshTurn
<1> HIDE DEF turns1
<1>3. ASSUME NEW i \in 1..Len(h)
      PROVE  MessageCurrent(turns1, h[i]) /\ h[i].turn # Len(turns1)
  <2>1. h[i] \in Message /\ MessageCurrent(turns, h[i])
    BY <1>3, ElementOfSeq DEF Faithful
  <2>2. h[i].turn \in 1..Len(turns)
    BY <2>1 DEF MessageCurrent
  <2>3. QED
    BY <1>1, <2>1, <2>2, OtherMessageCurrent
<1>4. \A s \in 1..Len(turns1) : turns1[s].question # 0 =>
         s \in 1..Len(turns) /\ turns[s].question # 0
  BY <1>1, <1>2
<1>5. Faithful(turns1, h)
  BY <1>3, <1>4 DEF Faithful
<1>6. QED
  BY <1>1, <1>2, <1>3, <1>5 DEF Owed, turns1

\* Taking a Turn back that never asked anything.
LEMMA TakeTurnBack ==
    ASSUME NEW turns \in Seq(Turn), NEW h \in Seq(Message), Len(turns) # 0,
           Faithful(turns, h), Owed(turns, h), turns[Len(turns)].question = 0
    PROVE  Faithful(Front(turns), h)
<1> DEFINE t == Len(turns)
           turns1 == Front(turns)
<1>1. /\ t \in Nat /\ Len(turns1) = t - 1
      /\ \A s \in 1..Len(turns1) : turns1[s] = turns[s]
  BY FrontElements
<1> HIDE DEF turns1
<1>2. ASSUME NEW i \in 1..Len(h) PROVE MessageCurrent(turns1, h[i])
  <2>1. h[i] \in Message /\ MessageCurrent(turns, h[i])
    BY <1>2, ElementOfSeq DEF Faithful
  <2>2. h[i].turn # t
    BY <2>1 DEF Owed, MessageCurrent
  <2>3. h[i].turn \in 1..Len(turns1)
    BY <1>1, <2>1, <2>2 DEF MessageCurrent
  <2>4. QED
    BY <1>1, <2>1, <2>3, OtherMessageCurrent
<1>3. Faithful(turns1, h)
  <2>1. \A i, j \in 1..Len(h) : i < j => Before(h[i], h[j])
    BY DEF Faithful
  <2>2. ASSUME NEW s \in 1..Len(turns1), turns1[s].question # 0
        PROVE  \E i \in 1..Len(h) : h[i].turn = s /\ h[i].role = "user"
    <3>1. s \in 1..Len(turns) /\ turns[s].question # 0
      BY <1>1, <2>2
    <3>2. QED
      BY <3>1 DEF Faithful
  <2>3. QED
    BY <1>2, <2>1, <2>2 DEF Faithful
<1>4. QED BY <1>3 DEF turns1

\* While the reply is owed, the last message is the question, if there is one.
LEMMA QuestionLast ==
    ASSUME NEW turns \in Seq(Turn), NEW h \in Seq(Message), Len(turns) # 0,
           Faithful(turns, h), Owed(turns, h), turns[Len(turns)].question # 0
    PROVE  /\ Len(h) # 0
           /\ h[Len(h)] = Question(Len(turns), turns[Len(turns)].question)
<1> DEFINE t == Len(turns)
<1>1. t \in 1..Len(turns) /\ Len(h) \in Nat
  OBVIOUS
<1>2. PICK i \in 1..Len(h) : h[i].turn = t /\ h[i].role = "user"
  BY <1>1 DEF Faithful
<1>3. i = Len(h)
  <2>1. ASSUME i # Len(h) PROVE FALSE
    <3>1. Len(h) \in 1..Len(h) /\ i < Len(h)
      BY <1>1, <2>1
    <3>2. Before(h[i], h[Len(h)])
      BY <3>1 DEF Faithful
    <3>3. h[Len(h)].turn \in 1..Len(turns)
      BY <3>1 DEF Faithful, MessageCurrent
    <3>4. h[Len(h)].turn = t /\ h[Len(h)].role = "assistant"
      BY <1>1, <1>2, <3>2, <3>3 DEF Before
    <3>5. QED
      BY <3>1, <3>4 DEF Owed
  <2>2. QED BY <2>1
<1>4. QED
  BY <1>2, <1>3 DEF Faithful, MessageCurrent

\* A further utterance joins the last Turn's question, which is rewritten in place.
LEMMA ExtendQuestion ==
    ASSUME NEW turns \in Seq(Turn), NEW h \in Seq(Message), Len(turns) # 0,
           Faithful(turns, h), Owed(turns, h), turns[Len(turns)].question # 0,
           NEW e \in Turn, e.question # 0, ~e.interrupted,
           NEW h1, Len(h1) = Len(h), h1[Len(h)] = Question(Len(turns), e.question),
           \A i \in 1..Len(h) : i # Len(h) => h1[i] = h[i]
    PROVE  /\ Faithful([turns EXCEPT ![Len(turns)] = e], h1)
           /\ Owed([turns EXCEPT ![Len(turns)] = e], h1)
<1> DEFINE t == Len(turns)
           turns1 == [turns EXCEPT ![t] = e]
           last == Len(h)
           q == Question(t, e.question)
<1>1. /\ t \in 1..Len(turns) /\ t \in Nat
      /\ Len(turns1) = Len(turns) /\ turns1[t] = e
      /\ \A s \in 1..Len(turns) : s # t => turns1[s] = turns[s]
  BY SetTurn
<1>2. /\ last \in 1..Len(h) /\ h[last].turn = t /\ h[last].role = "user"
  <2>1. last # 0 /\ h[last] = Question(t, turns[t].question)
    BY QuestionLast
  <2>2. QED
    BY <2>1 DEF Question
<1>3. q.turn = t /\ q.role = "user"
  BY DEF Question
<1>4. /\ Len(h1) = Len(h) /\ h1[last] = q
      /\ \A i \in 1..Len(h) : i # last => h1[i] = h[i]
  OBVIOUS
<1>5. \A i \in 1..Len(h) : h1[i].turn = h[i].turn /\ h1[i].role = h[i].role
  BY <1>2, <1>3, <1>4
<1> HIDE DEF turns1, q, t, last
<1>6. ASSUME NEW i \in 1..Len(h) PROVE MessageCurrent(turns1, h1[i])
  <2>1. CASE i = last
    BY <1>1, <1>3, <1>4, <2>1 DEF MessageCurrent, q
  <2>2. CASE i # last
    <3>1. h[i] \in Message /\ MessageCurrent(turns, h[i])
      BY <1>6, ElementOfSeq DEF Faithful
    <3>2. h[i].turn # t
      <4>1. i < last
        BY <1>2, <2>2 DEF last
      <4>2. Before(h[i], h[last])
        BY <1>2, <4>1 DEF Faithful
      <4>3. h[i].turn \in Nat
        BY <3>1 DEF MessageCurrent
      <4>4. QED
        BY <1>1, <1>2, <4>2, <4>3 DEF Before
    <3>3. h[i].turn \in 1..Len(turns1)
      BY <1>1, <3>1 DEF MessageCurrent
    <3>4. QED
      BY <1>1, <1>4, <2>2, <3>1, <3>2, <3>3, OtherMessageCurrent
  <2>3. QED BY <2>1, <2>2
<1>7. \A i, j \in 1..Len(h1) : i < j => Before(h1[i], h1[j])
  BY <1>4, <1>5 DEF Faithful, Before
<1>8. ASSUME NEW s \in 1..Len(turns1), turns1[s].question # 0
      PROVE  \E i \in 1..Len(h1) : h1[i].turn = s /\ h1[i].role = "user"
  <2>1. turns[s].question # 0
    BY <1>1, <1>8 DEF t
  <2>2. PICK i \in 1..Len(h) : h[i].turn = s /\ h[i].role = "user"
    BY <1>1, <2>1 DEF Faithful
  <2>3. QED
    BY <1>4, <1>5, <2>2
<1>9. Faithful(turns1, h1)
  BY <1>4, <1>6, <1>7, <1>8 DEF Faithful
<1>10. Owed(turns1, h1)
  BY <1>1, <1>4, <1>5 DEF Owed, t
<1>11. QED
  BY <1>9, <1>10 DEF turns1, t

\* The first utterance of a Turn becomes its question.
LEMMA AppendQuestion ==
    ASSUME NEW turns \in Seq(Turn), NEW h \in Seq(Message), Len(turns) # 0,
           Faithful(turns, h), Owed(turns, h), turns[Len(turns)].question = 0,
           NEW e \in Turn, e.question # 0, ~e.interrupted
    PROVE  /\ Faithful([turns EXCEPT ![Len(turns)] = e],
                       Append(h, Question(Len(turns), e.question)))
           /\ Owed([turns EXCEPT ![Len(turns)] = e],
                   Append(h, Question(Len(turns), e.question)))
<1> DEFINE t == Len(turns)
           turns1 == [turns EXCEPT ![t] = e]
           q == Question(t, e.question)
           h1 == Append(h, q)
<1>1. /\ t \in 1..Len(turns) /\ t \in Nat /\ Len(h) \in Nat
      /\ Len(turns1) = Len(turns) /\ turns1[t] = e
      /\ \A s \in 1..Len(turns) : s # t => turns1[s] = turns[s]
  BY SetTurn
<1>2. q \in Message /\ q.turn = t /\ q.role = "user"
  <2>1. e.question \in Nat
    BY DEF Turn
  <2>2. QED
    BY <1>1, <2>1, MessageTypes DEF Question
<1>3. /\ Len(h1) = Len(h) + 1 /\ h1[Len(h) + 1] = q
      /\ \A i \in 1..Len(h) : h1[i] = h[i]
  BY <1>2, AppendProperties
<1> HIDE DEF turns1, h1, t
<1>4. ASSUME NEW i \in 1..Len(h)
      PROVE  MessageCurrent(turns1, h[i]) /\ Before(h[i], q)
  <2>1. h[i] \in Message /\ MessageCurrent(turns, h[i])
    BY <1>4, ElementOfSeq DEF Faithful
  <2>2. h[i].turn # t
    BY <2>1 DEF Owed, MessageCurrent, t
  <2>3. h[i].turn \in 1..Len(turns)
    BY <2>1 DEF MessageCurrent
  <2>4. MessageCurrent(turns1, h[i])
    BY <1>1, <2>1, <2>2, <2>3, OtherMessageCurrent
  <2>5. QED
    BY <1>1, <1>2, <2>2, <2>3, <2>4 DEF Before, t
<1>5. MessageCurrent(turns1, q)
  BY <1>1, <1>2 DEF MessageCurrent
<1> HIDE DEF q
<1>6. \A i \in 1..Len(h1) : MessageCurrent(turns1, h1[i])
  BY <1>1, <1>3, <1>4, <1>5
<1>7. ASSUME NEW i \in 1..Len(h1), NEW j \in 1..Len(h1), i < j
      PROVE  Before(h1[i], h1[j])
  <2>1. CASE j \in 1..Len(h)
    BY <1>1, <1>3, <1>7, <2>1 DEF Faithful
  <2>2. CASE j = Len(h) + 1
    BY <1>1, <1>3, <1>4, <1>7, <2>2
  <2>3. QED BY <1>1, <1>3, <2>1, <2>2
<1>8. ASSUME NEW s \in 1..Len(turns1), turns1[s].question # 0
      PROVE  \E i \in 1..Len(h1) : h1[i].turn = s /\ h1[i].role = "user"
  <2>1. CASE s = t
    <3>1. Len(h) + 1 \in 1..Len(h1)
      BY <1>1, <1>3
    <3>2. QED
      BY <1>2, <1>3, <2>1, <3>1
  <2>2. CASE s # t
    <3>1. PICK i \in 1..Len(h) : h[i].turn = s /\ h[i].role = "user"
      BY <1>1, <1>8, <2>2 DEF Faithful
    <3>2. QED
      BY <1>1, <1>3, <3>1
  <2>3. QED BY <2>1, <2>2
<1>9. Faithful(turns1, h1)
  BY <1>6, <1>7, <1>8 DEF Faithful
<1>10. ASSUME NEW i \in 1..Len(h1), h1[i].turn = Len(turns1) PROVE h1[i].role = "user"
  <2>1. CASE i \in 1..Len(h)
    BY <1>1, <1>3, <1>10, <2>1 DEF Owed, t
  <2>2. CASE i = Len(h) + 1
    BY <1>2, <1>3, <2>2
  <2>3. QED BY <1>1, <1>3, <2>1, <2>2
<1>11. Owed(turns1, h1)
  BY <1>1, <1>10 DEF Owed, t
<1>12. QED
  BY <1>9, <1>11 DEF turns1, h1, q, t

\* The fixed closing line joins the last reply, in the Turn and in its message.
LEMMA AddFarewell ==
    ASSUME NEW turns \in Seq(Turn), NEW h \in Seq(Message), Len(turns) # 0,
           Faithful(turns, h), Given(turns, h),
           NEW e \in Turn, e.question = turns[Len(turns)].question,
           ~e.interrupted,
           NEW h1, Len(h1) = Len(h), h1[Len(h)] = Reply(Len(turns), e, FALSE),
           \A i \in 1..Len(h) : i # Len(h) => h1[i] = h[i]
    PROVE  /\ Faithful([turns EXCEPT ![Len(turns)] = e], h1)
           /\ Given([turns EXCEPT ![Len(turns)] = e], h1)
<1> DEFINE t == Len(turns)
           turns1 == [turns EXCEPT ![t] = e]
           last == Len(h)
           m == Reply(t, e, FALSE)
<1>1. /\ t \in 1..Len(turns) /\ t \in Nat
      /\ Len(turns1) = Len(turns) /\ turns1[t] = e
      /\ \A s \in 1..Len(turns) : s # t => turns1[s] = turns[s]
  BY SetTurn
<1>2. /\ last \in 1..Len(h) /\ last \in Nat
      /\ h[last].turn = t /\ h[last].role = "assistant"
  BY DEF Given, Reply
<1>3. e.question = turns[t].question /\ MessageCurrent(turns1, m)
  <2>1. e.interrupted = FALSE
    BY DEF Turn
  <2>2. m = Reply(t, e, e.interrupted)
    BY <2>1
  <2>3. m.turn = t /\ m.role = "assistant"
    BY DEF Reply
  <2> HIDE DEF turns1, m
  <2>4. QED
    BY <1>1, <2>2, <2>3 DEF MessageCurrent
<1>4. m.turn = t /\ m.role = "assistant"
  BY DEF Reply
<1>5. /\ Len(h1) = Len(h) /\ h1[last] = m
      /\ \A i \in 1..Len(h) : i # last => h1[i] = h[i]
  OBVIOUS
<1> HIDE DEF m
<1>6. \A i \in 1..Len(h) : h1[i].turn = h[i].turn /\ h1[i].role = h[i].role
  BY <1>2, <1>4, <1>5
<1> HIDE DEF turns1, t, last
<1>7. ASSUME NEW i \in 1..Len(h) PROVE MessageCurrent(turns1, h1[i])
  <2>1. CASE i = last
    BY <1>3, <1>5, <2>1
  <2>2. CASE i # last
    <3>1. h[i] \in Message /\ MessageCurrent(turns, h[i])
      BY <1>7, ElementOfSeq DEF Faithful
    <3>2. h[i].turn \in 1..Len(turns)
      BY <3>1 DEF MessageCurrent
    <3>3. CASE h[i].turn # t
      BY <1>1, <1>5, <2>2, <3>1, <3>2, <3>3, OtherMessageCurrent
    <3>4. CASE h[i].turn = t
      <4>1. i < last
        BY <1>2, <2>2 DEF last
      <4>2. Before(h[i], h[last])
        BY <1>2, <4>1 DEF Faithful
      <4>3. h[i].role = "user"
        BY <1>1, <1>2, <3>4, <4>2 DEF Before
      <4>4. QED
        BY <1>1, <1>3, <1>5, <2>2, <3>1, <3>2, <3>4, <4>3 DEF MessageCurrent
    <3>5. QED BY <3>3, <3>4
  <2>3. QED BY <2>1, <2>2
<1>8. \A i, j \in 1..Len(h1) : i < j => Before(h1[i], h1[j])
  BY <1>5, <1>6 DEF Faithful, Before
<1>9. ASSUME NEW s \in 1..Len(turns1), turns1[s].question # 0
       PROVE  \E i \in 1..Len(h1) : h1[i].turn = s /\ h1[i].role = "user"
  <2>1. turns[s].question # 0
    BY <1>1, <1>3, <1>9
  <2>2. PICK i \in 1..Len(h) : h[i].turn = s /\ h[i].role = "user"
    BY <1>1, <2>1 DEF Faithful
  <2>3. QED
    BY <1>5, <1>6, <2>2
<1>10. Faithful(turns1, h1)
  BY <1>5, <1>7, <1>8, <1>9 DEF Faithful
<1>11. Given(turns1, h1)
  BY <1>1, <1>2, <1>5 DEF Given, m, t, last
<1>12. QED
  BY <1>10, <1>11 DEF turns1, t

-----------------------------------------------------------------------------
(* What the trimming paths do to them                                      *)

\* A wordless open Turn owes its reply, until the call is ended.
Linked(o) ==
    ~o.ended /\ o.reopen # 0 /\ Silent(o.turns[o.reopen]) => Owed(o.turns, o.history)
OpenIsSilent(o) == o.reopen # 0 => Silent(o.turns[o.reopen])

\* The Turn cut down, and the Turn emptied, keep their question.
LEMMA CutTurn ==
    ASSUME NEW turn \in Turn
    PROVE  /\ Unsaid(turn) \in Turn /\ Unsaid(turn).question = turn.question
           /\ Unsaid(turn).interrupted = turn.interrupted /\ Silent(Unsaid(turn))
           /\ \A n \in Nat : /\ Trimmed(turn, n) \in Turn
                            /\ Trimmed(turn, n).question = turn.question
                            /\ Trimmed(turn, n).interrupted = TRUE
BY DEF Unsaid, Trimmed, Turn, Silent

\* Emptying the last Turn while its reply is owed: the record stays faithful.
LEMMA UnsaidKeeps ==
    ASSUME NEW turns \in Seq(Turn), NEW h \in Seq(Message), Len(turns) # 0,
           Faithful(turns, h), Owed(turns, h)
    PROVE  /\ Faithful([turns EXCEPT ![Len(turns)] = Unsaid(@)], h)
           /\ Owed([turns EXCEPT ![Len(turns)] = Unsaid(@)], h)
<1>1. turns[Len(turns)] \in Turn
  BY ElementOfSeq
<1> DEFINE e == Unsaid(turns[Len(turns)])
<1>2. e \in Turn /\ e.question = turns[Len(turns)].question /\ ~e.interrupted
  BY <1>1, CutTurn DEF Owed
<1> HIDE DEF e
<1>3. /\ Faithful([turns EXCEPT ![Len(turns)] = e], h)
      /\ Owed([turns EXCEPT ![Len(turns)] = e], h)
  BY <1>2, RewriteOwed
<1>4. QED BY <1>3 DEF e

\* Committing what was heard of the owed reply.
LEMMA CommitHeardKeeps ==
    ASSUME NEW o \in Orchestrator, Len(o.turns) # 0, NEW heard \in Nat,
           NEW earlier \in Seq(Message),
           Faithful(o.turns, earlier), Owed(o.turns, earlier),
           NEW r, r = CommitHeard(o, Len(o.turns), heard, earlier)
    PROVE  Faithful(r.turns, r.history) /\ r.reopen = 0
<1> DEFINE t == Len(o.turns)
           e == Trimmed(o.turns[t], heard)
<1>1. o.turns \in Seq(Turn) /\ o.turns[t] \in Turn
  BY TurnList
<1>2. e \in Turn /\ e.question = o.turns[t].question /\ e.interrupted = TRUE
  BY <1>1, CutTurn
<1>3. /\ r.turns = [o.turns EXCEPT ![t] = e] /\ r.history = Append(earlier, Reply(t, e, TRUE))
      /\ r.reopen = 0
  BY DEF CommitHeard, Orchestrator
<1> HIDE DEF e
<1>4. Faithful([o.turns EXCEPT ![t] = e], Append(earlier, Reply(t, e, e.interrupted)))
  BY <1>1, <1>2, AppendReply
<1>5. QED
  BY <1>2, <1>3, <1>4

\* _revise_committed_reply keeps the record faithful and the open Turn's debt.
LEMMA ReviseKeeps ==
    ASSUME NEW o \in Orchestrator, NEW g \in Generator, NEW pos \in Position,
           Len(o.turns) # 0, g.turn = Len(o.turns),
           Faithful(o.turns, o.history), Linked(o),
           NEW r, r = ReviseCommittedReply(o, g, pos)
    PROVE  /\ Faithful(r.turns, r.history) /\ Linked(r)
           /\ OpenIsSilent(o) => OpenIsSilent(r)
<1> DEFINE t == g.turn
           heard == Cut(g, pos)
           closed == [o EXCEPT !.revisable = 0]
           stands == g.committed /\ ~Silent(o.turns[t]) /\ LastReplyIs(o, t)
           before == Front(o.history)
<1>1. /\ closed \in Orchestrator /\ closed.turns = o.turns /\ closed.history = o.history
      /\ closed.reopen = o.reopen /\ closed.ended = o.ended
  <2>1. 0 \in Nat
    OBVIOUS
  <2>2. QED
    BY <2>1 DEF Orchestrator
<1>2. /\ o.turns \in Seq(Turn) /\ o.history \in Seq(Message) /\ heard \in Nat
      /\ t \in 1..Len(o.turns) /\ o.turns[t] \in Turn
  BY TurnList, CutType
<1> HIDE DEF closed, heard
<1>3. ASSUME stands
      PROVE  before \in Seq(Message) /\ Faithful(o.turns, before) /\ Owed(o.turns, before)
  <2>1. Given(o.turns, o.history)
    BY <1>2, <1>3 DEF Given, LastReplyIs
  <2>2. QED
    BY <1>2, <2>1, DropReply, FrontType
<1>4. CASE stands /\ heard = 0
  <2>1. r = [closed EXCEPT !.turns[t] = Unsaid(@), !.history = Front(@), !.reopen = t]
    BY <1>4 DEF ReviseCommittedReply, closed, heard
  <2>2. /\ r.turns = [o.turns EXCEPT ![t] = Unsaid(@)] /\ r.history = before
        /\ r.reopen = t
    BY <1>1, <2>1 DEF Orchestrator
  <2> HIDE DEF before
  <2>3. Faithful(r.turns, r.history) /\ Owed(r.turns, r.history)
    <3>1. before \in Seq(Message) /\ Faithful(o.turns, before) /\ Owed(o.turns, before)
      BY <1>3, <1>4
    <3>2. /\ Faithful([o.turns EXCEPT ![Len(o.turns)] = Unsaid(@)], before)
          /\ Owed([o.turns EXCEPT ![Len(o.turns)] = Unsaid(@)], before)
      BY <1>2, <3>1, UnsaidKeeps
    <3>3. QED
      BY <2>2, <3>2
  <2>4. Silent(r.turns[t])
    <3>1. r.turns[t] = Unsaid(o.turns[t])
      BY <1>2, <2>2
    <3>2. QED
      BY <1>2, <3>1, CutTurn
  <2>5. QED
    BY <2>2, <2>3, <2>4 DEF Linked, OpenIsSilent
<1>5. CASE stands /\ heard # 0 /\ heard < Length(o.turns[t])
  <2>1. r = CommitHeard(closed, t, heard, before)
    BY <1>1, <1>5 DEF ReviseCommittedReply, closed, heard
  <2>2. Faithful(r.turns, r.history) /\ r.reopen = 0
    BY <1>1, <1>2, <1>3, <1>5, <2>1, CommitHeardKeeps
  <2>3. QED
    BY <2>2 DEF Linked, OpenIsSilent
<1>6. CASE ~(stands /\ heard = 0) /\ ~(stands /\ heard # 0 /\ heard < Length(o.turns[t]))
  <2>1. r = closed
    BY <1>6 DEF ReviseCommittedReply, closed, heard
  <2>2. QED
    BY <1>1, <2>1 DEF Linked, OpenIsSilent
<1>7. QED BY <1>4, <1>5, <1>6

\* The teardown does too, when an uncommitted reply is owed.
LEMMA FinalizeKeeps ==
    ASSUME NEW o \in Orchestrator, NEW g \in Generator,
           Len(o.turns) # 0, g.turn = Len(o.turns),
           Faithful(o.turns, o.history), Linked(o),
           ~g.committed => Owed(o.turns, o.history),
           NEW r, r = FinalizeInterrupted(o, g)
    PROVE  Faithful(r.turns, r.history) /\ Linked(r)
<1> DEFINE t == g.turn
           heard == Cut(g, o.bargeIn)
           taken == [o EXCEPT !.bargeIn = AllPlayed]
<1>1. AllPlayed \in Position /\ o.bargeIn \in Position
  BY CallAssumption DEF AllPlayed, Position, Orchestrator
<1>2. /\ taken \in Orchestrator /\ taken.turns = o.turns /\ taken.history = o.history
      /\ taken.reopen = o.reopen /\ taken.ended = o.ended
  BY <1>1 DEF Orchestrator
<1>3. /\ o.turns \in Seq(Turn) /\ o.history \in Seq(Message) /\ heard \in Nat
  BY <1>1, TurnList, CutType
<1> HIDE DEF taken, heard
<1>4. CASE g.committed
  <2>1. r = ReviseCommittedReply(taken, g, o.bargeIn)
    BY <1>4 DEF FinalizeInterrupted, taken
  <2>2. Linked(taken)
    BY <1>2 DEF Linked
  <2>3. QED
    BY <1>1, <1>2, <2>1, <2>2, ReviseKeeps
<1>5. CASE ~g.committed /\ g.spokeYet /\ heard > 0
  <2>1. r = CommitHeard(taken, t, heard, o.history)
    BY <1>5 DEF FinalizeInterrupted, taken, heard
  <2>2. Faithful(r.turns, r.history) /\ r.reopen = 0
    BY <1>2, <1>3, <1>5, <2>1, CommitHeardKeeps
  <2>3. QED
    BY <2>2 DEF Linked
<1>6. CASE ~g.committed /\ ~(g.spokeYet /\ heard > 0)
  <2>1. r = [taken EXCEPT !.turns[t] = Unsaid(@)]
    BY <1>6 DEF FinalizeInterrupted, taken, heard
  <2>2. r.turns = [o.turns EXCEPT ![t] = Unsaid(@)] /\ r.history = o.history
    BY <1>2, <2>1 DEF Orchestrator
  <2>3. Faithful(r.turns, r.history) /\ Owed(r.turns, r.history)
    BY <1>3, <1>6, <2>2, UnsaidKeeps
  <2>4. QED
    BY <2>3 DEF Linked
<1>7. QED BY <1>4, <1>5, <1>6

-----------------------------------------------------------------------------
(* The inductive invariant, on top of LiveCallProofs'                      *)

\* The suspension points behind a commit.
Ending == {"farewell", "signingOff", "completing", "settling"}
CommittedByThen == phase \in Ending => gen.committed

\* A Turn opened for an utterance asks nothing yet; a spoken prompt is closed.
FreshUnlessReopened == phase = "transcribing" /\ ~gen.reopened => Current.question = 0
PromptClosed == phase \in Ending /\ gen.kind = "prompt" => orch.reopen = 0

\* The running or parked Turn owes its reply until the commit, and has given it then.
ReplyPending ==
    (phase \in TurnPhases \/ parked) /\ ~gen.committed => Owed(orch.turns, orch.history)
ReplyGiven == phase \in Ending => Given(orch.turns, orch.history)

\* What is left open between Turns has no words, nor has what is reopened.
LeftOpenSilent == phase \in {"dialled", "between"} => OpenIsSilent(orch)
StartsSilent == phase = "transcribing" => Silent(Current)

Straight ==
    /\ Faithful(orch.turns, orch.history)
    /\ Linked(orch)
    /\ ReplyPending
    /\ ReplyGiven
    /\ LeftOpenSilent
    /\ StartsSilent

HInv ==
    /\ CommittedByThen
    /\ FreshUnlessReopened
    /\ PromptClosed
    /\ ~muddled => Straight

\* What LiveCallProofs' invariant says of the running Turn.
LEMMA LastRuns ==
    ASSUME IInv, phase \in TurnPhases \/ parked \/ orch.revisable # 0
    PROVE  /\ orch \in Orchestrator /\ gen \in Generator
           /\ Len(orch.turns) # 0 /\ gen.turn = Len(orch.turns)
           /\ Current = orch.turns[Len(orch.turns)]
           /\ orch.turns \in Seq(Turn) /\ orch.history \in Seq(Message)
           /\ orch.turns[Len(orch.turns)] \in Turn
           /\ gen.turn \in 1..Len(orch.turns)
BY RunningTurn, TurnList DEF IInv, RunsLastTurn, Running, Current

\* Steps that leave the Turns alone and advance the generator only.
LEMMA GeneratorKeeps ==
    ASSUME IInv, HInv,
           \/ TranscriptionFails \/ SpeakingAnnounced \/ SynthesisFails \/ MarkerAlone
           \/ ChunkSuppressed \/ FarewellSynthesized \/ FarewellFails \/ Finished
    PROVE  HInv'
<1> USE DEF HInv, Straight, CommittedByThen, FreshUnlessReopened, PromptClosed, Ending,
            ReplyPending, ReplyGiven, LeftOpenSilent, StartsSilent, TurnPhases, Current,
            endVars, observed
<1>1. gen \in Generator
  BY RunningTurn
<1>2. orch' = orch /\ gen'.turn = gen.turn /\ gen'.committed = gen.committed
      /\ gen'.kind = gen.kind /\ parked' = parked /\ muddled' = muddled
  BY <1>1 DEF TranscriptionFails, SpeakingAnnounced, SynthesisFails, MarkerAlone,
         ChunkSuppressed, FarewellSynthesized, FarewellFails, Finished, vars, Generator
<1>3. CASE TranscriptionFails
  BY <1>2, <1>3 DEF TranscriptionFails
<1>4. CASE SpeakingAnnounced
  BY <1>2, <1>4 DEF SpeakingAnnounced
<1>5. CASE SynthesisFails
  BY <1>2, <1>5 DEF SynthesisFails
<1>6. CASE MarkerAlone
  BY <1>2, <1>6 DEF MarkerAlone
<1>7. CASE ChunkSuppressed
  BY <1>2, <1>7 DEF ChunkSuppressed
<1>8. CASE FarewellSynthesized
  BY <1>2, <1>8 DEF FarewellSynthesized
<1>9. CASE FarewellFails
  BY <1>2, <1>9 DEF FarewellFails
<1>10. CASE Finished
  BY <1>2, <1>10 DEF Finished, vars
<1>11. QED BY <1>3, <1>4, <1>5, <1>6, <1>7, <1>8, <1>9, <1>10

\* Opening a Turn: the wordless one left open, or a new one.
LEMMA StartTurnKeeps ==
    ASSUME IInv, HInv, NEW o \in Orchestrator, NEW kind \in {"opening", "prompt", "user"},
           phase \in {"dialled", "between"},
           o.turns = orch.turns, o.history = orch.history, o.reopen = orch.reopen,
           o.ended = orch.ended,
           NewOrReopenedTurn(o, kind),
           phase' \in {"transcribing", "replying"}, UNCHANGED endVars
    PROVE  HInv'
<1> DEFINE reopened == o.reopen # 0
           t == IF reopened THEN o.reopen ELSE Len(o.turns) + 1
           turns1 == IF reopened THEN o.turns ELSE Append(o.turns, FreshTurn)
<1>1. /\ o.turns \in Seq(Turn) /\ o.history \in Seq(Message) /\ Len(o.turns) \in Nat
      /\ ~orch.ended /\ orch.reopen \in {0, Len(orch.turns)}
  BY TurnList DEF IInv, EndedNeverRevived, EarlierTurnsAnswered
<1>2. orch' = [o EXCEPT !.turns = turns1, !.reopen = t, !.revisable = 0, !.bargeIn = AllPlayed]
  BY DEF NewOrReopenedTurn
<1>3. /\ gen' = FreshGenerator(kind, t, reopened) /\ muddled' = muddled
  BY DEF NewOrReopenedTurn
<1>4. gen'.turn = t /\ ~gen'.committed /\ (gen'.reopened <=> reopened)
  BY <1>3 DEF FreshGenerator
<1>5. t = Len(turns1) /\ (~reopened => turns1[t] = FreshTurn)
  BY <1>1, TurnTypes, AppendProperties
<1> HIDE DEF turns1, t
<1>6. /\ orch'.turns = turns1 /\ orch'.history = o.history /\ orch'.reopen = t
      /\ orch'.ended = o.ended
  BY <1>2 DEF Orchestrator
<1>7. FreshUnlessReopened'
  BY <1>4, <1>5, <1>6 DEF FreshUnlessReopened, Current, FreshTurn
<1>8. ASSUME ~muddled
      PROVE  /\ Faithful(turns1, o.history) /\ Owed(turns1, o.history)
             /\ Silent(turns1[t])
  <2>1. Faithful(o.turns, o.history) /\ Linked(orch) /\ OpenIsSilent(orch)
    BY <1>8 DEF HInv, Straight, LeftOpenSilent
  <2>2. CASE reopened
    <3>1. Silent(o.turns[o.reopen]) /\ Owed(o.turns, o.history)
      BY <1>1, <2>1, <2>2 DEF OpenIsSilent, Linked
    <3>2. QED
      BY <2>1, <2>2, <3>1 DEF turns1, t
  <2>3. CASE ~reopened
    <3>1. Faithful(Append(o.turns, FreshTurn), o.history)
          /\ Owed(Append(o.turns, FreshTurn), o.history)
      BY <1>1, <2>1, OpenTurn
    <3>2. Silent(FreshTurn)
      BY DEF Silent, FreshTurn
    <3>3. QED
      BY <1>5, <2>3, <3>1, <3>2 DEF turns1
  <2>4. QED BY <2>2, <2>3
<1>9. ~muddled' => Straight'
  BY <1>3, <1>4, <1>6, <1>8
     DEF Straight, Linked, ReplyPending, ReplyGiven, LeftOpenSilent, StartsSilent, Ending,
         Current
<1>10. QED
  BY <1>7, <1>9 DEF HInv, CommittedByThen, PromptClosed, Ending

\* Picking up, a silence, an utterance.
LEMMA StartKeeps ==
    ASSUME IInv, HInv, OpenCall \/ SilenceElapses \/ TurnAudioArrives \/ Activate
    PROVE  HInv'
<1>1. orch \in Orchestrator
  BY RunningTurn
<1>2. CASE OpenCall /\ Reverse
  <2>1. /\ NewOrReopenedTurn(orch, "opening") /\ phase = "dialled" /\ phase' = "replying"
        /\ UNCHANGED endVars
    BY <1>2 DEF OpenCall
  <2>2. QED
    BY <1>1, <2>1, StartTurnKeeps
<1>3. CASE OpenCall /\ ~Reverse
  <2>1. /\ phase = "dialled" /\ phase' = "between"
        /\ UNCHANGED <<orch, gen, observed, endVars>>
    BY <1>3 DEF OpenCall
  <2>2. QED
    BY <2>1 DEF HInv, Straight, CommittedByThen, FreshUnlessReopened, PromptClosed, Ending,
                ReplyPending, ReplyGiven, LeftOpenSilent, StartsSilent, TurnPhases, Current,
                endVars, observed
<1>4. CASE SilenceElapses
  <2> DEFINE o == [orch EXCEPT !.said = @ + 1]
  <2>1. /\ o \in Orchestrator /\ o.turns = orch.turns /\ o.history = orch.history
        /\ o.reopen = orch.reopen /\ o.ended = orch.ended
    <3>1. orch.said < Prompts
      BY <1>4 DEF SilenceElapses
    <3>2. orch.said + 1 \in 0..Prompts
      BY <1>1, <3>1, CallAssumption DEF Orchestrator
    <3>3. QED
      BY <1>1, <3>2 DEF Orchestrator
  <2>2. /\ NewOrReopenedTurn(o, "prompt") /\ phase = "between" /\ phase' = "replying"
        /\ UNCHANGED endVars
    BY <1>4 DEF SilenceElapses
  <2> HIDE DEF o
  <2>3. QED
    BY <2>1, <2>2, StartTurnKeeps
<1>5. CASE TurnAudioArrives
  <2>1. /\ NewOrReopenedTurn(orch, "user") /\ phase = "between" /\ phase' = "transcribing"
        /\ UNCHANGED endVars
    BY <1>5 DEF TurnAudioArrives
  <2>2. QED
    BY <1>1, <2>1, StartTurnKeeps
<1>6. CASE Activate
  <2>1. /\ orch'.turns = orch.turns /\ orch'.history = orch.history
        /\ orch'.reopen = orch.reopen /\ orch'.ended = orch.ended
        /\ UNCHANGED <<gen, phase, muddled, parked>>
    BY <1>1, <1>6 DEF Activate, Orchestrator, observed, endVars
  <2>2. QED
    BY <2>1 DEF HInv, Straight, CommittedByThen, FreshUnlessReopened, PromptClosed, Ending,
                ReplyPending, ReplyGiven, LeftOpenSilent, StartsSilent, TurnPhases, Current,
                Linked, OpenIsSilent
<1>7. QED BY <1>2, <1>3, <1>4, <1>5, <1>6

\* A misfire: the Turn opened for it is taken back.
LEMMA PhantomKeeps ==
    ASSUME IInv, HInv, Phantom
    PROVE  HInv'
<1>1. /\ phase = "transcribing" /\ phase' = "between" /\ gen' = Exited(gen)
      /\ parked' = parked /\ muddled' = muddled
      /\ orch' = IF gen.reopened THEN orch
                 ELSE [orch EXCEPT !.turns = Front(@), !.reopen = 0]
  BY DEF Phantom, observed, endVars
<1>2. /\ orch \in Orchestrator /\ Len(orch.turns) # 0 /\ gen.turn = Len(orch.turns)
      /\ Current = orch.turns[Len(orch.turns)]
      /\ orch.turns \in Seq(Turn) /\ orch.history \in Seq(Message)
      /\ orch.reopen = gen.turn /\ ~gen.committed /\ ~parked
  BY <1>1, LastRuns DEF IInv, OpenUntilCommitted, NotCommittedEarly, ParkedAfterwards, TurnPhases
<1>3. ASSUME ~muddled
      PROVE  Faithful(orch'.turns, orch'.history) /\ Linked(orch') /\ OpenIsSilent(orch')
  <2>1. /\ Faithful(orch.turns, orch.history) /\ Linked(orch)
        /\ Owed(orch.turns, orch.history) /\ Silent(Current)
    BY <1>1, <1>2, <1>3 DEF HInv, Straight, ReplyPending, StartsSilent, TurnPhases
  <2>2. CASE gen.reopened
    BY <1>1, <1>2, <2>1, <2>2 DEF OpenIsSilent, Current
  <2>3. CASE ~gen.reopened
    <3>1. Current.question = 0
      BY <1>1, <2>3 DEF HInv, FreshUnlessReopened
    <3>2. /\ orch'.turns = Front(orch.turns) /\ orch'.history = orch.history
          /\ orch'.reopen = 0
      BY <1>1, <1>2, <2>3 DEF Orchestrator
    <3>3. Faithful(Front(orch.turns), orch.history)
      BY <1>2, <2>1, <3>1, TakeTurnBack
    <3>4. QED
      BY <3>2, <3>3 DEF Linked, OpenIsSilent
  <2>4. QED BY <2>2, <2>3
<1>4. QED
  BY <1>1, <1>2, <1>3
     DEF HInv, Straight, CommittedByThen, FreshUnlessReopened, PromptClosed, Ending,
         ReplyPending, ReplyGiven, LeftOpenSilent, StartsSilent, TurnPhases

\* An utterance is joined to the open question, or becomes the Turn's question.
LEMMA TranscribedKeeps ==
    ASSUME IInv, HInv, NEW b \in BOOLEAN, Transcribed(b)
    PROVE  HInv'
<1> DEFINE t == gen.turn
           extends == gen.reopened /\ orch.turns[t].question > 0
           n == IF extends THEN orch.turns[t].question + 1 ELSE 1
           e == Asked(orch.turns[t], n, b)
           last == Len(orch.history)
           m == [Question(t, n) EXCEPT !.role = orch.history[last].role]
           h == IF extends THEN [orch.history EXCEPT ![last] = m]
                ELSE Append(orch.history, Question(t, n))
<1>1. /\ phase = "transcribing" /\ phase' = "measuring" /\ gen' = gen
      /\ parked' = parked /\ muddled' = muddled
      /\ orch' = [orch EXCEPT !.turns[t] = e, !.history = h]
  BY DEF Transcribed, observed, endVars
<1>2. /\ orch \in Orchestrator /\ Len(orch.turns) # 0 /\ t = Len(orch.turns)
      /\ Current = orch.turns[t]
      /\ orch.turns \in Seq(Turn) /\ orch.history \in Seq(Message)
      /\ orch.turns[t] \in Turn /\ ~gen.committed
  BY <1>1, LastRuns DEF IInv, NotCommittedEarly, TurnPhases
<1>3. n \in Nat /\ n # 0 /\ e \in Turn /\ e.question = n /\ e.interrupted = orch.turns[t].interrupted
  <2>1. n \in Nat /\ n # 0
    BY <1>2 DEF Turn
  <2>2. (orch.turns[t].asks \/ b) \in BOOLEAN
    OBVIOUS
  <2> HIDE DEF n
  <2>3. QED
    BY <1>2, <2>1, <2>2 DEF Turn, Asked
<1> HIDE DEF e, h
<1>4. /\ orch'.turns = [orch.turns EXCEPT ![t] = e] /\ orch'.history = h
      /\ orch'.reopen = orch.reopen /\ orch'.ended = orch.ended
  BY <1>1, <1>2 DEF Orchestrator
<1>5. ASSUME ~muddled
      PROVE  /\ Faithful(orch'.turns, orch'.history)
             /\ Owed(orch'.turns, orch'.history)
  <2>1. Faithful(orch.turns, orch.history) /\ Owed(orch.turns, orch.history)
    BY <1>1, <1>2, <1>5 DEF HInv, Straight, ReplyPending, TurnPhases
  <2>2. ~e.interrupted
    BY <1>2, <1>3, <2>1 DEF Owed
  <2>3. CASE orch.turns[t].question = 0
    <3>1. h = Append(orch.history, Question(t, e.question))
      BY <1>3, <2>3 DEF h
    <3>2. orch.turns[Len(orch.turns)].question = 0 /\ e.question # 0
      BY <1>2, <1>3, <2>3
    <3> DEFINE h2 == Append(orch.history, Question(Len(orch.turns), e.question))
    <3>3. /\ Faithful([orch.turns EXCEPT ![Len(orch.turns)] = e], h2)
          /\ Owed([orch.turns EXCEPT ![Len(orch.turns)] = e], h2)
      BY <1>2, <1>3, <2>1, <2>2, <3>2, AppendQuestion
    <3>4. h2 = h
      BY <1>2, <3>1
    <3> HIDE DEF h2
    <3>5. QED
      BY <1>2, <1>4, <3>3, <3>4
  <2>4. CASE orch.turns[t].question # 0
    <3>1. gen.reopened
      BY <1>1, <1>2, <2>4 DEF HInv, FreshUnlessReopened
    <3>2. orch.turns[t].question > 0
      BY <1>2, <2>4 DEF Turn
    <3>3. last # 0 /\ orch.history[last] = Question(t, orch.turns[t].question)
      BY <1>2, <2>1, <2>4, QuestionLast
    <3>4. m = Question(t, n)
      <4>1. orch.history[last].role = "user"
        BY <3>3 DEF Question
      <4>2. Question(t, n) \in Message /\ Question(t, n).role = "user"
        BY <1>2, <1>3, MessageTypes DEF Question
      <4>3. \A q \in Message : q.role = "user" => [q EXCEPT !.role = "user"] = q
        BY DEF Message
      <4>4. QED
        BY <4>1, <4>2, <4>3
    <3>5. h = [orch.history EXCEPT ![last] = Question(t, n)]
      BY <3>1, <3>2, <3>4 DEF h
    <3> HIDE DEF m, n
    <3>6. /\ Len(h) = last /\ h[last] = Question(t, e.question)
          /\ \A i \in 1..last : i # last => h[i] = orch.history[i]
      BY <1>2, <1>3, <3>3, <3>5
    <3>7. /\ Faithful([orch.turns EXCEPT ![Len(orch.turns)] = e], h)
          /\ Owed([orch.turns EXCEPT ![Len(orch.turns)] = e], h)
      <4>1. /\ orch.turns[Len(orch.turns)].question # 0 /\ e.question # 0
            /\ h[Len(orch.history)] = Question(Len(orch.turns), e.question)
        BY <1>2, <1>3, <2>4, <3>6
      <4>2. QED
        BY <1>2, <1>3, <2>1, <2>2, <3>6, <4>1, ExtendQuestion
    <3>8. QED
      BY <1>2, <1>4, <3>7
  <2>5. QED BY <2>3, <2>4
<1>6. QED
  BY <1>1, <1>2, <1>5
     DEF HInv, Straight, CommittedByThen, FreshUnlessReopened, PromptClosed, Ending,
         ReplyPending, ReplyGiven, LeftOpenSilent, StartsSilent, TurnPhases, Linked

\* The measurements touch neither the Turns nor the messages.
LEMMA MeasuredKeeps ==
    ASSUME IInv, HInv, NEW b \in BOOLEAN, Measured(b)
    PROVE  HInv'
<1>1. orch \in Orchestrator /\ gen \in Generator
  BY RunningTurn
<1>2. /\ phase = "measuring" /\ phase' = "replying" /\ parked' = parked /\ muddled' = muddled
      /\ orch'.turns = orch.turns /\ orch'.history = orch.history
      /\ orch'.reopen = orch.reopen /\ orch'.ended = orch.ended
      /\ gen'.committed = gen.committed
  BY <1>1 DEF Measured, Orchestrator, Generator, observed, endVars
<1>3. QED
  BY <1>2 DEF HInv, Straight, CommittedByThen, FreshUnlessReopened, PromptClosed, Ending,
              ReplyPending, ReplyGiven, LeftOpenSilent, StartsSilent, TurnPhases, Linked

\* Rewriting the running Turn's reply while nothing is committed.
LEMMA RewriteKeeps ==
    ASSUME IInv, HInv, phase = "replying", NEW e \in Turn,
           e.question = Current.question, e.interrupted = Current.interrupted,
           orch' = [orch EXCEPT !.turns[gen.turn] = e],
           gen'.committed = gen.committed,
           phase' \in TurnPhases \ ({"transcribing"} \cup Ending),
           parked' = parked, muddled' = muddled
    PROVE  HInv'
<1>1. /\ orch \in Orchestrator /\ Len(orch.turns) # 0 /\ gen.turn = Len(orch.turns)
      /\ Current = orch.turns[Len(orch.turns)]
      /\ orch.turns \in Seq(Turn) /\ orch.history \in Seq(Message) /\ ~gen.committed
  BY LastRuns DEF IInv, NotCommittedEarly, TurnPhases
<1>2. /\ orch'.turns = [orch.turns EXCEPT ![Len(orch.turns)] = e]
      /\ orch'.history = orch.history
  BY <1>1 DEF Orchestrator
<1>3. ASSUME ~muddled
      PROVE  Faithful(orch'.turns, orch'.history) /\ Owed(orch'.turns, orch'.history)
  <2>1. Faithful(orch.turns, orch.history) /\ Owed(orch.turns, orch.history)
    BY <1>1, <1>3 DEF HInv, Straight, ReplyPending, TurnPhases
  <2>2. ~e.interrupted
    BY <1>1, <2>1 DEF Owed
  <2>3. e.question = orch.turns[Len(orch.turns)].question
    BY <1>1
  <2>4. /\ Faithful([orch.turns EXCEPT ![Len(orch.turns)] = e], orch.history)
        /\ Owed([orch.turns EXCEPT ![Len(orch.turns)] = e], orch.history)
    BY <1>1, <2>1, <2>2, <2>3, RewriteOwed
  <2>5. QED
    BY <1>2, <2>4
<1>4. QED
  BY <1>1, <1>3
     DEF HInv, Straight, CommittedByThen, FreshUnlessReopened, PromptClosed, Ending,
         ReplyPending, ReplyGiven, LeftOpenSilent, StartsSilent, TurnPhases, Linked

\* The reply: chunks, retries and regenerations before its end.
LEMMA ReplyKeeps ==
    ASSUME IInv, HInv,
           Regenerate \/ \E b \in BOOLEAN : ChunkVoiced(b) \/ CompletionFails(b)
    PROVE  HInv'
<1>1. phase = "replying" /\ parked' = parked /\ muddled' = muddled
  BY DEF Regenerate, ChunkVoiced, CompletionFails, observed, endVars
<1>2. gen \in Generator /\ orch \in Orchestrator /\ orch.turns[gen.turn] \in Turn
  BY <1>1, LastRuns DEF TurnPhases
<1> DEFINE said == OneChunkMore(orch.turns[gen.turn])
           unsaid == Unsaid(orch.turns[gen.turn])
<1>3. /\ said \in Turn /\ said.question = Current.question
      /\ said.interrupted = Current.interrupted
      /\ unsaid \in Turn /\ unsaid.question = Current.question
      /\ unsaid.interrupted = Current.interrupted
  <2>1. \A turn \in Turn : /\ OneChunkMore(turn) \in Turn
                           /\ OneChunkMore(turn).question = turn.question
                           /\ OneChunkMore(turn).interrupted = turn.interrupted
    BY DEF OneChunkMore, Turn
  <2>2. QED
    BY <1>2, <2>1, CutTurn DEF Current
<1> HIDE DEF said, unsaid
<1>4. CASE Regenerate
  <2>1. /\ orch' = [orch EXCEPT !.turns[gen.turn] = unsaid] /\ phase' = "replying"
        /\ gen'.committed = gen.committed
    BY <1>1, <1>2, <1>4 DEF Regenerate, unsaid, Generator
  <2>2. QED
    BY <1>1, <1>3, <2>1, RewriteKeeps DEF TurnPhases, Ending
<1>5. ASSUME NEW b \in BOOLEAN, CompletionFails(b) PROVE HInv'
  <2>1. CASE gen.spokeYet \/ gen.attempt = 1
    <3>1. phase' = "failing" /\ UNCHANGED <<orch, gen>>
      BY <1>5, <2>1 DEF CompletionFails
    <3>2. QED
      BY <1>1, <3>1
         DEF HInv, Straight, CommittedByThen, FreshUnlessReopened, PromptClosed, Ending,
             ReplyPending, ReplyGiven, LeftOpenSilent, StartsSilent, TurnPhases
  <2>2. CASE ~(gen.spokeYet \/ gen.attempt = 1)
    <3>1. /\ orch' = [orch EXCEPT !.turns[gen.turn] = unsaid] /\ phase' = "replying"
          /\ gen'.committed = gen.committed
      BY <1>1, <1>2, <1>5, <2>2 DEF CompletionFails, unsaid, Generator
    <3>2. QED
      BY <1>1, <1>3, <3>1, RewriteKeeps DEF TurnPhases, Ending
  <2>3. QED BY <2>1, <2>2
<1>6. ASSUME NEW b \in BOOLEAN, ChunkVoiced(b) PROVE HInv'
  <2>1. /\ orch' = [orch EXCEPT !.turns[gen.turn] = said]
        /\ phase' \in {"replying", "announcing"} /\ gen'.committed = gen.committed
    BY <1>1, <1>2, <1>6 DEF ChunkVoiced, said, Generator
  <2>2. QED
    BY <1>1, <1>3, <2>1, RewriteKeeps DEF TurnPhases, Ending
<1>7. QED BY <1>4, <1>5, <1>6

\* Committing the finished reply: from here on it is given, not owed.
LEMMA CommitKeeps ==
    ASSUME IInv, HInv,
           PromptFinished \/ \E looping, goodbye \in BOOLEAN : ReplyFinished(looping, goodbye)
    PROVE  HInv'
<1> DEFINE t == Len(orch.turns)
           m == Reply(t, orch.turns[t], FALSE)
           h == Append(orch.history, m)
<1>1. phase = "replying" /\ parked' = parked /\ muddled' = muddled
  BY DEF PromptFinished, ReplyFinished, observed, endVars
<1>2. /\ orch \in Orchestrator /\ gen \in Generator /\ t # 0 /\ gen.turn = t
      /\ Current = orch.turns[t] /\ orch.turns \in Seq(Turn) /\ orch.history \in Seq(Message)
      /\ orch.turns[t] \in Turn /\ orch.reopen = t /\ ~gen.committed /\ ~orch.ended
  BY <1>1, LastRuns
     DEF IInv, NotCommittedEarly, OpenUntilCommitted, EndedNeverRevived, TurnPhases
<1>3. ASSUME ~muddled PROVE Faithful(orch.turns, h) /\ Given(orch.turns, h)
  <2>1. Faithful(orch.turns, orch.history) /\ Owed(orch.turns, orch.history)
    BY <1>1, <1>2, <1>3 DEF HInv, Straight, ReplyPending, TurnPhases
  <2>2. orch.turns[t].interrupted = FALSE
    BY <1>2, <2>1 DEF Owed, Turn
  <2>3. [orch.turns EXCEPT ![t] = orch.turns[t]] = orch.turns
    BY <1>2
  <2> DEFINE h2 == Append(orch.history, Reply(t, orch.turns[t], orch.turns[t].interrupted))
  <2>4. Faithful([orch.turns EXCEPT ![t] = orch.turns[t]], h2)
    BY <1>2, <2>1, AppendReply
  <2>5. h2 = h
    BY <2>2
  <2> HIDE DEF h2
  <2>6. Faithful(orch.turns, h)
    BY <2>3, <2>4, <2>5
  <2>7. Len(h) # 0 /\ h[Len(h)] = m
    <3>1. m \in Message
      <4>1. t \in Nat
        BY <1>2
      <4> HIDE DEF t
      <4>2. QED
        BY <1>2, <4>1, MessageTypes, FALSE \in BOOLEAN
    <3> HIDE DEF m
    <3>2. QED
      BY <1>2, <3>1, AppendProperties
  <2>8. QED
    BY <2>6, <2>7 DEF Given
<1>4. CASE PromptFinished
  <2>1. /\ orch' = [orch EXCEPT !.history = h, !.reopen = 0]
        /\ gen' = [gen EXCEPT !.committed = TRUE] /\ phase' = "completing"
    BY <1>2, <1>4 DEF PromptFinished
  <2> HIDE DEF h
  <2>2. /\ orch'.turns = orch.turns /\ orch'.history = h /\ orch'.reopen = 0
        /\ gen'.committed
    BY <1>2, <2>1 DEF Orchestrator, Generator
  <2>3. QED
    BY <1>1, <1>3, <2>1, <2>2
       DEF HInv, Straight, CommittedByThen, FreshUnlessReopened, PromptClosed, Ending,
           ReplyPending, ReplyGiven, LeftOpenSilent, StartsSilent, Linked
<1>5. ASSUME NEW looping \in BOOLEAN, NEW goodbye \in BOOLEAN, ReplyFinished(looping, goodbye)
      PROVE  HInv'
  <2> DEFINE marker == gen.endsCall \/ (Silent(Current) /\ gen.suppressed)
             ends == marker \/ gen.closing \/ looping \/ goodbye
  <2>1. /\ orch' = [orch EXCEPT !.history = h, !.ended = @ \/ ends]
        /\ gen' = [gen EXCEPT !.committed = TRUE, !.endsCall = marker]
        /\ phase' \in {"farewell", "completing"}
        /\ Silent(Current) => marker
        /\ gen.kind # "prompt"
    BY <1>2, <1>5 DEF ReplyFinished
  <2>2. Silent(Current) => ends
    BY <2>1
  <2> HIDE DEF h, marker, ends
  <2>3. /\ orch'.turns = orch.turns /\ orch'.history = h /\ orch'.reopen = orch.reopen
        /\ (ends => orch'.ended) /\ gen'.committed /\ gen'.kind = gen.kind
    BY <1>2, <2>1 DEF Orchestrator, Generator
  <2>4. Linked(orch')
    BY <1>2, <2>2, <2>3 DEF Linked
  <2>5. QED
    BY <1>1, <1>3, <2>1, <2>3, <2>4
       DEF HInv, Straight, CommittedByThen, FreshUnlessReopened, PromptClosed, Ending,
           ReplyPending, ReplyGiven, LeftOpenSilent, StartsSilent
<1>6. QED BY <1>4, <1>5

\* The closing line's audio is out, and its words join the reply.
LEMMA FarewellKeeps ==
    ASSUME IInv, HInv, FarewellSent
    PROVE  HInv'
<1> DEFINE t == Len(orch.turns)
           e == [orch.turns[t] EXCEPT !.farewell = TRUE]
           last == Len(orch.history)
           m == [orch.history[last] EXCEPT !.words = e.words, !.farewell = TRUE, !.mark = FALSE]
           h == [orch.history EXCEPT ![last] = m]
<1>1. /\ phase = "signingOff" /\ phase' = "completing" /\ gen' = gen
      /\ parked' = parked /\ muddled' = muddled
  BY DEF FarewellSent, observed, endVars
<1>2. /\ orch \in Orchestrator /\ t # 0 /\ gen.turn = t /\ Current = orch.turns[t]
      /\ orch.turns \in Seq(Turn) /\ orch.history \in Seq(Message) /\ orch.turns[t] \in Turn
      /\ orch.ended
  BY <1>1, LastRuns DEF IInv, FarewellEnds, TurnPhases
<1>3. orch' = [orch EXCEPT !.turns[t] = e, !.history[last] = m]
  BY <1>2 DEF FarewellSent
<1>4. /\ e \in Turn /\ e.question = orch.turns[t].question /\ e.words = orch.turns[t].words
      /\ e.interrupted = orch.turns[t].interrupted /\ e.farewell = TRUE
  BY <1>2 DEF Turn
<1> HIDE DEF e, m
<1>5. /\ orch'.turns = [orch.turns EXCEPT ![t] = e] /\ orch'.history = h
      /\ orch'.reopen = orch.reopen /\ orch'.ended = orch.ended
  BY <1>2, <1>3 DEF Orchestrator
<1>6. ASSUME ~muddled
      PROVE  Faithful(orch'.turns, orch'.history) /\ Given(orch'.turns, orch'.history)
  <2>1. Faithful(orch.turns, orch.history) /\ Given(orch.turns, orch.history)
    BY <1>1, <1>6 DEF HInv, Straight, ReplyGiven, Ending
  <2>2. ~e.interrupted
    BY <1>2, <1>4, <2>1, GivenUncut
  <2>3. last # 0 /\ orch.history[last] = Reply(t, orch.turns[t], FALSE)
    BY <2>1 DEF Given
  <2>4. m = Reply(t, e, FALSE)
    <3>1. /\ orch.history[last].role = "assistant" /\ orch.history[last].turn = t
          /\ orch.history[last] \in Message
      BY <1>2, <2>3, ElementOfSeq DEF Reply
    <3>2. e.words \in Nat
      BY <1>4 DEF Turn
    <3>3. /\ m \in Message /\ m.role = "assistant" /\ m.turn = t /\ m.words = e.words
          /\ m.farewell = TRUE /\ m.mark = FALSE
      BY <3>1, <3>2 DEF m, Message
    <3>4. m = [role |-> m.role, turn |-> m.turn, words |-> m.words, farewell |-> m.farewell,
               mark |-> m.mark]
      BY <3>3 DEF Message
    <3>5. QED
      BY <1>4, <3>3, <3>4 DEF Reply
  <2>5. /\ Len(h) = last /\ h[last] = m
        /\ \A i \in 1..last : i # last => h[i] = orch.history[i]
    BY <1>2, <2>3
  <2> HIDE DEF h
  <2>6. h[Len(orch.history)] = Reply(Len(orch.turns), e, FALSE)
    BY <2>4, <2>5
  <2>7. /\ Faithful([orch.turns EXCEPT ![Len(orch.turns)] = e], h)
        /\ Given([orch.turns EXCEPT ![Len(orch.turns)] = e], h)
    BY <1>2, <1>4, <2>1, <2>2, <2>5, <2>6, AddFarewell
  <2>8. QED
    BY <1>5, <2>7
<1>7. QED
  BY <1>1, <1>2, <1>5, <1>6
     DEF HInv, Straight, CommittedByThen, FreshUnlessReopened, PromptClosed, Ending,
         ReplyPending, ReplyGiven, LeftOpenSilent, StartsSilent, Linked

\* turn.completed, listening, an error frame.
LEMMA EndKeeps ==
    ASSUME IInv, HInv, Completed \/ Settled \/ FailureSent
    PROVE  HInv'
<1> USE DEF HInv, Straight, CommittedByThen, FreshUnlessReopened, PromptClosed, Ending,
            ReplyPending, ReplyGiven, LeftOpenSilent, StartsSilent, TurnPhases, Linked,
            OpenIsSilent, endVars, observed
<1>1. orch \in Orchestrator /\ gen \in Generator
  BY RunningTurn
<1>2. CASE Completed /\ orch.ended
  BY <1>2 DEF Completed, Over
<1>3. CASE Completed /\ ~orch.ended
  <2>1. /\ orch'.turns = orch.turns /\ orch'.history = orch.history
        /\ orch'.reopen = orch.reopen /\ orch'.ended = orch.ended
        /\ phase = "completing" /\ phase' = "settling"
        /\ gen' = gen /\ parked' = parked /\ muddled' = muddled
    BY <1>1, <1>3 DEF Completed, Orchestrator
  <2>2. QED
    BY <2>1
<1>4. CASE Settled
  <2>1. /\ phase = "settling" /\ phase' = "between" /\ parked' = parked /\ muddled' = muddled
        /\ orch'.turns = orch.turns /\ orch'.history = orch.history /\ orch'.ended = orch.ended
        /\ orch'.reopen = IF gen.kind = "prompt" THEN orch.reopen ELSE 0
    BY <1>1, <1>4 DEF Settled, Orchestrator
  <2>2. orch'.reopen = 0
    BY <2>1
  <2>3. ~parked
    BY <2>1 DEF IInv, ParkedAfterwards
  <2>4. QED
    BY <2>1, <2>2, <2>3
<1>5. CASE FailureSent
  BY <1>5 DEF FailureSent, Over
<1>6. QED BY <1>2, <1>3, <1>4, <1>5

\* Outside a Turn, and with nothing parked, only what is left open can be wrong.
LEMMA BetweenTurns ==
    ASSUME phase' \in {"between", "over", "recorded"}, ~parked',
           ~muddled' => /\ Faithful(orch'.turns, orch'.history) /\ Linked(orch')
                        /\ phase' = "between" => OpenIsSilent(orch')
    PROVE  HInv'
BY DEF HInv, Straight, CommittedByThen, FreshUnlessReopened, PromptClosed, Ending,
       ReplyPending, ReplyGiven, LeftOpenSilent, StartsSilent, TurnPhases

\* An interrupt during a Turn trims or takes back its reply, and may end the call.
LEMMA InterruptKeeps ==
    ASSUME IInv, HInv, NEW pos \in Position, Interrupt(pos)
    PROVE  HInv'
<1> DEFINE noted == NoteBargeIn(orch, gen, pos)
           o == FinalizeInterrupted(noted, gen)
<1>1. /\ phase \in TurnPhases /\ orch' = o
      /\ muddled' = (muddled \/ (o.reopen # 0 /\ ~Silent(o.turns[o.reopen])))
      /\ IF o.ended THEN phase' = "over" /\ parked' = FALSE
                    ELSE phase' = "between" /\ parked' = parked
  BY DEF Interrupt, Over, endVars
<1>2. /\ orch \in Orchestrator /\ gen \in Generator /\ Len(orch.turns) # 0
      /\ gen.turn = Len(orch.turns) /\ gen.turn \in 1..Len(orch.turns) /\ ~parked
  BY <1>1, LastRuns DEF IInv, ParkedAfterwards, TurnPhases
<1>3. noted \in Orchestrator /\ Len(noted.turns) = Len(orch.turns)
  BY <1>2, NoteHandled DEF Handled
<1>4. ASSUME ~muddled PROVE Faithful(o.turns, o.history) /\ Linked(o)
  <2>1. /\ Faithful(orch.turns, orch.history) /\ Linked(orch)
        /\ ~gen.committed => Owed(orch.turns, orch.history)
    BY <1>1, <1>4 DEF HInv, Straight, ReplyPending
  <2>2. CASE orch.revisable # 0
    <3>1. noted = ReviseCommittedReply(orch, gen, pos)
      BY <2>2 DEF NoteBargeIn
    <3> HIDE DEF noted
    <3>2. Faithful(noted.turns, noted.history) /\ Linked(noted)
      BY <1>2, <2>1, <3>1, ReviseKeeps
    <3>3. ASSUME ~gen.committed PROVE noted.turns = orch.turns /\ noted.history = orch.history
      BY <1>2, <3>1, <3>3 DEF ReviseCommittedReply, Orchestrator
    <3>4. ~gen.committed => Owed(noted.turns, noted.history)
      BY <2>1, <3>3
    <3>5. QED
      BY <1>2, <1>3, <3>2, <3>4, FinalizeKeeps
  <2>3. CASE orch.revisable = 0
    <3>1. noted = [orch EXCEPT !.bargeIn = pos]
      BY <2>3 DEF NoteBargeIn
    <3> HIDE DEF noted
    <3>2. /\ noted.turns = orch.turns /\ noted.history = orch.history
          /\ noted.reopen = orch.reopen /\ noted.ended = orch.ended
      BY <1>2, <3>1 DEF Orchestrator
    <3>3. Linked(noted)
      BY <2>1, <3>2 DEF Linked
    <3>4. QED
      BY <1>2, <1>3, <2>1, <3>2, <3>3, FinalizeKeeps
  <2>4. QED BY <2>2, <2>3
<1> HIDE DEF o
<1>5. ~muddled' => ~muddled /\ OpenIsSilent(o)
  BY <1>1 DEF OpenIsSilent
<1>6. QED
  BY <1>1, <1>2, <1>4, <1>5, BetweenTurns

\* A late interrupt trims the reply still playing, in the Turn and in its message.
LEMMA LateInterruptKeeps ==
    ASSUME IInv, HInv, NEW pos \in Position, LateInterrupt(pos)
    PROVE  HInv'
<1>1. /\ phase = "between" /\ phase' = "between" /\ orch' = NoteLateBargeIn(orch, gen, pos)
      /\ parked' = parked /\ muddled' = muddled
  BY DEF LateInterrupt, endVars
<1>2. ~parked
  BY <1>1 DEF IInv, ParkedAfterwards
<1>3. ASSUME ~muddled
      PROVE  Faithful(orch'.turns, orch'.history) /\ Linked(orch') /\ OpenIsSilent(orch')
  <2>1. Faithful(orch.turns, orch.history) /\ Linked(orch) /\ OpenIsSilent(orch)
    BY <1>1, <1>3 DEF HInv, Straight, LeftOpenSilent
  <2>2. CASE orch.revisable # 0
    <3>1. orch' = ReviseCommittedReply(orch, gen, pos)
      BY <1>1, <2>2 DEF NoteLateBargeIn
    <3>2. /\ orch \in Orchestrator /\ gen \in Generator /\ Len(orch.turns) # 0
          /\ gen.turn = Len(orch.turns)
      BY <2>2, LastRuns
    <3>3. QED
      BY <2>1, <3>1, <3>2, ReviseKeeps
  <2>3. CASE orch.revisable = 0
    BY <1>1, <2>1, <2>3 DEF NoteLateBargeIn
  <2>4. QED BY <2>2, <2>3
<1>4. QED
  BY <1>1, <1>2, <1>3, BetweenTurns

\* Tearing the running or the parked Turn down keeps the record faithful.
LEMMA TeardownKeeps ==
    ASSUME IInv, HInv, phase \in TurnPhases \/ parked, ~muddled,
           NEW r, r = FinalizeInterrupted(orch, gen)
    PROVE  Faithful(r.turns, r.history) /\ Linked(r)
<1>1. /\ orch \in Orchestrator /\ gen \in Generator /\ Len(orch.turns) # 0
      /\ gen.turn = Len(orch.turns)
  BY LastRuns
<1>2. /\ Faithful(orch.turns, orch.history) /\ Linked(orch)
      /\ ~gen.committed => Owed(orch.turns, orch.history)
  BY DEF HInv, Straight, ReplyPending
<1>3. QED
  BY <1>1, <1>2, FinalizeKeeps

\* Leaving, after tearing the running Turn down, ends the call.
LEMMA LeaveKeeps ==
    ASSUME IInv, HInv, NEW why \in {"user", "disconnected"}, Leave(why)
    PROVE  HInv'
<1>1. /\ phase \in {"between"} \cup TurnPhases /\ phase' = "over" /\ parked' = FALSE
      /\ muddled' = muddled
      /\ orch' = IF phase \in TurnPhases THEN FinalizeInterrupted(orch, gen) ELSE orch
  BY DEF Leave, Over, observed
<1>2. ASSUME ~muddled PROVE Faithful(orch'.turns, orch'.history) /\ Linked(orch')
  BY <1>1, <1>2, TeardownKeeps DEF HInv, Straight
<1>3. QED
  BY <1>1, <1>2, BetweenTurns

\* The time limit, and after the loop the parked generator's close and the record.
LEMMA AfterKeeps ==
    ASSUME IInv, HInv, TimeLimit \/ CloseParked \/ Record
    PROVE  HInv'
<1>1. CASE TimeLimit
  <2>1. phase' = "over" /\ parked' = FALSE /\ orch' = orch /\ muddled' = muddled
    BY <1>1 DEF TimeLimit, Over, observed
  <2>2. QED
    BY <2>1, BetweenTurns DEF HInv, Straight
<1>2. CASE CloseParked
  <2>1. /\ parked /\ parked' = FALSE /\ phase' = phase /\ muddled' = muddled
        /\ orch' = FinalizeInterrupted(orch, gen)
    BY <1>2 DEF CloseParked, observed
  <2>2. phase \in {"over", "recorded"}
    BY <2>1 DEF IInv, ParkedAfterwards
  <2>3. ~muddled => Faithful(orch'.turns, orch'.history) /\ Linked(orch')
    BY <2>1, TeardownKeeps
  <2>4. QED
    BY <2>1, <2>2, <2>3, BetweenTurns
<1>3. CASE Record
  BY <1>3 DEF Record, observed, HInv, Straight, CommittedByThen, FreshUnlessReopened,
              PromptClosed, Ending, ReplyPending, ReplyGiven, LeftOpenSilent, StartsSilent,
              TurnPhases
<1>4. QED BY <1>1, <1>2, <1>3

-----------------------------------------------------------------------------
(* The theorems                                                            *)

\* The invariant holds when the call is dialled.
LEMMA InitHInv == Init => HInv
<1> SUFFICES ASSUME Init PROVE HInv
  OBVIOUS
<1>1. /\ phase = "dialled" /\ ~parked /\ orch.turns = <<>> /\ orch.history = <<>>
      /\ orch.reopen = 0
  BY DEF Init
<1>2. Faithful(orch.turns, orch.history)
  BY <1>1 DEF Faithful
<1>3. QED
  BY <1>1, <1>2
     DEF HInv, Straight, CommittedByThen, FreshUnlessReopened, PromptClosed, Ending,
         ReplyPending, ReplyGiven, LeftOpenSilent, StartsSilent, TurnPhases, Linked,
         OpenIsSilent

\* Every action, and stuttering, keeps it: one step per action.
LEMMA NextHInv == IInv /\ HInv /\ [Next]_vars => HInv'
<1> SUFFICES ASSUME IInv, HInv, [Next]_vars PROVE HInv'
  OBVIOUS
<1>1. CASE UNCHANGED vars
  BY <1>1 DEF vars, HInv, Straight, CommittedByThen, FreshUnlessReopened, PromptClosed,
              ReplyPending, ReplyGiven, LeftOpenSilent, StartsSilent, Current
<1>2. CASE Machine
  BY <1>2, GeneratorKeeps, StartKeeps, PhantomKeeps, TranscribedKeeps, MeasuredKeeps,
     ReplyKeeps, CommitKeeps, FarewellKeeps, EndKeeps, AfterKeeps DEF Machine
<1>3. CASE Client
  BY <1>3, StartKeeps, InterruptKeeps, LateInterruptKeeps, LeaveKeeps, AfterKeeps DEF Client
<1>4. CASE Finished
  BY <1>4, GeneratorKeeps
<1>5. QED BY <1>1, <1>2, <1>3, <1>4 DEF Next

\* history.py: throughout a call the messages and the Turns agree, the owed reply is the
\* last Turn's, and a Turn left open has no words but one left open over its reply.
THEOREM StraightRecord == Spec => []HInv
BY InitHInv, NextHInv, Invariance, PTL DEF Spec

\* history.py, orchestrator.py "trimmed in step": whichever of the four paths trims a
\* reply, every message is its Turn's current text and they stand in Turn order, until
\* a Turn has been left open over a reply that was heard in full.
THEOREM HistoryStaysStraight == Spec => []HistoryFollowsTurns
<1>1. IInv /\ HInv => HistoryFollowsTurns
  <2> SUFFICES ASSUME IInv, HInv, ~muddled PROVE MessagesAreCurrent /\ MessagesInTurnOrder
    BY DEF HistoryFollowsTurns
  <2>1. /\ Faithful(orch.turns, orch.history) /\ orch.turns \in Seq(Turn)
        /\ orch.history \in Seq(Message)
    BY RunningTurn, TurnList DEF HInv, Straight
  <2>2. DOMAIN orch.history = 1..Len(orch.history) /\ DOMAIN orch.turns = 1..Len(orch.turns)
    BY <2>1
  <2>3. MessagesAreCurrent
    <3>1. ASSUME NEW i \in 1..Len(orch.history)
          PROVE  /\ MessageCurrent(orch.turns, orch.history[i])
                 /\ orch.history[i].role \in {"user", "assistant"}
      <4>1. orch.history[i] \in Message
        BY <2>1, <3>1, ElementOfSeq
      <4>2. QED
        BY <2>1, <3>1, <4>1, MessageFields DEF Faithful
    <3>2. QED
      BY <2>2, <3>1 DEF MessagesAreCurrent, MessageCurrent
  <2>4. MessagesInTurnOrder
    BY <2>1, <2>2 DEF MessagesInTurnOrder, Faithful, Before
  <2>5. QED BY <2>3, <2>4
<1>2. QED
  BY Invariance, StraightRecord, <1>1, PTL

\* history.py:29: between Turns, a question that may still be extended is the last
\* message, so extend_question never rewrites anything else.
THEOREM OpenQuestionIsLast == Spec => []QuestionIsLast
<1>1. IInv /\ HInv => QuestionIsLast
  <2> SUFFICES ASSUME IInv, HInv, ~muddled, phase = "between", orch.reopen # 0,
                      orch.turns[orch.reopen].question > 0
               PROVE  /\ orch.history # <<>>
                      /\ orch.history[Len(orch.history)]
                           = Question(orch.reopen, orch.turns[orch.reopen].question)
    BY DEF QuestionIsLast, ExtendsOnlyTheQuestion
  <2>1. /\ orch.turns \in Seq(Turn) /\ orch.history \in Seq(Message)
        /\ orch.reopen = Len(orch.turns) /\ ~orch.ended
    BY RunningTurn, TurnList DEF IInv, EarlierTurnsAnswered, EndedNeverRevived
  <2>2. Faithful(orch.turns, orch.history) /\ Linked(orch) /\ OpenIsSilent(orch)
    BY DEF HInv, Straight, LeftOpenSilent
  <2>3. Owed(orch.turns, orch.history)
    BY <2>1, <2>2 DEF Linked, OpenIsSilent
  <2>4. orch.turns[Len(orch.turns)].question # 0 /\ Len(orch.turns) # 0
    BY <2>1
  <2>5. /\ Len(orch.history) # 0
        /\ orch.history[Len(orch.history)]
              = Question(Len(orch.turns), orch.turns[Len(orch.turns)].question)
    BY <2>1, <2>2, <2>3, <2>4, QuestionLast
  <2>6. QED
    BY <2>1, <2>5
<1>2. QED
  BY Invariance, StraightRecord, <1>1, PTL

\* Nothing moves under the record of a call that was torn down: no generator is parked,
\* and what is stored is the transcript that was told.
LeftAtRest ==
    ~abandoned =>
        /\ ~parked
        /\ phase = "over" => transcript = Utterances(orch)
        /\ phase = "recorded" => stored = transcript

\* session_ws.py: a call is stored as it was told, whoever ended it and how, as long as the
\* forwarder had not returned by itself and left the generator behind.
THEOREM LeftCallStoredAsTold == Spec => []TornDownCallStoredAsTold
<1>1. Init => LeftAtRest
  BY DEF Init, LeftAtRest
<1>2. LeftAtRest /\ [Next]_vars => LeftAtRest'
  <2> SUFFICES ASSUME LeftAtRest, [Next]_vars PROVE LeftAtRest'
    OBVIOUS
  <2> USE DEF LeftAtRest, endVars, TurnPhases
  <2>1. CASE UNCHANGED vars
    BY <2>1 DEF vars
  <2>2. CASE phase' \notin {"over", "recorded"} /\ UNCHANGED endVars
    BY <2>2
  <2>3. CASE Completed \/ FailureSent \/ TimeLimit
    BY <2>3 DEF Completed, FailureSent, TimeLimit, Over
  <2>4. ASSUME NEW pos \in Position, Interrupt(pos) PROVE LeftAtRest'
    BY <2>4 DEF Interrupt, Over
  <2>5. ASSUME NEW why \in {"user", "disconnected"}, Leave(why) PROVE LeftAtRest'
    BY <2>5 DEF Leave, Over
  <2>6. CASE CloseParked \/ Record
    BY <2>6 DEF CloseParked, Record
  <2>7. QED
    BY <2>1, <2>2, <2>3, <2>4, <2>5, <2>6
       DEF Next, Machine, Client, Finished, OpenCall, TranscriptionFails, Phantom, Transcribed,
           Measured, ChunkVoiced, CompletionFails, SpeakingAnnounced, SynthesisFails,
           MarkerAlone, ChunkSuppressed, Regenerate, ReplyFinished, PromptFinished,
           FarewellSynthesized, FarewellFails, FarewellSent, Settled, SilenceElapses,
           TurnAudioArrives, Activate, LateInterrupt
<1>3. LeftAtRest => TornDownCallStoredAsTold
  BY DEF LeftAtRest, TornDownCallStoredAsTold
<1>4. QED
  BY <1>1, <1>2, <1>3, PTL DEF Spec

-----------------------------------------------------------------------------
(* What the trimming paths leave of a reply                                *)

\* The words and the length of a Turn.
LEMMA TurnWords ==
    ASSUME NEW turn \in Turn
    PROVE  /\ turn.words \in Nat /\ Length(turn) \in Nat
           /\ turn.words <= Length(turn) /\ Length(turn) <= turn.words + 1
           /\ Silent(turn) => turn.words = 0
           /\ Unsaid(turn).words = 0
           /\ \A n \in Nat : Trimmed(turn, n).words = n
           /\ OneChunkMore(turn).words = turn.words + 1
BY DEF Turn, Length, Silent, Unsaid, Trimmed, OneChunkMore

\* A position cut to what was voiced.
LEMMA CutBounds ==
    ASSUME NEW g \in Generator, NEW pos \in Position
    PROVE  /\ Cut(g, pos) \in Nat /\ pos \in Nat /\ g.spoken \in Nat
           /\ Cut(g, pos) <= pos /\ Cut(g, pos) <= g.spoken /\ g.spoken <= MaxChunks
BY CallAssumption DEF Cut, Generator, Position

\* One Turn of an orchestrator is committed as heard.
LEMMA CommitHeardWords ==
    ASSUME NEW o \in Orchestrator, NEW t \in 1..Len(o.turns), NEW heard \in Nat,
           NEW earlier, NEW r, r = CommitHeard(o, t, heard, earlier)
    PROVE  r.turns[t].words = heard /\ r.revisable = o.revisable
<1>1. o.turns \in Seq(Turn) /\ o.turns[t] \in Turn
  BY TurnList
<1>2. /\ r.turns = [o.turns EXCEPT ![t] = Trimmed(o.turns[t], heard)]
      /\ r.revisable = o.revisable
  BY DEF CommitHeard, Orchestrator
<1>3. r.turns[t] = Trimmed(o.turns[t], heard)
  BY <1>1, <1>2
<1>4. QED
  BY <1>1, <1>2, <1>3, TurnWords

\* _revise_committed_reply only ever shrinks, and to the position when the reply stands.
LEMMA ReviseWords ==
    ASSUME NEW o \in Orchestrator, NEW g \in Generator, NEW pos \in Position,
           g.turn \in 1..Len(o.turns),
           NEW r, r = ReviseCommittedReply(o, g, pos)
    PROVE  /\ r.turns[g.turn].words \in Nat
           /\ r.turns[g.turn].words <= o.turns[g.turn].words
           /\ g.committed /\ LastReplyIs(o, g.turn) => r.turns[g.turn].words <= pos
           /\ r.revisable = 0
<1> DEFINE t == g.turn
           heard == Cut(g, pos)
           closed == [o EXCEPT !.revisable = 0]
           stands == g.committed /\ ~Silent(o.turns[t]) /\ LastReplyIs(o, t)
<1>1. /\ closed \in Orchestrator /\ closed.turns = o.turns /\ closed.revisable = 0
      /\ closed.history = o.history
  <2>1. 0 \in Nat
    OBVIOUS
  <2>2. QED
    BY <2>1 DEF Orchestrator
<1>2. /\ o.turns \in Seq(Turn) /\ t \in 1..Len(o.turns) /\ o.turns[t] \in Turn
      /\ o.turns[t].words \in Nat
  BY TurnList, TurnWords
<1>3. heard \in Nat /\ heard <= pos /\ pos \in Nat
  BY CutBounds
<1> HIDE DEF closed, heard
<1>4. CASE stands /\ heard = 0
  <2>1. r = [closed EXCEPT !.turns[t] = Unsaid(@), !.history = Front(@), !.reopen = t]
    BY <1>4 DEF ReviseCommittedReply, closed, heard
  <2>2. r.turns = [o.turns EXCEPT ![t] = Unsaid(@)] /\ r.revisable = 0
    BY <1>1, <2>1 DEF Orchestrator
  <2>3. r.turns[t] = Unsaid(o.turns[t])
    BY <1>2, <2>2
  <2>4. QED
    BY <1>2, <1>3, <2>2, <2>3, TurnWords
<1>5. CASE stands /\ heard # 0 /\ heard < Length(o.turns[t])
  <2>1. r = CommitHeard(closed, t, heard, Front(o.history))
    BY <1>1, <1>5 DEF ReviseCommittedReply, closed, heard
  <2>2. r.turns[t].words = heard /\ r.revisable = 0
    BY <1>1, <1>2, <1>3, <2>1, CommitHeardWords
  <2>3. Length(o.turns[t]) \in Nat /\ Length(o.turns[t]) <= o.turns[t].words + 1
    BY <1>2, TurnWords
  <2>4. heard <= o.turns[t].words
    BY <1>2, <1>3, <1>5, <2>3
  <2>5. QED
    BY <1>3, <2>2, <2>4
<1>6. CASE ~(stands /\ heard = 0) /\ ~(stands /\ heard # 0 /\ heard < Length(o.turns[t]))
  <2>1. r = closed
    BY <1>6 DEF ReviseCommittedReply, closed, heard
  <2>2. ASSUME g.committed, LastReplyIs(o, t) PROVE o.turns[t].words <= pos
    <3>1. CASE Silent(o.turns[t])
      BY <1>2, <1>3, <3>1, TurnWords
    <3>2. CASE ~Silent(o.turns[t])
      <4>1. ~(heard < Length(o.turns[t])) /\ Length(o.turns[t]) \in Nat
            /\ o.turns[t].words <= Length(o.turns[t])
        BY <1>2, <1>3, <1>6, <2>2, <3>2, TurnWords
      <4>2. QED
        BY <1>2, <1>3, <4>1
    <3>3. QED BY <3>1, <3>2
  <2>3. QED
    BY <1>1, <1>2, <2>1, <2>2
<1>7. QED BY <1>4, <1>5, <1>6

\* The teardown keeps no more than the position it was given.
LEMMA FinalizeWords ==
    ASSUME NEW o \in Orchestrator, NEW g \in Generator, g.turn \in 1..Len(o.turns),
           NEW r, r = FinalizeInterrupted(o, g)
    PROVE  /\ r.turns[g.turn].words \in Nat
           /\ (g.committed => LastReplyIs(o, g.turn)) => r.turns[g.turn].words <= o.bargeIn
           /\ g.committed => /\ r.turns[g.turn].words <= o.turns[g.turn].words
                             /\ r.revisable = 0
           /\ ~g.committed => /\ r.turns[g.turn].words <= g.spoken
                              /\ r.revisable = o.revisable
<1> DEFINE t == g.turn
           heard == Cut(g, o.bargeIn)
           taken == [o EXCEPT !.bargeIn = AllPlayed]
<1>1. AllPlayed \in Position /\ o.bargeIn \in Position
  BY CallAssumption DEF AllPlayed, Position, Orchestrator
<1>2. /\ taken \in Orchestrator /\ taken.turns = o.turns /\ taken.history = o.history
      /\ taken.revisable = o.revisable
  BY <1>1 DEF Orchestrator
<1>3. /\ o.turns \in Seq(Turn) /\ t \in 1..Len(o.turns) /\ o.turns[t] \in Turn
      /\ heard \in Nat /\ heard <= o.bargeIn /\ o.bargeIn \in Nat
      /\ heard <= g.spoken /\ g.spoken \in Nat
  BY <1>1, TurnList, CutBounds
<1> HIDE DEF taken, heard
<1>4. CASE g.committed
  <2>1. r = ReviseCommittedReply(taken, g, o.bargeIn)
    BY <1>4 DEF FinalizeInterrupted, taken
  <2>2. LastReplyIs(taken, t) <=> LastReplyIs(o, t)
    BY <1>2 DEF LastReplyIs
  <2>3. QED
    BY <1>1, <1>2, <1>3, <1>4, <2>1, <2>2, ReviseWords
<1>5. CASE ~g.committed /\ g.spokeYet /\ heard > 0
  <2>1. r = CommitHeard(taken, t, heard, o.history)
    BY <1>5 DEF FinalizeInterrupted, taken, heard
  <2>2. r.turns[t].words = heard /\ r.revisable = o.revisable
    BY <1>2, <1>3, <2>1, CommitHeardWords
  <2>3. QED
    BY <1>3, <1>5, <2>2
<1>6. CASE ~g.committed /\ ~(g.spokeYet /\ heard > 0)
  <2>1. r = [taken EXCEPT !.turns[t] = Unsaid(@)]
    BY <1>6 DEF FinalizeInterrupted, taken, heard
  <2>2. r.turns = [o.turns EXCEPT ![t] = Unsaid(@)] /\ r.revisable = o.revisable
    BY <1>2, <2>1 DEF Orchestrator
  <2>3. r.turns[t].words = 0
    BY <1>3, <2>2, TurnWords
  <2>4. QED
    BY <1>3, <1>6, <2>2, <2>3
<1>7. QED BY <1>4, <1>5, <1>6

-----------------------------------------------------------------------------
(* The inductive invariant of the words, on top of the history's           *)

\* What is dispatched is counted with the words, but for a chunk being announced.
SentInStep ==
    /\ phase \in {"transcribing", "measuring"} => sent = 0 /\ Current.words = 0
    /\ phase = "replying" => Current.words = sent /\ (~gen.spokeYet => sent = 0)
    /\ phase = "announcing" => Current.words = sent + 1
    /\ phase \in Ending => Current.words = sent

\* Words are voiced before they count; nothing is reported before the Turn is left.
WordsVoiced == phase \in TurnPhases \/ parked => Current.words <= gen.spoken
ReportedOnce == phase \in TurnPhases \/ parked \/ orch.revisable # 0 => report = Unreported

\* A reply is open for revision from turn.completed on, and stands as given till then.
RevisableThen ==
    /\ phase \in TurnPhases /\ ~gen.committed => orch.revisable = 0
    /\ phase \in TurnPhases /\ gen.committed => phase \in Ending
    /\ phase = "settling" => orch.revisable # 0
    /\ phase = "between" /\ orch.revisable # 0 => gen.committed /\ Given(orch.turns, orch.history)
NothingRunYet == phase = "dialled" => gen.turn = 0 /\ orch.revisable = 0

\* What is kept between Turns was heard; if nothing was reported, nothing was said.
Kept == gen.turn \in 1..Len(orch.turns) => Current.words <= report
HeardSoFar ==
    /\ phase \in {"between", "over", "recorded"} => Kept
    /\ phase = "between" /\ orch.revisable = 0 /\ report = Unreported
         => (gen.turn \in 1..Len(orch.turns) => Current.words = 0)

WInv ==
    /\ NothingRunYet
    /\ ~muddled => /\ SentInStep
                   /\ WordsVoiced
                   /\ ReportedOnce
                   /\ RevisableThen
                   /\ HeardSoFar

\* The counters are numbers.
LEMMA Counters ==
    ASSUME IInv
    PROVE  /\ sent \in Nat /\ report \in 0..Unreported /\ Unreported \in Nat
           /\ MaxChunks \in Nat /\ MaxChunks <= Unreported
           /\ gen \in Generator /\ gen.spoken \in Nat /\ gen.spoken <= MaxChunks
           /\ phase \in TurnPhases \/ parked \/ orch.revisable # 0 => Current.words \in Nat
<1>1. /\ sent \in Nat /\ report \in 0..Unreported /\ gen \in Generator
  BY DEF IInv, TypeOK
<1>2. Unreported \in Nat /\ MaxChunks \in Nat /\ MaxChunks <= Unreported
  BY CallAssumption DEF Unreported
<1>3. gen.spoken \in Nat /\ gen.spoken <= MaxChunks
  BY <1>1, <1>2 DEF Generator, Position
<1>4. phase \in TurnPhases \/ parked \/ orch.revisable # 0 => Current.words \in Nat
  BY LastRuns, TurnWords
<1>5. QED BY <1>1, <1>2, <1>3, <1>4

\* Steps that leave the Turns alone and advance the generator only.
LEMMA GeneratorWords ==
    ASSUME IInv, HInv, WInv,
           \/ TranscriptionFails \/ SpeakingAnnounced \/ SynthesisFails \/ MarkerAlone
           \/ ChunkSuppressed \/ FarewellSynthesized \/ FarewellFails \/ Finished
    PROVE  WInv'
<1> USE DEF WInv, SentInStep, WordsVoiced, ReportedOnce, RevisableThen, NothingRunYet, Kept,
            HeardSoFar, Ending, TurnPhases, Current, endVars, observed
<1>1. gen \in Generator
  BY RunningTurn
<1>2. /\ orch' = orch /\ gen'.turn = gen.turn /\ gen'.committed = gen.committed
      /\ gen'.spoken = gen.spoken /\ parked' = parked /\ muddled' = muddled
      /\ report' = report
  BY <1>1 DEF TranscriptionFails, SpeakingAnnounced, SynthesisFails, MarkerAlone,
         ChunkSuppressed, FarewellSynthesized, FarewellFails, Finished, vars, Generator
<1>3. phase \in {"transcribing", "replying"} => ~gen.committed
  BY DEF IInv, NotCommittedEarly
<1>4. CASE TranscriptionFails
  BY <1>2, <1>3, <1>4 DEF TranscriptionFails
<1>5. CASE SpeakingAnnounced
  <2>1. phase = "announcing" /\ phase' = "replying" /\ gen'.spokeYet /\ sent' = sent + 1
    BY <1>1, <1>5 DEF SpeakingAnnounced, Generator
  <2>2. QED
    BY <1>2, <2>1 DEF IInv, NotCommittedEarly
<1>6. CASE SynthesisFails
  BY <1>2, <1>3, <1>6 DEF SynthesisFails
<1>7. CASE MarkerAlone
  <2>1. gen'.spokeYet = gen.spokeYet /\ phase' = phase /\ sent' = sent
    BY <1>1, <1>7 DEF MarkerAlone, Generator
  <2>2. QED
    BY <1>2, <2>1
<1>8. CASE ChunkSuppressed
  <2>1. gen'.spokeYet = gen.spokeYet /\ phase' = phase /\ sent' = sent
    BY <1>1, <1>8 DEF ChunkSuppressed, Generator
  <2>2. QED
    BY <1>2, <2>1
<1>9. CASE FarewellSynthesized
  BY <1>2, <1>9 DEF FarewellSynthesized
<1>10. CASE FarewellFails
  BY <1>2, <1>10 DEF FarewellFails
<1>11. CASE Finished
  BY <1>2, <1>11 DEF Finished, vars
<1>12. QED BY <1>4, <1>5, <1>6, <1>7, <1>8, <1>9, <1>10, <1>11

\* Opening a Turn: nothing is dispatched, said or reported of it yet.
LEMMA StartTurnWords ==
    ASSUME IInv, HInv, WInv, NEW o \in Orchestrator,
           NEW kind \in {"opening", "prompt", "user"},
           phase \in {"dialled", "between"},
           o.turns = orch.turns, o.reopen = orch.reopen,
           NewOrReopenedTurn(o, kind),
           phase' \in {"transcribing", "replying"}, UNCHANGED endVars
    PROVE  WInv'
<1> DEFINE reopened == o.reopen # 0
           t == IF reopened THEN o.reopen ELSE Len(o.turns) + 1
           turns1 == IF reopened THEN o.turns ELSE Append(o.turns, FreshTurn)
<1>1. /\ o.turns \in Seq(Turn) /\ Len(o.turns) \in Nat
      /\ orch.reopen \in {0, Len(orch.turns)}
  BY TurnList DEF IInv, EarlierTurnsAnswered
<1>2. orch' = [o EXCEPT !.turns = turns1, !.reopen = t, !.revisable = 0, !.bargeIn = AllPlayed]
  BY DEF NewOrReopenedTurn
<1>3. /\ gen' = FreshGenerator(kind, t, reopened) /\ muddled' = muddled /\ sent' = 0
      /\ report' = Unreported
  BY DEF NewOrReopenedTurn
<1>4. gen'.turn = t /\ ~gen'.committed /\ gen'.spoken = 0
  BY <1>3 DEF FreshGenerator
<1>5. ASSUME ~muddled PROVE turns1[t].words = 0
  <2>1. CASE reopened
    <3>1. Silent(o.turns[o.reopen])
      BY <1>5, <2>1 DEF HInv, Straight, LeftOpenSilent, OpenIsSilent
    <3>2. QED
      BY <2>1, <3>1 DEF Silent
  <2>2. CASE ~reopened
    <3>1. turns1[t] = FreshTurn
      BY <1>1, <2>2, TurnTypes, AppendProperties
    <3>2. QED
      BY <3>1 DEF FreshTurn
  <2>3. QED BY <2>1, <2>2
<1> HIDE DEF turns1, t
<1>6. orch'.turns = turns1 /\ orch'.revisable = 0
  BY <1>2 DEF Orchestrator
<1>7. QED
  BY <1>3, <1>4, <1>5, <1>6
     DEF WInv, SentInStep, WordsVoiced, ReportedOnce, RevisableThen, NothingRunYet, Kept,
         HeardSoFar, Ending, TurnPhases, Current

\* Picking up, a silence, an utterance.
LEMMA StartWords ==
    ASSUME IInv, HInv, WInv, OpenCall \/ SilenceElapses \/ TurnAudioArrives \/ Activate
    PROVE  WInv'
<1>1. orch \in Orchestrator
  BY RunningTurn
<1>2. CASE OpenCall /\ Reverse
  <2>1. /\ NewOrReopenedTurn(orch, "opening") /\ phase = "dialled" /\ phase' = "replying"
        /\ UNCHANGED endVars
    BY <1>2 DEF OpenCall
  <2>2. QED
    BY <1>1, <2>1, StartTurnWords
<1>3. CASE OpenCall /\ ~Reverse
  <2>1. /\ phase = "dialled" /\ phase' = "between"
        /\ UNCHANGED <<orch, gen, observed, endVars>>
    BY <1>3 DEF OpenCall
  <2>2. gen.turn = 0 /\ orch.revisable = 0
    BY <2>1 DEF WInv, NothingRunYet
  <2>3. QED
    BY <2>1, <2>2
       DEF WInv, SentInStep, WordsVoiced, ReportedOnce, RevisableThen, NothingRunYet, Kept,
           HeardSoFar, Ending, TurnPhases, Current, endVars, observed
<1>4. CASE SilenceElapses
  <2> DEFINE o == [orch EXCEPT !.said = @ + 1]
  <2>1. o \in Orchestrator /\ o.turns = orch.turns /\ o.reopen = orch.reopen
    <3>1. orch.said < Prompts
      BY <1>4 DEF SilenceElapses
    <3>2. orch.said + 1 \in 0..Prompts
      BY <1>1, <3>1, CallAssumption DEF Orchestrator
    <3>3. QED
      BY <1>1, <3>2 DEF Orchestrator
  <2>2. /\ NewOrReopenedTurn(o, "prompt") /\ phase = "between" /\ phase' = "replying"
        /\ UNCHANGED endVars
    BY <1>4 DEF SilenceElapses
  <2> HIDE DEF o
  <2>3. QED
    BY <2>1, <2>2, StartTurnWords
<1>5. CASE TurnAudioArrives
  <2>1. /\ NewOrReopenedTurn(orch, "user") /\ phase = "between" /\ phase' = "transcribing"
        /\ UNCHANGED endVars
    BY <1>5 DEF TurnAudioArrives
  <2>2. QED
    BY <1>1, <2>1, StartTurnWords
<1>6. CASE Activate
  <2>1. /\ orch'.turns = orch.turns /\ orch'.history = orch.history
        /\ orch'.revisable = orch.revisable
        /\ UNCHANGED <<gen, phase, muddled, parked, sent, report>>
    BY <1>1, <1>6 DEF Activate, Orchestrator, observed, endVars
  <2>2. QED
    BY <2>1
       DEF WInv, SentInStep, WordsVoiced, ReportedOnce, RevisableThen, NothingRunYet, Kept,
           HeardSoFar, Ending, TurnPhases, Current
<1>7. QED BY <1>2, <1>3, <1>4, <1>5, <1>6

\* The question: nothing is said while it is taken in.
LEMMA QuestionWords ==
    ASSUME IInv, HInv, WInv,
           Phantom \/ \E b \in BOOLEAN : Transcribed(b) \/ Measured(b)
    PROVE  WInv'
<1> USE DEF WInv, SentInStep, WordsVoiced, ReportedOnce, RevisableThen, NothingRunYet, Kept,
            HeardSoFar, Ending, TurnPhases, Current
<1>1. phase \in {"transcribing", "measuring"}
  BY DEF Phantom, Transcribed, Measured
<1>2. /\ orch \in Orchestrator /\ gen \in Generator /\ Len(orch.turns) # 0
      /\ gen.turn = Len(orch.turns) /\ gen.turn \in 1..Len(orch.turns)
      /\ orch.turns \in Seq(Turn) /\ orch.turns[gen.turn] \in Turn
      /\ ~gen.committed /\ ~parked
  BY <1>1, LastRuns DEF IInv, NotCommittedEarly, ParkedAfterwards
<1>3. report \in 0..Unreported /\ Unreported \in Nat
  BY Counters
<1>4. CASE Phantom
  <2>1. /\ phase = "transcribing" /\ phase' = "between" /\ gen' = Exited(gen)
        /\ parked' = parked /\ muddled' = muddled /\ report' = report
        /\ orch' = IF gen.reopened THEN orch
                   ELSE [orch EXCEPT !.turns = Front(@), !.reopen = 0]
    BY <1>4 DEF Phantom, observed, endVars
  <2>2. gen'.turn = gen.turn
    BY <1>2, <2>1, GeneratorTypes
  <2>3. CASE gen.reopened
    BY <1>1, <1>2, <1>3, <2>1, <2>2, <2>3
  <2>4. CASE ~gen.reopened
    <3>1. orch'.turns = Front(orch.turns) /\ orch'.revisable = orch.revisable
      BY <1>2, <2>1, <2>4 DEF Orchestrator
    <3>2. Len(orch'.turns) = Len(orch.turns) - 1 /\ Len(orch.turns) \in Nat
      BY <1>2, <3>1, FrontElements
    <3>3. gen'.turn \notin 1..Len(orch'.turns)
      BY <1>2, <2>2, <3>2
    <3>4. QED
      BY <1>1, <1>2, <2>1, <3>1, <3>3
  <2>5. QED BY <2>3, <2>4
<1>5. ASSUME NEW b \in BOOLEAN, Transcribed(b) PROVE WInv'
  <2> DEFINE n == IF gen.reopened /\ orch.turns[gen.turn].question > 0
                  THEN orch.turns[gen.turn].question + 1 ELSE 1
             e == Asked(orch.turns[gen.turn], n, b)
  <2>1. /\ phase = "transcribing" /\ phase' = "measuring" /\ gen' = gen
        /\ parked' = parked /\ muddled' = muddled /\ report' = report /\ sent' = sent
    BY <1>5 DEF Transcribed, observed, endVars
  <2>2. /\ orch'.turns = [orch.turns EXCEPT ![gen.turn] = e]
        /\ orch'.revisable = orch.revisable
    BY <1>2, <1>5 DEF Transcribed, Orchestrator
  <2>3. e.words = orch.turns[gen.turn].words
    BY <1>2 DEF Asked, Turn
  <2> HIDE DEF e
  <2>4. orch'.turns[gen.turn] = e
    BY <1>2, <2>2
  <2>5. QED
    BY <1>2, <2>1, <2>2, <2>3, <2>4
<1>6. ASSUME NEW b \in BOOLEAN, Measured(b) PROVE WInv'
  <2>1. /\ phase = "measuring" /\ phase' = "replying"
        /\ parked' = parked /\ muddled' = muddled /\ report' = report /\ sent' = sent
        /\ orch'.turns = orch.turns /\ orch'.revisable = orch.revisable
        /\ gen'.turn = gen.turn /\ gen'.spoken = gen.spoken
        /\ gen'.committed = gen.committed
    BY <1>2, <1>6 DEF Measured, Orchestrator, Generator, observed, endVars
  <2>2. QED
    BY <1>2, <2>1
<1>7. QED BY <1>4, <1>5, <1>6

\* The reply: a chunk counts as it is voiced; a retry starts over, before any audio.
LEMMA ReplyWords ==
    ASSUME IInv, HInv, WInv,
           Regenerate \/ \E b \in BOOLEAN : ChunkVoiced(b) \/ CompletionFails(b)
    PROVE  WInv'
<1> USE DEF WInv, SentInStep, WordsVoiced, ReportedOnce, RevisableThen, NothingRunYet, Kept,
            HeardSoFar, Ending, TurnPhases, Current
<1> DEFINE turn == orch.turns[gen.turn]
           said == OneChunkMore(turn)
           unsaid == Unsaid(turn)
<1>1. /\ phase = "replying" /\ parked' = parked /\ muddled' = muddled /\ report' = report
  BY DEF Regenerate, ChunkVoiced, CompletionFails, observed, endVars
<1>2. /\ orch \in Orchestrator /\ gen \in Generator /\ gen.turn \in 1..Len(orch.turns)
      /\ orch.turns \in Seq(Turn) /\ turn \in Turn /\ ~gen.committed
  BY <1>1, LastRuns DEF IInv, NotCommittedEarly
<1>3. /\ sent \in Nat /\ gen.spoken \in Nat /\ turn.words \in Nat
      /\ said.words = turn.words + 1 /\ unsaid.words = 0
  BY <1>2, Counters, TurnWords
<1> HIDE DEF said, unsaid
<1>4. ASSUME orch' = [orch EXCEPT !.turns[gen.turn] = unsaid], ~gen.spokeYet,
             phase' = phase, sent' = sent, gen'.turn = gen.turn, gen'.spoken = gen.spoken,
             gen'.committed = gen.committed
      PROVE  WInv'
  <2>1. /\ orch'.turns = [orch.turns EXCEPT ![gen.turn] = unsaid]
        /\ orch'.revisable = orch.revisable
    BY <1>2, <1>4 DEF Orchestrator
  <2>2. orch'.turns[gen.turn] = unsaid
    BY <1>2, <2>1
  <2>3. QED
    BY <1>1, <1>2, <1>3, <1>4, <2>1, <2>2
<1>5. CASE Regenerate
  <2>1. /\ orch' = [orch EXCEPT !.turns[gen.turn] = unsaid] /\ ~gen.spokeYet
        /\ phase' = phase /\ sent' = sent /\ gen'.turn = gen.turn
        /\ gen'.spoken = gen.spoken /\ gen'.committed = gen.committed
    BY <1>2, <1>5 DEF Regenerate, Generator, observed, unsaid
  <2>2. QED
    BY <1>4, <2>1
<1>6. ASSUME NEW b \in BOOLEAN, CompletionFails(b) PROVE WInv'
  <2>1. CASE gen.spokeYet \/ gen.attempt = 1
    <3>1. phase' = "failing" /\ UNCHANGED <<orch, gen, sent>>
      BY <1>6, <2>1 DEF CompletionFails, observed
    <3>2. QED
      BY <1>1, <1>2, <3>1
  <2>2. CASE ~(gen.spokeYet \/ gen.attempt = 1)
    <3>1. /\ orch' = [orch EXCEPT !.turns[gen.turn] = unsaid] /\ ~gen.spokeYet
          /\ phase' = phase /\ sent' = sent /\ gen'.turn = gen.turn
          /\ gen'.spoken = gen.spoken /\ gen'.committed = gen.committed
      BY <1>2, <1>6, <2>2 DEF CompletionFails, Generator, observed, unsaid
    <3>2. QED
      BY <1>4, <3>1
  <2>3. QED BY <2>1, <2>2
<1>7. ASSUME NEW b \in BOOLEAN, ChunkVoiced(b) PROVE WInv'
  <2>1. /\ orch' = [orch EXCEPT !.turns[gen.turn] = said]
        /\ gen'.turn = gen.turn /\ gen'.spoken = gen.spoken + 1
        /\ gen'.committed = gen.committed /\ gen'.spokeYet = gen.spokeYet
        /\ IF gen.spokeYet THEN phase' = phase /\ sent' = sent + 1
                           ELSE phase' = "announcing" /\ sent' = sent
    BY <1>2, <1>7 DEF ChunkVoiced, Generator, said
  <2>2. /\ orch'.turns = [orch.turns EXCEPT ![gen.turn] = said]
        /\ orch'.revisable = orch.revisable
    BY <1>2, <2>1 DEF Orchestrator
  <2>3. orch'.turns[gen.turn] = said
    BY <1>2, <2>2
  <2>4. QED
    BY <1>1, <1>2, <1>3, <2>1, <2>2, <2>3
<1>8. QED BY <1>5, <1>6, <1>7

\* The end of a reply leaves its words alone.
LEMMA EndWords ==
    ASSUME IInv, HInv, WInv,
           \/ PromptFinished \/ \E looping, goodbye \in BOOLEAN : ReplyFinished(looping, goodbye)
           \/ FarewellSent \/ Completed \/ Settled \/ FailureSent
    PROVE  WInv'
<1> USE DEF WInv, SentInStep, WordsVoiced, ReportedOnce, RevisableThen, NothingRunYet, Kept,
            HeardSoFar, Ending, TurnPhases, Current
<1>1. phase \in {"replying", "signingOff", "completing", "settling", "failing"}
  BY DEF PromptFinished, ReplyFinished, FarewellSent, Completed, Settled, FailureSent
<1>2. /\ orch \in Orchestrator /\ gen \in Generator /\ gen.turn \in 1..Len(orch.turns)
      /\ orch.turns \in Seq(Turn) /\ orch.turns[gen.turn] \in Turn /\ gen.turn # 0 /\ ~parked
  BY <1>1, LastRuns DEF IInv, ParkedAfterwards
<1>3. /\ gen.spoken \in Nat /\ gen.spoken <= MaxChunks /\ MaxChunks <= Unreported
      /\ MaxChunks \in Nat /\ Unreported \in Nat /\ orch.turns[gen.turn].words \in Nat
  BY <1>1, Counters
<1>4. ASSUME PromptFinished \/ \E looping, goodbye \in BOOLEAN : ReplyFinished(looping, goodbye)
      PROVE  WInv'
  <2>1. /\ phase = "replying" /\ phase' \in {"completing", "farewell"} /\ parked' = parked
        /\ muddled' = muddled /\ report' = report /\ sent' = sent
        /\ orch'.turns = orch.turns /\ orch'.revisable = orch.revisable
        /\ gen'.turn = gen.turn /\ gen'.spoken = gen.spoken /\ gen'.committed
    BY <1>2, <1>4 DEF PromptFinished, ReplyFinished, Orchestrator, Generator, observed, endVars
  <2>2. ~gen.committed
    BY <2>1 DEF IInv, NotCommittedEarly
  <2>3. QED
    BY <2>1, <2>2
<1>5. CASE FarewellSent
  <2> DEFINE e == [orch.turns[gen.turn] EXCEPT !.farewell = TRUE]
  <2>1. /\ phase = "signingOff" /\ phase' = "completing" /\ gen' = gen /\ parked' = parked
        /\ muddled' = muddled /\ report' = report /\ sent' = sent
        /\ orch'.turns = [orch.turns EXCEPT ![gen.turn] = e]
        /\ orch'.revisable = orch.revisable
    BY <1>2, <1>5 DEF FarewellSent, Orchestrator, observed, endVars
  <2>2. e.words = orch.turns[gen.turn].words
    BY <1>2 DEF Turn
  <2> HIDE DEF e
  <2>3. orch'.turns[gen.turn] = e
    BY <1>2, <2>1
  <2>4. QED
    BY <2>1, <2>2, <2>3
<1>6. CASE Completed /\ orch.ended
  <2>1. /\ phase = "completing" /\ phase' = "over" /\ parked' = TRUE
        /\ UNCHANGED <<orch, gen, sent, report, muddled>>
    BY <1>6 DEF Completed, Over, observed
  <2>2. QED
    BY <1>3, <2>1
<1>7. CASE Completed /\ ~orch.ended
  <2>1. /\ phase = "completing" /\ phase' = "settling" /\ parked' = parked
        /\ UNCHANGED <<gen, sent, report, muddled>>
        /\ orch'.turns = orch.turns /\ orch'.revisable = gen.turn
    BY <1>2, <1>7 DEF Completed, Orchestrator, observed, endVars
  <2>2. gen.committed
    BY <2>1 DEF HInv, CommittedByThen
  <2>3. QED
    BY <1>2, <2>1, <2>2
<1>8. CASE Settled
  <2>1. /\ phase = "settling" /\ phase' = "between" /\ parked' = parked
        /\ UNCHANGED <<sent, report, muddled>> /\ gen' = Exited(gen)
        /\ orch'.turns = orch.turns /\ orch'.history = orch.history
        /\ orch'.revisable = orch.revisable
    BY <1>2, <1>8 DEF Settled, Orchestrator, observed, endVars
  <2>2. gen'.turn = gen.turn /\ gen'.committed = gen.committed
    BY <1>2, <2>1, GeneratorTypes
  <2>3. ~muddled => gen.committed /\ Given(orch.turns, orch.history)
    BY <2>1 DEF HInv, CommittedByThen, Straight, ReplyGiven
  <2>4. QED
    BY <1>2, <1>3, <2>1, <2>2, <2>3
<1>9. CASE FailureSent
  <2>1. /\ phase = "failing" /\ phase' = "over" /\ parked' = TRUE
        /\ UNCHANGED <<orch, gen, sent, report, muddled>>
    BY <1>9 DEF FailureSent, Over, observed
  <2>2. QED
    BY <1>3, <2>1
<1>10. QED BY <1>4, <1>5, <1>6, <1>7, <1>8, <1>9

\* With the record straight, a reply given is the last message, as LiveCall asks.
LEMMA GivenIsLastReply ==
    ASSUME NEW o \in Orchestrator, Given(o.turns, o.history)
    PROVE  LastReplyIs(o, Len(o.turns))
BY TurnList DEF Given, LastReplyIs

\* An interrupt keeps no more than the position it reports.
LEMMA InterruptWords ==
    ASSUME IInv, HInv, WInv, NEW pos \in Position, Interrupt(pos)
    PROVE  WInv'
<1> DEFINE noted == NoteBargeIn(orch, gen, pos)
           o == FinalizeInterrupted(noted, gen)
           t == gen.turn
<1>1. /\ phase \in TurnPhases /\ orch' = o /\ gen' = Exited(gen)
      /\ report' = (IF report = Unreported THEN pos ELSE report)
      /\ (muddled => muddled')
      /\ IF o.ended THEN phase' = "over" /\ parked' = FALSE
                    ELSE phase' = "between" /\ parked' = parked
  BY DEF Interrupt, Over, endVars
<1>2. /\ orch \in Orchestrator /\ gen \in Generator /\ t \in 1..Len(orch.turns)
      /\ t = Len(orch.turns) /\ ~parked /\ orch.turns[t] \in Turn
  BY <1>1, LastRuns DEF IInv, ParkedAfterwards, TurnPhases
<1>3. noted \in Orchestrator /\ Len(noted.turns) = Len(orch.turns)
  BY <1>2, NoteHandled DEF Handled
<1>4. /\ pos \in Nat /\ pos <= MaxChunks /\ Unreported = MaxChunks + 1 /\ MaxChunks \in Nat
  BY CallAssumption DEF Position, Unreported
<1>5. ASSUME ~muddled
      PROVE  o.turns[t].words \in Nat /\ o.turns[t].words <= pos /\ o.revisable = 0
  <2>1. gen.committed => Given(orch.turns, orch.history)
    BY <1>1, <1>5 DEF WInv, RevisableThen, HInv, Straight, ReplyGiven
  <2>2. gen.committed => LastReplyIs(orch, t)
    BY <1>2, <2>1, GivenIsLastReply
  <2>3. ~gen.committed => orch.revisable = 0
    BY <1>1, <1>5 DEF WInv, RevisableThen
  <2>4. CASE orch.revisable # 0
    <3>1. noted = ReviseCommittedReply(orch, gen, pos)
      BY <2>4 DEF NoteBargeIn
    <3> HIDE DEF noted
    <3>2. noted.turns[t].words \in Nat /\ noted.turns[t].words <= pos
      BY <1>2, <2>2, <2>3, <2>4, <3>1, ReviseWords
    <3> HIDE DEF o
    <3>3. /\ o.turns[t].words \in Nat /\ o.turns[t].words <= noted.turns[t].words
          /\ o.revisable = 0
      BY <1>2, <1>3, <2>3, <2>4, FinalizeWords DEF o
    <3>4. QED
      BY <1>4, <3>2, <3>3
  <2>5. CASE orch.revisable = 0
    <3>1. noted = [orch EXCEPT !.bargeIn = pos]
      BY <2>5 DEF NoteBargeIn
    <3> HIDE DEF noted
    <3>2. /\ noted.turns = orch.turns /\ noted.history = orch.history
          /\ noted.bargeIn = pos /\ noted.revisable = 0
      BY <1>2, <2>5, <3>1 DEF Orchestrator
    <3>3. gen.committed => LastReplyIs(noted, t)
      BY <2>2, <3>2 DEF LastReplyIs
    <3> HIDE DEF o
    <3>4. QED
      BY <1>2, <1>3, <3>2, <3>3, FinalizeWords DEF o
  <2>6. QED BY <2>4, <2>5
<1> HIDE DEF o
<1>6. gen'.turn = t /\ gen'.committed = gen.committed
  BY <1>1, <1>2, GeneratorTypes
<1>7. ~muddled => report = Unreported
  BY <1>1 DEF WInv, ReportedOnce
<1>8. /\ phase' \in {"between", "over"} /\ phase' \notin TurnPhases /\ phase' \notin Ending
      /\ phase' \notin {"dialled", "transcribing", "measuring", "replying", "announcing", "settling"}
      /\ ~parked'
  BY <1>1, <1>2 DEF TurnPhases, Ending
<1>9. NothingRunYet'
  BY <1>8 DEF NothingRunYet
<1>10. ASSUME ~muddled'
       PROVE  (SentInStep /\ WordsVoiced /\ ReportedOnce /\ RevisableThen /\ HeardSoFar)'
  <2>1. ~muddled /\ report' = pos /\ report' # Unreported
    <3>1. ~muddled
      BY <1>1, <1>10
    <3>2. report' = pos
      BY <1>1, <1>7, <3>1
    <3>3. QED
      BY <1>4, <3>1, <3>2
  <2>2. (Current.words <= report)' /\ orch'.revisable = 0
    BY <1>1, <1>5, <1>6, <2>1 DEF Current
  <2>3. SentInStep' /\ WordsVoiced'
    BY <1>8 DEF SentInStep, WordsVoiced
  <2>4. ReportedOnce' /\ RevisableThen'
    BY <1>8, <2>2 DEF ReportedOnce, RevisableThen
  <2>5. HeardSoFar'
    BY <1>8, <2>1, <2>2 DEF HeardSoFar, Kept
  <2>6. QED BY <2>3, <2>4, <2>5
<1>11. QED
  BY <1>9, <1>10 DEF WInv

\* So does one that comes late, over the tail of the reply.
LEMMA LateInterruptWords ==
    ASSUME IInv, HInv, WInv, NEW pos \in Position, LateInterrupt(pos)
    PROVE  WInv'
<1>1. /\ phase = "between" /\ phase' = "between" /\ orch' = NoteLateBargeIn(orch, gen, pos)
      /\ report' = (IF report = Unreported THEN pos ELSE report)
      /\ parked' = parked /\ muddled' = muddled /\ gen' = gen
  BY DEF LateInterrupt, endVars
<1>2. pos \in Nat /\ pos <= MaxChunks /\ Unreported = MaxChunks + 1 /\ MaxChunks \in Nat
  BY CallAssumption DEF Position, Unreported
<1>3. ~parked'
  BY <1>1 DEF IInv, ParkedAfterwards
<1>4. NothingRunYet' /\ SentInStep' /\ WordsVoiced'
  BY <1>1, <1>3 DEF NothingRunYet, SentInStep, WordsVoiced, TurnPhases, Ending
<1>5. ASSUME ~muddled PROVE orch'.revisable = 0 /\ report' # Unreported /\ Kept'
  <2>1. HeardSoFar /\ ReportedOnce /\ RevisableThen
    BY <1>5 DEF WInv
  <2>2. report' # Unreported
    <3>1. pos # Unreported
      BY <1>2
    <3>2. QED
      BY <1>1, <3>1
  <2>3. CASE orch.revisable = 0
    <3>1. orch' = orch
      BY <1>1, <2>3 DEF NoteLateBargeIn
    <3>2. ASSUME gen.turn \in 1..Len(orch.turns) PROVE Current.words <= report'
      <4>1. CASE report = Unreported
        <5>1. Current.words = 0
          BY <1>1, <2>1, <2>3, <3>2, <4>1 DEF HeardSoFar
        <5>2. report' = pos
          BY <1>1, <4>1
        <5>3. QED
          BY <1>2, <5>1, <5>2
      <4>2. CASE report # Unreported
        <5>1. Current.words <= report
          BY <1>1, <2>1, <3>2 DEF HeardSoFar, Kept
        <5>2. report' = report
          BY <1>1, <4>2
        <5>3. QED
          BY <5>1, <5>2
      <4>3. QED BY <4>1, <4>2
    <3>3. Kept'
      BY <1>1, <3>1, <3>2 DEF Kept, Current
    <3>4. QED
      BY <2>2, <2>3, <3>1, <3>3
  <2>4. CASE orch.revisable # 0
    <3>1. orch' = ReviseCommittedReply(orch, gen, pos)
      BY <1>1, <2>4 DEF NoteLateBargeIn
    <3>2. /\ orch \in Orchestrator /\ gen \in Generator /\ gen.turn = Len(orch.turns)
          /\ gen.turn \in 1..Len(orch.turns)
      BY <2>4, LastRuns
    <3>3. gen.committed /\ Given(orch.turns, orch.history) /\ report = Unreported
      BY <1>1, <2>1, <2>4 DEF RevisableThen, ReportedOnce
    <3>4. LastReplyIs(orch, gen.turn)
      BY <3>2, <3>3, GivenIsLastReply
    <3>5. orch'.turns[gen.turn].words <= pos /\ orch'.revisable = 0
      BY <3>1, <3>2, <3>3, <3>4, ReviseWords
    <3>6. report' = pos
      BY <1>1, <3>3
    <3>7. Kept'
      BY <1>1, <3>5, <3>6 DEF Kept, Current
    <3>8. QED
      BY <2>2, <3>5, <3>7
  <2>5. QED BY <2>3, <2>4
<1>6. ASSUME ~muddled PROVE ReportedOnce' /\ RevisableThen' /\ HeardSoFar'
  BY <1>1, <1>3, <1>5, <1>6
     DEF ReportedOnce, RevisableThen, HeardSoFar, TurnPhases, Ending
<1>7. QED
  BY <1>1, <1>4, <1>6 DEF WInv

\* A teardown without a report keeps no more than was voiced.
LEMMA TeardownWords ==
    ASSUME IInv, HInv, WInv, phase \in TurnPhases \/ parked, ~muddled,
           NEW r, r = FinalizeInterrupted(orch, gen)
    PROVE  r.turns[gen.turn].words \in Nat /\ r.turns[gen.turn].words <= report
<1>1. /\ orch \in Orchestrator /\ gen \in Generator /\ gen.turn \in 1..Len(orch.turns)
      /\ report = Unreported /\ Current.words <= gen.spoken /\ gen.spoken \in Nat
      /\ gen.spoken <= Unreported /\ Unreported \in Nat /\ Current.words \in Nat
  <2>1. report = Unreported /\ Current.words <= gen.spoken
    BY DEF WInv, ReportedOnce, WordsVoiced
  <2>2. gen.spoken \in Nat /\ gen.spoken <= Unreported /\ Unreported \in Nat /\ Current.words \in Nat
    BY Counters
  <2>3. QED
    BY <2>1, <2>2, LastRuns
<1>2. /\ r.turns[gen.turn].words \in Nat
      /\ gen.committed => r.turns[gen.turn].words <= Current.words
      /\ ~gen.committed => r.turns[gen.turn].words <= gen.spoken
  BY <1>1, FinalizeWords DEF Current
<1>3. QED
  BY <1>1, <1>2

\* Leaving, the time limit, the parked generator, the record.
LEMMA LeaveWords ==
    ASSUME IInv, HInv, WInv,
           \/ \E why \in {"user", "disconnected"} : Leave(why)
           \/ TimeLimit \/ CloseParked \/ Record
    PROVE  WInv'
<1> USE DEF WInv, SentInStep, WordsVoiced, ReportedOnce, RevisableThen, NothingRunYet, Kept,
            HeardSoFar, Ending, TurnPhases, Current
<1>1. ASSUME NEW why \in {"user", "disconnected"}, Leave(why), phase \in TurnPhases
      PROVE  WInv'
  <2>1. /\ phase' = "over" /\ parked' = FALSE /\ muddled' = muddled /\ report' = report
        /\ orch' = FinalizeInterrupted(orch, gen) /\ gen' = Exited(gen)
    BY <1>1 DEF Leave, Over, observed
  <2>2. /\ orch \in Orchestrator /\ gen \in Generator /\ gen.turn \in 1..Len(orch.turns)
    BY <1>1, LastRuns
  <2>3. gen'.turn = gen.turn
    BY <2>1, <2>2, GeneratorTypes
  <2>4. ~muddled => orch'.turns[gen.turn].words <= report /\ report = Unreported
    BY <1>1, <2>1, TeardownWords
  <2>5. QED
    BY <2>1, <2>3, <2>4
<1>2. ASSUME NEW why \in {"user", "disconnected"}, Leave(why), phase \notin TurnPhases
      PROVE  WInv'
  <2>1. /\ phase = "between" /\ phase' = "over" /\ parked' = FALSE /\ muddled' = muddled
        /\ report' = report /\ orch' = orch /\ gen' = gen
    BY <1>2 DEF Leave, Over, observed
  <2>2. QED
    BY <2>1
<1>3. CASE TimeLimit
  BY <1>3 DEF TimeLimit, Over, observed
<1>4. CASE CloseParked
  <2>1. /\ parked /\ parked' = FALSE /\ phase' = phase /\ muddled' = muddled
        /\ report' = report /\ orch' = FinalizeInterrupted(orch, gen) /\ gen' = Exited(gen)
    BY <1>4 DEF CloseParked, observed
  <2>2. phase \in {"over", "recorded"} /\ gen \in Generator
    BY <2>1, LastRuns DEF IInv, ParkedAfterwards
  <2>3. gen'.turn = gen.turn
    BY <2>1, <2>2, GeneratorTypes
  <2>4. ~muddled => orch'.turns[gen.turn].words <= report /\ report = Unreported
    BY <2>1, TeardownWords
  <2>5. QED
    BY <2>1, <2>2, <2>3, <2>4
<1>5. CASE Record
  BY <1>5 DEF Record, observed
<1>6. QED BY <1>1, <1>2, <1>3, <1>4, <1>5

-----------------------------------------------------------------------------
(* The theorems                                                            *)

\* The invariant holds when the call is dialled.
LEMMA InitWInv == Init => WInv
<1> SUFFICES ASSUME Init PROVE WInv
  OBVIOUS
<1>1. /\ phase = "dialled" /\ ~parked /\ gen.turn = 0 /\ orch.revisable = 0
  BY DEF Init, FreshGenerator
<1>2. QED
  BY <1>1 DEF WInv, SentInStep, WordsVoiced, ReportedOnce, RevisableThen, NothingRunYet, Kept,
              HeardSoFar, Ending, TurnPhases

\* Every action, and stuttering, keeps it: one step per action.
LEMMA NextWInv == IInv /\ HInv /\ WInv /\ [Next]_vars => WInv'
<1> SUFFICES ASSUME IInv, HInv, WInv, [Next]_vars PROVE WInv'
  OBVIOUS
<1>1. CASE UNCHANGED vars
  BY <1>1 DEF vars, WInv, SentInStep, WordsVoiced, ReportedOnce, RevisableThen, NothingRunYet,
              Kept, HeardSoFar, Current
<1>2. CASE Machine
  BY <1>2, GeneratorWords, StartWords, QuestionWords, ReplyWords, EndWords, LeaveWords
     DEF Machine
<1>3. CASE Client
  BY <1>3, StartWords, InterruptWords, LateInterruptWords, LeaveWords DEF Client
<1>4. CASE Finished
  BY <1>4, GeneratorWords
<1>5. QED BY <1>1, <1>2, <1>3, <1>4 DEF Next

\* What is dispatched, voiced, reported and kept of a reply agrees at every step of a
\* Turn (LiveCall's observation of the socket against the orchestrator's Turns).
THEOREM WordsInStep == Spec => []WInv
BY InitWInv, NextWInv, Invariance, StraightRecord, PTL DEF Spec

\* ADR 0035, orchestrator.py: whichever of the four paths trims a reply the user talked
\* over, it keeps no more than the first position reported for it.
THEOREM HeardIsKept == Spec => []OnlyHeardIsKept
<1>1. IInv /\ WInv => OnlyHeardIsKept
  <2> SUFFICES ASSUME IInv, WInv, ~muddled, phase \in {"between", "over", "recorded"},
                      gen.turn \in DOMAIN orch.turns
               PROVE  Current.words <= report
    BY DEF OnlyHeardIsKept
  <2>1. gen.turn \in 1..Len(orch.turns)
    BY RunningTurn, TurnList
  <2>2. QED
    BY <2>1 DEF WInv, HeardSoFar, Kept
<1>2. QED
  BY Invariance, WordsInStep, <1>1, PTL

\* orchestrator.py `_run_turn`: no retry or regeneration drops words the socket has
\* sounded, and a committed reply has the words that were dispatched.
THEOREM ReplyMatchesAudio == Spec => []ReplyIsWhatWasSent
<1>1. WInv => ReplyIsWhatWasSent
  BY DEF WInv, SentInStep, ReplyIsWhatWasSent, Ending
<1>2. QED
  BY WordsInStep, <1>1, PTL

-----------------------------------------------------------------------------
(* What the trimming paths do to a Turn that may still be touched           *)

\* A Turn is uncut, or closed with a message that is not taken for a whole reply.
Sealed(o, t) ==
    o.turns[t].interrupted => o.reopen = 0 /\ ~LastReplyIs(o, t)

\* Committing the heard part seals the Turn: its message has the mark.
LEMMA CommitHeardSeals ==
    ASSUME NEW o \in Orchestrator, NEW t \in 1..Len(o.turns), NEW heard \in Nat,
           NEW earlier \in Seq(Message), NEW r, r = CommitHeard(o, t, heard, earlier)
    PROVE  Sealed(r, t)
<1> DEFINE m == Reply(t, Trimmed(o.turns[t], heard), TRUE)
<1>1. r.history = Append(earlier, m) /\ r.reopen = 0
  BY DEF CommitHeard, Orchestrator
<1>2. m.mark = TRUE
  BY DEF Reply
<1> HIDE DEF m
<1>3. r.history[Len(r.history)] = m
  BY <1>1, AppendProperties
<1>4. r.history[Len(r.history)] # Reply(t, r.turns[t], FALSE)
  <2>1. Reply(t, r.turns[t], FALSE).mark = FALSE
    BY DEF Reply
  <2>2. QED
    BY <1>2, <1>3, <2>1
<1>5. QED
  BY <1>1, <1>4 DEF Sealed, LastReplyIs

\* _revise_committed_reply keeps a sealed Turn sealed.
LEMMA ReviseSeals ==
    ASSUME NEW o \in Orchestrator, NEW g \in Generator, NEW pos \in Position,
           g.turn \in 1..Len(o.turns), Sealed(o, g.turn),
           NEW r, r = ReviseCommittedReply(o, g, pos)
    PROVE  Sealed(r, g.turn) /\ r.revisable = 0
<1> DEFINE t == g.turn
           heard == Cut(g, pos)
           closed == [o EXCEPT !.revisable = 0]
           stands == g.committed /\ ~Silent(o.turns[t]) /\ LastReplyIs(o, t)
<1>1. /\ closed \in Orchestrator /\ closed.turns = o.turns /\ closed.revisable = 0
      /\ closed.history = o.history /\ closed.reopen = o.reopen
  <2>1. 0 \in Nat
    OBVIOUS
  <2>2. QED
    BY <2>1 DEF Orchestrator
<1>2. /\ o.turns \in Seq(Turn) /\ t \in 1..Len(o.turns) /\ o.turns[t] \in Turn
      /\ heard \in Nat /\ Front(o.history) \in Seq(Message)
  BY TurnList, CutType, FrontType
<1> HIDE DEF closed, heard
<1>3. CASE stands /\ heard = 0
  <2>1. r = [closed EXCEPT !.turns[t] = Unsaid(@), !.history = Front(@), !.reopen = t]
    BY <1>3 DEF ReviseCommittedReply, closed, heard
  <2>2. r.turns = [o.turns EXCEPT ![t] = Unsaid(@)] /\ r.revisable = 0
    BY <1>1, <2>1 DEF Orchestrator
  <2>3. r.turns[t] = Unsaid(o.turns[t])
    BY <1>2, <2>2
  <2>4. ~o.turns[t].interrupted
    BY <1>3 DEF Sealed
  <2>5. ~r.turns[t].interrupted
    BY <1>2, <2>3, <2>4, CutTurn
  <2>6. QED
    BY <2>2, <2>5 DEF Sealed
<1>4. CASE stands /\ heard # 0 /\ heard < Length(o.turns[t])
  <2>1. r = CommitHeard(closed, t, heard, Front(o.history))
    BY <1>1, <1>4 DEF ReviseCommittedReply, closed, heard
  <2>2. r.revisable = 0
    BY <1>1, <2>1 DEF CommitHeard, Orchestrator
  <2>3. QED
    BY <1>1, <1>2, <2>1, <2>2, CommitHeardSeals
<1>5. CASE ~(stands /\ heard = 0) /\ ~(stands /\ heard # 0 /\ heard < Length(o.turns[t]))
  <2>1. r = closed
    BY <1>5 DEF ReviseCommittedReply, closed, heard
  <2>2. QED
    BY <1>1, <2>1 DEF Sealed, LastReplyIs
<1>6. QED BY <1>3, <1>4, <1>5

\* So does the teardown, when a reply that is not committed is uncut.
LEMMA FinalizeSeals ==
    ASSUME NEW o \in Orchestrator, NEW g \in Generator, g.turn \in 1..Len(o.turns),
           Sealed(o, g.turn), ~g.committed => ~o.turns[g.turn].interrupted /\ o.revisable = 0,
           NEW r, r = FinalizeInterrupted(o, g)
    PROVE  Sealed(r, g.turn) /\ r.revisable = 0
<1> DEFINE t == g.turn
           heard == Cut(g, o.bargeIn)
           taken == [o EXCEPT !.bargeIn = AllPlayed]
<1>1. AllPlayed \in Position /\ o.bargeIn \in Position
  BY CallAssumption DEF AllPlayed, Position, Orchestrator
<1>2. /\ taken \in Orchestrator /\ taken.turns = o.turns /\ taken.history = o.history
      /\ taken.revisable = o.revisable /\ taken.reopen = o.reopen
  BY <1>1 DEF Orchestrator
<1>3. /\ o.turns \in Seq(Turn) /\ t \in 1..Len(o.turns) /\ o.turns[t] \in Turn
      /\ heard \in Nat /\ o.history \in Seq(Message)
  BY <1>1, TurnList, CutType
<1> HIDE DEF taken, heard
<1>4. CASE g.committed
  <2>1. r = ReviseCommittedReply(taken, g, o.bargeIn)
    BY <1>4 DEF FinalizeInterrupted, taken
  <2>2. Sealed(taken, t)
    BY <1>2 DEF Sealed, LastReplyIs
  <2>3. QED
    BY <1>1, <1>2, <1>3, <2>1, <2>2, ReviseSeals
<1>5. CASE ~g.committed /\ g.spokeYet /\ heard > 0
  <2>1. r = CommitHeard(taken, t, heard, o.history)
    BY <1>5 DEF FinalizeInterrupted, taken, heard
  <2>2. r.revisable = 0
    BY <1>2, <1>5, <2>1 DEF CommitHeard, Orchestrator
  <2>3. QED
    BY <1>2, <1>3, <2>1, <2>2, CommitHeardSeals
<1>6. CASE ~g.committed /\ ~(g.spokeYet /\ heard > 0)
  <2>1. r = [taken EXCEPT !.turns[t] = Unsaid(@)]
    BY <1>6 DEF FinalizeInterrupted, taken, heard
  <2>2. r.turns = [o.turns EXCEPT ![t] = Unsaid(@)] /\ r.revisable = 0
    BY <1>2, <1>6, <2>1 DEF Orchestrator
  <2>3. r.turns[t] = Unsaid(o.turns[t])
    BY <1>3, <2>2
  <2>4. ~r.turns[t].interrupted
    BY <1>3, <1>6, <2>3, CutTurn
  <2>5. QED
    BY <2>2, <2>4 DEF Sealed
<1>7. QED BY <1>4, <1>5, <1>6

-----------------------------------------------------------------------------
(* The inductive invariant                                                 *)

\* Nothing is open for revision before the commit.
RevisableCommitted ==
    (phase \in TurnPhases \/ parked) /\ ~gen.committed => orch.revisable = 0
\* A Turn that somebody may still touch has not been cut.
RunningUncut == Running => ~Current.interrupted
OpenUncut == orch.reopen # 0 => ~orch.turns[orch.reopen].interrupted

TInv == RevisableCommitted /\ RunningUncut /\ OpenUncut

\* What the property says of one step.
TrimmedStay ==
    \A t \in DOMAIN orch.turns :
       orch.turns[t].interrupted =>
          t \in DOMAIN orch'.turns /\ orch'.turns[t] = orch.turns[t]

\* A step that leaves the Turns alone and opens none.
LEMMA StayStep ==
    ASSUME TInv, orch'.turns = orch.turns, orch'.reopen \in {0, orch.reopen},
           gen'.turn = gen.turn, Running' => Running, RevisableCommitted'
    PROVE  TInv' /\ TrimmedStay
BY DEF TInv, RunningUncut, OpenUncut, Current, TrimmedStay

\* A step that rewrites the running Turn only.
LEMMA TouchStep ==
    ASSUME IInv, IInv', TInv, Running, gen'.turn = gen.turn,
           Len(orch'.turns) = Len(orch.turns),
           \A s \in 1..Len(orch.turns) : s # gen.turn => orch'.turns[s] = orch.turns[s],
           \/ ~orch'.turns[gen.turn].interrupted
           \/ orch'.reopen = 0 /\ ~Running',
           RevisableCommitted'
    PROVE  TInv' /\ TrimmedStay
<1>1. /\ gen.turn \in 1..Len(orch.turns) /\ gen.turn = Len(orch.turns)
      /\ DOMAIN orch.turns = 1..Len(orch.turns) /\ DOMAIN orch'.turns = 1..Len(orch'.turns)
  <2>1. orch \in Orchestrator /\ orch' \in Orchestrator
    BY DEF IInv, TypeOK
  <2>2. QED
    BY <2>1, RunningTurn, TurnList DEF IInv, RunsLastTurn
<1>2. ~orch.turns[gen.turn].interrupted
  BY DEF TInv, RunningUncut, Current
<1>3. TrimmedStay
  BY <1>1, <1>2 DEF TrimmedStay
<1>4. orch'.reopen \in {0, gen.turn}
  BY <1>1 DEF IInv, EarlierTurnsAnswered
<1>5. QED
  BY <1>3, <1>4 DEF TInv, RunningUncut, OpenUncut, Current

-----------------------------------------------------------------------------
(* The steps                                                               *)

\* Steps that leave every Turn alone.
LEMMA StaySteps ==
    ASSUME IInv, HInv, TInv,
           \/ TranscriptionFails \/ SpeakingAnnounced \/ SynthesisFails \/ MarkerAlone
           \/ ChunkSuppressed \/ FarewellSynthesized \/ FarewellFails \/ Finished
           \/ Activate \/ PromptFinished \/ Settled \/ Completed \/ FailureSent
           \/ TimeLimit \/ Record
           \/ \E b \in BOOLEAN : Measured(b)
           \/ \E looping, goodbye \in BOOLEAN : ReplyFinished(looping, goodbye)
    PROVE  TInv' /\ TrimmedStay
<1> USE DEF RevisableCommitted, Running, TurnPhases, endVars, observed
<1>1. orch \in Orchestrator /\ gen \in Generator
  BY RunningTurn
<1>2. parked => phase \in {"over", "recorded"}
  BY DEF IInv, ParkedAfterwards
<1>3. RevisableCommitted
  BY DEF TInv
<1>4. ASSUME \/ TranscriptionFails \/ SpeakingAnnounced \/ SynthesisFails \/ MarkerAlone
             \/ ChunkSuppressed \/ FarewellSynthesized \/ FarewellFails \/ Finished
      PROVE  TInv' /\ TrimmedStay
  <2>1. /\ orch' = orch /\ gen'.turn = gen.turn /\ gen'.committed = gen.committed
        /\ parked' = parked /\ (phase' \in TurnPhases => phase \in TurnPhases)
    BY <1>1, <1>4
       DEF TranscriptionFails, SpeakingAnnounced, SynthesisFails, MarkerAlone, ChunkSuppressed,
           FarewellSynthesized, FarewellFails, Finished, vars, Generator
  <2>2. QED
    BY <1>3, <2>1, StayStep
<1>5. CASE Activate
  <2>1. /\ orch'.turns = orch.turns /\ orch'.reopen = orch.reopen
        /\ orch'.revisable = orch.revisable /\ UNCHANGED <<gen, phase, parked>>
    BY <1>1, <1>5 DEF Activate, Orchestrator
  <2>2. QED
    BY <1>3, <2>1, StayStep
<1>6. ASSUME \E b \in BOOLEAN : Measured(b) PROVE TInv' /\ TrimmedStay
  <2>1. /\ orch'.turns = orch.turns /\ orch'.reopen = orch.reopen
        /\ orch'.revisable = orch.revisable /\ parked' = parked
        /\ gen'.turn = gen.turn /\ gen'.committed = gen.committed
        /\ phase = "measuring" /\ phase' = "replying"
    BY <1>1, <1>6 DEF Measured, Orchestrator, Generator
  <2>2. QED
    BY <1>3, <2>1, StayStep
<1>7. ASSUME PromptFinished \/ \E looping, goodbye \in BOOLEAN : ReplyFinished(looping, goodbye)
      PROVE  TInv' /\ TrimmedStay
  <2>1. /\ orch'.turns = orch.turns /\ orch'.reopen \in {0, orch.reopen}
        /\ parked' = parked /\ phase = "replying"
        /\ gen'.turn = gen.turn /\ gen'.committed
    BY <1>1, <1>7 DEF PromptFinished, ReplyFinished, Orchestrator, Generator
  <2>2. QED
    BY <2>1, StayStep
<1>8. CASE Completed
  <2>1. /\ orch'.turns = orch.turns /\ orch'.reopen = orch.reopen /\ gen' = gen
        /\ phase = "completing" /\ phase' \in {"over", "settling"}
        /\ phase' = "over" => orch' = orch
    BY <1>1, <1>8 DEF Completed, Over, Orchestrator
  <2>2. gen.committed
    BY <2>1 DEF HInv, CommittedByThen, Ending
  <2>3. QED
    BY <2>1, <2>2, StayStep
<1>9. CASE Settled
  <2>1. /\ orch'.turns = orch.turns /\ orch'.reopen \in {0, orch.reopen}
        /\ phase = "settling" /\ phase' = "between" /\ parked' = parked
        /\ gen' = Exited(gen)
    BY <1>1, <1>9 DEF Settled, Orchestrator
  <2>2. gen'.turn = gen.turn
    BY <1>1, <2>1, GeneratorTypes
  <2>3. QED
    BY <1>2, <2>1, <2>2, StayStep
<1>10. CASE FailureSent
  <2>1. /\ UNCHANGED <<orch, gen>> /\ phase = "failing" /\ phase' = "over"
    BY <1>10 DEF FailureSent, Over
  <2>2. QED
    BY <1>3, <2>1, StayStep
<1>11. CASE TimeLimit
  <2>1. UNCHANGED <<orch, gen>> /\ phase = "between" /\ phase' = "over" /\ parked' = FALSE
    BY <1>11 DEF TimeLimit, Over
  <2>2. QED
    BY <2>1, StayStep
<1>12. CASE Record
  <2>1. UNCHANGED <<orch, gen, parked>> /\ phase = "over" /\ phase' = "recorded"
    BY <1>12 DEF Record
  <2>2. QED
    BY <1>3, <2>1, StayStep
<1>13. QED
  BY <1>4, <1>5, <1>6, <1>7, <1>8, <1>9, <1>10, <1>11, <1>12

\* Opening a Turn: the one left open, or a new one.
LEMMA StartTurnTrim ==
    ASSUME IInv, TInv, NEW o \in Orchestrator, NEW kind \in {"opening", "prompt", "user"},
           o.turns = orch.turns, o.reopen = orch.reopen, NewOrReopenedTurn(o, kind)
    PROVE  TInv' /\ TrimmedStay
<1> DEFINE t == IF o.reopen # 0 THEN o.reopen ELSE Len(o.turns) + 1
           turns1 == IF o.reopen # 0 THEN o.turns ELSE Append(o.turns, FreshTurn)
<1>1. /\ o.turns \in Seq(Turn) /\ Len(o.turns) \in Nat /\ DOMAIN o.turns = 1..Len(o.turns)
      /\ orch.reopen \in {0, Len(orch.turns)}
  BY TurnList DEF IInv, EarlierTurnsAnswered
<1>2. /\ orch' = [o EXCEPT !.turns = turns1, !.reopen = t, !.revisable = 0, !.bargeIn = AllPlayed]
      /\ gen' = FreshGenerator(kind, t, o.reopen # 0)
  BY DEF NewOrReopenedTurn
<1>3. gen'.turn = t
  BY <1>2 DEF FreshGenerator
<1>4. ~turns1[t].interrupted
  <2>1. CASE o.reopen # 0
    BY <2>1 DEF TInv, OpenUncut
  <2>2. CASE o.reopen = 0
    <3>1. turns1[t] = FreshTurn
      BY <1>1, <2>2, TurnTypes, AppendProperties
    <3>2. QED
      BY <3>1 DEF FreshTurn
  <2>3. QED BY <2>1, <2>2
<1>5. /\ DOMAIN o.turns \subseteq DOMAIN turns1
      /\ \A s \in DOMAIN o.turns : turns1[s] = o.turns[s]
  BY <1>1, TurnTypes, AppendProperties
<1> HIDE DEF t, turns1
<1>6. orch'.turns = turns1 /\ orch'.reopen = t /\ orch'.revisable = 0
  BY <1>2 DEF Orchestrator
<1>7. QED
  BY <1>3, <1>4, <1>5, <1>6
     DEF TInv, RevisableCommitted, RunningUncut, OpenUncut, Current, TrimmedStay

\* Picking up, a silence, an utterance.
LEMMA StartTrim ==
    ASSUME IInv, TInv, OpenCall \/ SilenceElapses \/ TurnAudioArrives
    PROVE  TInv' /\ TrimmedStay
<1>1. orch \in Orchestrator
  BY RunningTurn
<1>2. CASE OpenCall /\ Reverse
  BY <1>1, <1>2, StartTurnTrim DEF OpenCall
<1>3. CASE OpenCall /\ ~Reverse
  <2>1. UNCHANGED <<orch, gen, parked>> /\ phase = "dialled" /\ phase' = "between"
    BY <1>3 DEF OpenCall, endVars
  <2>2. ~parked
    BY <2>1 DEF IInv, ParkedAfterwards
  <2>3. QED
    BY <2>1, <2>2, StayStep DEF RevisableCommitted, Running, TurnPhases
<1>4. CASE SilenceElapses
  <2> DEFINE o == [orch EXCEPT !.said = @ + 1]
  <2>1. o \in Orchestrator /\ o.turns = orch.turns /\ o.reopen = orch.reopen
    <3>1. orch.said < Prompts
      BY <1>4 DEF SilenceElapses
    <3>2. orch.said + 1 \in 0..Prompts
      BY <1>1, <3>1, CallAssumption DEF Orchestrator
    <3>3. QED
      BY <1>1, <3>2 DEF Orchestrator
  <2>2. NewOrReopenedTurn(o, "prompt")
    BY <1>4 DEF SilenceElapses
  <2> HIDE DEF o
  <2>3. QED
    BY <2>1, <2>2, StartTurnTrim
<1>5. CASE TurnAudioArrives
  BY <1>1, <1>5, StartTurnTrim DEF TurnAudioArrives
<1>6. QED BY <1>2, <1>3, <1>4, <1>5

\* A misfire: the Turn opened for it is taken back, and was not cut.
LEMMA PhantomTrim ==
    ASSUME IInv, TInv, Phantom
    PROVE  TInv' /\ TrimmedStay
<1>1. /\ phase = "transcribing" /\ phase' = "between" /\ gen' = Exited(gen)
      /\ parked' = parked
      /\ orch' = IF gen.reopened THEN orch
                 ELSE [orch EXCEPT !.turns = Front(@), !.reopen = 0]
  BY DEF Phantom, endVars
<1>2. /\ orch \in Orchestrator /\ gen \in Generator /\ Len(orch.turns) # 0
      /\ gen.turn = Len(orch.turns) /\ orch.turns \in Seq(Turn) /\ ~parked
      /\ orch.revisable = 0 /\ DOMAIN orch.turns = 1..Len(orch.turns)
  BY <1>1, LastRuns, TurnList DEF IInv, ParkedAfterwards, NotCommittedEarly, TurnPhases
<1>3. gen'.turn = gen.turn
  BY <1>1, <1>2, GeneratorTypes
<1>4. CASE gen.reopened
  BY <1>1, <1>2, <1>3, <1>4, StayStep DEF RevisableCommitted, Running, TurnPhases
<1>5. CASE ~gen.reopened
  <2>1. orch'.turns = Front(orch.turns) /\ orch'.reopen = 0 /\ orch'.revisable = 0
    BY <1>1, <1>2, <1>5 DEF Orchestrator
  <2>2. /\ Front(orch.turns) \in Seq(Turn)
        /\ Len(Front(orch.turns)) = Len(orch.turns) - 1
        /\ DOMAIN Front(orch.turns) = 1..(Len(orch.turns) - 1)
        /\ \A s \in 1..(Len(orch.turns) - 1) : Front(orch.turns)[s] = orch.turns[s]
    BY <1>2, FrontType DEF Front
  <2>3. ~orch.turns[Len(orch.turns)].interrupted
    BY <1>1, <1>2 DEF TInv, RunningUncut, Running, Current, TurnPhases
  <2>4. TrimmedStay
    <3>1. SUFFICES ASSUME NEW s \in DOMAIN orch.turns, orch.turns[s].interrupted
                   PROVE  s \in DOMAIN orch'.turns /\ orch'.turns[s] = orch.turns[s]
      BY DEF TrimmedStay
    <3>2. s \in 1..(Len(orch.turns) - 1)
      BY <1>2, <2>3, <3>1
    <3>3. QED
      BY <2>1, <2>2, <3>2
  <2>5. TInv'
    BY <1>1, <1>2, <2>1 DEF TInv, RevisableCommitted, RunningUncut, OpenUncut, Running, TurnPhases
  <2>6. QED BY <2>4, <2>5
<1>6. QED BY <1>4, <1>5

\* The running Turn is rewritten, and stays as whole or as cut as it was.
LEMMA RewriteTrim ==
    ASSUME IInv, IInv', TInv, phase \in TurnPhases,
           NEW e, e.interrupted = Current.interrupted,
           orch'.turns = [orch.turns EXCEPT ![gen.turn] = e],
           orch'.revisable = orch.revisable, parked' = parked,
           gen'.turn = gen.turn, gen'.committed = gen.committed
    PROVE  TInv' /\ TrimmedStay
<1>1. /\ gen.turn \in 1..Len(orch.turns) /\ orch.turns \in Seq(Turn)
      /\ DOMAIN orch.turns = 1..Len(orch.turns)
  BY LastRuns, TurnList
<1>2. ~Current.interrupted /\ Running
  BY DEF TInv, RunningUncut, Running
<1>3. /\ Len(orch'.turns) = Len(orch.turns) /\ orch'.turns[gen.turn] = e
      /\ \A s \in 1..Len(orch.turns) : s # gen.turn => orch'.turns[s] = orch.turns[s]
  BY <1>1
<1>4. RevisableCommitted'
  <2>1. ~gen.committed => orch.revisable = 0
    BY DEF TInv, RevisableCommitted
  <2>2. QED
    BY <2>1 DEF RevisableCommitted
<1>5. QED
  BY <1>2, <1>3, <1>4, TouchStep

\* The question, the chunks and the retries, the closing line.
LEMMA WriteTrim ==
    ASSUME IInv, IInv', TInv,
           \/ Regenerate \/ FarewellSent
           \/ \E b \in BOOLEAN : Transcribed(b) \/ ChunkVoiced(b) \/ CompletionFails(b)
    PROVE  TInv' /\ TrimmedStay
<1> DEFINE turn == orch.turns[gen.turn]
           said == OneChunkMore(turn)
           unsaid == Unsaid(turn)
           signed == [turn EXCEPT !.farewell = TRUE]
<1>1. phase \in TurnPhases /\ parked' = parked
  BY DEF Regenerate, FarewellSent, Transcribed, ChunkVoiced, CompletionFails, TurnPhases, endVars
<1>2. /\ orch \in Orchestrator /\ gen \in Generator /\ gen.turn \in 1..Len(orch.turns)
      /\ turn \in Turn /\ Current = turn
  BY <1>1, LastRuns DEF Current
<1>3. /\ said.interrupted = turn.interrupted /\ unsaid.interrupted = turn.interrupted
      /\ signed.interrupted = turn.interrupted
  BY <1>2, CutTurn DEF OneChunkMore, Turn
<1> HIDE DEF said, unsaid, signed
<1>4. CASE Regenerate
  <2>1. /\ orch'.turns = [orch.turns EXCEPT ![gen.turn] = unsaid]
        /\ orch'.revisable = orch.revisable
        /\ gen'.turn = gen.turn /\ gen'.committed = gen.committed
    BY <1>2, <1>4 DEF Regenerate, Orchestrator, Generator, unsaid
  <2>2. QED
    BY <1>1, <1>2, <1>3, <2>1, RewriteTrim
<1>5. CASE FarewellSent
  <2>1. /\ orch'.turns = [orch.turns EXCEPT ![gen.turn] = signed]
        /\ orch'.revisable = orch.revisable /\ gen' = gen
    BY <1>2, <1>5 DEF FarewellSent, Orchestrator, signed
  <2>2. QED
    BY <1>1, <1>2, <1>3, <2>1, RewriteTrim
<1>6. ASSUME NEW b \in BOOLEAN, Transcribed(b) PROVE TInv' /\ TrimmedStay
  <2> DEFINE n == IF gen.reopened /\ turn.question > 0 THEN turn.question + 1 ELSE 1
             e == Asked(turn, n, b)
  <2>1. /\ orch'.turns = [orch.turns EXCEPT ![gen.turn] = e]
        /\ orch'.revisable = orch.revisable /\ gen' = gen
    BY <1>2, <1>6 DEF Transcribed, Orchestrator
  <2>2. e.interrupted = turn.interrupted
    BY <1>2 DEF Asked, Turn
  <2> HIDE DEF e
  <2>3. QED
    BY <1>1, <1>2, <2>1, <2>2, RewriteTrim
<1>7. ASSUME NEW b \in BOOLEAN, ChunkVoiced(b) PROVE TInv' /\ TrimmedStay
  <2>1. /\ orch'.turns = [orch.turns EXCEPT ![gen.turn] = said]
        /\ orch'.revisable = orch.revisable
        /\ gen'.turn = gen.turn /\ gen'.committed = gen.committed
    BY <1>2, <1>7 DEF ChunkVoiced, Orchestrator, Generator, said
  <2>2. QED
    BY <1>1, <1>2, <1>3, <2>1, RewriteTrim
<1>8. ASSUME NEW b \in BOOLEAN, CompletionFails(b) PROVE TInv' /\ TrimmedStay
  <2>1. CASE gen.spokeYet \/ gen.attempt = 1
    <3>1. UNCHANGED <<orch, gen>>
      BY <1>8, <2>1 DEF CompletionFails
    <3>2. RevisableCommitted' /\ Running
      BY <1>1, <3>1 DEF TInv, RevisableCommitted, Running
    <3>3. QED
      BY <3>1, <3>2, StayStep
  <2>2. CASE ~(gen.spokeYet \/ gen.attempt = 1)
    <3>1. /\ orch'.turns = [orch.turns EXCEPT ![gen.turn] = unsaid]
          /\ orch'.revisable = orch.revisable
          /\ gen'.turn = gen.turn /\ gen'.committed = gen.committed
      BY <1>2, <1>8, <2>2 DEF CompletionFails, Orchestrator, Generator, unsaid
    <3>2. QED
      BY <1>1, <1>2, <1>3, <3>1, RewriteTrim
  <2>3. QED BY <2>1, <2>2
<1>9. QED BY <1>4, <1>5, <1>6, <1>7, <1>8

\* A handler of the running Turn that leaves it uncut or sealed, and nobody at it.
LEMMA HandlerTrim ==
    ASSUME IInv, IInv', TInv, Running, Handled(orch, orch', gen.turn),
           Sealed(orch', gen.turn), orch'.revisable = 0, gen'.turn = gen.turn,
           phase' \notin TurnPhases, ~parked'
    PROVE  TInv' /\ TrimmedStay
<1>1. ~Running' /\ RevisableCommitted'
  BY DEF Running, RevisableCommitted
<1>2. \/ ~orch'.turns[gen.turn].interrupted
      \/ orch'.reopen = 0 /\ ~Running'
  BY <1>1 DEF Sealed
<1>3. /\ Len(orch'.turns) = Len(orch.turns)
      /\ \A s \in 1..Len(orch.turns) : s # gen.turn => orch'.turns[s] = orch.turns[s]
  BY DEF Handled
<1>4. QED
  BY <1>1, <1>2, <1>3, TouchStep

\* What the invariant says of a Turn that is torn down.
LEMMA TornDown ==
    ASSUME IInv, TInv, phase \in TurnPhases \/ parked
    PROVE  /\ orch \in Orchestrator /\ gen \in Generator
           /\ gen.turn \in 1..Len(orch.turns) /\ Running
           /\ ~orch.turns[gen.turn].interrupted /\ Sealed(orch, gen.turn)
           /\ ~gen.committed => orch.revisable = 0 /\ orch.reopen = gen.turn
<1>1. Running
  BY DEF Running
<1>2. ~orch.turns[gen.turn].interrupted
  BY <1>1 DEF TInv, RunningUncut, Current
<1>3. ~gen.committed => orch.revisable = 0 /\ orch.reopen = gen.turn
  BY DEF TInv, RevisableCommitted, IInv, OpenUntilCommitted
<1>4. QED
  BY <1>1, <1>2, <1>3, LastRuns DEF Sealed

\* An interrupt: noted, then torn down; the second never undoes what the first cut.
LEMMA InterruptTrim ==
    ASSUME IInv, IInv', TInv, NEW pos \in Position, Interrupt(pos)
    PROVE  TInv' /\ TrimmedStay
<1> DEFINE noted == NoteBargeIn(orch, gen, pos)
           o == FinalizeInterrupted(noted, gen)
           t == gen.turn
<1>1. /\ phase \in TurnPhases /\ orch' = o /\ gen' = Exited(gen)
      /\ IF o.ended THEN phase' = "over" /\ parked' = FALSE
                    ELSE phase' = "between" /\ parked' = parked
  BY DEF Interrupt, Over, endVars
<1>2. /\ orch \in Orchestrator /\ gen \in Generator /\ t \in 1..Len(orch.turns) /\ Running
      /\ ~orch.turns[t].interrupted /\ Sealed(orch, t)
      /\ ~gen.committed => orch.revisable = 0 /\ orch.reopen = t
  BY <1>1, TornDown
<1>3. ~parked
  BY <1>1 DEF IInv, ParkedAfterwards, TurnPhases
<1>4. Handled(orch, noted, t) /\ noted \in Orchestrator /\ t \in 1..Len(noted.turns)
  BY <1>2, NoteHandled DEF Handled
<1>5. /\ Sealed(noted, t)
      /\ ~gen.committed => /\ ~noted.turns[t].interrupted /\ noted.revisable = 0
                           /\ noted.reopen = t
  <2>1. CASE orch.revisable # 0
    <3>1. noted = ReviseCommittedReply(orch, gen, pos) /\ gen.committed
      BY <1>2, <2>1 DEF NoteBargeIn
    <3> HIDE DEF noted
    <3>2. QED
      BY <1>2, <3>1, ReviseSeals
  <2>2. CASE orch.revisable = 0
    <3>1. noted = [orch EXCEPT !.bargeIn = pos]
      BY <2>2 DEF NoteBargeIn
    <3>2. /\ noted.turns = orch.turns /\ noted.history = orch.history
          /\ noted.reopen = orch.reopen /\ noted.revisable = 0
      BY <1>2, <2>2, <3>1 DEF Orchestrator
    <3> HIDE DEF noted
    <3>3. QED
      BY <1>2, <3>2 DEF Sealed, LastReplyIs
  <2>3. QED BY <2>1, <2>2
<1> HIDE DEF noted
<1>6. Handled(noted, o, t) /\ Sealed(o, t) /\ o.revisable = 0
  BY <1>2, <1>4, <1>5, FinalizeHandled, FinalizeSeals
<1> HIDE DEF o
<1>7. Handled(orch, o, t)
  BY <1>2, <1>4, <1>6, HandledTransitive
<1>8. gen'.turn = t
  BY <1>1, <1>2, GeneratorTypes
<1>9. phase' \notin TurnPhases /\ ~parked'
  BY <1>1, <1>3 DEF TurnPhases
<1>10. QED
  BY <1>1, <1>2, <1>6, <1>7, <1>8, <1>9, HandlerTrim

\* One that comes late trims the reply still playing, if that is open for revision.
LEMMA LateInterruptTrim ==
    ASSUME IInv, IInv', TInv, NEW pos \in Position, LateInterrupt(pos)
    PROVE  TInv' /\ TrimmedStay
<1>1. /\ phase = "between" /\ phase' = phase /\ gen' = gen /\ parked' = parked
      /\ orch' = NoteLateBargeIn(orch, gen, pos)
  BY DEF LateInterrupt, endVars
<1>2. ~parked
  BY <1>1 DEF IInv, ParkedAfterwards
<1>3. CASE orch.revisable = 0
  <2>1. orch' = orch
    BY <1>1, <1>3 DEF NoteLateBargeIn
  <2>2. QED
    BY <1>1, <1>2, <2>1, StayStep DEF RevisableCommitted, Running, TurnPhases
<1>4. CASE orch.revisable # 0
  <2>1. orch' = ReviseCommittedReply(orch, gen, pos)
    BY <1>1, <1>4 DEF NoteLateBargeIn
  <2>2. /\ orch \in Orchestrator /\ gen \in Generator /\ gen.turn \in 1..Len(orch.turns)
        /\ Running
    BY <1>4, LastRuns DEF Running
  <2>3. Sealed(orch, gen.turn)
    BY <2>2 DEF Sealed, TInv, RunningUncut, Current
  <2>4. Handled(orch, orch', gen.turn) /\ Sealed(orch', gen.turn) /\ orch'.revisable = 0
    BY <2>1, <2>2, <2>3, ReviseHandled, ReviseSeals
  <2>5. QED
    BY <1>1, <1>2, <2>2, <2>4, HandlerTrim DEF TurnPhases
<1>5. QED BY <1>3, <1>4

\* Leaving during a Turn, and closing the parked generator, tear the Turn down.
LEMMA TeardownTrim ==
    ASSUME IInv, IInv', TInv, phase \in TurnPhases \/ parked,
           orch' = FinalizeInterrupted(orch, gen), gen' = Exited(gen),
           phase' \notin TurnPhases, ~parked'
    PROVE  TInv' /\ TrimmedStay
<1>1. /\ orch \in Orchestrator /\ gen \in Generator /\ gen.turn \in 1..Len(orch.turns)
      /\ Running /\ ~orch.turns[gen.turn].interrupted /\ Sealed(orch, gen.turn)
      /\ ~gen.committed => orch.revisable = 0 /\ orch.reopen = gen.turn
  BY TornDown
<1>2. Handled(orch, orch', gen.turn) /\ Sealed(orch', gen.turn) /\ orch'.revisable = 0
  BY <1>1, FinalizeHandled, FinalizeSeals
<1>3. gen'.turn = gen.turn
  BY <1>1, GeneratorTypes
<1>4. QED
  BY <1>1, <1>2, <1>3, HandlerTrim

\* The user leaves, or the connection is lost.
LEMMA LeaveTrim ==
    ASSUME IInv, IInv', TInv, NEW why \in {"user", "disconnected"}, Leave(why)
    PROVE  TInv' /\ TrimmedStay
<1>1. phase' = "over" /\ ~parked' /\ phase \in {"between"} \cup TurnPhases
  BY DEF Leave, Over
<1>2. CASE phase \in TurnPhases
  <2>1. orch' = FinalizeInterrupted(orch, gen) /\ gen' = Exited(gen)
    BY <1>2 DEF Leave
  <2>2. phase' \notin TurnPhases
    BY <1>1 DEF TurnPhases
  <2>3. QED
    BY <1>1, <1>2, <2>1, <2>2, TeardownTrim
<1>3. CASE phase \notin TurnPhases
  <2>1. UNCHANGED <<orch, gen>>
    BY <1>3 DEF Leave
  <2>2. QED
    BY <1>1, <2>1, StayStep DEF RevisableCommitted, Running, TurnPhases
<1>4. QED BY <1>2, <1>3

\* The event loop closes the generator left suspended.
LEMMA CloseParkedTrim ==
    ASSUME IInv, IInv', TInv, CloseParked
    PROVE  TInv' /\ TrimmedStay
<1>1. /\ parked /\ ~parked' /\ phase' = phase
      /\ orch' = FinalizeInterrupted(orch, gen) /\ gen' = Exited(gen)
  BY DEF CloseParked
<1>2. phase' \notin TurnPhases
  BY <1>1 DEF IInv, ParkedAfterwards, TurnPhases
<1>3. QED
  BY <1>1, <1>2, TeardownTrim

-----------------------------------------------------------------------------
(* The theorem                                                             *)

\* The invariant holds when the call is dialled.
LEMMA InitTInv == Init => TInv
<1> SUFFICES ASSUME Init PROVE TInv
  OBVIOUS
<1>1. phase = "dialled" /\ ~parked /\ orch.revisable = 0 /\ orch.reopen = 0
  BY DEF Init
<1>2. QED
  BY <1>1 DEF TInv, RevisableCommitted, RunningUncut, OpenUncut, Running, TurnPhases

\* Every action, and stuttering, keeps it and every trimmed reply.
LEMMA NextTInv == IInv /\ IInv' /\ HInv /\ TInv /\ [Next]_vars => TInv' /\ TrimmedStay
<1> SUFFICES ASSUME IInv, IInv', HInv, TInv, [Next]_vars PROVE TInv' /\ TrimmedStay
  OBVIOUS
<1>1. CASE UNCHANGED vars
  BY <1>1 DEF vars, TInv, RevisableCommitted, RunningUncut, OpenUncut, Running, Current, TrimmedStay
<1>2. CASE Machine
  BY <1>2, StartTrim, StaySteps, PhantomTrim, WriteTrim, CloseParkedTrim DEF Machine
<1>3. CASE Client
  BY <1>3, StartTrim, StaySteps, InterruptTrim, LateInterruptTrim, LeaveTrim DEF Client
<1>4. CASE Finished
  BY <1>4, StaySteps
<1>5. QED BY <1>1, <1>2, <1>3, <1>4 DEF Next

\* orchestrator.py, _revise_committed_reply "only ever shrinks": once a reply has been cut
\* to what was heard, no later interrupt, teardown, closing line or reopened Turn
\* touches it again.
THEOREM TrimmedStaysTrimmed == Spec => TrimmedRepliesAreFinal
<1>1. Spec => []TInv
  BY InitTInv, NextIInv, NextTInv, Invariance, StraightRecord, PTL DEF Spec
<1>2. IInv /\ IInv' /\ HInv /\ TInv /\ [Next]_vars
        => [\A t \in DOMAIN orch.turns :
              orch.turns[t].interrupted =>
                 t \in DOMAIN orch'.turns /\ orch'.turns[t] = orch.turns[t]]_vars
  BY NextTInv DEF TrimmedStay
<1>3. QED
  BY <1>1, <1>2, Invariance, StraightRecord, PTL DEF Spec, TrimmedRepliesAreFinal
=============================================================================
