---------------------------- MODULE FigureProofs ----------------------------
(* What is proved of the figures of a call, as operators on its Turns: that the   *)
(* hesitation scan is complete; that whoever cut a reply off is found among the   *)
(* hard interruptions of the timeline; that what the curves measure is a number;  *)
(* that a call stored and read back rests its figures on the same facts; and that *)
(* the two segments of a stored call share out who talked how long.               *)
(*                                                                                *)
(* The scan is a function defined downwards: Descent gives it, and StrongInduction*)
(* over the frames left shows what it finds.  The facts of a call are folds over  *)
(* its Turns: FactsGrow says what one Turn adds (Further), ThroughTheRows that its*)
(* rows, read back, add the same, and SequenceInduction carries that to the call. *)
EXTENDS CallTimeline, Induction

-----------------------------------------------------------------------------
(* The Turns.                                                               *)

\* Any Turn a call can hold.
AnyTurn ==
    [question: Seq(STRING), reply: 0 .. MaxAudio, interrupted: BOOLEAN,
     uOffset: Int, uEnd: Int, pOffset: Int, pEnd: Int, pDispatched: Int,
     speech: Int, phonation: Int, complete: BOOLEAN,
     pauses: Seq(Int \X Int), loudness: Seq(Nat), pitch: Seq(Int)]

\* The clock readings a Turn holds: none of them lies ahead but where audio is still
\* to be played, and a Persona window ends after it began.
Placed(t, at) ==
    /\ {t.uOffset, t.uEnd, t.pOffset} \subseteq {None} \cup 0 .. at
    /\ t.pOffset = None <=> t.pEnd = None
    /\ t.pEnd >= t.pOffset /\ t.pDispatched >= t.pEnd
    /\ t.phonation <= t.speech

\* A new Turn holds none.
LEMMA NewTurnPlaced ==
    ASSUME NEW at \in Nat
    PROVE  NewTurn \in AnyTurn /\ Placed(NewTurn, at)
<1>1. 0 \in 0 .. MaxAudio
  BY TimelineAssumption
<1>2. <<>> \in Seq(STRING) /\ <<>> \in Seq(Int \X Int) /\ <<>> \in Seq(Nat) /\ <<>> \in Seq(Int)
  BY EmptySeq
<1>3. NewTurn \in AnyTurn
  BY <1>1, <1>2 DEF NewTurn, AnyTurn, None
<1> QED
  BY <1>3 DEF NewTurn, Placed, None

-----------------------------------------------------------------------------
(* The hesitation scan.                                                     *)

\* The flat stretch from a frame on ends where no longer one is flat.
LEMMA FlatEndIsTheLast ==
    ASSUME NEW u \in Seq(Int), NEW s \in 1 .. Len(u)
    PROVE  /\ FlatEnd(u, s) \in s .. Len(u) + 1
           /\ FlatEnd(u, s) # s => IsFlat(u, s, FlatEnd(u, s) - 1)
           /\ \A e \in s + 1 .. Len(u) + 1 : IsFlat(u, s, e - 1) => e <= FlatEnd(u, s)
<1> DEFINE S == {s} \cup {e \in s + 1 .. Len(u) + 1 : IsFlat(u, s, e - 1)}
<1>1. Len(u) \in Nat /\ s \in Int
  BY LenProperties
<1>2. /\ S # {} /\ Len(u) + 1 \in Int
      /\ \A x \in S : x \in Int /\ x <= Len(u) + 1 /\ x >= s
  BY <1>1
<1>3. FlatEnd(u, s) = Max(S)
  BY DEF FlatEnd
<1>4. \A x \in S : x # s => IsFlat(u, s, x - 1)
  OBVIOUS
<1>5. \A e \in s + 1 .. Len(u) + 1 : IsFlat(u, s, e - 1) => e \in S
  OBVIOUS
<1> HIDE DEF S
<1>6. Max(S) \in S /\ \A y \in S : Max(S) >= y
  BY <1>2, MaxOfBounded
<1>7. \A e \in S : e <= Max(S)
  BY <1>2, <1>6
<1> QED
  BY <1>1, <1>2, <1>3, <1>4, <1>5, <1>6, <1>7

\* A hold, as the scan reports it.
Stretch == [start: Nat, frames: Nat]

\* The scan from each frame on, as the value of one function at another.
ScanStep(u) ==
    [g \in [1 .. Len(u) + 1 -> Seq(Stretch)] |->
        [s \in 1 .. Len(u) + 1 |->
            IF s > Len(u) THEN <<>>
            ELSE LET e == FlatEnd(u, s) IN
                 IF e - s >= HoldFrames
                 THEN <<[start |-> s, frames |-> e - s]>> \o g[e]
                 ELSE g[s + 1]]]

\* A scan there is, and Holds is what it finds from the first frame on.
LEMMA ScanExists ==
    ASSUME NEW u \in Seq(Int)
    PROVE  \E from \in [1 .. Len(u) + 1 -> Seq(Stretch)] :
               /\ Holds(u) = from[1]
               /\ from[Len(u) + 1] = <<>>
               /\ \A s \in 1 .. Len(u) :
                     from[s] = IF FlatEnd(u, s) - s >= HoldFrames
                               THEN <<[start |-> s, frames |-> FlatEnd(u, s) - s]>>
                                        \o from[FlatEnd(u, s)]
                               ELSE from[s + 1]
<1> DEFINE n == Len(u) + 1
           V == Seq(Stretch)
           B == ScanStep(u)
           Body(g) == [s \in 1 .. n |->
                         IF s > Len(u) THEN <<>>
                         ELSE LET e == FlatEnd(u, s) IN
                              IF e - s >= HoldFrames
                              THEN <<[start |-> s, frames |-> e - s]>> \o g[e]
                              ELSE g[s + 1]]
           from == CHOOSE g : g = Body(g)
<1>1. Len(u) \in Nat /\ n \in Nat /\ 1 \in 1 .. n /\ n \in 1 .. n /\ HoldFrames \in Nat \ {0}
  BY LenProperties, CurveAssumption
<1>2. \A g \in [1 .. n -> V] : B[g] = Body(g)
  BY DEF ScanStep
<1>3. ASSUME NEW g \in [1 .. n -> V], NEW s \in 1 .. n
      PROVE  Body(g)[s] \in V
  <2>1. CASE s > Len(u)
    BY <2>1
  <2>2. CASE ~ s > Len(u)
    <3> DEFINE e == FlatEnd(u, s)
    <3>1. s \in 1 .. Len(u)
      BY <1>1, <2>2
    <3>2. e \in s .. n
      BY <3>1, FlatEndIsTheLast
    <3>3. e \in 1 .. n /\ s + 1 \in 1 .. n /\ e - s \in Nat /\ s \in Nat
      BY <1>1, <3>1, <3>2
    <3> HIDE DEF e
    <3>4. <<[start |-> s, frames |-> e - s]>> \in V
      BY <3>3 DEF Stretch
    <3>5. g[e] \in V /\ g[s + 1] \in V
      BY <3>3
    <3>6. <<[start |-> s, frames |-> e - s]>> \o g[e] \in V
      BY <3>4, <3>5, ConcatProperties
    <3>7. Body(g)[s] = IF e - s >= HoldFrames
                       THEN <<[start |-> s, frames |-> e - s]>> \o g[e] ELSE g[s + 1]
      BY <2>2 DEF e
    <3> QED
      BY <3>5, <3>6, <3>7
  <2> QED
    BY <2>1, <2>2
<1>4. ASSUME NEW g \in [1 .. n -> V] PROVE Body(g) \in [1 .. n -> V]
  BY <1>3
<1>5. B \in [[1 .. n -> V] -> [1 .. n -> V]]
  <2>1. B = [g \in [1 .. n -> V] |-> Body(g)]
    BY DEF ScanStep
  <2> HIDE DEF Body, B, V, n
  <2> QED
    BY <1>4, <2>1
<1>6. LooksAhead(B, n, V)
  <2> SUFFICES ASSUME NEW g \in [1 .. n -> V], NEW h \in [1 .. n -> V], NEW s \in 1 .. n,
                      \A r \in s + 1 .. n : g[r] = h[r]
               PROVE  B[g][s] = B[h][s]
    BY DEF LooksAhead
  <2>1. B[g][s] = Body(g)[s] /\ B[h][s] = Body(h)[s]
    BY <1>2
  <2>2. CASE s > Len(u)
    BY <2>1, <2>2
  <2>3. CASE ~ s > Len(u)
    <3> DEFINE e == FlatEnd(u, s)
    <3>1. s \in 1 .. Len(u)
      BY <1>1, <2>3
    <3>2. e \in s .. n
      BY <3>1, FlatEndIsTheLast
    <3>3. s + 1 \in s + 1 .. n /\ (e - s >= HoldFrames => e \in s + 1 .. n)
      BY <1>1, <3>1, <3>2
    <3>4. /\ Body(g)[s] = IF e - s >= HoldFrames
                          THEN <<[start |-> s, frames |-> e - s]>> \o g[e] ELSE g[s + 1]
          /\ Body(h)[s] = IF e - s >= HoldFrames
                          THEN <<[start |-> s, frames |-> e - s]>> \o h[e] ELSE h[s + 1]
      BY <2>3
    <3> HIDE DEF e, Body
    <3> QED
      BY <2>1, <3>3, <3>4
  <2> QED
    BY <2>2, <2>3
<1>7. \E f \in [1 .. n -> V] : f = B[f]
  <2> DEFINE empty == [s \in 1 .. n |-> <<>>]
  <2>1. empty \in [1 .. n -> V]
    OBVIOUS
  <2>2. n \in Nat
    BY <1>1
  <2>3. \A first \in [1 .. n -> V], G \in [[1 .. n -> V] -> [1 .. n -> V]] :
          LooksAhead(G, n, V) => \E f \in [1 .. n -> V] : f = G[f]
    <3> HIDE DEF n, V
    <3> QED
      BY <2>2, Descent
  <2> HIDE DEF n, V, B, empty, Body, from
  <2> QED
    BY <1>5, <1>6, <2>1, <2>3
<1>8. \E f : f = Body(f)
  <2> HIDE DEF Body, B, V
  <2> QED
    BY <1>2, <1>7
<1>9. from = Body(from)
  <2> HIDE DEF Body
  <2> QED
    BY <1>8
<1>10. Holds(u) = from[1]
  BY DEF Holds
<1> HIDE DEF from
<1>11. /\ from = [s \in 1 .. n |-> from[s]] /\ from[n] = <<>>
       /\ \A s \in 1 .. Len(u) :
             from[s] = IF FlatEnd(u, s) - s >= HoldFrames
                       THEN <<[start |-> s, frames |-> FlatEnd(u, s) - s]>> \o from[FlatEnd(u, s)]
                       ELSE from[s + 1]
  <2>1. \A s \in 1 .. n : from[s] = Body(from)[s]
    BY <1>9
  <2>2. from = [s \in 1 .. n |-> Body(from)[s]]
    BY <1>9
  <2>3. n > Len(u) /\ \A s \in 1 .. Len(u) : s \in 1 .. n /\ ~ s > Len(u)
    BY <1>1
  <2>4. from[n] = <<>>
    BY <1>1, <2>1, <2>3
  <2>5. ASSUME NEW s \in 1 .. Len(u)
        PROVE  from[s] = IF FlatEnd(u, s) - s >= HoldFrames
                         THEN <<[start |-> s, frames |-> FlatEnd(u, s) - s]>> \o from[FlatEnd(u, s)]
                         ELSE from[s + 1]
    BY <2>1, <2>3
  <2> HIDE DEF Body
  <2> QED
    BY <2>1, <2>2, <2>4, <2>5
<1> HIDE DEF Body, B
<1> DEFINE S == {d \in Nat : d < n => from[n - d] \in V}
<1>12. ASSUME NEW d \in Nat, \A m \in 0 .. d - 1 : m \in S PROVE d \in S
  <2> SUFFICES ASSUME d < n PROVE from[n - d] \in V
    OBVIOUS
  <2>1. CASE d = 0
    <3>1. n - d = n
      BY <1>1, <2>1
    <3>2. from[n] = <<>>
      BY <1>11
    <3>3. <<>> \in V
      BY EmptySeq
    <3> HIDE DEF V, n
    <3> QED
      BY <3>1, <3>2, <3>3
  <2>2. CASE d # 0
    <3> DEFINE s == n - d
               e == FlatEnd(u, s)
    <3>1. s \in 1 .. Len(u)
      BY <1>1, <2>2
    <3>2. e \in s .. n
      BY <3>1, FlatEndIsTheLast
    <3>3. ASSUME NEW r \in s + 1 .. n PROVE from[r] \in V
      <4>1. n - r \in 0 .. d - 1 /\ n - r < n /\ n - (n - r) = r
        BY <1>1, <3>1, <3>3
      <4>2. n - r \in S
        BY <1>12, <4>1
      <4> QED
        BY <4>1, <4>2
    <3>4. from[s] = IF e - s >= HoldFrames
                    THEN <<[start |-> s, frames |-> e - s]>> \o from[e] ELSE from[s + 1]
      BY <1>11, <3>1
    <3>5. s + 1 \in s + 1 .. n /\ (e - s >= HoldFrames => e \in s + 1 .. n) /\ e - s \in Nat /\ s \in Nat
      BY <1>1, <3>1, <3>2
    <3> HIDE DEF e, s
    <3>6. <<[start |-> s, frames |-> e - s]>> \in V
      BY <3>5 DEF Stretch
    <3>7. e - s >= HoldFrames => <<[start |-> s, frames |-> e - s]>> \o from[e] \in V
      BY <3>3, <3>5, <3>6, ConcatProperties
    <3>8. from[s] \in V
      BY <3>3, <3>4, <3>5, <3>7
    <3> QED
      BY <3>8 DEF s
  <2> QED
    BY <2>1, <2>2
<1> HIDE DEF S
<1>13. \A d \in Nat : d \in S
  BY <1>12, StrongInduction
<1>14. ASSUME NEW s \in 1 .. n PROVE from[s] \in V
  <2>1. n - s \in Nat /\ n - s < n /\ n - (n - s) = s
    BY <1>1
  <2>2. n - s \in S
    BY <1>13, <2>1
  <2> QED
    BY <2>1, <2>2 DEF S
<1>15. from \in [1 .. n -> V]
  BY <1>11, <1>14
<1> QED
  BY <1>10, <1>11, <1>15

\* What a scan from a frame on has to find: stretches that are held, one after the other ...
AreHolds(h, u, s) ==
    \A i \in 1 .. Len(h) :
        /\ h[i].start >= s /\ h[i].frames >= HoldFrames
        /\ IsFlat(u, h[i].start, h[i].start + h[i].frames - 1)
        /\ \A j \in 1 .. i - 1 : h[j].start + h[j].frames <= h[i].start

\* ... and all there are.
Meets(x, r) == x.start <= r + HoldFrames - 1 /\ r <= x.start + x.frames - 1

\* They meet every stretch long enough that begins there or later.
AreAllHolds(h, u, s) ==
    \A r \in s .. Len(u) - HoldFrames + 1 :
        IsFlat(u, r, r + HoldFrames - 1) => \E i \in 1 .. Len(h) : Meets(h[i], r)

\* A hold before those of the frames behind it.
LEMMA HoldInFront ==
    ASSUME NEW u \in Seq(Int), NEW s \in 1 .. Len(u), NEW e \in s .. Len(u) + 1,
           NEW h \in Seq(Stretch),
           e = FlatEnd(u, s), e - s >= HoldFrames, AreHolds(h, u, e), AreAllHolds(h, u, e)
    PROVE  LET all == <<[start |-> s, frames |-> e - s]>> \o h IN
           AreHolds(all, u, s) /\ AreAllHolds(all, u, s)
<1> DEFINE x == [start |-> s, frames |-> e - s]
           all == <<x>> \o h
<1>1. Len(u) \in Nat /\ HoldFrames \in Nat \ {0} /\ s \in Nat /\ e \in Nat /\ e - s \in Nat
  BY LenProperties, CurveAssumption
<1>2. x \in Stretch /\ x.start = s /\ x.frames = e - s
  BY <1>1 DEF Stretch
<1>3. Len(h) \in Nat /\ \A i \in 1 .. Len(h) : h[i] \in Stretch
  BY LenProperties, ElementOfSeq
<1> HIDE DEF x
<1>4. /\ Len(all) = Len(h) + 1 /\ all[1] = x
      /\ \A i \in 2 .. Len(h) + 1 : all[i] = h[i - 1]
  <2>1. <<x>> \in Seq(Stretch) /\ Len(<<x>>) = 1 /\ <<x>>[1] = x
    BY <1>2
  <2>2. Len(all) = 1 + Len(h)
    BY <2>1, ConcatProperties
  <2>3. \A i \in 1 .. Len(h) + 1 : all[i] = IF i <= 1 THEN <<x>>[i] ELSE h[i - 1]
    BY <1>3, <2>1, ConcatProperties
  <2> HIDE DEF all
  <2> QED
    BY <1>3, <2>1, <2>2, <2>3
<1> HIDE DEF all
<1>5. IsFlat(u, s, e - 1)
  BY <1>1, FlatEndIsTheLast
<1>6. AreHolds(all, u, s)
  <2> SUFFICES ASSUME NEW i \in 1 .. Len(all)
               PROVE  /\ all[i].start >= s /\ all[i].frames >= HoldFrames
                      /\ IsFlat(u, all[i].start, all[i].start + all[i].frames - 1)
                      /\ \A j \in 1 .. i - 1 : all[j].start + all[j].frames <= all[i].start
    BY DEF AreHolds
  <2>1. CASE i = 1
    <3>1. s + (e - s) - 1 = e - 1
      BY <1>1
    <3>2. all[i] = x /\ 1 .. i - 1 = {}
      BY <1>4, <2>1
    <3>3. all[i].start = s /\ all[i].frames = e - s
      BY <1>2, <3>2
    <3>4. IsFlat(u, all[i].start, all[i].start + all[i].frames - 1)
      BY <1>5, <3>1, <3>3
    <3>5. s >= s
      BY <1>1
    <3> QED
      BY <3>2, <3>3, <3>4, <3>5
  <2>2. CASE i # 1
    <3>0. i \in 2 .. Len(h) + 1 /\ i - 1 \in 1 .. Len(h)
      BY <1>3, <1>4, <2>2
    <3>1. i - 1 \in 1 .. Len(h) /\ all[i] = h[i - 1]
      BY <1>4, <3>0
    <3>2. /\ h[i - 1].start >= e /\ h[i - 1].frames >= HoldFrames
          /\ IsFlat(u, h[i - 1].start, h[i - 1].start + h[i - 1].frames - 1)
          /\ \A j \in 1 .. i - 1 - 1 : h[j].start + h[j].frames <= h[i - 1].start
      BY <3>1 DEF AreHolds
    <3>3. h[i - 1].start \in Nat
      BY <1>3, <3>1 DEF Stretch
    <3>4. ASSUME NEW j \in 1 .. i - 1 PROVE all[j].start + all[j].frames <= h[i - 1].start
      <4>1. CASE j = 1
        BY <1>1, <1>2, <1>4, <3>2, <3>3, <4>1
      <4>2. CASE j # 1
        <5>1. j \in 2 .. Len(h) + 1 /\ j - 1 \in 1 .. i - 1 - 1
          BY <1>3, <3>1, <4>2
        <5> QED
          BY <1>4, <3>2, <5>1
      <4> QED
        BY <4>1, <4>2
    <3>5. h[i - 1].start >= s
      <4>1. PICK a \in Nat : a = h[i - 1].start
        BY <3>3
      <4>2. a >= e /\ e >= s
        BY <3>2, <4>1
      <4>3. a >= s
        BY <1>1, <4>2
      <4> QED
        BY <4>1, <4>3
    <3> QED
      BY <3>1, <3>2, <3>4, <3>5
  <2> QED
    BY <2>1, <2>2
<1>7. AreAllHolds(all, u, s)
  <2> SUFFICES ASSUME NEW r \in s .. Len(u) - HoldFrames + 1, IsFlat(u, r, r + HoldFrames - 1)
               PROVE  \E i \in 1 .. Len(all) : Meets(all[i], r)
    BY DEF AreAllHolds
  <2>1. CASE r < e
    <3>1. Meets(all[1], r)
      <4>1. r \in Int /\ s <= r + HoldFrames - 1 /\ r <= s + (e - s) - 1
        <5>1. r \in Int /\ r >= s
          BY <1>1
        <5>2. HoldFrames \in Int /\ HoldFrames >= 1 /\ s \in Int /\ e \in Int
          BY <1>1
        <5>3. s + (e - s) = e
          BY <5>2
        <5> QED
          BY <2>1, <5>1, <5>2, <5>3
      <4>2. all[1].start = s /\ all[1].frames = e - s
        BY <1>2, <1>4
      <4> QED
        BY <4>1, <4>2 DEF Meets
    <3>2. 1 \in 1 .. Len(all)
      BY <1>3, <1>4
    <3> QED
      BY <3>1, <3>2
  <2>2. CASE ~ r < e
    <3>1. r \in e .. Len(u) - HoldFrames + 1
      BY <1>1, <2>2
    <3>2. PICK i \in 1 .. Len(h) : Meets(h[i], r)
      BY <3>1 DEF AreAllHolds
    <3>3. i + 1 \in 2 .. Len(h) + 1 /\ i + 1 - 1 = i /\ i + 1 \in 1 .. Len(all)
      BY <1>3, <1>4
    <3>4. all[i + 1] = h[i]
      <4>1. PICK k \in 2 .. Len(h) + 1 : k = i + 1 /\ k - 1 = i
        BY <3>3
      <4>2. all[k] = h[k - 1]
        BY <1>4
      <4> QED
        BY <4>1, <4>2
    <3> QED
      BY <3>2, <3>3, <3>4
  <2> QED
    BY <2>1, <2>2
<1> QED
  BY <1>6, <1>7 DEF all, x

\* Nothing held begins where the flat stretch is too short.
LEMMA NoHoldHere ==
    ASSUME NEW u \in Seq(Int), NEW s \in 1 .. Len(u), NEW h \in Seq(Stretch),
           ~ FlatEnd(u, s) - s >= HoldFrames,
           AreHolds(h, u, s + 1), AreAllHolds(h, u, s + 1)
    PROVE  AreHolds(h, u, s) /\ AreAllHolds(h, u, s)
<1>1. Len(u) \in Nat /\ HoldFrames \in Nat \ {0} /\ s \in Nat
  BY LenProperties, CurveAssumption
<1>2. AreHolds(h, u, s)
  <2>1. ASSUME NEW i \in 1 .. Len(h) PROVE h[i].start >= s
    <3>0. h[i] \in Stretch
      BY ElementOfSeq
    <3>1. h[i].start \in Nat
      BY <3>0 DEF Stretch
    <3>2. h[i].start >= s + 1
      BY DEF AreHolds
    <3> QED
      BY <1>1, <3>1, <3>2
  <2> QED
    BY <2>1 DEF AreHolds
<1>3. AreAllHolds(h, u, s)
  <2> SUFFICES ASSUME NEW r \in s .. Len(u) - HoldFrames + 1, IsFlat(u, r, r + HoldFrames - 1)
               PROVE  \E i \in 1 .. Len(h) : Meets(h[i], r)
    BY DEF AreAllHolds
  <2>1. r # s
    <3> SUFFICES ASSUME r = s PROVE FALSE
      OBVIOUS
    <3>1. s + HoldFrames \in s + 1 .. Len(u) + 1
      BY <1>1
    <3>2. IsFlat(u, s, s + HoldFrames - 1)
      OBVIOUS
    <3>3. /\ FlatEnd(u, s) \in s .. Len(u) + 1
          /\ \A e \in s + 1 .. Len(u) + 1 : IsFlat(u, s, e - 1) => e <= FlatEnd(u, s)
      BY FlatEndIsTheLast
    <3>4. s + HoldFrames <= FlatEnd(u, s)
      <4>1. PICK e \in s + 1 .. Len(u) + 1 : e = s + HoldFrames
        BY <3>1
      <4>2. IsFlat(u, s, e - 1)
        <5>1. e - 1 = s + HoldFrames - 1
          BY <1>1, <4>1
        <5> QED
          BY <3>2, <5>1, Zenon
      <4>3. e <= FlatEnd(u, s)
        BY <3>3, <4>2
      <4> QED
        BY <4>1, <4>3
    <3> QED
      BY <1>1, <3>3, <3>4
  <2>2. r \in s + 1 .. Len(u) - HoldFrames + 1
    BY <1>1, <2>1
  <2> QED
    BY <2>2 DEF AreAllHolds
<1> QED
  BY <1>2, <1>3

\* The scan finds holds only, and all of them.
LEMMA ScanIsComplete ==
    ASSUME NEW u \in Seq(Int)
    PROVE  Holds(u) \in Seq(Stretch) /\ AreHolds(Holds(u), u, 1) /\ AreAllHolds(Holds(u), u, 1)
<1>0. PICK n \in Nat : n = Len(u) + 1
  BY LenProperties
<1>1. PICK from \in [1 .. n -> Seq(Stretch)] :
          /\ Holds(u) = from[1] /\ from[n] = <<>>
          /\ \A s \in 1 .. Len(u) :
                from[s] = IF FlatEnd(u, s) - s >= HoldFrames
                          THEN <<[start |-> s, frames |-> FlatEnd(u, s) - s]>>
                                   \o from[FlatEnd(u, s)]
                          ELSE from[s + 1]
  BY <1>0, ScanExists
<1>2. Len(u) \in Nat /\ HoldFrames \in Nat \ {0}
  BY LenProperties, CurveAssumption
<1> DEFINE Good(s) == AreHolds(from[s], u, s) /\ AreAllHolds(from[s], u, s)
           S == {d \in Nat : d < n => Good(n - d)}
<1>3. ASSUME NEW d \in Nat, \A m \in 0 .. d - 1 : m \in S PROVE d \in S
  <2> SUFFICES ASSUME d < n PROVE Good(n - d)
    OBVIOUS
  <2>1. CASE d = 0
    <3>1. n - d = n /\ Len(from[n]) = 0
      BY <1>1, <2>1, EmptySeq
    <3>2. AreHolds(from[n], u, n)
      <4>1. 1 .. Len(from[n]) = {}
        BY <3>1
      <4> QED
        BY <4>1 DEF AreHolds
    <3>3. AreAllHolds(from[n], u, n)
      <4>1. n .. Len(u) - HoldFrames + 1 = {}
        BY <1>0, <1>2
      <4> QED
        BY <4>1 DEF AreAllHolds
    <3> QED
      BY <3>1, <3>2, <3>3
  <2>2. CASE d # 0
    <3>0. PICK s \in 1 .. Len(u) : s = n - d
      <4>1. n - d \in 1 .. Len(u)
        BY <1>0, <1>2, <2>2
      <4> HIDE DEF Good, S
      <4> QED
        BY <4>1
    <3>1. PICK e \in s .. n : e = FlatEnd(u, s)
      BY <1>0, FlatEndIsTheLast
    <3>2. ASSUME NEW r \in s + 1 .. n PROVE from[r] \in Seq(Stretch) /\ Good(r)
      <4>1. n - r \in 0 .. d - 1 /\ n - r < n /\ n - (n - r) = r /\ r \in 1 .. n
        BY <1>2, <3>0
      <4>2. n - r \in S
        BY <1>3, <4>1
      <4> HIDE DEF Good
      <4> QED
        BY <4>1, <4>2
    <3>3. CASE e - s >= HoldFrames
      <4>1. e \in s + 1 .. n
        BY <1>2, <3>3
      <4>2. from[s] = <<[start |-> s, frames |-> e - s]>> \o from[e]
        BY <1>1, <3>1, <3>3
      <4>3. from[e] \in Seq(Stretch) /\ AreHolds(from[e], u, e) /\ AreAllHolds(from[e], u, e)
        BY <3>2, <4>1
      <4>4. e \in s .. Len(u) + 1
        BY <1>0
      <4>5. Good(s)
        BY <3>1, <3>3, <4>2, <4>3, <4>4, HoldInFront
      <4> QED
        BY <3>0, <4>5
    <3>4. CASE ~ e - s >= HoldFrames
      <4>1. s + 1 \in s + 1 .. n
        BY <1>0, <1>2
      <4>2. from[s] = from[s + 1]
        BY <1>1, <3>1, <3>4
      <4>3. /\ from[s + 1] \in Seq(Stretch)
            /\ AreHolds(from[s + 1], u, s + 1) /\ AreAllHolds(from[s + 1], u, s + 1)
        BY <3>2, <4>1
      <4>4. Good(s)
        BY <3>1, <3>4, <4>2, <4>3, NoHoldHere
      <4> QED
        BY <3>0, <4>4
    <3> QED
      BY <3>3, <3>4
  <2> QED
    BY <2>1, <2>2
<1> HIDE DEF S
<1>4. \A d \in Nat : d \in S
  BY <1>3, StrongInduction
<1>5. n - 1 \in Nat /\ n - 1 < n /\ n - (n - 1) = 1 /\ 1 \in 1 .. n
  BY <1>0, <1>2
<1>6. Good(1)
  <2>1. n - 1 \in S
    BY <1>4, <1>5
  <2> HIDE DEF Good
  <2> QED
    BY <1>5, <2>1 DEF S
<1> QED
  BY <1>1, <1>5, <1>6

-----------------------------------------------------------------------------
(* The lines of the timeline, in order.                                     *)

\* Any line that can be said.
AnyLine == {UserLine(t) : t \in AnyTurn} \cup {PersonaLine(t) : t \in AnyTurn}

\* What is said in a Turn.
LEMMA SaidLines ==
    ASSUME NEW t \in AnyTurn
    PROVE  /\ Said(t) \in Seq(AnyLine)
           /\ \A r \in 1 .. Len(Said(t)) :
                 \/ Said(t)[r] = UserLine(t)
                 \/ t.reply # 0 /\ Said(t)[r] = PersonaLine(t)
           /\ t.reply # 0 => \E r \in 1 .. Len(Said(t)) : Said(t)[r] = PersonaLine(t)
<1> DEFINE u == UserLine(t)
           p == PersonaLine(t)
<1>1. u \in AnyLine /\ p \in AnyLine
  BY DEF AnyLine
<1> HIDE DEF u, p
<1> DEFINE a == IF t.question = <<>> THEN <<>> ELSE <<u>>
           b == IF t.reply = 0 THEN <<>> ELSE <<p>>
<1>2. Said(t) = a \o b
  BY DEF Said, u, p
<1>3. /\ a \in Seq(AnyLine) /\ Len(a) \in Nat /\ \A r \in 1 .. Len(a) : a[r] = u
  <2>1. <<u>> \in Seq(AnyLine) /\ <<>> \in Seq(AnyLine)
    BY <1>1, EmptySeq
  <2> QED
    BY <2>1
<1>4. /\ b \in Seq(AnyLine) /\ Len(b) \in Nat
      /\ \A r \in 1 .. Len(b) : t.reply # 0 /\ b[r] = p
      /\ t.reply # 0 => Len(b) = 1 /\ b[1] = p
  <2>1. <<p>> \in Seq(AnyLine) /\ <<>> \in Seq(AnyLine)
    BY <1>1, EmptySeq
  <2> QED
    BY <2>1
<1> HIDE DEF a, b
<1>5. PICK m \in Nat, l \in Nat : m = Len(a) /\ l = Len(b)
  BY <1>3, <1>4
<1>6. /\ a \o b \in Seq(AnyLine) /\ Len(a \o b) = m + l
      /\ \A r \in 1 .. m + l : (a \o b)[r] = IF r <= m THEN a[r] ELSE b[r - m]
  BY <1>3, <1>4, <1>5, ConcatProperties
<1>7. ASSUME NEW r \in 1 .. m + l
      PROVE  (a \o b)[r] = u \/ (t.reply # 0 /\ (a \o b)[r] = p)
  <2>1. CASE r <= m
    BY <1>3, <1>5, <1>6, <2>1
  <2>2. CASE ~ r <= m
    <3>1. r - m \in 1 .. l
      BY <2>2
    <3>2. b[r - m] = p /\ t.reply # 0
      BY <1>4, <1>5, <3>1
    <3> QED
      BY <1>6, <2>2, <3>2
  <2> QED
    BY <2>1, <2>2
<1>8. ASSUME t.reply # 0 PROVE \E r \in 1 .. m + l : (a \o b)[r] = p
  <2>1. l = 1 /\ b[1] = p
    BY <1>4, <1>5, <1>8
  <2>2. m + 1 \in 1 .. m + l /\ ~ m + 1 <= m /\ (m + 1) - m = 1
    BY <2>1
  <2>3. (a \o b)[m + 1] = b[(m + 1) - m]
    BY <1>6, <2>2
  <2> QED
    BY <2>1, <2>2, <2>3
<1> QED
  BY <1>2, <1>6, <1>7, <1>8 DEF u, p

\* Which Turn a line was said in: the lines follow the Turns, and a Persona line with a
\* length has its place.
SaidIn(ts, line, of) ==
    /\ of \in [1 .. Len(line) -> 1 .. Len(ts)]
    /\ \A i \in 1 .. Len(line) :
          /\ line[i].duration > 0
          /\ \/ line[i] = UserLine(ts[of[i]])
             \/ ts[of[i]].reply # 0 /\ line[i] = PersonaLine(ts[of[i]])
    /\ \A i, j \in 1 .. Len(line) : i <= j => of[i] <= of[j]
    /\ \A k \in 1 .. Len(ts) :
          ts[k].reply # 0 /\ PersonaLine(ts[k]).duration > 0 =>
              \E i \in 1 .. Len(line) : of[i] = k /\ line[i] = PersonaLine(ts[k])

\* The timeline is that.
LEMMA TimelineInOrder ==
    ASSUME NEW ts \in Seq(AnyTurn)
    PROVE  /\ Utterances(ts) \in Seq(AnyLine) /\ Timeline(ts) \in Seq(AnyLine)
           /\ \E of : SaidIn(ts, Timeline(ts), of)
<1>0. PICK n \in Nat : n = Len(ts)
  BY LenProperties
<1>1. \A k \in 1 .. n : ts[k] \in AnyTurn
  BY <1>0, ElementOfSeq
<1> DEFINE ss == [k \in 1 .. n |-> Said(ts[k])]
           u == Utterances(ts)
           line == Timeline(ts)
           at == {i \in 1 .. Len(u) : u[i].duration > 0}
<1>2. ss \in Seq(Seq(AnyLine)) /\ Len(ss) = n
  <2>1. \A k \in 1 .. n : Said(ts[k]) \in Seq(AnyLine)
    BY <1>1, SaidLines
  <2>2. ss \in [1 .. n -> Seq(AnyLine)]
    BY <2>1
  <2> HIDE DEF ss
  <2> QED
    BY <2>2, SeqDef
<1>3. u = FlattenSeq(ss)
  BY <1>0 DEF Utterances
<1>4. \A k \in 1 .. n : ss[k] = Said(ts[k])
  OBVIOUS
<1> HIDE DEF ss, u
<1>5. u \in Seq(AnyLine)
  BY <1>2, <1>3, FlattenKeepsOrder
<1>6. PICK from : Sourced(ss, u, from)
  BY <1>2, <1>3, FlattenKeepsOrder
<1>7. PICK m \in Nat : m = Len(u)
  BY <1>5, LenProperties
<1>8. line = Picks(u, at)
  <2>1. \A i \in 1 .. m : (u[i].duration > 0) <=> i \in at
    BY <1>7
  <2>2. line = FlattenSeq([i \in 1 .. m |-> IF u[i].duration > 0 THEN <<u[i]>> ELSE <<>>])
    BY <1>7 DEF Timeline, Only, u
  <2> HIDE DEF at
  <2>3. [i \in 1 .. m |-> IF u[i].duration > 0 THEN <<u[i]>> ELSE <<>>]
           = [i \in 1 .. m |-> IF i \in at THEN <<u[i]>> ELSE <<>>]
    BY <2>1
  <2>4. Picks(u, at) = FlattenSeq([i \in 1 .. m |-> IF i \in at THEN <<u[i]>> ELSE <<>>])
    BY <1>7 DEF Picks
  <2> QED
    BY <2>2, <2>3, <2>4
<1>9. at \in SUBSET (1 .. Len(u)) /\ \A i \in at : u[i].duration > 0
  OBVIOUS
<1>10. \A i \in 1 .. m : u[i].duration > 0 => i \in at
  BY <1>7
<1> HIDE DEF line, at
<1>11. line \in Seq(AnyLine)
  BY <1>5, <1>8, <1>9, PicksKeepOrder
<1>12. PICK pick : PickedFrom(u, at, line, pick)
  BY <1>5, <1>8, <1>9, PicksKeepOrder
<1>13. PICK l \in Nat : l = Len(line)
  BY <1>11, LenProperties
<1>14. /\ from \in [1 .. m -> 1 .. n]
       /\ \A i \in 1 .. m : \E r \in 1 .. Len(ss[from[i]]) : u[i] = ss[from[i]][r]
       /\ \A i, j \in 1 .. m : i <= j => from[i] <= from[j]
       /\ \A k \in 1 .. n : \A r \in 1 .. Len(ss[k]) :
             \E i \in 1 .. m : from[i] = k /\ u[i] = ss[k][r]
  BY <1>2, <1>6, <1>7 DEF Sourced
<1>15. /\ pick \in [1 .. l -> 1 .. m]
       /\ \A i \in 1 .. l : pick[i] \in at /\ line[i] = u[pick[i]]
       /\ \A i, j \in 1 .. l : i <= j => pick[i] <= pick[j]
       /\ \A k \in at : \E i \in 1 .. l : pick[i] = k
  BY <1>7, <1>12, <1>13 DEF PickedFrom
<1> DEFINE of == [i \in 1 .. l |-> from[pick[i]]]
<1>16. of \in [1 .. l -> 1 .. n] /\ \A i \in 1 .. l : of[i] = from[pick[i]]
  BY <1>14, <1>15
<1> HIDE DEF of
<1>17. ASSUME NEW i \in 1 .. l
       PROVE  /\ line[i].duration > 0
              /\ \/ line[i] = UserLine(ts[of[i]])
                 \/ ts[of[i]].reply # 0 /\ line[i] = PersonaLine(ts[of[i]])
  <2>1. PICK j \in 1 .. m : j = pick[i] /\ j \in at /\ line[i] = u[j]
    BY <1>15
  <2>2. PICK k \in 1 .. n : k = from[j] /\ of[i] = k
    BY <1>14, <1>16, <2>1
  <2>3. \E r \in 1 .. Len(ss[k]) : u[j] = ss[k][r]
    <3>1. \E r \in 1 .. Len(ss[from[j]]) : u[j] = ss[from[j]][r]
      BY <1>14
    <3> QED
      BY <2>2, <3>1, Zenon
  <2>4. ts[k] \in AnyTurn /\ ss[k] = Said(ts[k])
    BY <1>1, <1>4
  <2>5. u[j] = UserLine(ts[k]) \/ (ts[k].reply # 0 /\ u[j] = PersonaLine(ts[k]))
    BY <2>3, <2>4, SaidLines
  <2> QED
    BY <1>9, <2>1, <2>2, <2>5
<1>18. ASSUME NEW i \in 1 .. l, NEW j \in 1 .. l, i <= j PROVE of[i] <= of[j]
  <2>1. pick[i] \in 1 .. m /\ pick[j] \in 1 .. m /\ pick[i] <= pick[j]
    BY <1>15, <1>18
  <2> QED
    BY <1>14, <1>16, <2>1
<1>19. ASSUME NEW k \in 1 .. n, ts[k].reply # 0, PersonaLine(ts[k]).duration > 0
       PROVE  \E i \in 1 .. l : of[i] = k /\ line[i] = PersonaLine(ts[k])
  <2>1. ts[k] \in AnyTurn /\ ss[k] = Said(ts[k])
    BY <1>1, <1>4
  <2>2. PICK r \in 1 .. Len(ss[k]) : ss[k][r] = PersonaLine(ts[k])
    BY <1>19, <2>1, SaidLines
  <2>3. PICK j \in 1 .. m : from[j] = k /\ u[j] = PersonaLine(ts[k])
    BY <1>14, <2>2
  <2>4. j \in at
    BY <1>10, <1>19, <2>3
  <2>5. PICK i \in 1 .. l : pick[i] = j
    BY <1>15, <2>4
  <2> QED
    BY <1>15, <1>16, <2>3, <2>5
<1>20. SaidIn(ts, line, of)
  BY <1>0, <1>13, <1>16, <1>17, <1>18, <1>19 DEF SaidIn
<1> QED
  BY <1>5, <1>11, <1>20 DEF u, line

-----------------------------------------------------------------------------
(* Interruptions.                                                           *)

\* A reply that was cut off at an onset with audio outstanding.
Standing(t, c) ==
    /\ t.pOffset \in 0 .. c /\ t.pEnd > t.pOffset
    /\ t.reply # 0 /\ t.interrupted /\ t.pDispatched - c >= Yield

\* What its line says: it was under way then, and what it lost.
LEMMA StandingLine ==
    ASSUME NEW t \in AnyTurn, NEW c \in Nat, Standing(t, c), t.pDispatched >= t.pEnd
    PROVE  LET p == PersonaLine(t) IN
           /\ p.duration > 0 /\ p.speaker = "persona" /\ p.interrupted
           /\ p.offset <= c /\ c < DispatchedEnd(p)
           /\ DispatchedEnd(p) - c >= Yield /\ DispatchedEnd(p) - c > Terminal
<1>1. /\ t.pOffset \in Int /\ t.pEnd \in Int /\ t.pDispatched \in Int /\ t.interrupted \in BOOLEAN
      /\ t.pOffset >= 0 /\ t.pOffset <= c
  BY DEF AnyTurn, Standing
<1>2. /\ t.pEnd > t.pOffset /\ t.pDispatched - c >= Yield /\ t.interrupted
      /\ Yield \in Nat /\ Terminal \in Nat /\ Terminal < Yield
  BY FigureAssumption DEF Standing
<1>3. Greater(0, t.pOffset) = t.pOffset
  BY <1>1 DEF Greater
<1>4. Span(t.pOffset, t.pEnd) = t.pEnd - t.pOffset
  BY <1>1, <1>2 DEF Span, Greater, None
<1>5. Span(t.pOffset, t.pDispatched) = t.pDispatched - t.pOffset
  BY <1>1, <1>2 DEF Span, Greater, None
<1> DEFINE p == PersonaLine(t)
<1>6. /\ p.offset = t.pOffset /\ p.duration = t.pEnd - t.pOffset
      /\ p.dispatched = t.pDispatched - t.pOffset
      /\ p.speaker = "persona" /\ p.interrupted = t.interrupted
  BY <1>3, <1>4, <1>5 DEF PersonaLine
<1> HIDE DEF p
<1>7. DispatchedEnd(p) = t.pDispatched
  BY <1>1, <1>2, <1>6 DEF DispatchedEnd, None
<1> QED
  BY <1>1, <1>2, <1>6, <1>7 DEF p

\* A line that was under way then is not of a Turn that began later.
LEMMA LaterLine ==
    ASSUME NEW t \in AnyTurn, NEW c \in Nat, t.pOffset # None => t.pOffset > c,
           PersonaLine(t).duration > 0
    PROVE  ~ PersonaLine(t).offset <= c
<1>1. PersonaLine(t).duration = Span(t.pOffset, t.pEnd)
      /\ PersonaLine(t).offset = Greater(0, t.pOffset)
  BY DEF PersonaLine
<1>2. t.pOffset # None
  BY <1>1 DEF Span, None
<1>3. t.pOffset \in Int
  BY DEF AnyTurn
<1> QED
  BY <1>1, <1>2, <1>3 DEF Greater

\* The line a user overlapped: the last that was under way.
LEMMA OverlappedIsTheCutLine ==
    ASSUME NEW ts \in Seq(AnyTurn), NEW k \in 1 .. Len(ts), NEW c \in Nat,
           Standing(ts[k], c), ts[k].pDispatched >= ts[k].pEnd,
           \A j \in k + 1 .. Len(ts) : ts[j].pOffset # None => ts[j].pOffset > c,
           NEW u, u.offset = c
    PROVE  Overlapped(u, Timeline(ts)) = {PersonaLine(ts[k])}
<1>0. PICK n \in Nat : n = Len(ts)
  BY LenProperties
<1>1. \A j \in 1 .. n : ts[j] \in AnyTurn
  BY <1>0, ElementOfSeq
<1> DEFINE p == PersonaLine(ts[k])
           line == Timeline(ts)
           inside == {i \in 1 .. Len(line) : /\ line[i].speaker = "persona"
                                            /\ line[i].offset <= u.offset
                                            /\ u.offset < DispatchedEnd(line[i])}
<1>2. /\ p.duration > 0 /\ p.speaker = "persona" /\ p.offset <= c /\ c < DispatchedEnd(p)
      /\ ts[k].reply # 0
  BY <1>0, <1>1, StandingLine DEF Standing
<1>3. line \in Seq(AnyLine)
  BY TimelineInOrder
<1>4. PICK of : SaidIn(ts, line, of)
  BY TimelineInOrder
<1>5. PICK l \in Nat : l = Len(line)
  BY <1>3, LenProperties
<1>6. Overlapped(u, line) = IF inside = {} THEN {} ELSE {line[Max(inside)]}
  BY DEF Overlapped
<1> HIDE DEF p, line
<1>7. /\ of \in [1 .. l -> 1 .. n]
      /\ \A i \in 1 .. l : /\ line[i].duration > 0
                           /\ \/ line[i] = UserLine(ts[of[i]])
                              \/ line[i] = PersonaLine(ts[of[i]])
      /\ \A i, j \in 1 .. l : i <= j => of[i] <= of[j]
      /\ \E i \in 1 .. l : of[i] = k /\ line[i] = p
  BY <1>0, <1>2, <1>4, <1>5 DEF SaidIn, p
<1>8. PICK m \in 1 .. l : of[m] = k /\ line[m] = p
  BY <1>7
<1>9. m \in inside
  BY <1>2, <1>5, <1>8
<1>10. \A i \in inside : /\ i \in 1 .. l /\ line[i].speaker = "persona" /\ line[i].offset <= c
  BY <1>5
<1> HIDE DEF inside
<1>11. Max(inside) \in inside /\ \A i \in inside : Max(inside) >= i
  <2>1. l \in Int /\ inside # {} /\ \A i \in inside : i \in Int /\ i <= l
    BY <1>9, <1>10
  <2>2. \E x \in inside : \A y \in inside : x >= y
    BY <2>1, GreatestOf
  <2> QED
    BY <2>2 DEF Max
<1>12. PICK x \in 1 .. l : x = Max(inside)
  BY <1>10, <1>11
<1>13. line[x] = p
  <2>1. x >= m /\ line[x].speaker = "persona" /\ line[x].offset <= c /\ line[x].duration > 0
    BY <1>7, <1>9, <1>10, <1>11, <1>12
  <2>2. PICK j \in 1 .. n : j = of[x] /\ j >= k
    BY <1>0, <1>7, <1>8, <2>1
  <2>3. UserLine(ts[j]).speaker = "user"
    BY DEF UserLine
  <2>4. line[x] = PersonaLine(ts[j])
    BY <1>7, <2>1, <2>2, <2>3
  <2>5. j = k
    <3> SUFFICES ASSUME j # k PROVE FALSE
      OBVIOUS
    <3>1. j \in k + 1 .. n /\ ts[j] \in AnyTurn
      BY <1>1, <2>2
    <3>2. ts[j].pOffset # None => ts[j].pOffset > c
      BY <1>0, <3>1
    <3> QED
      BY <2>1, <2>4, <3>1, <3>2, LaterLine
  <2> QED
    BY <2>4, <2>5 DEF p
<1> QED
  BY <1>6, <1>9, <1>12, <1>13 DEF p, line

\* The hard interruptions of a timeline.
HardEvents(line) == Of("hard", Classify(line))

\* Whoever spoke up while a reply lost audio is found among them.
LEMMA CutIsHard ==
    ASSUME NEW ts \in Seq(AnyTurn), NEW k \in 1 .. Len(ts), NEW c \in Nat,
           Standing(ts[k], c), ts[k].pDispatched >= ts[k].pEnd,
           \A j \in k + 1 .. Len(ts) : ts[j].pOffset # None => ts[j].pOffset > c,
           NEW u \in ToSet(Timeline(ts)), u.speaker = "user", u.offset = c
    PROVE  /\ c \in {e.offset : e \in ToSet(HardEvents(Timeline(ts)))}
           /\ Len(HardEvents(Timeline(ts))) \in Nat \ {0}
<1> DEFINE line == Timeline(ts)
           p == PersonaLine(ts[k])
           at == {i \in 1 .. Len(line) : line[i].speaker = "user" /\ Overlapped(line[i], line) # {}}
           users == Picks(line, at)
           event(v) == LET q == CHOOSE x \in Overlapped(v, line) : TRUE
                           remaining == DispatchedEnd(q) - v.offset
                       IN  [kind |-> KindOf(v, q, remaining), offset |-> v.offset,
                            remaining |-> remaining, duration |-> v.duration]
<1>1. line \in Seq(AnyLine)
  BY TimelineInOrder
<1>2. PICK l \in Nat : l = Len(line)
  BY <1>1, LenProperties
<1>3. PICK x \in 1 .. l : line[x] = u
  BY <1>1, <1>2, LenProperties DEF ToSet
<1>4. Overlapped(u, line) = {p}
  BY OverlappedIsTheCutLine
<1>5. (CHOOSE q \in Overlapped(u, line) : TRUE) = p
  BY <1>4
<1>6. /\ p.interrupted /\ DispatchedEnd(p) - c >= Yield /\ ~ DispatchedEnd(p) - c <= Terminal
  <2>1. ts[k] \in AnyTurn
    BY ElementOfSeq
  <2>2. /\ p.interrupted /\ DispatchedEnd(p) - c >= Yield /\ DispatchedEnd(p) - c > Terminal
        /\ p.offset <= c /\ c < DispatchedEnd(p)
    BY <2>1, StandingLine
  <2>3. DispatchedEnd(p) \in Int /\ Terminal \in Int
    <3>1. /\ ts[k].pOffset \in Int /\ ts[k].pEnd \in Int /\ ts[k].pDispatched \in Int
      BY <2>1 DEF AnyTurn
    <3>2. /\ Greater(0, ts[k].pOffset) \in Int /\ Span(ts[k].pOffset, ts[k].pDispatched) \in Int
          /\ Span(ts[k].pOffset, ts[k].pEnd) \in Int
      BY <3>1 DEF Greater, Span, None
    <3>3. /\ p.offset \in Int /\ p.dispatched \in Int /\ p.duration \in Int
      BY <3>2 DEF PersonaLine
    <3> QED
      BY <3>3, FigureAssumption DEF DispatchedEnd
  <2> QED
    BY <2>2, <2>3
<1>7. event(u).kind = "hard" /\ event(u).offset = c
  <2> DEFINE remaining == DispatchedEnd(p) - c
  <2>1. KindOf(u, p, remaining) = "hard"
    BY <1>6 DEF KindOf
  <2>2. event(u) = [kind |-> KindOf(u, p, remaining), offset |-> c,
                    remaining |-> remaining, duration |-> u.duration]
    BY <1>5
  <2> HIDE DEF event
  <2> QED
    BY <2>1, <2>2
<1>8. x \in at
  <2>1. Overlapped(u, line) # {}
    BY <1>4
  <2> QED
    BY <1>2, <1>3, <2>1
<1>9. Classify(line) = [i \in 1 .. Len(users) |-> event(users[i])]
  <2>1. users = Only(line, LAMBDA s : s.speaker = "user" /\ Overlapped(s, line) # {})
    <3>1. [i \in 1 .. l |-> IF line[i].speaker = "user" /\ Overlapped(line[i], line) # {}
                            THEN <<line[i]>> ELSE <<>>]
             = [i \in 1 .. l |-> IF i \in at THEN <<line[i]>> ELSE <<>>]
      <4>1. \A i \in 1 .. l : (line[i].speaker = "user" /\ Overlapped(line[i], line) # {}) <=> i \in at
        BY <1>2
      <4> HIDE DEF at, line
      <4> QED
        BY <4>1
    <3> HIDE DEF at, line
    <3> QED
      BY <1>2, <3>1 DEF Only, Picks
  <2> HIDE DEF users, line
  <2> QED
    BY <2>1 DEF Classify
<1> HIDE DEF line, at, p
<1>10. at \in SUBSET (1 .. Len(line))
  BY DEF at
<1>11. users \in Seq(AnyLine)
  BY <1>1, <1>10, PicksKeepOrder
<1>12. PICK pick : PickedFrom(line, at, users, pick)
  BY <1>1, <1>10, PicksKeepOrder
<1> HIDE DEF users, event
<1>13. PICK m \in Nat : m = Len(users)
  BY <1>11, LenProperties
<1>14. PICK y \in 1 .. m : users[y] = u
  BY <1>3, <1>8, <1>12, <1>13 DEF PickedFrom
<1> DEFINE events == Classify(line)
           S == {event(users[i]) : i \in 1 .. m}
<1>15. /\ events \in Seq(S) /\ Len(events) = m
       /\ events[y].kind = "hard" /\ events[y].offset = c
  <2> DEFINE f == [i \in 1 .. m |-> event(users[i])]
  <2>1. f \in [1 .. m -> S]
    OBVIOUS
  <2>2. f[y] = event(u)
    BY <1>14
  <2>3. events = f
    BY <1>9, <1>13
  <2> HIDE DEF f, S
  <2>4. f \in Seq(S) /\ Len(f) = m
    BY <2>1, SeqDef
  <2> HIDE DEF events
  <2> QED
    BY <1>7, <2>2, <2>3, <2>4
<1> HIDE DEF events, S
<1> DEFINE hardAt == {i \in 1 .. Len(events) : events[i].kind = "hard"}
           hard == Picks(events, hardAt)
<1>16. HardEvents(line) = hard
  <2>1. [i \in 1 .. m |-> IF events[i].kind = "hard" THEN <<events[i]>> ELSE <<>>]
           = [i \in 1 .. m |-> IF i \in hardAt THEN <<events[i]>> ELSE <<>>]
    <3>1. \A i \in 1 .. m : (events[i].kind = "hard") <=> i \in hardAt
      BY <1>15
    <3> HIDE DEF hardAt
    <3> QED
      BY <3>1
  <2> HIDE DEF hardAt
  <2>2. HardEvents(line) = Of("hard", events)
    BY DEF HardEvents, events
  <2> QED
    BY <1>15, <2>1, <2>2 DEF Of, Only, Picks
<1>17. hardAt \in SUBSET (1 .. Len(events)) /\ y \in hardAt
  BY <1>15
<1> HIDE DEF hardAt
<1>18. hard \in Seq(S)
  BY <1>15, <1>17, PicksKeepOrder
<1>19. PICK found : PickedFrom(events, hardAt, hard, found)
  BY <1>15, <1>17, PicksKeepOrder
<1> HIDE DEF hard
<1>20. PICK h \in Nat : h = Len(hard)
  BY <1>18, LenProperties
<1>21. PICK z \in 1 .. h : hard[z] = events[y]
  BY <1>17, <1>19, <1>20 DEF PickedFrom
<1>22. hard[z] \in ToSet(hard) /\ hard[z].offset = c
  BY <1>15, <1>18, <1>20, <1>21, LenProperties DEF ToSet
<1>23. h # 0
  BY <1>21
<1> QED
  BY <1>16, <1>20, <1>22, <1>23 DEF line

-----------------------------------------------------------------------------
(* Adding up and sorting.                                                   *)

\* The sums of the beginnings of a sequence.
Sums(g, s) == g[0] = 0 /\ \A i \in 1 .. Len(s) : g[i] = g[i - 1] + s[i]

\* There are such sums, and the last one is the total.
LEMMA TotalSums ==
    ASSUME NEW s \in Seq(Int)
    PROVE  \E g \in [Nat -> Int] : Sums(g, s) /\ g[Len(s)] = Total(s)
<1>0. PICK n \in Nat : n = Len(s)
  BY LenProperties
<1>1. \A i \in 1 .. n : s[i] \in Int
  BY <1>0, ElementOfSeq
<1> DEFINE V == Int
           step == [p \in Nat \X V |-> IF p[1] + 1 <= n THEN p[2] + s[p[1] + 1] ELSE p[2]]
<1>2. Within(step, V)
  <2> SUFFICES ASSUME NEW i \in Nat, NEW v \in V PROVE step[<<i, v>>] \in V
    BY DEF Within
  <2>1. i + 1 <= n => s[i + 1] \in Int
    BY <1>1
  <2> QED
    BY <2>1
<1>begin. 0 \in V
  OBVIOUS
<1> HIDE DEF step, V
<1>3. PICK g \in [Nat -> V] : Iterates(g, 0, step)
  BY <1>2, <1>begin, Recursion
<1>4. g[0] = 0
  BY <1>3 DEF Iterates
<1>5. ASSUME NEW i \in 1 .. n PROVE g[i] = g[i - 1] + s[i]
  <2>1. i - 1 \in Nat /\ i - 1 + 1 = i /\ i <= n
    OBVIOUS
  <2>2. g[i] = step[<<i - 1, g[i - 1]>>]
    BY <1>3, <2>1 DEF Iterates
  <2>3. g[i - 1] \in V
    BY <2>1
  <2> QED
    BY <2>1, <2>2, <2>3 DEF step
<1> DEFINE F(h) == [i \in 0 .. n |-> IF i = 0 THEN 0 ELSE h[i - 1] + s[i]]
           sum == CHOOSE h : h = F(h)
           w == [i \in 0 .. n |-> g[i]]
<1>6. w = F(w)
  <2>1. ASSUME NEW i \in 0 .. n PROVE g[i] = IF i = 0 THEN 0 ELSE w[i - 1] + s[i]
    <3>1. CASE i = 0
      BY <1>4, <3>1
    <3>2. CASE i # 0
      <4>1. i - 1 \in 0 .. n /\ i \in 1 .. n
        BY <3>2
      <4> QED
        BY <1>5, <3>2, <4>1
    <3> QED
      BY <3>1, <3>2
  <2> QED
    BY <2>1
<1>7. sum = F(sum)
  <2> HIDE DEF F
  <2> QED
    BY <1>6
<1>8. Total(s) = sum[n]
  BY <1>0 DEF Total
<1> HIDE DEF sum
<1>9. ASSUME NEW i \in 0 .. n
      PROVE  sum[i] = IF i = 0 THEN 0 ELSE sum[i - 1] + s[i]
  <2>1. sum[i] = F(sum)[i]
    BY <1>7
  <2> HIDE <1>7
  <2> QED
    BY <2>1
<1> DEFINE T == {k \in Nat : k <= n => sum[k] = g[k]}
<1>10. 0 \in T
  <2>1. 0 \in 0 .. n
    OBVIOUS
  <2> QED
    BY <1>4, <1>9, <2>1
<1>11. ASSUME NEW k \in Nat, k \in T PROVE k + 1 \in T
  <2> SUFFICES ASSUME k + 1 <= n PROVE sum[k + 1] = g[k + 1]
    OBVIOUS
  <2>1. k + 1 # 0 /\ k + 1 \in 0 .. n /\ k + 1 \in 1 .. n /\ (k + 1) - 1 = k /\ k <= n
    OBVIOUS
  <2>2. sum[k + 1] = sum[(k + 1) - 1] + s[k + 1] /\ g[k + 1] = g[(k + 1) - 1] + s[k + 1]
    BY <1>5, <1>9, <2>1
  <2>3. sum[k] = g[k]
    BY <1>11, <2>1
  <2> QED
    BY <2>1, <2>2, <2>3
<1> HIDE DEF T
<1>12. \A k \in Nat : k \in T
  BY <1>10, <1>11, SetInduction
<1>13. sum[n] = g[n]
  BY <1>12 DEF T
<1> QED
  BY <1>0, <1>4, <1>5, <1>8, <1>13 DEF Sums, V

\* Adding up, by the last number.
LEMMA TotalAppend ==
    ASSUME NEW s \in Seq(Int), NEW e \in Int
    PROVE  /\ Total(s) \in Int /\ Total(<<>>) = 0
           /\ Total(Append(s, e)) = Total(s) + e
<1>0. PICK n \in Nat : n = Len(s)
  BY LenProperties
<1> DEFINE t == Append(s, e)
<1>1. t \in Seq(Int) /\ Len(t) = n + 1 /\ t[n + 1] = e /\ \A i \in 1 .. n : t[i] = s[i]
  BY <1>0, AppendProperties
<1> HIDE DEF t
<1>2. PICK g \in [Nat -> Int] : Sums(g, s) /\ g[n] = Total(s)
  BY <1>0, TotalSums
<1>3. PICK h \in [Nat -> Int] : Sums(h, t) /\ h[n + 1] = Total(t)
  BY <1>1, TotalSums
<1>4. /\ g[0] = 0 /\ \A i \in 1 .. n : g[i] = g[i - 1] + s[i]
      /\ h[0] = 0 /\ \A i \in 1 .. n + 1 : h[i] = h[i - 1] + t[i]
  BY <1>0, <1>1, <1>2, <1>3 DEF Sums
<1> DEFINE T == {k \in Nat : k <= n => g[k] = h[k]}
<1>5. 0 \in T
  BY <1>4
<1>6. ASSUME NEW k \in Nat, k \in T PROVE k + 1 \in T
  <2> SUFFICES ASSUME k + 1 <= n PROVE g[k + 1] = h[k + 1]
    OBVIOUS
  <2>1. k + 1 \in 1 .. n /\ k + 1 \in 1 .. n + 1 /\ (k + 1) - 1 = k /\ k <= n
    OBVIOUS
  <2>2. g[k + 1] = g[(k + 1) - 1] + s[k + 1] /\ h[k + 1] = h[(k + 1) - 1] + t[k + 1]
    BY <1>4, <2>1
  <2>3. t[k + 1] = s[k + 1]
    BY <1>1, <2>1
  <2>4. g[k] = h[k]
    BY <1>6, <2>1
  <2> QED
    BY <2>1, <2>2, <2>3, <2>4
<1> HIDE DEF T
<1>7. \A k \in Nat : k \in T
  BY <1>5, <1>6, SetInduction
<1>8. g[n] = h[n]
  BY <1>7 DEF T
<1>9. h[n + 1] = h[n] + e
  <2>1. n + 1 \in 1 .. n + 1 /\ (n + 1) - 1 = n
    OBVIOUS
  <2> QED
    BY <1>1, <1>4, <2>1
<1>10. Total(<<>>) = 0
  <2>1. <<>> \in Seq(Int) /\ Len(<<>>) = 0
    BY EmptySeq
  <2>2. PICK f \in [Nat -> Int] : Sums(f, <<>>) /\ f[0] = Total(<<>>)
    BY <2>1, TotalSums
  <2> QED
    BY <2>2 DEF Sums
<1> QED
  BY <1>2, <1>3, <1>8, <1>9, <1>10 DEF t

\* A number put where it belongs.
LEMMA InsertedLonger ==
    ASSUME NEW s \in Seq(Int), NEW v \in Int
    PROVE  Inserted(s, v) \in Seq(Int) /\ Len(Inserted(s, v)) = Len(s) + 1
<1>0. PICK n \in Nat : n = Len(s)
  BY LenProperties
<1> DEFINE at == {i \in 1 .. n : s[i] <= v}
<1>1. Cardinality(at) \in Nat /\ Cardinality(at) <= n
  <2>1. IsFiniteSet(1 .. n) /\ Cardinality(1 .. n) = n
    BY FS_Interval
  <2> QED
    BY <2>1, FS_Subset, FS_CardinalityType
<1> DEFINE k == 1 + Cardinality(at)
<1>2. k \in 1 .. n + 1 /\ k \in Nat
  BY <1>1
<1>3. Inserted(s, v) = InsertAt(s, k, v)
  BY <1>0 DEF Inserted
<1> HIDE DEF k
<1> DEFINE a == SubSeq(s, 1, k - 1)
           b == SubSeq(s, k, n)
<1>4. InsertAt(s, k, v) = a \o <<v>> \o b
  BY <1>0 DEF InsertAt
<1>5. a \in Seq(Int) /\ Len(a) = k - 1
  BY <1>0, <1>2, SubSeqProperties
<1>6. b \in Seq(Int) /\ Len(b) = n - k + 1
  BY <1>0, <1>2, SubSeqProperties
<1>7. <<v>> \in Seq(Int) /\ Len(<<v>>) = 1
  OBVIOUS
<1> HIDE DEF a, b
<1>8. a \o <<v>> \in Seq(Int) /\ Len(a \o <<v>>) = (k - 1) + 1
  BY <1>5, <1>7, ConcatProperties
<1>9. a \o <<v>> \o b \in Seq(Int) /\ Len(a \o <<v>> \o b) = ((k - 1) + 1) + (n - k + 1)
  <2> DEFINE c == a \o <<v>>
  <2>1. c \in Seq(Int) /\ Len(c) = (k - 1) + 1
    BY <1>8
  <2> HIDE DEF c
  <2>2. c \o b \in Seq(Int) /\ Len(c \o b) = Len(c) + Len(b)
    BY <1>6, <2>1, ConcatProperties
  <2>3. Len(c \o b) = ((k - 1) + 1) + (n - k + 1)
    BY <1>6, <2>1, <2>2
  <2> QED
    BY <2>2, <2>3 DEF c
<1>10. ((k - 1) + 1) + (n - k + 1) = n + 1
  BY <1>2
<1> QED
  BY <1>0, <1>3, <1>4, <1>9, <1>10

\* Sorting keeps the length.
LEMMA OrderedKeepsLength ==
    ASSUME NEW s \in Seq(Int)
    PROVE  Ordered(s) \in Seq(Int) /\ Len(Ordered(s)) = Len(s)
<1>0. PICK n \in Nat : n = Len(s)
  BY LenProperties
<1>1. \A i \in 1 .. n : s[i] \in Int
  BY <1>0, ElementOfSeq
<1>2. <<>> \in Seq(Int) /\ Len(<<>>) = 0
  BY EmptySeq
<1> DEFINE V == Seq(Int)
           step == [p \in Nat \X V |-> IF p[1] + 1 <= n THEN Inserted(p[2], s[p[1] + 1]) ELSE p[2]]
<1>3. Within(step, V)
  <2> SUFFICES ASSUME NEW i \in Nat, NEW v \in V PROVE step[<<i, v>>] \in V
    BY DEF Within
  <2>1. i + 1 <= n => s[i + 1] \in Int
    BY <1>1
  <2>2. i + 1 <= n => Inserted(v, s[i + 1]) \in V
    BY <2>1, InsertedLonger
  <2> QED
    BY <2>2
<1>4. <<>> \in V
  BY <1>2
<1> HIDE DEF step, V
<1>5. PICK g \in [Nat -> V] : Iterates(g, <<>>, step)
  BY <1>3, <1>4, Recursion
<1>6. g[0] = <<>>
  BY <1>5 DEF Iterates
<1>7. ASSUME NEW i \in 1 .. n PROVE g[i] = Inserted(g[i - 1], s[i])
  <2>1. i - 1 \in Nat /\ i - 1 + 1 = i /\ i <= n
    OBVIOUS
  <2>2. g[i] = step[<<i - 1, g[i - 1]>>]
    BY <1>5, <2>1 DEF Iterates
  <2>3. g[i - 1] \in V
    BY <2>1
  <2> QED
    BY <2>1, <2>2, <2>3 DEF step
<1> DEFINE F(h) == [i \in 0 .. n |-> IF i = 0 THEN <<>> ELSE Inserted(h[i - 1], s[i])]
           ordered == CHOOSE h : h = F(h)
           w == [i \in 0 .. n |-> g[i]]
<1>8. w = F(w)
  <2>1. ASSUME NEW i \in 0 .. n PROVE g[i] = IF i = 0 THEN <<>> ELSE Inserted(w[i - 1], s[i])
    <3>1. CASE i = 0
      BY <1>6, <3>1
    <3>2. CASE i # 0
      <4>1. i - 1 \in 0 .. n /\ i \in 1 .. n
        BY <3>2
      <4>2. w[i - 1] = g[i - 1]
        BY <4>1
      <4> HIDE DEF w
      <4> QED
        BY <1>7, <3>2, <4>1, <4>2
    <3> QED
      BY <3>1, <3>2
  <2> QED
    BY <2>1
<1>9. ordered = F(ordered)
  <2> HIDE DEF F
  <2> QED
    BY <1>8
<1>10. Ordered(s) = ordered[n]
  BY <1>0 DEF Ordered
<1> HIDE DEF ordered
<1>11. ASSUME NEW i \in 0 .. n
       PROVE  ordered[i] = IF i = 0 THEN <<>> ELSE Inserted(ordered[i - 1], s[i])
  <2>1. ordered[i] = F(ordered)[i]
    BY <1>9
  <2> HIDE <1>9
  <2> QED
    BY <2>1
<1> DEFINE T == {k \in Nat : k <= n => ordered[k] \in Seq(Int) /\ Len(ordered[k]) = k}
<1>12. 0 \in T
  <2>1. 0 \in 0 .. n
    OBVIOUS
  <2> QED
    BY <1>2, <1>11, <2>1
<1>13. ASSUME NEW k \in Nat, k \in T PROVE k + 1 \in T
  <2> SUFFICES ASSUME k + 1 <= n
               PROVE  ordered[k + 1] \in Seq(Int) /\ Len(ordered[k + 1]) = k + 1
    OBVIOUS
  <2>1. k + 1 # 0 /\ k + 1 \in 0 .. n /\ k + 1 \in 1 .. n /\ (k + 1) - 1 = k /\ k <= n
    OBVIOUS
  <2>2. ordered[k + 1] = Inserted(ordered[k], s[k + 1]) /\ s[k + 1] \in Int
    BY <1>1, <1>11, <2>1
  <2>3. ordered[k] \in Seq(Int) /\ Len(ordered[k]) = k
    BY <1>13, <2>1
  <2> QED
    BY <2>2, <2>3, InsertedLonger
<1> HIDE DEF T
<1>14. \A k \in Nat : k \in T
  BY <1>12, <1>13, SetInduction
<1>15. n \in T
  BY <1>14
<1> QED
  BY <1>0, <1>10, <1>15 DEF T

-----------------------------------------------------------------------------
(* What the curves measure is a number.                                     *)

\* What sounds is a sequence of what there is.
LEMMA SoundingIsSeq ==
    ASSUME NEW s \in Seq(Int)
    PROVE  Sounding(s) \in Seq(Int)
<1>0. PICK n \in Nat : n = Len(s)
  BY LenProperties
<1> DEFINE at == {i \in 1 .. n : s[i] # 0}
<1>1. Sounding(s) = Picks(s, at)
  <2>1. \A i \in 1 .. n : (s[i] # 0) <=> i \in at
    OBVIOUS
  <2>2. Sounding(s) = FlattenSeq([i \in 1 .. n |-> IF s[i] # 0 THEN <<s[i]>> ELSE <<>>])
    BY <1>0 DEF Sounding, Only
  <2>3. Picks(s, at) = FlattenSeq([i \in 1 .. n |-> IF i \in at THEN <<s[i]>> ELSE <<>>])
    BY <1>0 DEF Picks
  <2> HIDE DEF at
  <2>4. [i \in 1 .. n |-> IF s[i] # 0 THEN <<s[i]>> ELSE <<>>]
           = [i \in 1 .. n |-> IF i \in at THEN <<s[i]>> ELSE <<>>]
    BY <2>1
  <2> QED
    BY <2>2, <2>3, <2>4
<1>2. at \in SUBSET (1 .. Len(s))
  BY <1>0
<1> QED
  BY <1>1, <1>2, PicksKeepOrder

\* The sum of numbers is one.
LEMMA TotalIsInt ==
    ASSUME NEW s \in Seq(Int)
    PROVE  Total(s) \in Int
BY TotalAppend

\* The median of numbers, doubled, is one.
LEMMA MedianIsInt ==
    ASSUME NEW s \in Seq(Int), Len(s) > 0
    PROVE  Median2(s) \in Int
<1>1. PICK n \in Nat : n = Len(s) /\ n > 0
  BY LenProperties
<1>2. (n + 1) \div 2 \in 1 .. n /\ (n + 2) \div 2 \in 1 .. n
  BY <1>1
<1>3. s[(n + 1) \div 2] \in Int /\ s[(n + 2) \div 2] \in Int
  BY <1>1, <1>2, ElementOfSeq
<1> QED
  BY <1>1, <1>3 DEF Median2

\* So are the limits of the speaker's band.
LEMMA BandIsInt ==
    ASSUME NEW s \in Seq(Int), Len(s) > 0
    PROVE  LoudBand(s).low \in Int /\ LoudBand(s).high \in Int /\ LoudBand(s).scale \in Int
<1>1. PICK n \in Nat : n = Len(s) /\ n > 0
  BY LenProperties
<1>2. PICK mid2 \in Int : mid2 = Median2(s)
  BY MedianIsInt
<1> DEFINE far == [i \in 1 .. n |-> Greater(2 * s[i] - mid2, mid2 - 2 * s[i])]
           off == Ordered(far)
<1>3. far \in Seq(Int) /\ Len(far) = n
  <2>1. ASSUME NEW i \in 1 .. n PROVE Greater(2 * s[i] - mid2, mid2 - 2 * s[i]) \in Int
    <3>1. s[i] \in Int
      BY <1>1, ElementOfSeq
    <3> QED
      BY <3>1 DEF Greater
  <2>2. far \in [1 .. n -> Int]
    BY <2>1
  <2> HIDE DEF far
  <2> QED
    BY <2>2, SeqDef
<1> HIDE DEF far
<1>4. off \in Seq(Int) /\ Len(off) = n
  BY <1>3, OrderedKeepsLength
<1> HIDE DEF off
<1>5. Median2(off) \in Int /\ Total(off) \in Int
  BY <1>1, <1>4, MedianIsInt, TotalIsInt
<1> DEFINE spread == IF Median2(off) # 0 THEN n * Median2(off) ELSE 2 * Total(off)
<1>6. spread \in Int
  BY <1>5
<1>7. LoudBand(s) = [low |-> 2 * n * mid2 - 2 * spread, high |-> 2 * n * mid2 + 2 * spread,
                     scale |-> 4 * n]
  BY <1>1, <1>2 DEF LoudBand, off, far
<1> HIDE DEF spread
<1>8. 2 * n * mid2 \in Int
  OBVIOUS
<1> QED
  BY <1>6, <1>7, <1>8

\* The running means are of a sum and a count.
LEMMA MeansAreNumbers ==
    ASSUME NEW curve \in Seq(Int), NEW i \in 1 .. Len(curve)
    PROVE  SmoothLoudness(curve)[i].sum \in Int /\ SmoothLoudness(curve)[i].count \in Nat
<1>1. PICK n \in Nat : n = Len(curve)
  BY LenProperties
<1> DEFINE half == SmoothPoints \div 2
           around == Around(curve, i, half)
           w == Sounding(around)
<1>2. half \in Nat
  BY CurveAssumption
<1> HIDE DEF half
<1>3. around \in Seq(Int)
  <2> DEFINE from == Greater(1, i - half)
             to == Lesser(n, i + half)
  <2>1. from \in Int /\ to \in Int /\ from >= 1 /\ to <= n
    BY <1>1, <1>2 DEF Greater, Lesser
  <2>2. around = SubSeq(curve, from, to)
    BY <1>1 DEF Around
  <2> HIDE DEF from, to
  <2>3. \A k \in from .. to : curve[k] \in Int
    <3>1. \A k \in from .. to : k \in 1 .. n
      BY <2>1
    <3> QED
      BY <1>1, <3>1, ElementOfSeq
  <2> QED
    BY <2>1, <2>2, <2>3, SubSeqProperties
<1> HIDE DEF around
<1>4. w \in Seq(Int)
  BY <1>3, SoundingIsSeq
<1> HIDE DEF w
<1>5. Total(w) \in Int /\ Len(w) \in Nat
  BY <1>4, TotalIsInt, LenProperties
<1>6. SmoothLoudness(curve)[i] = IF Len(w) >= half /\ w # <<>>
                                 THEN [sum |-> Total(w), count |-> Len(w)]
                                 ELSE [sum |-> 0, count |-> 0]
  BY <1>1 DEF SmoothLoudness, w, around, half
<1> QED
  BY <1>5, <1>6

\* The peak of a stretch lies in the curve it was drawn from.
LEMMA PeakLiesWithin ==
    ASSUME NEW curve \in Seq(Int), NEW stretch \in Stretches(curve)
    PROVE  stretch.peak \in 1 .. Len(curve)
<1>0. PICK n \in Nat : n = Len(curve)
  BY LenProperties
<1> DEFINE voiced == Ordered(Sounding(curve))
           band == LoudBand(voiced)
           means == SmoothLoudness(curve)
           way == [i \in 1 .. Len(curve) |-> Direction(band, means[i])]
           distance(i) == LET off == (means[i].sum * band.scale) \div means[i].count IN
                          IF way[i] = "louder" THEN off - band.high ELSE band.low - off
           runs(d) == {r \in (1 .. Len(curve)) \X (1 .. Len(curve)) :
                         /\ r[2] - r[1] + 1 >= MinStretch
                         /\ \A k \in r[1] .. r[2] : way[k] = d
                         /\ r[1] = 1 \/ way[r[1] - 1] # d
                         /\ r[2] = Len(curve) \/ way[r[2] + 1] # d}
           out(r) == Total([k \in 1 .. r[2] - r[1] + 1 |-> distance(r[1] + k - 1)])
           furthest(d) == {r \in runs(d) : \A q \in runs(d) :
                              out(q) < out(r) \/ (out(q) = out(r) /\ q[1] >= r[1])}
           peak(r) == Min({k \in r[1] .. r[2] : \A m \in r[1] .. r[2] : distance(m) <= distance(k)})
<1>1. Len(voiced) \in Nat /\ Len(voiced) >= MinStretch /\ voiced \in Seq(Int)
  <2>1. voiced \in Seq(Int)
    BY SoundingIsSeq, OrderedKeepsLength
  <2>2. ~ Len(voiced) < MinStretch
    BY Zenon DEF Stretches
  <2> HIDE DEF voiced
  <2>3. Len(voiced) \in Nat
    BY <2>1, LenProperties
  <2> QED
    BY <2>1, <2>2, <2>3, CurveAssumption
<1>2. PICK d \in {"louder", "quieter"} :
          runs(d) # {} /\ stretch = [direction |-> d, peak |-> peak(CHOOSE r \in furthest(d) : TRUE)]
  <2>1. ~ Len(voiced) < MinStretch
    BY <1>1, CurveAssumption
  <2>2. Stretches(curve) = {[direction |-> d, peak |-> peak(CHOOSE r \in furthest(d) : TRUE)] :
                               d \in {e \in {"louder", "quieter"} : runs(e) # {}}}
    BY <2>1 DEF Stretches
  <2> HIDE DEF runs, furthest, peak
  <2> QED
    BY <2>2
<1> HIDE DEF voiced
<1>3. band.low \in Int /\ band.high \in Int /\ band.scale \in Int
  <2>1. MinStretch > 0 /\ MinStretch \in Nat
    BY CurveAssumption
  <2>2. Len(voiced) > 0
    BY <1>1, <2>1
  <2> QED
    BY <1>1, <2>2, BandIsInt
<1> HIDE DEF band
<1>4. \A i \in 1 .. n : means[i].sum \in Int /\ means[i].count \in Nat
  BY <1>0, MeansAreNumbers
<1> HIDE DEF means
<1>5. ASSUME NEW i \in 1 .. n, way[i] = d PROVE distance(i) \in Int
  <2>1. PICK sum \in Int, count \in Nat : sum = means[i].sum /\ count = means[i].count
    BY <1>4
  <2>2. Direction(band, means[i]) # "none"
    BY <1>0, <1>5
  <2>3. count # 0
    BY <2>1, <2>2 DEF Direction
  <2>4. PICK low \in Int, high \in Int, scale \in Int :
            low = band.low /\ high = band.high /\ scale = band.scale
    BY <1>3
  <2>5. sum * scale \in Int
    OBVIOUS
  <2>6. (sum * scale) \div count \in Int
    <3>1. PICK p \in Int : p = sum * scale
      BY <2>5
    <3>2. p \div count \in Int
      BY <2>3
    <3> QED
      BY <3>1, <3>2
  <2>7. PICK o \in Int : o = (sum * scale) \div count
    BY <2>6
  <2>8. distance(i) = IF way[i] = "louder" THEN o - high ELSE low - o
    BY <2>1, <2>4, <2>7
  <2> HIDE DEF way, distance
  <2> QED
    BY <2>8
<1> HIDE DEF way, distance
<1>6. ASSUME NEW r \in runs(d)
      PROVE  /\ r[1] \in 1 .. n /\ r[2] \in 1 .. n /\ r[2] >= r[1]
             /\ \A i \in r[1] .. r[2] : i \in 1 .. n /\ distance(i) \in Int
  <2>1. /\ r[1] \in 1 .. n /\ r[2] \in 1 .. n /\ r[2] - r[1] + 1 >= MinStretch
        /\ \A k \in r[1] .. r[2] : way[k] = d
    BY <1>0
  <2>2. r[2] >= r[1]
    BY <2>1, CurveAssumption
  <2>3. \A i \in r[1] .. r[2] : i \in 1 .. n
    BY <2>1
  <2> HIDE DEF runs
  <2> QED
    BY <1>5, <2>1, <2>2, <2>3
<1>7. ASSUME NEW r \in runs(d) PROVE out(r) \in Int
  <2>1. PICK a \in 1 .. n, b \in 1 .. n :
            a = r[1] /\ b = r[2] /\ b >= a /\ \A i \in a .. b : distance(i) \in Int
    BY <1>6
  <2>2. PICK l \in Nat : l = b - a + 1
    BY <2>1
  <2> DEFINE s == [k \in 1 .. l |-> distance(a + k - 1)]
  <2>3. ASSUME NEW k \in 1 .. l PROVE distance(a + k - 1) \in Int
    <3>1. a + k - 1 \in a .. b
      BY <2>2
    <3> QED
      BY <2>1, <3>1
  <2>4. s \in [1 .. l -> Int]
    BY <2>3
  <2>5. out(r) = Total(s)
    BY <2>1, <2>2
  <2> HIDE DEF s, out
  <2>6. s \in Seq(Int)
    BY <2>4, SeqDef
  <2> QED
    BY <2>5, <2>6, TotalIsInt
<1>8. IsFiniteSet(runs(d))
  <2>1. IsFiniteSet((1 .. n) \X (1 .. n))
    <3> DEFINE S == 1 .. n
    <3>1. IsFiniteSet(S)
      BY FS_Interval
    <3> HIDE DEF S
    <3>2. IsFiniteSet(S \X S)
      BY <3>1, FS_Product
    <3> QED
      BY <3>2 DEF S
  <2>2. runs(d) \in SUBSET ((1 .. n) \X (1 .. n))
    BY <1>0
  <2> HIDE DEF runs
  <2> QED
    BY <2>1, <2>2, FS_Subset
<1>9. furthest(d) # {}
  <2> HIDE DEF runs, out
  <2> DEFINE f == [r \in runs(d) |-> out(r)]
  <2>1. f \in [runs(d) -> Int]
    BY <1>7
  <2>2. PICK r0 \in runs(d) : \A q \in runs(d) : f[q] <= f[r0]
    <3> HIDE DEF f
    <3> QED
      BY <1>2, <1>8, <2>1, MostOf
  <2>3. \A q \in runs(d) : out(q) <= out(r0) /\ out(q) \in Int
    BY <1>7, <2>2
  <2> HIDE DEF f
  <2> DEFINE R == {r \in runs(d) : out(r) = out(r0)}
             g == [r \in R |-> - r[1]]
  <2>4. R # {} /\ IsFiniteSet(R)
    <3>1. R \in SUBSET runs(d) /\ r0 \in R
      OBVIOUS
    <3> HIDE DEF R
    <3> QED
      BY <1>8, <3>1, FS_Subset
  <2>5. \A r \in R : r \in runs(d) /\ r[1] \in Int /\ out(r) = out(r0)
    BY <1>6
  <2>6. \A r \in runs(d) : out(r) = out(r0) => r \in R
    OBVIOUS
  <2> HIDE DEF R
  <2>7. g \in [R -> Int] /\ \A r \in R : g[r] = - r[1]
    BY <2>5
  <2> HIDE DEF g
  <2>8. PICK r \in R : \A q \in R : g[q] <= g[r]
    BY <2>4, <2>7, MostOf
  <2>9. ASSUME NEW q \in runs(d)
        PROVE  out(q) < out(r) \/ (out(q) = out(r) /\ q[1] >= r[1])
    <3>1. out(q) \in Int /\ out(q) <= out(r0) /\ out(r) = out(r0) /\ out(r) \in Int
      BY <2>3, <2>5, <2>8
    <3>2. CASE out(q) = out(r0)
      <4>1. q \in R
        BY <2>6, <3>2
      <4>2. - q[1] <= - r[1] /\ q[1] \in Int /\ r[1] \in Int
        BY <2>5, <2>7, <2>8, <4>1
      <4>3. q[1] >= r[1]
        BY <4>2
      <4> QED
        BY <3>1, <3>2, <4>3
    <3>3. CASE out(q) # out(r0)
      BY <3>1, <3>3
    <3> QED
      BY <3>2, <3>3
  <2>10. r \in furthest(d)
    BY <2>5, <2>8, <2>9
  <2> QED
    BY <2>10
<1>10. PICK r \in runs(d) : stretch.peak = peak(r)
  <2> HIDE DEF runs, out, peak
  <2>1. furthest(d) \subseteq runs(d)
    OBVIOUS
  <2> HIDE DEF furthest
  <2>2. (CHOOSE r \in furthest(d) : TRUE) \in furthest(d)
    BY <1>9
  <2>3. stretch.peak = peak(CHOOSE r \in furthest(d) : TRUE)
    BY <1>2
  <2> QED
    BY <2>1, <2>2, <2>3
<1> HIDE DEF runs, out, furthest
<1>11. PICK a \in 1 .. n, b \in 1 .. n :
           a = r[1] /\ b = r[2] /\ b >= a /\ \A i \in a .. b : i \in 1 .. n /\ distance(i) \in Int
  BY <1>6
<1> DEFINE highest == {k \in a .. b : \A m \in a .. b : distance(m) <= distance(k)}
<1>12. peak(r) = Min(highest)
  BY <1>11
<1>13. highest # {}
  <2> DEFINE f == [i \in a .. b |-> distance(i)]
  <2>1. f \in [a .. b -> Int]
    BY <1>11
  <2>2. \A i \in a .. b : f[i] = distance(i)
    OBVIOUS
  <2> HIDE DEF f
  <2>3. IsFiniteSet(a .. b) /\ a .. b # {}
    <3>1. a \in a .. b /\ a \in Int /\ b \in Int
      BY <1>11
    <3> QED
      BY <3>1, FS_Interval
  <2>4. PICK k \in a .. b : \A m \in a .. b : f[m] <= f[k]
    BY <2>1, <2>3, MostOf
  <2> QED
    BY <2>2, <2>4
<1>14. Min(highest) \in highest
  <2>1. \A k \in highest : k \in Int /\ a <= k
    OBVIOUS
  <2> HIDE DEF highest
  <2>2. \E x \in highest : \A y \in highest : x <= y
    BY <1>13, <2>1, LeastOf
  <2> QED
    BY <2>2 DEF Min
<1>15. Min(highest) \in a .. b
  BY <1>14
<1> HIDE DEF highest, peak
<1> QED
  BY <1>0, <1>10, <1>11, <1>12, <1>15

\* What is measured of a call's loudness is a sequence of levels.
LEMMA LoudnessOfTheCall ==
    ASSUME NEW ts \in Seq(AnyTurn), NEW language, NEW reversed
    PROVE  Conversation(ts, language, reversed).loudness \in Seq(Nat)
<1>0. PICK n \in Nat : n = Len(ts)
  BY LenProperties
<1> DEFINE ss == [k \in 1 .. n |-> ts[k].loudness]
<1>1. ss \in Seq(Seq(Nat))
  <2>1. ASSUME NEW k \in 1 .. n PROVE ts[k].loudness \in Seq(Nat)
    <3>1. ts[k] \in AnyTurn
      BY <1>0, ElementOfSeq
    <3> QED
      BY <3>1 DEF AnyTurn
  <2>2. ss \in [1 .. n -> Seq(Nat)]
    BY <2>1
  <2> HIDE DEF ss
  <2> QED
    BY <2>2, SeqDef
<1>2. Conversation(ts, language, reversed).loudness = FlattenSeq(ss)
  BY <1>0 DEF Conversation
<1> HIDE DEF ss
<1> QED
  BY <1>1, <1>2, FlattenKeepsOrder

\* A loudness figure carries the curve.
LEMMA LoudnessFigure ==
    ASSUME NEW call, NEW w \in Rows(Measure(call)).loudness
    PROVE  w.curve = call.loudness
<1>1. "loudness" \in DOMAIN Measure(call) /\ Measure(call).loudness = Loudness(call)
  BY DEF Measure
<1>2. Rows(Measure(call)).loudness = IF "loudness" \in Seeded THEN Measure(call).loudness ELSE {}
  BY <1>1 DEF Rows
<1>3. w \in Loudness(call)
  BY <1>1, <1>2
<1> QED
  BY <1>3 DEF Loudness

-----------------------------------------------------------------------------
(* What one Turn adds to the facts of a call.                               *)

\* What is added up, or strung together, over the elements.
LEMMA TotalMapped ==
    ASSUME NEW S, NEW F, Maps(F, S, Int), NEW s \in Seq(S), NEW e \in S
    PROVE  /\ Total(Mapped(F, s)) \in Int
           /\ Total(Mapped(F, Append(s, e))) = Total(Mapped(F, s)) + F[e]
<1> DEFINE W == Int
<1>0. Maps(F, S, W) /\ F[e] \in W
  BY DEF Maps
<1> HIDE DEF W
<1>1. /\ Mapped(F, s) \in Seq(W)
      /\ Mapped(F, Append(s, e)) = Append(Mapped(F, s), F[e])
  BY <1>0, MappedAppend
<1> QED
  BY <1>0, <1>1, TotalAppend DEF W

\* Two sequences of numbers added up.
LEMMA TotalConcat ==
    ASSUME NEW a \in Seq(Int), NEW b \in Seq(Int)
    PROVE  Total(a) \in Int /\ Total(b) \in Int /\ Total(a \o b) = Total(a) + Total(b)
<1> DEFINE V == Int
           P == {s \in Seq(V) : Total(s) \in V /\ Total(a \o s) = Total(a) + Total(s)}
<1>1. Total(a) \in Int
  BY TotalAppend
<1>2. <<>> \in P
  <2>1. <<>> \in Seq(Int) /\ a \o <<>> = a
    BY EmptySeq, ConcatEmptySeq
  <2>2. Total(<<>>) = 0
    BY TotalAppend
  <2> QED
    BY <1>1, <2>1, <2>2
<1>3. ASSUME NEW s \in Seq(V), s \in P, NEW e \in V PROVE Append(s, e) \in P
  <2>1. Total(Append(s, e)) = Total(s) + e /\ Append(s, e) \in Seq(V)
    BY TotalAppend, AppendProperties
  <2> DEFINE c == a \o s
  <2>2. c \in Seq(Int)
    BY ConcatProperties
  <2>3. a \o Append(s, e) = Append(c, e)
    <3> HIDE DEF V
    <3>1. a \in Seq(V) /\ s \in Seq(V) /\ e \in V
      BY DEF V
    <3> QED
      BY <3>1, ConcatLonger
  <2> HIDE DEF c
  <2>4. Total(Append(c, e)) = Total(c) + e
    BY <2>2, TotalAppend
  <2>5. Total(c) = Total(a) + Total(s) /\ Total(s) \in Int
    BY <1>3 DEF c
  <2>6. Total(Append(s, e)) \in V /\ Total(a \o Append(s, e)) = Total(a) + Total(Append(s, e))
    BY <1>1, <2>1, <2>3, <2>4, <2>5
  <2> QED
    BY <2>1, <2>6
<1> HIDE DEF V, P
<1>4. \A s \in Seq(V) : s \in P
  BY <1>2, <1>3, SequenceInduction
<1>5. b \in Seq(V)
  BY DEF V
<1> QED
  BY <1>1, <1>4, <1>5 DEF P, V

\* The Turns in which the user asked something, and those in which the Persona answered.
Asked(ts) == Only(ts, LAMBDA t : t.question # <<>>)

\* Those in which the Persona answered.
Answered(ts) == Only(ts, LAMBDA t : t.reply # 0)

\* One Turn more.
LEMMA AskedAppend ==
    ASSUME NEW ts \in Seq(AnyTurn), NEW t \in AnyTurn
    PROVE  /\ Asked(ts) \in Seq(AnyTurn)
           /\ Asked(Append(ts, t)) = IF t.question # <<>> THEN Append(Asked(ts), t) ELSE Asked(ts)
<1>0. PICK n \in Nat : n = Len(ts)
  BY LenProperties
<1> DEFINE tt == Append(ts, t)
           at == {i \in 1 .. n : ts[i].question # <<>>}
           further == {i \in 1 .. n + 1 : tt[i].question # <<>>}
<1>1. Len(tt) = n + 1 /\ tt[n + 1] = t /\ \A i \in 1 .. n : tt[i] = ts[i]
  BY <1>0, AppendProperties
<1> HIDE DEF tt
<1>2. Asked(ts) = Picks(ts, at)
  <2>1. \A i \in 1 .. n : (ts[i].question # <<>>) <=> i \in at
    OBVIOUS
  <2> HIDE DEF at
  <2>2. [i \in 1 .. n |-> IF ts[i].question # <<>> THEN <<ts[i]>> ELSE <<>>]
           = [i \in 1 .. n |-> IF i \in at THEN <<ts[i]>> ELSE <<>>]
    BY <2>1
  <2> QED
    BY <1>0, <2>2 DEF Asked, Only, Picks
<1>3. Asked(tt) = Picks(tt, further)
  <2>1. \A i \in 1 .. n + 1 : (tt[i].question # <<>>) <=> i \in further
    OBVIOUS
  <2> HIDE DEF further
  <2>2. [i \in 1 .. n + 1 |-> IF tt[i].question # <<>> THEN <<tt[i]>> ELSE <<>>]
           = [i \in 1 .. n + 1 |-> IF i \in further THEN <<tt[i]>> ELSE <<>>]
    BY <2>1
  <2> QED
    BY <1>1, <2>2 DEF Asked, Only, Picks
<1>4. \A i \in 1 .. n : i \in further <=> i \in at
  BY <1>1
<1>5. n + 1 \in further <=> t.question # <<>>
  BY <1>1
<1> HIDE DEF at, further
<1>6. /\ Picks(ts, at) \in Seq(AnyTurn)
      /\ Picks(tt, further) = IF n + 1 \in further THEN Append(Picks(ts, at), t) ELSE Picks(ts, at)
  BY <1>0, <1>4, PicksAppend DEF tt
<1> QED
  BY <1>2, <1>3, <1>5, <1>6 DEF tt

\* And of the answered ones.
LEMMA AnsweredAppend ==
    ASSUME NEW ts \in Seq(AnyTurn), NEW t \in AnyTurn
    PROVE  /\ Answered(ts) \in Seq(AnyTurn)
           /\ Answered(Append(ts, t)) = IF t.reply # 0 THEN Append(Answered(ts), t) ELSE Answered(ts)
<1>0. PICK n \in Nat : n = Len(ts)
  BY LenProperties
<1> DEFINE tt == Append(ts, t)
           at == {i \in 1 .. n : ts[i].reply # 0}
           further == {i \in 1 .. n + 1 : tt[i].reply # 0}
<1>1. Len(tt) = n + 1 /\ tt[n + 1] = t /\ \A i \in 1 .. n : tt[i] = ts[i]
  BY <1>0, AppendProperties
<1> HIDE DEF tt
<1>2. Answered(ts) = Picks(ts, at)
  <2>1. \A i \in 1 .. n : (ts[i].reply # 0) <=> i \in at
    OBVIOUS
  <2> HIDE DEF at
  <2>2. [i \in 1 .. n |-> IF ts[i].reply # 0 THEN <<ts[i]>> ELSE <<>>]
           = [i \in 1 .. n |-> IF i \in at THEN <<ts[i]>> ELSE <<>>]
    BY <2>1
  <2> QED
    BY <1>0, <2>2 DEF Answered, Only, Picks
<1>3. Answered(tt) = Picks(tt, further)
  <2>1. \A i \in 1 .. n + 1 : (tt[i].reply # 0) <=> i \in further
    OBVIOUS
  <2> HIDE DEF further
  <2>2. [i \in 1 .. n + 1 |-> IF tt[i].reply # 0 THEN <<tt[i]>> ELSE <<>>]
           = [i \in 1 .. n + 1 |-> IF i \in further THEN <<tt[i]>> ELSE <<>>]
    BY <2>1
  <2> QED
    BY <1>1, <2>2 DEF Answered, Only, Picks
<1>4. \A i \in 1 .. n : i \in further <=> i \in at
  BY <1>1
<1>5. n + 1 \in further <=> t.reply # 0
  BY <1>1
<1> HIDE DEF at, further
<1>6. /\ Picks(ts, at) \in Seq(AnyTurn)
      /\ Picks(tt, further) = IF n + 1 \in further THEN Append(Picks(ts, at), t) ELSE Picks(ts, at)
  BY <1>0, <1>4, PicksAppend DEF tt
<1> QED
  BY <1>2, <1>3, <1>5, <1>6 DEF tt

\* Where the Persona fell silent last.
LastEnd(ts) == Stopped(ts, Len(ts) + 1)

\* It moves with a Turn that has a window, and what came before a Turn stays.
LEMMA StoppedAppend ==
    ASSUME NEW ts \in Seq(AnyTurn), NEW t \in AnyTurn
    PROVE  /\ LastEnd(ts) \in Int
           /\ LastEnd(Append(ts, t)) = IF t.pEnd > 0 THEN t.pEnd ELSE LastEnd(ts)
           /\ \A k \in 1 .. Len(ts) + 1 : Stopped(Append(ts, t), k) = Stopped(ts, k)
<1>0. PICK n \in Nat : n = Len(ts)
  BY LenProperties
<1> DEFINE tt == Append(ts, t)
           ends(k) == {j \in 1 .. k - 1 : ts[j].pEnd > 0}
<1>1. tt \in Seq(AnyTurn) /\ Len(tt) = n + 1 /\ tt[n + 1] = t /\ \A i \in 1 .. n : tt[i] = ts[i]
  BY <1>0, AppendProperties
<1> HIDE DEF tt
<1>2. ASSUME NEW k \in 1 .. n + 1
      PROVE  /\ Stopped(ts, k) = IF ends(k) = {} THEN None ELSE ts[Max(ends(k))].pEnd
             /\ Stopped(tt, k) = IF ends(k) = {} THEN None ELSE ts[Max(ends(k))].pEnd
             /\ ends(k) # {} => Max(ends(k)) \in 1 .. n
  <2>1. {j \in 1 .. k - 1 : tt[j].pEnd > 0} = ends(k)
    BY <1>1
  <2>2. ends(k) # {} => Max(ends(k)) \in ends(k)
    <3>1. \A x \in ends(k) : x \in Int /\ x <= n
      OBVIOUS
    <3> DEFINE S == ends(k)
    <3>2. \A x \in S : x \in Int /\ x <= n
      BY <3>1
    <3> HIDE DEF S
    <3>3. S # {} => \E x \in S : \A y \in S : x >= y
      BY <1>0, <3>2, GreatestOf
    <3>4. S # {} => Max(S) \in S
      BY <3>3 DEF Max
    <3> QED
      BY <3>4 DEF S
  <2>3. ends(k) # {} => Max(ends(k)) \in 1 .. n
    BY <2>2
  <2> HIDE DEF ends
  <2>4. Stopped(tt, k) = IF ends(k) = {} THEN None ELSE tt[Max(ends(k))].pEnd
    BY <2>1 DEF Stopped
  <2>5. Stopped(ts, k) = IF ends(k) = {} THEN None ELSE ts[Max(ends(k))].pEnd
    BY DEF Stopped, ends
  <2> QED
    BY <1>1, <2>3, <2>4, <2>5
<1>3. LastEnd(ts) \in Int
  <2>1. n + 1 \in 1 .. n + 1 /\ LastEnd(ts) = Stopped(ts, n + 1)
    BY <1>0 DEF LastEnd
  <2> DEFINE m == Max(ends(n + 1))
  <2>2. LastEnd(ts) = (IF ends(n + 1) = {} THEN None ELSE ts[m].pEnd) /\ (ends(n + 1) # {} => m \in 1 .. n)
    BY <1>2, <2>1
  <2> HIDE DEF m, ends
  <2>3. ends(n + 1) # {} => ts[m] \in AnyTurn
    BY <1>0, <2>2, ElementOfSeq
  <2> QED
    BY <2>2, <2>3 DEF AnyTurn, None
<1>4. LastEnd(tt) = IF t.pEnd > 0 THEN t.pEnd ELSE LastEnd(ts)
  <2> DEFINE S == {j \in 1 .. n + 1 : tt[j].pEnd > 0}
  <2>1. LastEnd(tt) = IF S = {} THEN None ELSE tt[Max(S)].pEnd
    <3>1. (n + 1) + 1 - 1 = n + 1
      OBVIOUS
    <3> QED
      BY <1>1, <3>1 DEF LastEnd, Stopped
  <2>2. CASE t.pEnd > 0
    <3>1. n + 1 \in S /\ \A y \in S : y \in Int /\ n + 1 >= y
      BY <1>1, <2>2
    <3> HIDE DEF S
    <3>2. Max(S) = n + 1
      <4>1. Max(S) \in S /\ \A y \in S : Max(S) >= y
        BY <3>1 DEF Max
      <4>2. PICK x \in S : x = Max(S)
        BY <4>1
      <4>3. x >= n + 1 /\ n + 1 >= x /\ x \in Int
        BY <3>1, <4>1, <4>2
      <4> QED
        BY <4>2, <4>3
    <3> QED
      BY <1>1, <2>1, <2>2, <3>1, <3>2
  <2>3. CASE ~ t.pEnd > 0
    <3>1. S = {j \in 1 .. n : ts[j].pEnd > 0}
      BY <1>1, <2>3
    <3>2. S = ends(n + 1)
      BY <3>1
    <3>3. n + 1 \in 1 .. n + 1 /\ LastEnd(ts) = Stopped(ts, n + 1)
      BY <1>0 DEF LastEnd
    <3>4. /\ LastEnd(ts) = IF ends(n + 1) = {} THEN None ELSE ts[Max(ends(n + 1))].pEnd
          /\ ends(n + 1) # {} => Max(ends(n + 1)) \in 1 .. n
      BY <1>2, <3>3
    <3> HIDE DEF S, ends
    <3> QED
      BY <1>1, <2>1, <2>3, <3>2, <3>4
  <2> QED
    BY <2>2, <2>3
<1> QED
  BY <1>0, <1>2, <1>3, <1>4 DEF tt

\* A reaction, if the Turn has one: to where the Persona fell silent before it.
Reaction(ts, t) == [at |-> t.uOffset, gap |-> Greater(0, t.uOffset - LastEnd(ts))]

\* Whether it is one.
Reacts(ts, t) == t.complete /\ t.uOffset # None /\ LastEnd(ts) # None

\* Any reaction there can be.
AnyReaction == [at: Int, gap: Int]

\* The reactions grow by it.
LEMMA ReactionsAppend ==
    ASSUME NEW ts \in Seq(AnyTurn), NEW t \in AnyTurn
    PROVE  /\ Reactions(ts) \in Seq(AnyReaction)
           /\ Reactions(Append(ts, t)) =
                 IF Reacts(ts, t) THEN Append(Reactions(ts), Reaction(ts, t)) ELSE Reactions(ts)
<1>0. PICK n \in Nat : n = Len(ts)
  BY LenProperties
<1> DEFINE tt == Append(ts, t)
           N == 1 .. n + 1
           ids == [k \in 1 .. n |-> k]
           more == [k \in 1 .. n + 1 |-> k]
           at == {k \in 1 .. n : Reacted(ts, k)}
           further == {k \in 1 .. n + 1 : Reacted(tt, k)}
           R(k) == [at |-> tt[k].uOffset, gap |-> Greater(0, tt[k].uOffset - Stopped(tt, k))]
           F == [k \in N |-> R(k)]
           p == Picks(ids, at)
           q == Picks(more, further)
<1>1. tt \in Seq(AnyTurn) /\ Len(tt) = n + 1 /\ tt[n + 1] = t /\ \A i \in 1 .. n : tt[i] = ts[i]
  BY <1>0, AppendProperties
<1>2. \A k \in 1 .. n + 1 : Stopped(tt, k) = Stopped(ts, k)
  BY <1>0, StoppedAppend
<1>2a. LastEnd(ts) = Stopped(ts, n + 1)
  BY <1>0 DEF LastEnd
<1> HIDE DEF tt
<1>3. ids \in Seq(N) /\ Len(ids) = n /\ more = Append(ids, n + 1)
  <2>1. ids \in [1 .. n -> N] /\ more \in [1 .. n + 1 -> N] /\ more[n + 1] = n + 1
    OBVIOUS
  <2>2. \A i \in 1 .. n : more[i] = ids[i]
    OBVIOUS
  <2> HIDE DEF ids, more, N
  <2> QED
    BY <2>1, <2>2, OneLonger
<1>4. \A k \in 1 .. n : Reacted(tt, k) <=> Reacted(ts, k)
  BY <1>1, <1>2 DEF Reacted
<1>5. Reacted(tt, n + 1) <=> Reacts(ts, t)
  BY <1>1, <1>2, <1>2a DEF Reacted, Reacts
<1>6. n + 1 \in further <=> Reacts(ts, t)
  BY <1>5
<1>7. \A i \in 1 .. n : i \in further <=> i \in at
  BY <1>4
<1>8. p \in Seq(N) /\ q = IF Reacts(ts, t) THEN Append(p, n + 1) ELSE p
  <2>1. n + 1 \in N
    OBVIOUS
  <2>2. p = Picks(ids, at) /\ q = Picks(more, further)
    OBVIOUS
  <2> HIDE DEF ids, more, at, further, N, p, q, F
  <2>3. \A i \in 1 .. Len(ids) : i \in further <=> i \in at
    BY <1>3, <1>7
  <2>4. PICK e \in N : e = n + 1
    BY <2>1
  <2>5. /\ Picks(ids, at) \in Seq(N)
        /\ Picks(Append(ids, e), further)
             = IF Len(ids) + 1 \in further THEN Append(Picks(ids, at), e) ELSE Picks(ids, at)
    BY <1>3, <2>3, PicksAppend
  <2> QED
    BY <1>3, <1>6, <2>2, <2>4, <2>5
<1>9. Only(ids, LAMBDA k : Reacted(ts, k)) = p
  <2>1. \A i \in 1 .. n : Reacted(ts, ids[i]) <=> i \in at
    OBVIOUS
  <2> HIDE DEF at
  <2>2. [i \in 1 .. n |-> IF Reacted(ts, ids[i]) THEN <<ids[i]>> ELSE <<>>]
           = [i \in 1 .. n |-> IF i \in at THEN <<ids[i]>> ELSE <<>>]
    BY <2>1
  <2> HIDE DEF ids
  <2> QED
    BY <1>3, <2>2 DEF Only, Picks
<1>10. Only(more, LAMBDA k : Reacted(tt, k)) = q
  <2>0. Len(more) = n + 1
    BY <1>3, AppendProperties
  <2>1. \A i \in 1 .. n + 1 : Reacted(tt, more[i]) <=> i \in further
    OBVIOUS
  <2> HIDE DEF further
  <2>2. [i \in 1 .. n + 1 |-> IF Reacted(tt, more[i]) THEN <<more[i]>> ELSE <<>>]
           = [i \in 1 .. n + 1 |-> IF i \in further THEN <<more[i]>> ELSE <<>>]
    BY <2>1
  <2> HIDE DEF more
  <2> QED
    BY <2>0, <2>2 DEF Only, Picks
<1>11. Maps(F, N, AnyReaction)
  <2>1. ASSUME NEW k \in N PROVE R(k) \in AnyReaction
    <3>1. tt[k] \in AnyTurn
      BY <1>1, ElementOfSeq
    <3>2. Stopped(tt, k) \in Int
      <4>1. CASE k = n + 1
        BY <1>2, <1>2a, <4>1, StoppedAppend
      <4>2. CASE k # n + 1
        <5>1. k \in 1 .. n
          BY <4>2
        <5> DEFINE S == {j \in 1 .. k - 1 : tt[j].pEnd > 0}
        <5>2. Stopped(tt, k) = IF S = {} THEN None ELSE tt[Max(S)].pEnd
          BY DEF Stopped
        <5>3. \A x \in S : x \in Int /\ x <= n
          BY <5>1
        <5>4. S # {} => Max(S) \in S
          <6> HIDE DEF S
          <6>1. S # {} => \E x \in S : \A y \in S : x >= y
            BY <1>0, <5>3, GreatestOf
          <6> QED
            BY <6>1 DEF Max
        <5>5. S # {} => Max(S) \in 1 .. n + 1
          BY <5>1, <5>4
        <5> HIDE DEF S
        <5>6. S # {} => tt[Max(S)] \in AnyTurn
          BY <1>1, <5>5, ElementOfSeq
        <5> QED
          BY <5>2, <5>6 DEF AnyTurn, None
      <4> QED
        BY <4>1, <4>2
    <3>3. PICK a \in Int, b \in Int : a = tt[k].uOffset /\ b = Stopped(tt, k)
      BY <3>1, <3>2 DEF AnyTurn
    <3>4. Greater(0, a - b) \in Int
      BY DEF Greater
    <3> QED
      BY <3>3, <3>4 DEF AnyReaction
  <2> HIDE DEF N
  <2> QED
    BY <2>1 DEF Maps
<1>12. Reactions(tt) = Mapped(F, q)
  <2>0. q \in Seq(N)
    <3>1. n + 1 \in N
      OBVIOUS
    <3> HIDE DEF p, q, N
    <3> QED
      BY <1>8, <3>1, AppendProperties
  <2>1. \A i \in 1 .. Len(q) : q[i] \in N
    BY <2>0, ElementOfSeq
  <2>2. Reactions(tt) = [i \in 1 .. Len(q) |-> R(q[i])]
    BY <1>1, <1>10 DEF Reactions
  <2> HIDE DEF q, N
  <2>3. \A i \in 1 .. Len(q) : R(q[i]) = F[q[i]]
    BY <2>1
  <2> QED
    BY <2>2, <2>3 DEF Mapped
<1>13. Reactions(ts) = Mapped(F, p)
  <2>0. p \in Seq(1 .. n)
    <3>1. ids \in Seq(1 .. n)
      <4>1. ids \in [1 .. n -> 1 .. n]
        OBVIOUS
      <4> HIDE DEF ids
      <4> QED
        BY <4>1, SeqDef
    <3>2. at \in SUBSET (1 .. Len(ids))
      BY <1>3
    <3> HIDE DEF ids, at
    <3> QED
      BY <3>1, <3>2, PicksKeepOrder
  <2>1. \A i \in 1 .. Len(p) : p[i] \in 1 .. n
    BY <2>0, ElementOfSeq
  <2>2. Reactions(ts) = [i \in 1 .. Len(p) |->
                           [at |-> ts[p[i]].uOffset,
                            gap |-> Greater(0, ts[p[i]].uOffset - Stopped(ts, p[i]))]]
    BY <1>0, <1>9 DEF Reactions
  <2> HIDE DEF p
  <2>3. ASSUME NEW i \in 1 .. Len(p)
        PROVE  [at |-> ts[p[i]].uOffset, gap |-> Greater(0, ts[p[i]].uOffset - Stopped(ts, p[i]))]
                  = F[p[i]]
    <3>1. p[i] \in 1 .. n /\ p[i] \in N
      BY <2>1
    <3>2. tt[p[i]] = ts[p[i]] /\ Stopped(tt, p[i]) = Stopped(ts, p[i])
      BY <1>1, <1>2, <3>1
    <3>3. F[p[i]] = R(p[i])
      BY <3>1
    <3> HIDE DEF F, N
    <3> QED
      BY <3>2, <3>3
  <2> HIDE DEF F
  <2> QED
    BY <2>2, <2>3 DEF Mapped
<1>14. n + 1 \in N /\ F[n + 1] = Reaction(ts, t)
  <2>1. F[n + 1] = R(n + 1)
    OBVIOUS
  <2>2. n + 1 \in 1 .. n + 1
    OBVIOUS
  <2> QED
    BY <1>1, <1>2, <1>2a, <2>1, <2>2 DEF Reaction
<1> HIDE DEF F, N, p, q
<1>15. /\ Mapped(F, p) \in Seq(AnyReaction)
       /\ Mapped(F, Append(p, n + 1)) = Append(Mapped(F, p), F[n + 1])
  BY <1>8, <1>11, <1>14, MappedAppend
<1> QED
  BY <1>8, <1>12, <1>13, <1>14, <1>15 DEF tt

-----------------------------------------------------------------------------
(* The facts of a call, and what its figures rest on.                       *)

\* What the figures of a stored call rest on.
Basis(call) ==
    [text |-> call.text, language |-> call.language, reverse |-> call.reverse,
     phonation |-> call.phonation, complete |-> call.complete, personaMs |-> call.personaMs,
     reactions |-> call.reactions, pauses |-> call.pauses, loudness |-> call.loudness,
     userTurns |-> call.userTurns]

\* They rest on nothing else.
LEMMA FiguresRestOnTheBasis ==
    ASSUME NEW call
    PROVE  LET basis == Basis(call) IN
           /\ TalkShare(call) = TalkShare(basis) /\ Questions(call) = Questions(basis)
           /\ Pace(call) = Pace(basis) /\ WordCount(call) = WordCount(basis)
           /\ Fillers(call) = Fillers(basis) /\ Opening(call) = Opening(basis)
           /\ Closing(call) = Closing(basis) /\ Repetitions(call) = Repetitions(basis)
           /\ ReactionTime(call) = ReactionTime(basis) /\ Pauses(call) = Pauses(basis)
           /\ PhonationShare(call) = PhonationShare(basis)
           /\ RunLength(call) = RunLength(basis) /\ Loudness(call) = Loudness(basis)
<1>1. TalkShare(call) = TalkShare(Basis(call)) /\ PhonationShare(call) = PhonationShare(Basis(call))
  BY DEF Basis, TalkShare, PhonationShare, Timed, SilenceFound, Voiced, PauseTotal
<1>2. Questions(call) = Questions(Basis(call)) /\ Fillers(call) = Fillers(Basis(call))
      /\ Pace(call) = Pace(Basis(call)) /\ Repetitions(call) = Repetitions(Basis(call))
  BY DEF Basis, Questions, Fillers, Pace, Repetitions, Timed, SilenceFound
<1>3. WordCount(call) = WordCount(Basis(call))
  BY DEF Basis, WordCount
<1>4. Opening(call) = Opening(Basis(call))
  BY DEF Basis, Opening, OpeningPace, Timed, SilenceFound
<1>5. Closing(call) = Closing(Basis(call))
  BY DEF Basis, Closing
<1>6. ReactionTime(call) = ReactionTime(Basis(call))
  BY DEF Basis, ReactionTime
<1>7. Pauses(call) = Pauses(Basis(call)) /\ RunLength(call) = RunLength(Basis(call))
  BY DEF Basis, Pauses, RunLength, SilenceFound, Timed, PauseTotal
<1>8. Loudness(call) = Loudness(Basis(call))
  BY DEF Basis, Loudness, SilenceFound
<1> QED
  BY <1>1, <1>2, <1>3, <1>4, <1>5, <1>6, <1>7, <1>8

\* What each Turn adds.
QuestionOf == [t \in AnyTurn |-> t.question]

\* How long it was voiced.
PhonationOf == [t \in AnyTurn |-> t.phonation]

\* Its pauses.
PausesOf == [t \in AnyTurn |-> t.pauses]

\* Its loudness.
LoudnessOf == [t \in AnyTurn |-> t.loudness]

\* How long the Persona was heard.
WindowOf == [t \in AnyTurn |-> SpanOrZero(t.pOffset, t.pEnd)]

\* What the opening and the closing are read off.
UserTurnOf == [t \in AnyTurn |-> <<t.question, t.phonation>>]

\* They are what they look like.
LEMMA WhatATurnAdds ==
    /\ Maps(QuestionOf, AnyTurn, Seq(STRING)) /\ Maps(PhonationOf, AnyTurn, Int)
    /\ Maps(PausesOf, AnyTurn, Seq(Int \X Int)) /\ Maps(LoudnessOf, AnyTurn, Seq(Nat))
    /\ Maps(WindowOf, AnyTurn, Int) /\ Maps(UserTurnOf, AnyTurn, Seq(STRING) \X Int)
<1>1. ASSUME NEW t \in AnyTurn
      PROVE  /\ t.question \in Seq(STRING) /\ t.phonation \in Int
             /\ t.pauses \in Seq(Int \X Int) /\ t.loudness \in Seq(Nat)
             /\ SpanOrZero(t.pOffset, t.pEnd) \in Int
  <2>1. PICK a \in Int, b \in Int : a = t.pOffset /\ b = t.pEnd
    BY DEF AnyTurn
  <2>2. SpanOrZero(a, b) \in Int
    BY DEF SpanOrZero, Span, Greater, None
  <2> QED
    BY <2>1, <2>2 DEF AnyTurn
<1> QED
  BY <1>1 DEF Maps, QuestionOf, PhonationOf, PausesOf, LoudnessOf, WindowOf, UserTurnOf

\* What a call amounts to, and where the Persona fell silent last.
Facts0(ts) ==
    [text |-> FlattenSeq(Mapped(QuestionOf, Asked(ts))),
     phonation |-> Total(Mapped(PhonationOf, ts)),
     complete |-> \A i \in 1 .. Len(Asked(ts)) : Asked(ts)[i].complete,
     personaMs |-> Total(Mapped(WindowOf, Answered(ts))),
     reactions |-> Reactions(ts),
     pauses |-> FlattenSeq(Mapped(PausesOf, ts)),
     loudness |-> FlattenSeq(Mapped(LoudnessOf, ts)),
     userTurns |-> Mapped(UserTurnOf, Asked(ts)),
     silent |-> LastEnd(ts)]

\* Any such facts.
AnyFacts ==
    [text: Seq(STRING), phonation: Int, complete: BOOLEAN, personaMs: Int,
     reactions: Seq(AnyReaction), pauses: Seq(Int \X Int), loudness: Seq(Nat),
     userTurns: Seq(Seq(STRING) \X Int), silent: Int]

\* After one Turn more.
Further(k, t) ==
    [text |-> k.text \o t.question,
     phonation |-> k.phonation + t.phonation,
     complete |-> k.complete /\ (t.question = <<>> \/ t.complete),
     personaMs |-> k.personaMs + IF t.reply = 0 THEN 0 ELSE SpanOrZero(t.pOffset, t.pEnd),
     reactions |-> IF t.complete /\ t.uOffset # None /\ k.silent # None
                   THEN Append(k.reactions, [at |-> t.uOffset, gap |-> Greater(0, t.uOffset - k.silent)])
                   ELSE k.reactions,
     pauses |-> k.pauses \o t.pauses,
     loudness |-> k.loudness \o t.loudness,
     userTurns |-> IF t.question = <<>> THEN k.userTurns
                   ELSE Append(k.userTurns, <<t.question, t.phonation>>),
     silent |-> IF t.pEnd > 0 THEN t.pEnd ELSE k.silent]

\* The facts of a call grow with each Turn.
LEMMA FactsGrow ==
    ASSUME NEW ts \in Seq(AnyTurn), NEW t \in AnyTurn
    PROVE  /\ Facts0(ts) \in AnyFacts
           /\ Facts0(Append(ts, t)) = Further(Facts0(ts), t)
<1> DEFINE tt == Append(ts, t)
           a == Asked(ts)
           b == Answered(ts)
<1>1. a \in Seq(AnyTurn) /\ Asked(tt) = IF t.question # <<>> THEN Append(a, t) ELSE a
  BY AskedAppend
<1>2. b \in Seq(AnyTurn) /\ Answered(tt) = IF t.reply # 0 THEN Append(b, t) ELSE b
  BY AnsweredAppend
<1> HIDE DEF tt, a, b
<1>3. /\ FlattenSeq(Mapped(QuestionOf, a)) \in Seq(STRING)
      /\ FlattenSeq(Mapped(QuestionOf, Append(a, t))) = FlattenSeq(Mapped(QuestionOf, a)) \o t.question
  <2> DEFINE W == STRING
  <2>1. QuestionOf[t] = t.question
    BY DEF QuestionOf
  <2>0. Maps(QuestionOf, AnyTurn, Seq(W))
    BY WhatATurnAdds
  <2> HIDE DEF W
  <2>2. /\ FlattenSeq(Mapped(QuestionOf, a)) \in Seq(W)
        /\ FlattenSeq(Mapped(QuestionOf, Append(a, t))) = FlattenSeq(Mapped(QuestionOf, a)) \o QuestionOf[t]
    <3>1. ASSUME NEW s \in Seq(AnyTurn)
          PROVE  /\ FlattenSeq(Mapped(QuestionOf, s)) \in Seq(W)
                 /\ FlattenSeq(Mapped(QuestionOf, Append(s, t)))
                      = FlattenSeq(Mapped(QuestionOf, s)) \o QuestionOf[t]
      BY <2>0, FlattenMapped
    <3>2. a \in Seq(AnyTurn)
      BY <1>1
    <3> QED
      BY <3>1, <3>2
  <2> QED
    BY <2>1, <2>2 DEF W
<1>4. FlattenSeq(Mapped(QuestionOf, Asked(tt))) = FlattenSeq(Mapped(QuestionOf, a)) \o t.question
  <2>1. CASE t.question = <<>>
    BY <1>1, <1>3, <2>1, ConcatEmptySeq
  <2>2. CASE t.question # <<>>
    BY <1>1, <1>3, <2>2
  <2> QED
    BY <2>1, <2>2
<1>5. /\ Total(Mapped(PhonationOf, ts)) \in Int
      /\ Total(Mapped(PhonationOf, tt)) = Total(Mapped(PhonationOf, ts)) + t.phonation
  <2>1. PhonationOf[t] = t.phonation
    BY DEF PhonationOf
  <2> QED
    BY <2>1, WhatATurnAdds, TotalMapped DEF tt
<1>6. /\ FlattenSeq(Mapped(PausesOf, ts)) \in Seq(Int \X Int)
      /\ FlattenSeq(Mapped(PausesOf, tt)) = FlattenSeq(Mapped(PausesOf, ts)) \o t.pauses
  <2> DEFINE W == Int \X Int
  <2>1. PausesOf[t] = t.pauses
    BY DEF PausesOf
  <2>0. Maps(PausesOf, AnyTurn, Seq(W))
    BY WhatATurnAdds
  <2> HIDE DEF W
  <2>2. /\ FlattenSeq(Mapped(PausesOf, ts)) \in Seq(W)
        /\ FlattenSeq(Mapped(PausesOf, Append(ts, t))) = FlattenSeq(Mapped(PausesOf, ts)) \o PausesOf[t]
    BY <2>0, FlattenMapped
  <2> QED
    BY <2>1, <2>2 DEF W, tt
<1>7. /\ FlattenSeq(Mapped(LoudnessOf, ts)) \in Seq(Nat)
      /\ FlattenSeq(Mapped(LoudnessOf, tt)) = FlattenSeq(Mapped(LoudnessOf, ts)) \o t.loudness
  <2> DEFINE W == Nat
  <2>1. LoudnessOf[t] = t.loudness
    BY DEF LoudnessOf
  <2>0. Maps(LoudnessOf, AnyTurn, Seq(W))
    BY WhatATurnAdds
  <2> HIDE DEF W
  <2>2. /\ FlattenSeq(Mapped(LoudnessOf, ts)) \in Seq(W)
        /\ FlattenSeq(Mapped(LoudnessOf, Append(ts, t))) = FlattenSeq(Mapped(LoudnessOf, ts)) \o LoudnessOf[t]
    BY <2>0, FlattenMapped
  <2> QED
    BY <2>1, <2>2 DEF W, tt
<1>8. /\ Mapped(UserTurnOf, a) \in Seq(Seq(STRING) \X Int)
      /\ Mapped(UserTurnOf, Append(a, t)) = Append(Mapped(UserTurnOf, a), <<t.question, t.phonation>>)
  <2> DEFINE W == Seq(STRING) \X Int
  <2>1. UserTurnOf[t] = <<t.question, t.phonation>> /\ Maps(UserTurnOf, AnyTurn, W)
    BY WhatATurnAdds DEF UserTurnOf
  <2> HIDE DEF W
  <2>2. /\ Mapped(UserTurnOf, a) \in Seq(W)
        /\ Mapped(UserTurnOf, Append(a, t)) = Append(Mapped(UserTurnOf, a), UserTurnOf[t])
    BY <1>1, <2>1, MappedAppend
  <2> QED
    BY <2>1, <2>2 DEF W
<1>9. /\ Total(Mapped(WindowOf, b)) \in Int
      /\ Total(Mapped(WindowOf, Append(b, t))) = Total(Mapped(WindowOf, b)) + SpanOrZero(t.pOffset, t.pEnd)
  <2>1. WindowOf[t] = SpanOrZero(t.pOffset, t.pEnd)
    BY DEF WindowOf
  <2> QED
    BY <1>2, <2>1, WhatATurnAdds, TotalMapped
<1>10. Total(Mapped(WindowOf, Answered(tt)))
         = Total(Mapped(WindowOf, b)) + IF t.reply = 0 THEN 0 ELSE SpanOrZero(t.pOffset, t.pEnd)
  <2>1. CASE t.reply = 0
    BY <1>2, <1>9, <2>1
  <2>2. CASE t.reply # 0
    BY <1>2, <1>9, <2>2
  <2> QED
    BY <2>1, <2>2
<1>11. (\A i \in 1 .. Len(Asked(tt)) : Asked(tt)[i].complete)
         <=> (\A i \in 1 .. Len(a) : a[i].complete) /\ (t.question = <<>> \/ t.complete)
  <2>1. CASE t.question = <<>>
    BY <1>1, <2>1
  <2>2. CASE t.question # <<>>
    <3>0. PICK n \in Nat : n = Len(a)
      BY <1>1, LenProperties
    <3> DEFINE c == Append(a, t)
    <3>1. Len(c) = n + 1 /\ c[n + 1] = t /\ \A i \in 1 .. n : c[i] = a[i]
      BY <1>1, <3>0, AppendProperties
    <3> HIDE DEF c
    <3>2. (\A i \in 1 .. n + 1 : c[i].complete) <=> (\A i \in 1 .. n : a[i].complete) /\ t.complete
      <4>1. ASSUME \A i \in 1 .. n + 1 : c[i].complete
            PROVE  (\A i \in 1 .. n : a[i].complete) /\ t.complete
        <5>1. n + 1 \in 1 .. n + 1 /\ \A i \in 1 .. n : i \in 1 .. n + 1
          OBVIOUS
        <5> QED
          BY <3>1, <4>1, <5>1
      <4>2. ASSUME \A i \in 1 .. n : a[i].complete, t.complete, NEW i \in 1 .. n + 1
            PROVE  c[i].complete
        <5>1. i \in 1 .. n \/ i = n + 1
          OBVIOUS
        <5> QED
          BY <3>1, <4>2, <5>1
      <4> QED
        BY <4>1, <4>2
    <3>3. Asked(tt) = c
      BY <1>1, <2>2 DEF c
    <3> QED
      BY <2>2, <3>0, <3>1, <3>2, <3>3
  <2> QED
    BY <2>1, <2>2
<1>12. /\ Reactions(ts) \in Seq(AnyReaction)
       /\ Reactions(tt) = IF Reacts(ts, t) THEN Append(Reactions(ts), Reaction(ts, t)) ELSE Reactions(ts)
  BY ReactionsAppend DEF tt
<1>13. LastEnd(ts) \in Int /\ LastEnd(tt) = IF t.pEnd > 0 THEN t.pEnd ELSE LastEnd(ts)
  BY StoppedAppend DEF tt
<1>14. Facts0(ts) \in AnyFacts
  BY <1>3, <1>5, <1>6, <1>7, <1>8, <1>9, <1>12, <1>13 DEF Facts0, AnyFacts, a, b
<1>15. Facts0(tt) = Further(Facts0(ts), t)
  <2> DEFINE k == Facts0(ts)
             n == Facts0(tt)
  <2>1. /\ k.text = FlattenSeq(Mapped(QuestionOf, a)) /\ k.phonation = Total(Mapped(PhonationOf, ts))
        /\ k.complete = (\A i \in 1 .. Len(a) : a[i].complete)
        /\ k.personaMs = Total(Mapped(WindowOf, b)) /\ k.reactions = Reactions(ts)
        /\ k.pauses = FlattenSeq(Mapped(PausesOf, ts)) /\ k.loudness = FlattenSeq(Mapped(LoudnessOf, ts))
        /\ k.userTurns = Mapped(UserTurnOf, a) /\ k.silent = LastEnd(ts)
    BY DEF Facts0, a, b
  <2>2. n = [text |-> k.text \o t.question, phonation |-> k.phonation + t.phonation,
             complete |-> \A i \in 1 .. Len(Asked(tt)) : Asked(tt)[i].complete,
             personaMs |-> Total(Mapped(WindowOf, Answered(tt))), reactions |-> Reactions(tt),
             pauses |-> k.pauses \o t.pauses, loudness |-> k.loudness \o t.loudness,
             userTurns |-> Mapped(UserTurnOf, Asked(tt)), silent |-> LastEnd(tt)]
    <3> HIDE DEF k
    <3> QED
      BY <1>4, <1>5, <1>6, <1>7, <2>1 DEF Facts0
  <2> HIDE DEF k, n
  <2>3. (\A i \in 1 .. Len(Asked(tt)) : Asked(tt)[i].complete)
           = (k.complete /\ (t.question = <<>> \/ t.complete))
    BY <1>11, <2>1, Zenon
  <2>4. Total(Mapped(WindowOf, Answered(tt)))
           = k.personaMs + IF t.reply = 0 THEN 0 ELSE SpanOrZero(t.pOffset, t.pEnd)
    BY <1>10, <2>1
  <2>5. Reactions(tt) = IF t.complete /\ t.uOffset # None /\ k.silent # None
                   THEN Append(k.reactions, [at |-> t.uOffset, gap |-> Greater(0, t.uOffset - k.silent)])
                   ELSE k.reactions
    BY <1>12, <2>1 DEF Reacts, Reaction
  <2>6. Mapped(UserTurnOf, Asked(tt)) = IF t.question = <<>> THEN k.userTurns
                   ELSE Append(k.userTurns, <<t.question, t.phonation>>)
    BY <1>1, <1>8, <2>1
  <2>7. LastEnd(tt) = IF t.pEnd > 0 THEN t.pEnd ELSE k.silent
    BY <1>13, <2>1
  <2>8. n = Further(k, t)
    BY <2>2, <2>3, <2>4, <2>5, <2>6, <2>7, Zenon DEF Further
  <2> QED
    BY <2>8 DEF k, n
<1> QED
  BY <1>14, <1>15 DEF tt

\* Of no Turns.
LEMMA NoFacts ==
    Facts0(<<>>) = [text |-> <<>>, phonation |-> 0, complete |-> TRUE, personaMs |-> 0,
                    reactions |-> <<>>, pauses |-> <<>>, loudness |-> <<>>, userTurns |-> <<>>,
                    silent |-> None]
<1>1. Asked(<<>>) = <<>> /\ Answered(<<>>) = <<>> /\ Len(<<>>) = 0
  BY FlattenEmpty, EmptySeq DEF Asked, Answered, Only
<1>2. Total(<<>>) = 0
  <2>1. <<>> \in Seq(Int) /\ 0 \in Int
    BY EmptySeq
  <2> QED
    BY <2>1, TotalAppend
<1>3. Reactions(<<>>) = <<>>
  BY <1>1, FlattenEmpty DEF Reactions, Only
<1>4. LastEnd(<<>>) = None
  BY <1>1 DEF LastEnd, Stopped
<1>5. /\ Mapped(QuestionOf, <<>>) = <<>> /\ Mapped(PhonationOf, <<>>) = <<>>
      /\ Mapped(PausesOf, <<>>) = <<>> /\ Mapped(LoudnessOf, <<>>) = <<>>
      /\ Mapped(WindowOf, <<>>) = <<>> /\ Mapped(UserTurnOf, <<>>) = <<>>
  BY MappedEmpty
<1>6. \A i \in 1 .. Len(Asked(<<>>)) : Asked(<<>>)[i].complete
  BY <1>1
<1> QED
  BY <1>1, <1>2, <1>3, <1>4, <1>5, <1>6, FlattenEmpty, Zenon DEF Facts0

\* The figures of a call rest on its facts.
LEMMA BasisOfACall ==
    ASSUME NEW ts \in Seq(AnyTurn), NEW language, NEW reversed
    PROVE  LET k == Facts0(ts) IN
           Basis(Conversation(ts, language, reversed)) =
              [text |-> k.text, language |-> language, reverse |-> reversed,
               phonation |-> k.phonation, complete |-> k.complete, personaMs |-> k.personaMs,
               reactions |-> k.reactions, pauses |-> k.pauses, loudness |-> k.loudness,
               userTurns |-> k.userTurns]
<1> DEFINE a == Asked(ts)
           b == Answered(ts)
<1>0. /\ a = Only(ts, LAMBDA t : t.question # <<>>) /\ b = Only(ts, LAMBDA t : t.reply # 0)
  BY DEF Asked, Answered
<1>1. a \in Seq(AnyTurn) /\ b \in Seq(AnyTurn)
  <2>1. \E t : t \in AnyTurn
    <3>1. NewTurn \in AnyTurn
      BY NewTurnPlaced
    <3> QED
      BY <3>1
  <2> QED
    BY <2>1, AskedAppend, AnsweredAppend
<1> HIDE DEF a, b
<1>2. /\ \A i \in 1 .. Len(a) : a[i] \in AnyTurn
      /\ \A i \in 1 .. Len(b) : b[i] \in AnyTurn
      /\ \A i \in 1 .. Len(ts) : ts[i] \in AnyTurn
  BY <1>1, ElementOfSeq
<1>3. /\ [i \in 1 .. Len(a) |-> a[i].question] = Mapped(QuestionOf, a)
      /\ [i \in 1 .. Len(a) |-> <<a[i].question, a[i].phonation>>] = Mapped(UserTurnOf, a)
      /\ [k \in 1 .. Len(ts) |-> ts[k].phonation] = Mapped(PhonationOf, ts)
      /\ [k \in 1 .. Len(ts) |-> ts[k].pauses] = Mapped(PausesOf, ts)
      /\ [k \in 1 .. Len(ts) |-> ts[k].loudness] = Mapped(LoudnessOf, ts)
      /\ [i \in 1 .. Len(b) |-> SpanOrZero(b[i].pOffset, b[i].pEnd)] = Mapped(WindowOf, b)
  BY <1>2 DEF Mapped, QuestionOf, UserTurnOf, PhonationOf, PausesOf, LoudnessOf, WindowOf
<1> DEFINE c == Conversation(ts, language, reversed)
<1>4. /\ c.text = FlattenSeq([i \in 1 .. Len(a) |-> a[i].question])
      /\ c.phonation = Total([k \in 1 .. Len(ts) |-> ts[k].phonation])
      /\ c.complete = (\A i \in 1 .. Len(a) : a[i].complete)
      /\ c.personaMs = Total([i \in 1 .. Len(b) |-> SpanOrZero(b[i].pOffset, b[i].pEnd)])
      /\ c.pauses = FlattenSeq([k \in 1 .. Len(ts) |-> ts[k].pauses])
      /\ c.loudness = FlattenSeq([k \in 1 .. Len(ts) |-> ts[k].loudness])
      /\ c.userTurns = [i \in 1 .. Len(a) |-> <<a[i].question, a[i].phonation>>]
      /\ c.language = language /\ c.reverse = reversed /\ c.reactions = Reactions(ts)
  BY <1>0 DEF Conversation
<1> HIDE DEF c
<1> QED
  BY <1>3, <1>4 DEF Basis, Facts0, a, b, c

-----------------------------------------------------------------------------
(* A call stored and read back.                                             *)

\* A Turn as its rows hold it: a window has both ends, only what was said was measured, and
\* what counts as measured in full has a place and a length.
Whole(t) ==
    /\ t.pOffset = None <=> t.pEnd = None
    /\ t.pOffset >= None /\ t.uOffset >= None /\ t.pEnd >= t.pOffset
    /\ t.question = <<>> => /\ t.uOffset = None /\ t.phonation = 0
                            /\ t.pauses = <<>> /\ t.loudness = <<>>
    /\ t.question # <<>> /\ t.complete => t.uOffset # None /\ t.speech > 0
    /\ 0 <= t.phonation /\ t.phonation <= t.speech

\* An utterance stored and read back.
Reread(u) == Exchange(StoredRow(u))

\* What the user said comes back with what was measured of it.
LEMMA UserLineRereads ==
    ASSUME NEW t \in AnyTurn
    PROVE  LET a == Reread(UserLine(t)) IN
           /\ a \in AnyTurn
           /\ a.question = t.question /\ a.reply = 0
           /\ a.pOffset = None /\ a.pEnd = None
           /\ Whole(t) /\ t.question # <<>> =>
                 /\ a.complete = t.complete /\ (t.complete => a.uOffset = t.uOffset)
                 /\ a.phonation = t.phonation /\ a.pauses = t.pauses /\ a.loudness = t.loudness
<1> DEFINE r == StoredRow(UserLine(t))
           o == Greater(0, t.uOffset)
           d == Span(t.uOffset, t.uEnd)
           end == IF d = None THEN None ELSE o + d
<1>1. PICK p \in Int, q \in Int : p = t.uOffset /\ q = t.uEnd
  BY DEF AnyTurn
<1>2. o \in Int /\ d \in Int /\ end \in Int
  <2>1. Greater(0, p) \in Int /\ Span(p, q) \in Int
    BY DEF Greater, Span, None
  <2> QED
    BY <1>1, <2>1 DEF None
<1>3. /\ r.speaker = "user" /\ r.text = t.question /\ r.offset = o /\ r.duration = d
      /\ r.facts = Facts(t)
  BY DEF StoredRow, UserLine
<1>4. RowEnd(r) = end
  BY <1>3 DEF RowEnd
<1>5. r.speaker # "persona"
  BY <1>3
<1> HIDE DEF r, o, d, end
<1> DEFINE n == [NewTurn EXCEPT !.question = t.question, !.uOffset = o, !.uEnd = end]
<1>6. [NewTurn EXCEPT !.question = r.text, !.uOffset = r.offset, !.uEnd = RowEnd(r)] = n
  BY <1>3, <1>4
<1>7. /\ n \in AnyTurn /\ n.question = t.question /\ n.uOffset = o
      /\ n.reply = 0 /\ n.pOffset = None /\ n.pEnd = None
      /\ n.phonation = 0 /\ n.pauses = <<>> /\ n.loudness = <<>>
  <2> DEFINE w == NewTurn
  <2>1. /\ w \in AnyTurn /\ w.reply = 0 /\ w.pOffset = None /\ w.pEnd = None
        /\ w.phonation = 0 /\ w.pauses = <<>> /\ w.loudness = <<>>
    BY NewTurnPlaced DEF NewTurn
  <2> HIDE DEF w
  <2>2. n = [w EXCEPT !.question = t.question, !.uOffset = o, !.uEnd = end]
    BY DEF w
  <2> HIDE DEF n
  <2>3. t.question \in Seq(STRING)
    BY DEF AnyTurn
  <2> QED
    BY <1>2, <2>1, <2>2, <2>3 DEF AnyTurn
<1> HIDE DEF n
<1>8. CASE Facts(t) = {}
  <2> DEFINE x == [n EXCEPT !.complete = FALSE]
  <2>1. Reread(UserLine(t)) = x
    BY <1>3, <1>5, <1>6, <1>8 DEF Exchange, Reread, r
  <2>2. /\ x \in AnyTurn /\ x.question = t.question /\ x.uOffset = o
        /\ x.reply = 0 /\ x.pOffset = None /\ x.pEnd = None
        /\ x.phonation = 0 /\ x.pauses = <<>> /\ x.loudness = <<>> /\ x.complete = FALSE
    BY <1>7 DEF AnyTurn
  <2>4. t.speech = 0 /\ t.loudness = <<>> /\ t.pauses = <<>>
    BY <1>8 DEF Facts
  <2>5. ASSUME Whole(t), t.question # <<>>
        PROVE  t.complete = FALSE /\ t.phonation = 0
    <3>1. PICK m \in Int, s \in Int : m = t.phonation /\ s = t.speech
      BY DEF AnyTurn
    <3>2. 0 <= m /\ m <= s /\ s = 0
      BY <2>4, <2>5, <3>1 DEF Whole
    <3>3. m = 0
      BY <3>2
    <3>4. ~ t.complete
      BY <2>4, <2>5 DEF Whole
    <3> QED
      BY <3>1, <3>3, <3>4 DEF AnyTurn
  <2> HIDE DEF x
  <2> QED
    BY <2>1, <2>2, <2>4, <2>5
<1>9. CASE Facts(t) # {}
  <2>1. Facts(t) = {Measured(t)}
    BY <1>9 DEF Facts
  <2>2. (CHOOSE g \in r.facts : TRUE) = Measured(t)
    BY <1>3, <2>1
  <2> DEFINE f == Measured(t)
             x == [n EXCEPT !.speech = f.speech, !.phonation = f.phonation,
                            !.complete = f.complete, !.pauses = f.pauses, !.loudness = f.loudness]
  <2>3. Reread(UserLine(t)) = x
    BY <1>3, <1>5, <1>6, <1>9, <2>2 DEF Exchange, Reread, r
  <2>4. /\ f.speech = t.speech /\ f.phonation = t.phonation /\ f.complete = t.complete
        /\ f.pauses = t.pauses /\ f.loudness = t.loudness
    BY DEF Measured
  <2> HIDE DEF f
  <2>5. /\ f.speech \in Int /\ f.phonation \in Int /\ f.complete \in BOOLEAN
        /\ f.pauses \in Seq(Int \X Int) /\ f.loudness \in Seq(Nat)
    BY <2>4 DEF AnyTurn
  <2>6. /\ x \in AnyTurn /\ x.question = t.question /\ x.uOffset = o
        /\ x.reply = 0 /\ x.pOffset = None /\ x.pEnd = None
        /\ x.phonation = f.phonation /\ x.pauses = f.pauses /\ x.loudness = f.loudness
        /\ x.complete = f.complete
    BY <1>7, <2>5 DEF AnyTurn
  <2>7. ASSUME Whole(t), t.question # <<>>, t.complete PROVE o = t.uOffset
    <3>1. p # None /\ p >= None
      BY <1>1, <2>7 DEF Whole
    <3>2. Greater(0, p) = p
      BY <3>1 DEF Greater, None
    <3> QED
      BY <1>1, <3>2 DEF o
  <2> HIDE DEF x
  <2> QED
    BY <2>3, <2>4, <2>6, <2>7
<1> QED
  BY <1>8, <1>9

\* What the Persona said comes back with its window.
LEMMA PersonaLineRereads ==
    ASSUME NEW t \in AnyTurn
    PROVE  LET b == Reread(PersonaLine(t)) IN
           /\ b \in AnyTurn
           /\ b.question = <<>> /\ b.reply = t.reply /\ b.uOffset = None /\ b.complete
           /\ b.phonation = 0 /\ b.pauses = <<>> /\ b.loudness = <<>>
           /\ Whole(t) => /\ SpanOrZero(b.pOffset, b.pEnd) = SpanOrZero(t.pOffset, t.pEnd)
                          /\ b.pEnd = t.pEnd
<1> DEFINE r == StoredRow(PersonaLine(t))
           o == Greater(0, t.pOffset)
           d == Span(t.pOffset, t.pEnd)
           end == IF d = None THEN None ELSE o + d
           x == [question |-> <<>>, reply |-> t.reply, interrupted |-> FALSE,
                 uOffset |-> None, uEnd |-> None, pOffset |-> o, pEnd |-> end,
                 pDispatched |-> None, speech |-> 0, phonation |-> 0, complete |-> TRUE,
                 pauses |-> <<>>, loudness |-> <<>>, pitch |-> <<>>]
<1>1. PICK p \in Int, q \in Int : p = t.pOffset /\ q = t.pEnd
  BY DEF AnyTurn
<1>2. o \in Int /\ d \in Int /\ end \in Int
  <2>1. Greater(0, p) \in Int /\ Span(p, q) \in Int
    BY DEF Greater, Span, None
  <2> QED
    BY <1>1, <2>1 DEF None
<1>3. /\ r.speaker = "persona" /\ r.text = <<t.reply>> /\ r.offset = o /\ r.duration = d
  BY DEF StoredRow, PersonaLine
<1>4. RowEnd(r) = end /\ r.text[1] = t.reply
  BY <1>3 DEF RowEnd
<1>5. Exchange(r) = [NewTurn EXCEPT !.reply = t.reply, !.pOffset = o, !.pEnd = end]
  <2> HIDE DEF r, o, d, end
  <2> QED
    BY <1>3, <1>4 DEF Exchange
<1>6. Reread(PersonaLine(t)) = x
  <2> HIDE DEF o, d, end
  <2> QED
    BY <1>5 DEF Reread, NewTurn
<1>7. x \in AnyTurn
  <2>1. <<>> \in Seq(STRING) /\ <<>> \in Seq(Int \X Int) /\ <<>> \in Seq(Nat) /\ <<>> \in Seq(Int)
    BY EmptySeq
  <2> HIDE DEF o, d, end
  <2> QED
    BY <1>2, <2>1 DEF AnyTurn, None
<1>8. ASSUME Whole(t) PROVE end = t.pEnd /\ SpanOrZero(o, end) = SpanOrZero(t.pOffset, t.pEnd)
  <2>1. (p = None <=> q = None) /\ p >= None /\ q >= p
    BY <1>1, <1>8 DEF Whole
  <2>2. CASE p = None
    <3>1. q = None /\ d = None /\ end = None
      BY <1>1, <2>1, <2>2 DEF Span
    <3>2. Span(o, end) = None /\ Span(t.pOffset, t.pEnd) = None
      BY <1>1, <3>1 DEF Span
    <3> QED
      BY <1>1, <3>1, <3>2 DEF SpanOrZero
  <2>3. CASE p # None
    <3>1. p \in Nat /\ q \in Nat /\ q >= p
      BY <2>1, <2>3 DEF None
    <3>2. Greater(0, p) = p /\ Span(p, q) = q - p /\ q - p # None
      BY <3>1 DEF Greater, Span, None
    <3>3. o = p /\ d = q - p /\ p + (q - p) = q
      BY <1>1, <3>1, <3>2
    <3>4. end = q
      BY <3>2, <3>3
    <3> QED
      BY <1>1, <3>3, <3>4
  <2> QED
    BY <2>2, <2>3
<1> HIDE DEF o, d, end
<1> QED
  BY <1>6, <1>7, <1>8

\* A Turn's rows folded after what came before it.
Through(k, t) ==
    LET asked == IF t.question = <<>> THEN k ELSE Further(k, Reread(UserLine(t))) IN
    IF t.reply = 0 THEN asked ELSE Further(asked, Reread(PersonaLine(t)))

\* They add what the Turn adds, but where a reply nobody heard fell silent.
SilentAt(k, at) ==
    [text |-> k.text, phonation |-> k.phonation, complete |-> k.complete,
     personaMs |-> k.personaMs, reactions |-> k.reactions, pauses |-> k.pauses,
     loudness |-> k.loudness, userTurns |-> k.userTurns, silent |-> at]

\* Read back, the facts of a Turn are its own, but for where a reply nobody heard fell silent.
LEMMA ThroughTheRows ==
    ASSUME NEW t \in AnyTurn, Whole(t), NEW k \in AnyFacts
    PROVE  Through(k, t) = SilentAt(Further(k, t), IF t.reply = 0 THEN k.silent ELSE Further(k, t).silent)
<1> DEFINE a == Reread(UserLine(t))
           b == Reread(PersonaLine(t))
           asked == IF t.question = <<>> THEN k ELSE Further(k, a)
<1>1. /\ a.question = t.question /\ a.reply = 0 /\ a.pEnd = None
      /\ t.question # <<>> =>
            /\ a.complete = t.complete /\ (t.complete => a.uOffset = t.uOffset)
            /\ a.phonation = t.phonation /\ a.pauses = t.pauses /\ a.loudness = t.loudness
  BY UserLineRereads
<1>2. /\ b.question = <<>> /\ b.reply = t.reply /\ b.uOffset = None /\ b.complete
      /\ b.phonation = 0 /\ b.pauses = <<>> /\ b.loudness = <<>>
      /\ SpanOrZero(b.pOffset, b.pEnd) = SpanOrZero(t.pOffset, t.pEnd) /\ b.pEnd = t.pEnd
  BY PersonaLineRereads
<1>3. /\ k = [text |-> k.text, phonation |-> k.phonation, complete |-> k.complete,
              personaMs |-> k.personaMs, reactions |-> k.reactions, pauses |-> k.pauses,
              loudness |-> k.loudness, userTurns |-> k.userTurns, silent |-> k.silent]
      /\ k.text \in Seq(STRING) /\ k.phonation \in Int /\ k.complete \in BOOLEAN
      /\ k.personaMs \in Int /\ k.pauses \in Seq(Int \X Int) /\ k.loudness \in Seq(Nat)
      /\ k.silent \in Int
  BY DEF AnyFacts
<1>4. /\ t.question \in Seq(STRING) /\ t.phonation \in Int /\ t.complete \in BOOLEAN
      /\ t.pauses \in Seq(Int \X Int) /\ t.loudness \in Seq(Nat) /\ t.pEnd \in Int
      /\ SpanOrZero(t.pOffset, t.pEnd) \in Int
  <2>1. PICK p \in Int, q \in Int : p = t.pOffset /\ q = t.pEnd
    BY DEF AnyTurn
  <2>2. SpanOrZero(p, q) \in Int
    BY DEF SpanOrZero, Span, Greater, None
  <2> QED
    BY <2>1, <2>2 DEF AnyTurn
<1>5. /\ t.question = <<>> => /\ t.uOffset = None /\ t.phonation = 0
                              /\ t.pauses = <<>> /\ t.loudness = <<>>
  BY DEF Whole
<1> HIDE DEF a, b
<1>6. /\ \A s \in Seq(STRING) : s \o <<>> = s
      /\ \A s \in Seq(Int \X Int) : s \o <<>> = s
      /\ \A s \in Seq(Nat) : s \o <<>> = s
  BY ConcatEmptySeq
<1> DEFINE full == Further(k, t)
           heard == SpanOrZero(t.pOffset, t.pEnd)
           reactions == IF t.complete /\ t.uOffset # None /\ k.silent # None
                        THEN Append(k.reactions, [at |-> t.uOffset, gap |-> Greater(0, t.uOffset - k.silent)])
                        ELSE k.reactions
           userTurns == IF t.question = <<>> THEN k.userTurns
                        ELSE Append(k.userTurns, <<t.question, t.phonation>>)
           m == [text |-> k.text \o t.question, phonation |-> k.phonation + t.phonation,
                 complete |-> k.complete /\ (t.question = <<>> \/ t.complete),
                 personaMs |-> k.personaMs, reactions |-> reactions,
                 pauses |-> k.pauses \o t.pauses, loudness |-> k.loudness \o t.loudness,
                 userTurns |-> userTurns, silent |-> k.silent]
<1>7. full = [text |-> k.text \o t.question, phonation |-> k.phonation + t.phonation,
              complete |-> k.complete /\ (t.question = <<>> \/ t.complete),
              personaMs |-> k.personaMs + IF t.reply = 0 THEN 0 ELSE heard, reactions |-> reactions,
              pauses |-> k.pauses \o t.pauses, loudness |-> k.loudness \o t.loudness,
              userTurns |-> userTurns, silent |-> IF t.pEnd > 0 THEN t.pEnd ELSE k.silent]
  BY Zenon DEF Further
<1>8. asked = m
  <2>1. CASE t.question = <<>>
    <3>1. /\ k.text \o t.question = k.text /\ k.phonation + t.phonation = k.phonation
          /\ (k.complete /\ (t.question = <<>> \/ t.complete)) = k.complete
          /\ reactions = k.reactions /\ k.pauses \o t.pauses = k.pauses
          /\ k.loudness \o t.loudness = k.loudness /\ userTurns = k.userTurns
      <4>1. t.uOffset = None /\ t.phonation = 0 /\ t.pauses = <<>> /\ t.loudness = <<>>
        BY <1>5, <2>1
      <4>2. k.phonation \in Int /\ k.complete \in BOOLEAN
        BY <1>3
      <4>3. k.phonation + t.phonation = k.phonation
        BY <4>1, <4>2
      <4>4. (k.complete /\ (t.question = <<>> \/ t.complete)) = k.complete
        BY <2>1, <4>2
      <4>5. /\ k.text \o t.question = k.text /\ k.pauses \o t.pauses = k.pauses
            /\ k.loudness \o t.loudness = k.loudness
        BY <1>3, <1>6, <2>1, <4>1
      <4>6. reactions = k.reactions
        BY <4>1
      <4>7. userTurns = k.userTurns
        BY <2>1
      <4> HIDE DEF reactions, userTurns
      <4> QED
        BY <4>3, <4>4, <4>5, <4>6, <4>7
    <3>2. asked = k
      BY <2>1
    <3> HIDE DEF reactions, userTurns, asked
    <3> QED
      BY <1>3, <3>1, <3>2
  <2>2. CASE t.question # <<>>
    <3>1. asked = Further(k, a)
      BY <2>2
    <3>2. ~ a.pEnd > 0 /\ k.personaMs + 0 = k.personaMs
      BY <1>1, <1>3 DEF None
    <3> HIDE DEF asked
    <3> QED
      BY <1>1, <2>2, <3>1, <3>2 DEF Further
  <2> QED
    BY <2>1, <2>2
<1>9. Through(k, t) = IF t.reply = 0 THEN asked ELSE Further(asked, b)
  BY DEF Through, a, b
<1> HIDE DEF reactions, userTurns, heard, full, asked
<1>10. CASE t.reply = 0
  <2>1. full.silent \in Int /\ k.personaMs + 0 = k.personaMs
    BY <1>3, <1>4, <1>7
  <2>2. SilentAt(full, k.silent) = m
    <3>1. k.personaMs + (IF t.reply = 0 THEN 0 ELSE heard) = k.personaMs
      BY <1>10, <2>1
    <3> QED
      BY <1>7, <3>1 DEF SilentAt
  <2>3. (IF t.reply = 0 THEN k.silent ELSE full.silent) = k.silent
    BY <1>10
  <2> QED
    BY <1>8, <1>9, <1>10, <2>2, <2>3 DEF full
<1>11. CASE t.reply # 0
  <2>1. Through(k, t) = Further(m, b)
    BY <1>8, <1>9, <1>11
  <2>2. SilentAt(full, IF t.reply = 0 THEN k.silent ELSE full.silent) = full
    <3>1. SilentAt(full, full.silent) = full
      BY <1>7 DEF SilentAt
    <3> QED
      BY <1>11, <3>1
  <2>3. /\ (k.text \o t.question) \o <<>> = k.text \o t.question
        /\ (k.pauses \o t.pauses) \o <<>> = k.pauses \o t.pauses
        /\ (k.loudness \o t.loudness) \o <<>> = k.loudness \o t.loudness
        /\ (k.phonation + t.phonation) + 0 = k.phonation + t.phonation
    <3>1. /\ k.text \o t.question \in Seq(STRING) /\ k.pauses \o t.pauses \in Seq(Int \X Int)
          /\ k.loudness \o t.loudness \in Seq(Nat)
      BY <1>3, <1>4, ConcatProperties
    <3> QED
      BY <1>3, <1>4, <1>6, <3>1
  <2>4. Further(m, b) =
           [text |-> m.text \o <<>>, phonation |-> m.phonation + 0,
            complete |-> m.complete, personaMs |-> m.personaMs + heard, reactions |-> m.reactions,
            pauses |-> m.pauses \o <<>>, loudness |-> m.loudness \o <<>>,
            userTurns |-> m.userTurns, silent |-> IF t.pEnd > 0 THEN t.pEnd ELSE m.silent]
    <3>1. /\ m.complete \in BOOLEAN
      BY <1>3, <1>4
    <3> HIDE DEF m
    <3> QED
      BY <1>2, <1>11, <3>1 DEF Further, heard
  <2>5. Further(m, b) = full
    BY <1>7, <1>11, <2>3, <2>4
  <2> QED
    BY <2>1, <2>2, <2>5 DEF full
<1> QED
  BY <1>10, <1>11

\* A call stored and read back: one Turn per utterance.
Again(ts) == Exchanges(StoredRows(ts))

\* What was said in a Turn, as a function.
SaidOf == [t \in AnyTurn |-> Said(t)]

\* An utterance read back, as a function.
RereadOf == [u \in AnyLine |-> Reread(u)]

\* Every utterance is stored, and read back by itself.
LEMMA AgainIsReread ==
    ASSUME NEW ts \in Seq(AnyTurn)
    PROVE  /\ Maps(SaidOf, AnyTurn, Seq(AnyLine)) /\ Maps(RereadOf, AnyLine, AnyTurn)
           /\ Utterances(ts) = FlattenSeq(Mapped(SaidOf, ts)) /\ Utterances(ts) \in Seq(AnyLine)
           /\ Again(ts) = Mapped(RereadOf, Utterances(ts))
<1>1. Maps(SaidOf, AnyTurn, Seq(AnyLine))
  BY SaidLines DEF Maps, SaidOf
<1>2. Maps(RereadOf, AnyLine, AnyTurn)
  <2>1. ASSUME NEW u \in AnyLine PROVE Reread(u) \in AnyTurn
    <3>1. CASE u \in {UserLine(t) : t \in AnyTurn}
      BY <3>1, UserLineRereads
    <3>2. CASE u \in {PersonaLine(t) : t \in AnyTurn}
      BY <3>2, PersonaLineRereads
    <3> QED
      BY <3>1, <3>2 DEF AnyLine
  <2> QED
    BY <2>1 DEF Maps, RereadOf
<1>3. Utterances(ts) = FlattenSeq(Mapped(SaidOf, ts))
  <2>1. \A k \in 1 .. Len(ts) : SaidOf[ts[k]] = Said(ts[k])
    BY ElementOfSeq DEF SaidOf
  <2> QED
    BY <2>1 DEF Utterances, Mapped
<1>4. Utterances(ts) \in Seq(AnyLine)
  BY TimelineInOrder
<1>5. Again(ts) = Mapped(RereadOf, Utterances(ts))
  <2> DEFINE us == Utterances(ts)
             rows == [i \in 1 .. Len(us) |-> StoredRow(us[i])]
  <2>0. PICK n \in Nat : n = Len(us)
    BY <1>4, LenProperties
  <2>1. StoredRows(ts) = rows
    BY DEF StoredRows
  <2> HIDE DEF us
  <2>2. Len(rows) = n /\ \A i \in 1 .. n : rows[i] = StoredRow(us[i])
    BY <2>0
  <2> HIDE DEF rows
  <2>3. \A i \in 1 .. n : us[i] \in AnyLine
    BY <1>4, <2>0, ElementOfSeq DEF us
  <2>4. Again(ts) = [i \in 1 .. n |-> Exchange(rows[i])]
    BY <2>1, <2>2 DEF Again, Exchanges
  <2>5. \A i \in 1 .. n : Exchange(rows[i]) = RereadOf[us[i]]
    BY <2>2, <2>3 DEF RereadOf, Reread
  <2>6. Again(ts) = [i \in 1 .. n |-> RereadOf[us[i]]]
    BY <2>4, <2>5
  <2> QED
    BY <2>0, <2>6 DEF Mapped, us
<1> QED
  BY <1>1, <1>2, <1>3, <1>4, <1>5

\* One Turn more.
LEMMA AgainAppend ==
    ASSUME NEW ts \in Seq(AnyTurn), NEW t \in AnyTurn
    PROVE  /\ Again(ts) \in Seq(AnyTurn)
           /\ Facts0(Again(Append(ts, t))) = Through(Facts0(Again(ts)), t)
<1> DEFINE us == Utterances(ts)
           u == UserLine(t)
           p == PersonaLine(t)
           asked == IF t.question = <<>> THEN us ELSE Append(us, u)
           all == IF t.reply = 0 THEN asked ELSE Append(asked, p)
<1>1. u \in AnyLine /\ p \in AnyLine
  BY DEF AnyLine
<1>2. us \in Seq(AnyLine) /\ Again(ts) = Mapped(RereadOf, us)
  BY AgainIsReread
<1>3. Append(ts, t) \in Seq(AnyTurn)
  BY AppendProperties
<1>4. Utterances(Append(ts, t)) = us \o Said(t)
  <2>1. SaidOf[t] = Said(t) /\ Maps(SaidOf, AnyTurn, Seq(AnyLine))
    BY AgainIsReread DEF SaidOf
  <2>2. /\ FlattenSeq(Mapped(SaidOf, ts)) \in Seq(AnyLine)
        /\ FlattenSeq(Mapped(SaidOf, Append(ts, t))) = FlattenSeq(Mapped(SaidOf, ts)) \o SaidOf[t]
    <3>1. Maps(SaidOf, AnyTurn, Seq(AnyLine))
      BY <2>1
    <3> QED
      BY <3>1, FlattenMapped
  <2>3. Utterances(Append(ts, t)) = FlattenSeq(Mapped(SaidOf, Append(ts, t)))
    BY <1>3, AgainIsReread
  <2>4. us = FlattenSeq(Mapped(SaidOf, ts))
    BY AgainIsReread
  <2> QED
    BY <2>1, <2>2, <2>3, <2>4
<1> HIDE DEF us
<1>5. Said(t) = (IF t.question = <<>> THEN <<>> ELSE <<u>>) \o (IF t.reply = 0 THEN <<>> ELSE <<p>>)
  BY DEF Said
<1> HIDE DEF u, p
<1>6. asked \in Seq(AnyLine) /\ asked = us \o (IF t.question = <<>> THEN <<>> ELSE <<u>>)
  <2>1. us \o <<>> = us /\ Append(us, u) = us \o <<u>> /\ Append(us, u) \in Seq(AnyLine)
    BY <1>1, <1>2, ConcatEmptySeq, AppendIsConcat, AppendProperties
  <2> QED
    BY <1>2, <2>1
<1>7. all \in Seq(AnyLine) /\ all = asked \o (IF t.reply = 0 THEN <<>> ELSE <<p>>)
  <2> HIDE DEF asked
  <2>1. asked \o <<>> = asked /\ Append(asked, p) = asked \o <<p>> /\ Append(asked, p) \in Seq(AnyLine)
    BY <1>1, <1>6, ConcatEmptySeq, AppendIsConcat, AppendProperties
  <2> QED
    BY <1>6, <2>1
<1>8. Utterances(Append(ts, t)) = all
  <2> DEFINE a == IF t.question = <<>> THEN <<>> ELSE <<u>>
             b == IF t.reply = 0 THEN <<>> ELSE <<p>>
  <2>1. a \in Seq(AnyLine) /\ b \in Seq(AnyLine)
    <3>1. <<u>> \in Seq(AnyLine) /\ <<p>> \in Seq(AnyLine) /\ <<>> \in Seq(AnyLine)
      BY <1>1, EmptySeq
    <3> QED
      BY <3>1
  <2>2. Said(t) = a \o b /\ asked = us \o a /\ all = asked \o b
    BY <1>5, <1>6, <1>7
  <2> HIDE DEF a, b, asked, all
  <2>3. (us \o a) \o b = us \o (a \o b)
    BY <1>2, <2>1, ConcatAssociative
  <2> QED
    BY <1>4, <2>2, <2>3
<1>9. Maps(RereadOf, AnyLine, AnyTurn) /\ RereadOf[u] = Reread(u) /\ RereadOf[p] = Reread(p)
      /\ Reread(u) \in AnyTurn /\ Reread(p) \in AnyTurn
  BY <1>1, AgainIsReread DEF RereadOf, Maps
<1> DEFINE ks == Facts0(Mapped(RereadOf, us))
           ka == Facts0(Mapped(RereadOf, asked))
<1>10. ka = IF t.question = <<>> THEN ks ELSE Further(ks, Reread(u))
  <2>1. CASE t.question = <<>>
    BY <2>1
  <2>2. CASE t.question # <<>>
    <3> DEFINE m == Mapped(RereadOf, us)
    <3>1. m \in Seq(AnyTurn) /\ Mapped(RereadOf, Append(us, u)) = Append(m, Reread(u))
      <4>1. m \in Seq(AnyTurn) /\ Mapped(RereadOf, Append(us, u)) = Append(m, RereadOf[u])
        BY <1>1, <1>2, <1>9, MappedAppend
      <4> QED
        BY <1>9, <4>1
    <3> HIDE DEF m
    <3>2. Facts0(Append(m, Reread(u))) = Further(Facts0(m), Reread(u))
      BY <1>9, <3>1, FactsGrow
    <3> QED
      BY <2>2, <3>1, <3>2 DEF m
  <2> QED
    BY <2>1, <2>2
<1>11. Facts0(Mapped(RereadOf, all)) = IF t.reply = 0 THEN ka ELSE Further(ka, Reread(p))
  <2>1. CASE t.reply = 0
    BY <2>1
  <2>2. CASE t.reply # 0
    <3> DEFINE m == Mapped(RereadOf, asked)
    <3>1. m \in Seq(AnyTurn) /\ Mapped(RereadOf, Append(asked, p)) = Append(m, Reread(p))
      <4> HIDE DEF asked
      <4>0. asked \in Seq(AnyLine) /\ p \in AnyLine /\ Maps(RereadOf, AnyLine, AnyTurn)
        BY <1>1, <1>6, <1>9
      <4>1. /\ Mapped(RereadOf, asked) \in Seq(AnyTurn)
            /\ Mapped(RereadOf, Append(asked, p)) = Append(Mapped(RereadOf, asked), RereadOf[p])
        BY <4>0, MappedAppend
      <4> QED
        BY <1>9, <4>1
    <3>2. all = Append(asked, p)
      BY <2>2
    <3> HIDE DEF m, asked, all
    <3>3. Facts0(Append(m, Reread(p))) = Further(Facts0(m), Reread(p))
      BY <1>9, <3>1, FactsGrow
    <3> QED
      BY <2>2, <3>1, <3>2, <3>3 DEF m
  <2> QED
    BY <2>1, <2>2
<1>12. Facts0(Again(Append(ts, t))) = Facts0(Mapped(RereadOf, all))
  <2>1. Again(Append(ts, t)) = Mapped(RereadOf, Utterances(Append(ts, t)))
    BY <1>3, AgainIsReread
  <2> QED
    BY <1>8, <2>1
<1>13. Again(ts) \in Seq(AnyTurn)
  BY <1>1, <1>2, <1>9, MappedAppend
<1> HIDE DEF ks, ka, all, asked
<1>14. Through(ks, t) = IF t.reply = 0 THEN ka ELSE Further(ka, Reread(p))
  BY <1>10 DEF Through, u, p
<1>15. Facts0(Again(ts)) = ks
  BY <1>2 DEF ks
<1> QED
  BY <1>11, <1>12, <1>13, <1>14, <1>15

\* No Turns leave no rows.
LEMMA AgainEmpty == Again(<<>>) = <<>>
<1>1. Utterances(<<>>) = <<>>
  BY EmptySeq, FlattenEmpty DEF Utterances
<1> QED
  BY <1>1, EmptySeq DEF Again, Exchanges, StoredRows

\* Turns that were all answered come back with all their facts.
AnsweredTurn == {t \in AnyTurn : Whole(t) /\ t.reply # 0}

\* Answered Turns add what they added before.
LEMMA AnsweredTurnsReadBack ==
    \A ts \in Seq(AnsweredTurn) : ts \in Seq(AnyTurn) /\ Facts0(Again(ts)) = Facts0(ts)
<1> DEFINE P == {ts \in Seq(AnyTurn) : Facts0(Again(ts)) = Facts0(ts)}
           V == AnsweredTurn
<1>1. <<>> \in P
  BY AgainEmpty, EmptySeq
<1>2. ASSUME NEW ts \in Seq(V), ts \in P, NEW t \in V PROVE Append(ts, t) \in P
  <2>1. ts \in Seq(AnyTurn) /\ t \in AnyTurn /\ Whole(t) /\ t.reply # 0
    BY <1>2 DEF AnsweredTurn
  <2> DEFINE k == Facts0(ts)
  <2>2. k \in AnyFacts /\ Facts0(Append(ts, t)) = Further(k, t)
    BY <2>1, FactsGrow
  <2>3. Facts0(Again(Append(ts, t))) = Through(k, t)
    BY <1>2, <2>1, AgainAppend
  <2> HIDE DEF k
  <2>4. Through(k, t) = SilentAt(Further(k, t), Further(k, t).silent)
    BY <2>1, <2>2, ThroughTheRows
  <2>5. SilentAt(Further(k, t), Further(k, t).silent) = Further(k, t)
    BY DEF SilentAt, Further
  <2>6. Append(ts, t) \in Seq(AnyTurn)
    BY <2>1, AppendProperties
  <2> QED
    BY <2>2, <2>3, <2>4, <2>5, <2>6
<1> HIDE DEF P, V
<1>3. \A ts \in Seq(V) : ts \in P
  BY <1>1, <1>2, SequenceInduction
<1> QED
  BY <1>3 DEF P, V

\* Turns that are whole: only the last may have no answer.
WholeCall(ts) ==
    /\ ts \in Seq(AnyTurn)
    /\ \A k \in 1 .. Len(ts) : Whole(ts[k]) /\ (ts[k].reply = 0 => k = Len(ts))

\* Whole Turns come back with what their figures rest on.
LEMMA WholeCallsReadBack ==
    ASSUME NEW ts, WholeCall(ts), NEW language, NEW reversed
    PROVE  /\ Again(ts) \in Seq(AnyTurn)
           /\ Basis(Conversation(Again(ts), language, reversed))
                 = Basis(Conversation(ts, language, reversed))
<1>0. ts \in Seq(AnyTurn)
  BY DEF WholeCall
<1>1. CASE ts = <<>>
  BY <1>0, <1>1, AgainEmpty
<1>2. CASE ts # <<>>
  <2>1. PICK front \in Seq(AnyTurn), last \in AnyTurn : ts = Append(front, last)
    BY <1>0, <1>2, SequenceEmptyOrAppend
  <2>2. PICK n \in Nat : n = Len(front)
    BY LenProperties
  <2>3. Len(ts) = n + 1 /\ ts[n + 1] = last /\ \A k \in 1 .. n : ts[k] = front[k]
    BY <2>1, <2>2, AppendProperties
  <2>4. Whole(last)
    <3>1. n + 1 \in 1 .. n + 1
      OBVIOUS
    <3> QED
      BY <2>3, <3>1 DEF WholeCall
  <2>5. front \in Seq(AnsweredTurn)
    <3>1. ASSUME NEW k \in 1 .. n PROVE front[k] \in AnsweredTurn
      <4>1. k \in 1 .. n + 1 /\ k # n + 1
        OBVIOUS
      <4>2. Whole(ts[k]) /\ ts[k].reply # 0
        BY <2>3, <4>1 DEF WholeCall
      <4>3. front[k] \in AnyTurn
        BY <2>2, ElementOfSeq
      <4> QED
        BY <2>3, <4>2, <4>3 DEF AnsweredTurn
    <3>2. front \in [1 .. n -> AnsweredTurn]
      <4>1. front \in [1 .. n -> AnyTurn]
        BY <2>2, LenProperties
      <4> QED
        BY <3>1, <4>1
    <3> QED
      BY <3>2, SeqDef
  <2> DEFINE k == Facts0(front)
  <2>6. Facts0(Again(front)) = k
    BY <2>5, AnsweredTurnsReadBack
  <2>7. k \in AnyFacts /\ Facts0(ts) = Further(k, last)
    BY <2>1, FactsGrow
  <2>8. Facts0(Again(ts)) = Through(k, last)
    BY <2>1, <2>6, AgainAppend
  <2> HIDE DEF k
  <2> DEFINE n1 == Further(k, last)
             at == IF last.reply = 0 THEN k.silent ELSE n1.silent
  <2>9. Through(k, last) = SilentAt(n1, at)
    BY <2>4, <2>7, ThroughTheRows
  <2> HIDE DEF n1, at
  <2>10. Again(ts) \in Seq(AnyTurn)
    BY <1>0, <2>1, AgainAppend
  <2> DEFINE a == SilentAt(n1, at)
  <2>11. Facts0(Again(ts)) = a /\ Facts0(ts) = n1
    BY <2>7, <2>8, <2>9 DEF n1
  <2>12. /\ a.text = n1.text /\ a.phonation = n1.phonation /\ a.complete = n1.complete
         /\ a.personaMs = n1.personaMs /\ a.reactions = n1.reactions /\ a.pauses = n1.pauses
         /\ a.loudness = n1.loudness /\ a.userTurns = n1.userTurns
    BY DEF SilentAt
  <2> HIDE DEF a
  <2>13. Basis(Conversation(Again(ts), language, reversed)) =
              [text |-> a.text, language |-> language, reverse |-> reversed,
               phonation |-> a.phonation, complete |-> a.complete, personaMs |-> a.personaMs,
               reactions |-> a.reactions, pauses |-> a.pauses, loudness |-> a.loudness,
               userTurns |-> a.userTurns]
    BY <2>10, <2>11, BasisOfACall
  <2>14. Basis(Conversation(ts, language, reversed)) =
              [text |-> n1.text, language |-> language, reverse |-> reversed,
               phonation |-> n1.phonation, complete |-> n1.complete, personaMs |-> n1.personaMs,
               reactions |-> n1.reactions, pauses |-> n1.pauses, loudness |-> n1.loudness,
               userTurns |-> n1.userTurns]
    BY <1>0, <2>11, BasisOfACall
  <2> QED
    BY <2>10, <2>12, <2>13, <2>14
<1> QED
  BY <1>1, <1>2

\* A Turn as its rows tell it: an utterance of which nothing was measured counts as not
\* measured in full, whatever the Turn said of it while the call ran.
AsStored(t) == IF t.question # <<>> /\ Facts(t) = {} THEN [t EXCEPT !.complete = FALSE] ELSE t

\* The Turns of a call as its rows tell them.
StoredOf(ts) == [k \in 1 .. Len(ts) |-> AsStored(ts[k])]

\* Nothing else of the Turn changes, and it leaves the same rows.
LEMMA AsStoredKeepsRows ==
    ASSUME NEW t \in AnyTurn
    PROVE  LET a == AsStored(t) IN
           /\ a \in AnyTurn /\ Said(a) = Said(t)
           /\ a.phonation = t.phonation /\ a.pauses = t.pauses
           /\ a.reply = t.reply /\ a.pOffset = t.pOffset /\ a.pEnd = t.pEnd
<1>1. CASE ~ (t.question # <<>> /\ Facts(t) = {})
  BY <1>1 DEF AsStored
<1>2. CASE t.question # <<>> /\ Facts(t) = {}
  <2> DEFINE a == AsStored(t)
  <2>1. a = [t EXCEPT !.complete = FALSE]
    BY <1>2 DEF AsStored
  <2> HIDE DEF a
  <2>2. /\ a \in AnyTurn
        /\ a.question = t.question /\ a.reply = t.reply /\ a.interrupted = t.interrupted
        /\ a.uOffset = t.uOffset /\ a.uEnd = t.uEnd
        /\ a.pOffset = t.pOffset /\ a.pEnd = t.pEnd /\ a.pDispatched = t.pDispatched
        /\ a.speech = t.speech /\ a.phonation = t.phonation
        /\ a.pauses = t.pauses /\ a.loudness = t.loudness
    BY <2>1 DEF AnyTurn
  <2>3. t.speech = 0 /\ t.loudness = <<>> /\ t.pauses = <<>>
    BY <1>2 DEF Facts
  <2>4. Facts(a) = Facts(t)
    BY <1>2, <2>2, <2>3 DEF Facts
  <2>5. UserLine(a) = UserLine(t) /\ PersonaLine(a) = PersonaLine(t)
    BY <2>2, <2>4 DEF UserLine, PersonaLine
  <2>6. Said(a) = Said(t)
    BY <2>2, <2>5 DEF Said
  <2> QED
    BY <2>2, <2>6 DEF a
<1> QED
  BY <1>1, <1>2

\* The rows of a call are those of the Turns they tell of.
LEMMA StoredOfKeepsRows ==
    ASSUME NEW ts \in Seq(AnyTurn)
    PROVE  /\ StoredOf(ts) \in Seq(AnyTurn) /\ Len(StoredOf(ts)) = Len(ts)
           /\ StoredRows(StoredOf(ts)) = StoredRows(ts)
<1> DEFINE us == StoredOf(ts)
<1>1. PICK n \in Nat : n = Len(ts) /\ \A k \in 1 .. n : ts[k] \in AnyTurn
  BY LenProperties, ElementOfSeq
<1>2. us = [k \in 1 .. n |-> AsStored(ts[k])]
  BY <1>1 DEF StoredOf
<1>3. \A k \in 1 .. n : AsStored(ts[k]) \in AnyTurn /\ Said(AsStored(ts[k])) = Said(ts[k])
  BY <1>1, AsStoredKeepsRows
<1> HIDE DEF us
<1>4. us \in [1 .. n -> AnyTurn]
  BY <1>2, <1>3
<1>5. us \in Seq(AnyTurn) /\ Len(us) = n
  BY <1>2, <1>4, SeqDef
<1>6. [k \in 1 .. Len(us) |-> Said(us[k])] = [k \in 1 .. Len(ts) |-> Said(ts[k])]
  BY <1>1, <1>2, <1>3, <1>5
<1>7. Utterances(us) = Utterances(ts)
  BY <1>6 DEF Utterances
<1>8. StoredRows(us) = StoredRows(ts)
  BY <1>7 DEF StoredRows
<1> QED
  BY <1>1, <1>5, <1>8 DEF us

\* The Turns of a call, measured or not: whole as their rows tell them, and only the last
\* may have no answer.
CallOf(ts) ==
    /\ ts \in Seq(AnyTurn)
    /\ \A k \in 1 .. Len(ts) : Whole(AsStored(ts[k])) /\ (ts[k].reply = 0 => k = Len(ts))

\* A call comes back with what the figures of its rows' Turns rest on: all of its own, but
\* that an utterance with nothing measured no longer counts as measured in full.
LEMMA ACallReadsBack ==
    ASSUME NEW ts, CallOf(ts), NEW language, NEW reversed
    PROVE  /\ Again(ts) \in Seq(AnyTurn)
           /\ Basis(Conversation(Again(ts), language, reversed))
                 = Basis(Conversation(StoredOf(ts), language, reversed))
<1>0. ts \in Seq(AnyTurn)
  BY DEF CallOf
<1> DEFINE us == StoredOf(ts)
<1>1. us \in Seq(AnyTurn) /\ Len(us) = Len(ts) /\ StoredRows(us) = StoredRows(ts)
  BY <1>0, StoredOfKeepsRows
<1>2. Again(us) = Again(ts)
  BY <1>1 DEF Again
<1>3. WholeCall(us)
  <2>1. ASSUME NEW k \in 1 .. Len(ts) PROVE Whole(us[k]) /\ (us[k].reply = 0 => k = Len(ts))
    <3>1. us[k] = AsStored(ts[k])
      BY DEF StoredOf
    <3>2. ts[k] \in AnyTurn
      BY <1>0, ElementOfSeq
    <3>3. us[k].reply = ts[k].reply
      BY <3>1, <3>2, AsStoredKeepsRows
    <3> QED
      BY <3>1, <3>3 DEF CallOf
  <2> HIDE DEF us
  <2> QED
    BY <1>1, <2>1 DEF WholeCall
<1> HIDE DEF us
<1>4. /\ Again(us) \in Seq(AnyTurn)
      /\ Basis(Conversation(Again(us), language, reversed)) = Basis(Conversation(us, language, reversed))
  BY <1>3, WholeCallsReadBack
<1> QED
  BY <1>2, <1>4 DEF us

-----------------------------------------------------------------------------
(* The segments of a stored call.                                           *)

\* How long the user and the Persona talked in some Turns.
UserMs(ts) == Voiced(Conversation(ts, TRUE, FALSE))

\* How long the Persona talked.
PersonaMs(ts) == Conversation(ts, TRUE, FALSE).personaMs

\* How long pauses last.
PauseMs(pauses) == Total([i \in 1 .. Len(pauses) |-> pauses[i][2]])

\* How long a reply was heard.
HeardMs(t) == IF t.reply = 0 THEN 0 ELSE SpanOrZero(t.pOffset, t.pEnd)

\* Whoever is asked, and whoever opened.
LEMMA TalkOfACall ==
    ASSUME NEW ts \in Seq(AnyTurn), NEW language, NEW reversed
    PROVE  /\ UserMs(ts) = Facts0(ts).phonation + PauseMs(Facts0(ts).pauses)
           /\ PersonaMs(ts) = Facts0(ts).personaMs
           /\ Voiced(Conversation(ts, language, reversed)) = UserMs(ts)
           /\ Conversation(ts, language, reversed).personaMs = PersonaMs(ts)
<1>1. ASSUME NEW l, NEW r
      PROVE  /\ Voiced(Conversation(ts, l, r)) = Facts0(ts).phonation + PauseMs(Facts0(ts).pauses)
             /\ Conversation(ts, l, r).personaMs = Facts0(ts).personaMs
  <2> DEFINE c == Conversation(ts, l, r)
             k == Facts0(ts)
  <2>1. /\ Basis(c).phonation = k.phonation /\ Basis(c).pauses = k.pauses
        /\ Basis(c).personaMs = k.personaMs
    BY BasisOfACall
  <2> HIDE DEF c, k
  <2>2. c.phonation = k.phonation /\ c.pauses = k.pauses /\ c.personaMs = k.personaMs
    BY <2>1 DEF Basis
  <2>3. Voiced(c) = c.phonation + PauseMs(c.pauses)
    BY DEF Voiced, PauseTotal, PauseMs
  <2> QED
    BY <2>2, <2>3 DEF c, k
<1> QED
  BY <1>1 DEF UserMs, PersonaMs

\* Pauses one after the other.
LEMMA PausesAddUp ==
    ASSUME NEW a \in Seq(Int \X Int), NEW b \in Seq(Int \X Int)
    PROVE  PauseMs(a) \in Int /\ PauseMs(b) \in Int /\ PauseMs(a \o b) = PauseMs(a) + PauseMs(b)
<1> DEFINE D == Int \X Int
           F == [x \in D |-> x[2]]
           W == Int
<1>1. Maps(F, D, W)
  BY DEF Maps
<1>2. ASSUME NEW s \in Seq(D) PROVE PauseMs(s) = Total(Mapped(F, s))
  <2>1. \A i \in 1 .. Len(s) : s[i] \in D
    BY ElementOfSeq
  <2>2. \A i \in 1 .. Len(s) : s[i][2] = F[s[i]]
    BY <2>1
  <2>3. [i \in 1 .. Len(s) |-> s[i][2]] = Mapped(F, s)
    BY <2>2 DEF Mapped
  <2> QED
    BY <2>3 DEF PauseMs
<1>3. a \in Seq(D) /\ b \in Seq(D)
  OBVIOUS
<1> HIDE DEF D, F, W
<1>4. a \o b \in Seq(D)
  BY <1>3, ConcatProperties
<1>5. /\ Mapped(F, a) \in Seq(W) /\ Mapped(F, b) \in Seq(W)
      /\ Mapped(F, a \o b) = Mapped(F, a) \o Mapped(F, b)
  BY <1>1, <1>3, MappedConcat
<1> DEFINE f == Mapped(F, a)
           g == Mapped(F, b)
<1>6. f \in Seq(Int) /\ g \in Seq(Int)
  BY <1>5 DEF W
<1> HIDE DEF f, g
<1>7. Total(f) \in Int /\ Total(g) \in Int /\ Total(f \o g) = Total(f) + Total(g)
  BY <1>6, TotalConcat
<1> QED
  BY <1>2, <1>3, <1>4, <1>5, <1>7 DEF f, g

\* One Turn more.
LEMMA TalkAppend ==
    ASSUME NEW ts \in Seq(AnyTurn), NEW t \in AnyTurn
    PROVE  /\ UserMs(ts) \in Int /\ PersonaMs(ts) \in Int
           /\ t.phonation + PauseMs(t.pauses) \in Int /\ HeardMs(t) \in Int
           /\ UserMs(Append(ts, t)) = UserMs(ts) + (t.phonation + PauseMs(t.pauses))
           /\ PersonaMs(Append(ts, t)) = PersonaMs(ts) + HeardMs(t)
<1> DEFINE k == Facts0(ts)
           tt == Append(ts, t)
<1>1. k \in AnyFacts /\ Facts0(tt) = Further(k, t) /\ tt \in Seq(AnyTurn)
  BY FactsGrow, AppendProperties
<1> HIDE DEF tt
<1>2. /\ UserMs(ts) = k.phonation + PauseMs(k.pauses) /\ PersonaMs(ts) = k.personaMs
      /\ UserMs(tt) = Facts0(tt).phonation + PauseMs(Facts0(tt).pauses)
      /\ PersonaMs(tt) = Facts0(tt).personaMs
  BY <1>1, TalkOfACall
<1> HIDE DEF k
<1>3. /\ Facts0(tt).phonation = k.phonation + t.phonation
      /\ Facts0(tt).pauses = k.pauses \o t.pauses
      /\ Facts0(tt).personaMs = k.personaMs + HeardMs(t)
  <2>1. /\ Further(k, t).phonation = k.phonation + t.phonation
        /\ Further(k, t).pauses = k.pauses \o t.pauses
    BY DEF Further
  <2>2. Further(k, t).personaMs = k.personaMs + HeardMs(t)
    BY DEF Further, HeardMs
  <2> QED
    BY <1>1, <2>1, <2>2
<1>4. k.phonation \in Int /\ k.personaMs \in Int /\ k.pauses \in Seq(Int \X Int)
  BY <1>1 DEF AnyFacts
<1>5. t.phonation \in Int /\ t.pauses \in Seq(Int \X Int) /\ t.pOffset \in Int /\ t.pEnd \in Int
  BY DEF AnyTurn
<1>6. HeardMs(t) \in Int
  <2>1. PICK p \in Int, q \in Int : p = t.pOffset /\ q = t.pEnd
    BY <1>5
  <2>2. SpanOrZero(p, q) \in Int
    BY DEF SpanOrZero, Span, Greater, None
  <2> QED
    BY <2>1, <2>2 DEF HeardMs
<1>7. /\ PauseMs(k.pauses) \in Int /\ PauseMs(t.pauses) \in Int
      /\ PauseMs(k.pauses \o t.pauses) = PauseMs(k.pauses) + PauseMs(t.pauses)
  BY <1>4, <1>5, PausesAddUp
<1>8. PICK x \in Int, y \in Int, z \in Int, w \in Int :
         x = k.phonation /\ y = t.phonation /\ z = PauseMs(k.pauses) /\ w = PauseMs(t.pauses)
  BY <1>4, <1>5, <1>7
<1>9. (x + y) + (z + w) = (x + z) + (y + w)
  OBVIOUS
<1>10. UserMs(tt) = (x + y) + (z + w) /\ UserMs(ts) = x + z
  BY <1>2, <1>3, <1>7, <1>8
<1>14. x + z \in Int /\ y + w \in Int
  OBVIOUS
<1>15. t.phonation + PauseMs(t.pauses) = y + w
  BY <1>8
<1>11. UserMs(ts) \in Int /\ t.phonation + PauseMs(t.pauses) \in Int
  BY <1>10, <1>14, <1>15
<1>12. UserMs(tt) = UserMs(ts) + (t.phonation + PauseMs(t.pauses))
  BY <1>9, <1>10, <1>15
<1>13. PersonaMs(ts) \in Int /\ PersonaMs(tt) = PersonaMs(ts) + HeardMs(t)
  BY <1>2, <1>3, <1>4
<1> QED
  BY <1>6, <1>11, <1>12, <1>13 DEF tt

\* Of no Turns.
LEMMA NoTalk == UserMs(<<>>) = 0 /\ PersonaMs(<<>>) = 0
<1>1. <<>> \in Seq(AnyTurn) /\ <<>> \in Seq(Int) /\ 0 \in Int
  BY EmptySeq
<1>2. PauseMs(<<>>) = 0
  <2>1. [i \in 1 .. Len(<<>>) |-> <<>>[i][2]] = <<>>
    BY EmptySeq
  <2>2. Total(<<>>) = 0
    BY <1>1, TotalAppend
  <2> QED
    BY <2>1, <2>2 DEF PauseMs
<1>3. Facts0(<<>>).phonation = 0 /\ Facts0(<<>>).personaMs = 0 /\ Facts0(<<>>).pauses = <<>>
  BY NoFacts
<1>4. PICK ts \in Seq(AnyTurn) : ts = <<>>
  BY <1>1
<1>5. UserMs(ts) = Facts0(ts).phonation + PauseMs(Facts0(ts).pauses) /\ PersonaMs(ts) = Facts0(ts).personaMs
  BY TalkOfACall
<1>6. UserMs(<<>>) = Facts0(<<>>).phonation + PauseMs(Facts0(<<>>).pauses)
      /\ PersonaMs(<<>>) = Facts0(<<>>).personaMs
  BY <1>4, <1>5
<1> QED
  BY <1>2, <1>3, <1>6

\* Reading back takes nothing off anybody's talk.
LEMMA StoredTalk ==
    \A ts \in Seq(AnyTurn) :
        UserMs(StoredOf(ts)) = UserMs(ts) /\ PersonaMs(StoredOf(ts)) = PersonaMs(ts)
<1> DEFINE V == AnyTurn
           P == {ts \in Seq(V) : UserMs(StoredOf(ts)) = UserMs(ts) /\ PersonaMs(StoredOf(ts)) = PersonaMs(ts)}
<1>1. <<>> \in P
  <2>1. StoredOf(<<>>) = <<>>
    BY EmptySeq DEF StoredOf
  <2> QED
    BY <2>1, EmptySeq
<1>2. ASSUME NEW ts \in Seq(V), ts \in P, NEW t \in V PROVE Append(ts, t) \in P
  <2> DEFINE us == StoredOf(ts)
             a == AsStored(t)
             tt == Append(ts, t)
  <2>1. ts \in Seq(AnyTurn) /\ t \in AnyTurn /\ UserMs(us) = UserMs(ts) /\ PersonaMs(us) = PersonaMs(ts)
    BY <1>2
  <2>2. /\ a \in AnyTurn /\ a.phonation = t.phonation /\ a.pauses = t.pauses
        /\ a.reply = t.reply /\ a.pOffset = t.pOffset /\ a.pEnd = t.pEnd
    BY <2>1, AsStoredKeepsRows
  <2>3. us \in Seq(AnyTurn) /\ Len(us) = Len(ts)
    BY <2>1, StoredOfKeepsRows
  <2>4. StoredOf(tt) = Append(us, a)
    <3>1. PICK n \in Nat : n = Len(ts)
      BY <2>1, LenProperties
    <3>2. Len(tt) = n + 1 /\ tt[n + 1] = t /\ \A k \in 1 .. n : tt[k] = ts[k]
      BY <2>1, <3>1, AppendProperties
    <3>3. us = [k \in 1 .. n |-> AsStored(ts[k])]
      BY <3>1 DEF StoredOf
    <3> HIDE DEF tt, a
    <3>4. StoredOf(tt) = [k \in 1 .. n + 1 |-> AsStored(tt[k])]
      BY <3>2 DEF StoredOf
    <3>5. Append(us, a) = [k \in 1 .. n + 1 |-> IF k = n + 1 THEN a ELSE us[k]]
      <4> HIDE DEF us
      <4>1. us = [k \in 1 .. n |-> us[k]] /\ Len(us) = n
        BY <2>3, <3>1, <3>3
      <4> QED
        BY <4>1
    <3>6. \A k \in 1 .. n + 1 : AsStored(tt[k]) = IF k = n + 1 THEN a ELSE us[k]
      BY <3>2, <3>3 DEF a
    <3> HIDE DEF us
    <3> QED
      BY <3>4, <3>5, <3>6
  <2> HIDE DEF us, a
  <2>5. HeardMs(a) = HeardMs(t)
    BY <2>2 DEF HeardMs
  <2>6. UserMs(Append(us, a)) = UserMs(tt) /\ PersonaMs(Append(us, a)) = PersonaMs(tt)
    BY <2>1, <2>2, <2>3, <2>5, TalkAppend
  <2>7. tt \in Seq(AnyTurn)
    BY <2>1, AppendProperties
  <2> HIDE DEF tt
  <2> QED
    BY <2>4, <2>6, <2>7 DEF tt
<1> HIDE DEF P, V
<1>3. \A ts \in Seq(V) : ts \in P
  BY <1>1, <1>2, SequenceInduction
<1> QED
  BY <1>3 DEF P, V

\* Any row, and what it reads back as.
AnyRow == {StoredRow(u) : u \in AnyLine}

\* Each is read back as a Turn.
LEMMA RowsReadBack == \A r \in AnyRow : Exchange(r) \in AnyTurn
<1> SUFFICES ASSUME NEW u \in AnyLine PROVE Exchange(StoredRow(u)) \in AnyTurn
  BY DEF AnyRow
<1>1. RereadOf[u] = Reread(u) /\ Maps(RereadOf, AnyLine, AnyTurn)
  <2>1. <<>> \in Seq(AnyTurn)
    BY EmptySeq
  <2> QED
    BY <2>1, AgainIsReread DEF RereadOf
<1> QED
  BY <1>1 DEF Maps, Reread

\* A row goes to the one segment or to the other, and moves no other row.
LEMMA SegmentAppend ==
    ASSUME NEW rows \in Seq(AnyRow), NEW r \in AnyRow, NEW pressed, NEW wanted
    PROVE  LET further == Append(rows, r) IN
           /\ Segment(rows, pressed, wanted) \in Seq(AnyTurn)
           /\ Segment(further, pressed, wanted) =
                 IF PressureOf(further, pressed, Len(rows) + 1) = wanted
                 THEN Append(Segment(rows, pressed, wanted), Exchange(r))
                 ELSE Segment(rows, pressed, wanted)
<1>0. PICK n \in Nat : n = Len(rows)
  BY LenProperties
<1> DEFINE tt == Append(rows, r)
           N == 1 .. n + 1
           ids == [k \in 1 .. n |-> k]
           more == [k \in 1 .. n + 1 |-> k]
           at == {k \in 1 .. n : PressureOf(rows, pressed, k) = wanted}
           further == {k \in 1 .. n + 1 : PressureOf(tt, pressed, k) = wanted}
           here == PressureOf(tt, pressed, n + 1) = wanted
           F == [k \in N |-> Exchange(tt[k])]
           p == Picks(ids, at)
           q == Picks(more, further)
<1>1. tt \in Seq(AnyRow) /\ Len(tt) = n + 1 /\ tt[n + 1] = r /\ \A i \in 1 .. n : tt[i] = rows[i]
  BY <1>0, AppendProperties
<1> HIDE DEF tt
<1>2. \A k \in 1 .. n : PressureOf(tt, pressed, k) = PressureOf(rows, pressed, k)
  <2> SUFFICES ASSUME NEW k \in 1 .. n
               PROVE  PressureOf(tt, pressed, k) = PressureOf(rows, pressed, k)
    OBVIOUS
  <2> DEFINE a == {j \in 1 .. k : tt[j].speaker = "persona"}
             b == {j \in 1 .. k : rows[j].speaker = "persona"}
  <2>1. \A j \in 1 .. k : tt[j] = rows[j]
    BY <1>1
  <2>2. a = b
    BY <2>1
  <2>3. /\ PressureOf(tt, pressed, k) = (a # {} /\ Max(a) \in pressed)
        /\ PressureOf(rows, pressed, k) = (b # {} /\ Max(b) \in pressed)
    BY DEF PressureOf
  <2> HIDE DEF a, b
  <2> QED
    BY <2>2, <2>3
<1>3. ids \in Seq(N) /\ Len(ids) = n /\ more = Append(ids, n + 1)
  <2>1. ids \in [1 .. n -> N] /\ more \in [1 .. n + 1 -> N] /\ more[n + 1] = n + 1
    OBVIOUS
  <2>2. \A i \in 1 .. n : more[i] = ids[i]
    OBVIOUS
  <2> HIDE DEF ids, more, N
  <2> QED
    BY <2>1, <2>2, OneLonger
<1>6. n + 1 \in further <=> here
  OBVIOUS
<1>7. \A i \in 1 .. n : i \in further <=> i \in at
  BY <1>2
<1> HIDE DEF here
<1>8. p \in Seq(N) /\ q = IF here THEN Append(p, n + 1) ELSE p
  <2>1. n + 1 \in N
    OBVIOUS
  <2>2. p = Picks(ids, at) /\ q = Picks(more, further)
    OBVIOUS
  <2> HIDE DEF ids, more, at, further, N, p, q, F
  <2>3. \A i \in 1 .. Len(ids) : i \in further <=> i \in at
    BY <1>3, <1>7
  <2>4. PICK e \in N : e = n + 1
    BY <2>1
  <2>5. /\ Picks(ids, at) \in Seq(N)
        /\ Picks(Append(ids, e), further)
             = IF Len(ids) + 1 \in further THEN Append(Picks(ids, at), e) ELSE Picks(ids, at)
    BY <1>3, <2>3, PicksAppend
  <2> QED
    BY <1>3, <1>6, <2>2, <2>4, <2>5
<1>9. Only(ids, LAMBDA k : PressureOf(rows, pressed, k) = wanted) = p
  <2>1. \A i \in 1 .. n : (PressureOf(rows, pressed, ids[i]) = wanted) <=> i \in at
    OBVIOUS
  <2> HIDE DEF at
  <2>2. [i \in 1 .. n |-> IF PressureOf(rows, pressed, ids[i]) = wanted THEN <<ids[i]>> ELSE <<>>]
           = [i \in 1 .. n |-> IF i \in at THEN <<ids[i]>> ELSE <<>>]
    BY <2>1
  <2> HIDE DEF ids
  <2> QED
    BY <1>3, <2>2 DEF Only, Picks
<1>10. Only(more, LAMBDA k : PressureOf(tt, pressed, k) = wanted) = q
  <2>0. Len(more) = n + 1
    BY <1>3, AppendProperties
  <2>1. \A i \in 1 .. n + 1 : (PressureOf(tt, pressed, more[i]) = wanted) <=> i \in further
    OBVIOUS
  <2> HIDE DEF further
  <2>2. [i \in 1 .. n + 1 |-> IF PressureOf(tt, pressed, more[i]) = wanted THEN <<more[i]>> ELSE <<>>]
           = [i \in 1 .. n + 1 |-> IF i \in further THEN <<more[i]>> ELSE <<>>]
    BY <2>1
  <2> HIDE DEF more
  <2> QED
    BY <2>0, <2>2 DEF Only, Picks
<1>11. Maps(F, N, AnyTurn)
  <2>1. \A k \in N : tt[k] \in AnyRow
    BY <1>1, ElementOfSeq
  <2>2. \A k \in N : Exchange(tt[k]) \in AnyTurn
    BY <2>1, RowsReadBack
  <2> HIDE DEF N
  <2> QED
    BY <2>2 DEF Maps
<1>12. Segment(tt, pressed, wanted) = Mapped(F, q)
  <2>0. q \in Seq(N)
    <3>1. n + 1 \in N
      OBVIOUS
    <3> HIDE DEF p, q, N
    <3> QED
      BY <1>8, <3>1, AppendProperties
  <2>1. \A i \in 1 .. Len(q) : q[i] \in N
    BY <2>0, ElementOfSeq
  <2>2. Segment(tt, pressed, wanted) = [i \in 1 .. Len(q) |-> Exchange(tt[q[i]])]
    BY <1>1, <1>10 DEF Segment
  <2> HIDE DEF q, N
  <2>3. \A i \in 1 .. Len(q) : Exchange(tt[q[i]]) = F[q[i]]
    BY <2>1
  <2> QED
    BY <2>2, <2>3 DEF Mapped
<1>13. Segment(rows, pressed, wanted) = Mapped(F, p)
  <2>0. p \in Seq(1 .. n)
    <3>1. ids \in Seq(1 .. n)
      <4>1. ids \in [1 .. n -> 1 .. n]
        OBVIOUS
      <4> HIDE DEF ids
      <4> QED
        BY <4>1, SeqDef
    <3>2. at \in SUBSET (1 .. Len(ids))
      BY <1>3
    <3> HIDE DEF ids, at
    <3> QED
      BY <3>1, <3>2, PicksKeepOrder
  <2>1. \A i \in 1 .. Len(p) : p[i] \in 1 .. n
    BY <2>0, ElementOfSeq
  <2>2. Segment(rows, pressed, wanted) = [i \in 1 .. Len(p) |-> Exchange(rows[p[i]])]
    BY <1>0, <1>9 DEF Segment
  <2> HIDE DEF p
  <2>3. ASSUME NEW i \in 1 .. Len(p) PROVE Exchange(rows[p[i]]) = F[p[i]]
    <3>1. p[i] \in 1 .. n /\ p[i] \in N
      BY <2>1
    <3>2. tt[p[i]] = rows[p[i]]
      BY <1>1, <3>1
    <3>3. F[p[i]] = Exchange(tt[p[i]])
      BY <3>1
    <3> HIDE DEF F, N
    <3> QED
      BY <3>2, <3>3
  <2> HIDE DEF F
  <2> QED
    BY <2>2, <2>3 DEF Mapped
<1>14. n + 1 \in N /\ F[n + 1] = Exchange(r)
  <2>1. F[n + 1] = Exchange(tt[n + 1])
    OBVIOUS
  <2> QED
    BY <1>1, <2>1
<1> HIDE DEF F, N, p, q
<1>15. /\ Mapped(F, p) \in Seq(AnyTurn)
       /\ Mapped(F, Append(p, n + 1)) = Append(Mapped(F, p), F[n + 1])
  BY <1>8, <1>11, <1>14, MappedAppend
<1> QED
  BY <1>0, <1>8, <1>12, <1>13, <1>14, <1>15 DEF tt, here

\* The two segments share out who talked how long.
Shares(whole, one, other) ==
    /\ UserMs(whole) \in Int /\ UserMs(one) \in Int /\ UserMs(other) \in Int
    /\ PersonaMs(whole) \in Int /\ PersonaMs(one) \in Int /\ PersonaMs(other) \in Int
    /\ UserMs(one) + UserMs(other) = UserMs(whole)
    /\ PersonaMs(one) + PersonaMs(other) = PersonaMs(whole)

\* So of the two segments of some rows.
SharedOut(rows, pressed) ==
    Shares(Exchanges(rows), Segment(rows, pressed, TRUE), Segment(rows, pressed, FALSE))

\* A Turn added to a whole and to one of its parts.
LEMMA ShareGrows ==
    ASSUME NEW whole \in Seq(AnyTurn), NEW one \in Seq(AnyTurn), NEW other \in Seq(AnyTurn),
           Shares(whole, one, other), NEW t \in AnyTurn
    PROVE  /\ Shares(Append(whole, t), Append(one, t), other)
           /\ Shares(Append(whole, t), one, Append(other, t))
<1>1. PICK u \in Int, p \in Int : u = t.phonation + PauseMs(t.pauses) /\ p = HeardMs(t)
  BY TalkAppend
<1>2. /\ UserMs(Append(whole, t)) = UserMs(whole) + u
      /\ PersonaMs(Append(whole, t)) = PersonaMs(whole) + p
      /\ UserMs(Append(one, t)) = UserMs(one) + u /\ PersonaMs(Append(one, t)) = PersonaMs(one) + p
      /\ UserMs(Append(other, t)) = UserMs(other) + u /\ PersonaMs(Append(other, t)) = PersonaMs(other) + p
  BY <1>1, TalkAppend
<1>3. PICK a \in Int, b \in Int, c \in Int, d \in Int, e \in Int, f \in Int :
         /\ a = UserMs(whole) /\ b = UserMs(one) /\ c = UserMs(other)
         /\ d = PersonaMs(whole) /\ e = PersonaMs(one) /\ f = PersonaMs(other)
         /\ b + c = a /\ e + f = d
  BY DEF Shares
<1>4. ASSUME NEW k \in Int, NEW l \in Int, NEW m \in Int PROVE (k + m) + l = (k + l) + m /\ k + (l + m) = (k + l) + m
  OBVIOUS
<1>5. b + c = a /\ e + f = d
  BY <1>3
<1>6. /\ (b + u) + c = a + u /\ b + (c + u) = a + u
      /\ (e + p) + f = d + p /\ e + (f + p) = d + p
  <2>1. (b + u) + c = (b + c) + u /\ b + (c + u) = (b + c) + u
    BY <1>4
  <2>2. (e + p) + f = (e + f) + p /\ e + (f + p) = (e + f) + p
    BY <1>4
  <2> QED
    BY <1>5, <2>1, <2>2
<1>7. /\ a + u \in Int /\ b + u \in Int /\ c + u \in Int
      /\ d + p \in Int /\ e + p \in Int /\ f + p \in Int
  OBVIOUS
<1>8. /\ UserMs(Append(whole, t)) = a + u /\ PersonaMs(Append(whole, t)) = d + p
      /\ UserMs(Append(one, t)) = b + u /\ PersonaMs(Append(one, t)) = e + p
      /\ UserMs(Append(other, t)) = c + u /\ PersonaMs(Append(other, t)) = f + p
  BY <1>2, <1>3
<1>9. /\ a = UserMs(whole) /\ b = UserMs(one) /\ c = UserMs(other)
      /\ d = PersonaMs(whole) /\ e = PersonaMs(one) /\ f = PersonaMs(other)
  BY <1>3
<1>10. Shares(Append(whole, t), Append(one, t), other)
  BY <1>6, <1>7, <1>8, <1>9 DEF Shares
<1>11. Shares(Append(whole, t), one, Append(other, t))
  BY <1>6, <1>7, <1>8, <1>9 DEF Shares
<1> QED
  BY <1>10, <1>11

\* Whatever is pressing, nothing is lost or counted twice.
LEMMA SegmentsShareTheCall ==
    ASSUME NEW pressed
    PROVE  \A rows \in Seq(AnyRow) :
              /\ Exchanges(rows) \in Seq(AnyTurn)
              /\ Segment(rows, pressed, TRUE) \in Seq(AnyTurn)
              /\ Segment(rows, pressed, FALSE) \in Seq(AnyTurn)
              /\ SharedOut(rows, pressed)
<1> DEFINE P == {rows \in Seq(AnyRow) : /\ Exchanges(rows) \in Seq(AnyTurn)
                                        /\ SharedOut(rows, pressed)}
<1>1. <<>> \in P
  <2>1. Exchanges(<<>>) = <<>>
    BY EmptySeq DEF Exchanges
  <2>2. \A w : Segment(<<>>, pressed, w) = <<>>
    BY EmptySeq, FlattenEmpty DEF Segment, Only
  <2>3. Shares(<<>>, <<>>, <<>>)
    BY NoTalk DEF Shares
  <2>4. <<>> \in Seq(AnyRow) /\ <<>> \in Seq(AnyTurn)
    BY EmptySeq
  <2> QED
    BY <2>1, <2>2, <2>3, <2>4 DEF SharedOut
<1>2. ASSUME NEW rows \in Seq(AnyRow), rows \in P, NEW r \in AnyRow PROVE Append(rows, r) \in P
  <2> DEFINE tt == Append(rows, r)
             whole == Exchanges(rows)
             one == Segment(rows, pressed, TRUE)
             other == Segment(rows, pressed, FALSE)
             t == Exchange(r)
             here == PressureOf(tt, pressed, Len(rows) + 1)
  <2>1. tt \in Seq(AnyRow) /\ t \in AnyTurn
    BY AppendProperties, RowsReadBack
  <2>2. here \in BOOLEAN
    BY DEF PressureOf
  <2>3. Exchanges(tt) = Append(whole, t)
    <3> DEFINE F == [x \in AnyRow |-> Exchange(x)]
    <3>1. Maps(F, AnyRow, AnyTurn) /\ F[r] = t
      BY RowsReadBack DEF Maps
    <3>2. ASSUME NEW s \in Seq(AnyRow) PROVE Exchanges(s) = Mapped(F, s)
      <4>1. \A i \in 1 .. Len(s) : F[s[i]] = Exchange(s[i])
        BY ElementOfSeq
      <4> HIDE DEF F
      <4> QED
        BY <4>1 DEF Exchanges, Mapped
    <3> HIDE DEF F
    <3>3. Mapped(F, rows) \in Seq(AnyTurn) /\ Mapped(F, Append(rows, r)) = Append(Mapped(F, rows), F[r])
      BY <3>1, MappedAppend
    <3> QED
      BY <2>1, <3>1, <3>2, <3>3
  <2>4. /\ one \in Seq(AnyTurn) /\ other \in Seq(AnyTurn)
        /\ Segment(tt, pressed, TRUE) = IF here = TRUE THEN Append(one, t) ELSE one
        /\ Segment(tt, pressed, FALSE) = IF here = FALSE THEN Append(other, t) ELSE other
    <3>1. PICK yes \in BOOLEAN, no \in BOOLEAN : yes = TRUE /\ no = FALSE
      OBVIOUS
    <3>2. /\ Segment(rows, pressed, yes) \in Seq(AnyTurn)
          /\ Segment(Append(rows, r), pressed, yes)
               = IF PressureOf(Append(rows, r), pressed, Len(rows) + 1) = yes
                 THEN Append(Segment(rows, pressed, yes), Exchange(r))
                 ELSE Segment(rows, pressed, yes)
      BY SegmentAppend
    <3>3. /\ Segment(rows, pressed, no) \in Seq(AnyTurn)
          /\ Segment(Append(rows, r), pressed, no)
               = IF PressureOf(Append(rows, r), pressed, Len(rows) + 1) = no
                 THEN Append(Segment(rows, pressed, no), Exchange(r))
                 ELSE Segment(rows, pressed, no)
      BY SegmentAppend
    <3> QED
      BY <3>1, <3>2, <3>3
  <2>5. whole \in Seq(AnyTurn) /\ Shares(whole, one, other)
    BY <1>2 DEF SharedOut
  <2> HIDE DEF tt, whole, one, other, t, here
  <2>6. Shares(Append(whole, t), Append(one, t), other) /\ Shares(Append(whole, t), one, Append(other, t))
    BY <2>1, <2>4, <2>5, ShareGrows
  <2>7. SharedOut(tt, pressed)
    <3>1. CASE here
      BY <2>3, <2>4, <2>6, <3>1 DEF SharedOut
    <3>2. CASE ~ here
      BY <2>2, <2>3, <2>4, <2>6, <3>2 DEF SharedOut
    <3> QED
      BY <3>1, <3>2
  <2>8. Exchanges(tt) \in Seq(AnyTurn)
    BY <2>1, <2>3, <2>5, AppendProperties
  <2> QED
    BY <2>1, <2>7, <2>8 DEF tt
<1> HIDE DEF P
<1>3. \A rows \in Seq(AnyRow) : rows \in P
  BY <1>1, <1>2, SequenceInduction
<1>4. ASSUME NEW rows \in Seq(AnyRow), NEW w
      PROVE  Segment(rows, pressed, w) \in Seq(AnyTurn)
  <2>1. CASE rows = <<>>
    BY <2>1, EmptySeq, FlattenEmpty DEF Segment, Only
  <2>2. CASE rows # <<>>
    <3>1. PICK r \in AnyRow : r = rows[1]
      <4>1. 1 \in 1 .. Len(rows)
        BY <2>2, EmptySeq
      <4> QED
        BY <4>1, ElementOfSeq
    <3> QED
      BY <3>1, SegmentAppend
  <2> QED
    BY <2>1, <2>2
<1> QED
  BY <1>3, <1>4 DEF P

-----------------------------------------------------------------------------
(* Rows judged and judged again.                                            *)

\* A stored row, its judgement put aside.
Judged(r, p) == [speaker |-> r.speaker, offset |-> r.offset, duration |-> r.duration,
                 text |-> r.text, facts |-> r.facts, pressed |-> p]

\* The rows are those of the call but for the judgements; and the segments were measured
\* over them, by the pressing lines of the last judgement.
SameButJudged(rows, stored) ==
    /\ Len(rows) = Len(stored)
    /\ \A i \in 1 .. Len(stored) : \E p : rows[i] = Judged(stored[i], p)

\* The rows stored of a call.
LEMMA RowsOfACall ==
    ASSUME NEW ts \in Seq(AnyTurn)
    PROVE  /\ StoredRows(ts) \in Seq(AnyRow)
           /\ SameButJudged(StoredRows(ts), StoredRows(ts))
<1>1. Utterances(ts) \in Seq(AnyLine)
  BY TimelineInOrder
<1>9. PICK said : said = Utterances(ts) /\ said \in Seq(AnyLine)
  BY <1>1
<1>2. PICK n \in Nat : n = Len(said) /\ said = Utterances(ts) /\ said \in Seq(AnyLine)
  BY <1>9, LenProperties
<1>3. StoredRows(ts) = [i \in 1 .. n |-> StoredRow(said[i])]
  BY <1>2 DEF StoredRows
<1>4. \A i \in 1 .. n : StoredRow(said[i]) \in AnyRow
  BY <1>2, ElementOfSeq DEF AnyRow
<1>5. StoredRows(ts) \in Seq(AnyRow)
  <2> DEFINE g == [i \in 1 .. n |-> StoredRow(said[i])]
  <2>1. g \in [1 .. n -> AnyRow]
    BY <1>4
  <2> HIDE DEF g
  <2>2. g \in Seq(AnyRow)
    BY <2>1, SeqDef
  <2> QED
    BY <1>3, <2>2 DEF g
<1>6. Len(StoredRows(ts)) = n
  BY <1>3
<1>7. ASSUME NEW u PROVE StoredRow(u) = Judged(StoredRow(u), "unjudged")
  BY DEF StoredRow, Judged
<1>8. \A i \in 1 .. n : StoredRows(ts)[i] = Judged(StoredRows(ts)[i], "unjudged")
  BY <1>3, <1>7
<1> QED
  BY <1>5, <1>6, <1>8 DEF SameButJudged

\* A judgement changes nothing of what is measured.
LEMMA JudgedRow ==
    ASSUME NEW r, NEW p
    PROVE  /\ Judged(r, p).speaker = r.speaker
           /\ Exchange(Judged(r, p)) = Exchange(r)
           /\ \A q : [Judged(r, p) EXCEPT !.pressed = q] = Judged(r, q)
<1>1. Judged(r, p).speaker = r.speaker
  BY DEF Judged
<1>2. \A q : [Judged(r, p) EXCEPT !.pressed = q] = Judged(r, q)
  BY DEF Judged
<1>3. /\ Judged(r, p).text = r.text /\ Judged(r, p).offset = r.offset
      /\ Judged(r, p).duration = r.duration /\ Judged(r, p).facts = r.facts
  BY DEF Judged
<1>4. RowEnd(Judged(r, p)) = RowEnd(r)
  BY <1>3 DEF RowEnd
<1>5. PICK j : j = Judged(r, p)
  OBVIOUS
<1>6. /\ j.speaker = r.speaker /\ j.text = r.text /\ j.offset = r.offset
      /\ j.duration = r.duration /\ j.facts = r.facts /\ RowEnd(j) = RowEnd(r)
  BY <1>1, <1>3, <1>4, <1>5
<1>7. Exchange(j) = Exchange(r)
  BY <1>6, Zenon DEF Exchange
<1> QED
  BY <1>1, <1>2, <1>5, <1>7

\* So whole rows are measured alike.
LEMMA JudgedRows ==
    ASSUME NEW rows, NEW stored \in Seq(AnyRow), SameButJudged(rows, stored), NEW pressed,
           NEW language, NEW reversed
    PROVE  MeasureSegments(rows, pressed, language, reversed)
              = MeasureSegments(stored, pressed, language, reversed)
<1>1. PICK n \in Nat : n = Len(stored) /\ n = Len(rows)
  BY LenProperties DEF SameButJudged
<1>2. ASSUME NEW i \in 1 .. n
      PROVE  rows[i].speaker = stored[i].speaker /\ Exchange(rows[i]) = Exchange(stored[i])
  <2>1. PICK p : rows[i] = Judged(stored[i], p)
    BY <1>1 DEF SameButJudged
  <2> QED
    BY <2>1, JudgedRow
<1>3. ASSUME NEW i \in 1 .. n PROVE PressureOf(rows, pressed, i) = PressureOf(stored, pressed, i)
  <2>1. \A j \in 1 .. i : rows[j].speaker = stored[j].speaker
    <3>1. \A j \in 1 .. i : j \in 1 .. n
      OBVIOUS
    <3> QED
      BY <1>2, <3>1
  <2>2. {j \in 1 .. i : rows[j].speaker = "persona"} = {j \in 1 .. i : stored[j].speaker = "persona"}
    BY <2>1
  <2> QED
    BY <2>2 DEF PressureOf
<1>4. ASSUME NEW wanted PROVE Segment(rows, pressed, wanted) = Segment(stored, pressed, wanted)
  <2> DEFINE N == 1 .. n
             ids == [i \in 1 .. n |-> i]
             at == Only(ids, LAMBDA i : PressureOf(stored, pressed, i) = wanted)
             hit == {i \in 1 .. n : PressureOf(stored, pressed, i) = wanted}
  <2>1. Only(ids, LAMBDA i : PressureOf(rows, pressed, i) = wanted) = at
    <3>1. [i \in 1 .. Len(ids) |-> IF PressureOf(rows, pressed, ids[i]) = wanted THEN <<ids[i]>> ELSE <<>>]
             = [i \in 1 .. Len(ids) |-> IF PressureOf(stored, pressed, ids[i]) = wanted THEN <<ids[i]>> ELSE <<>>]
      BY <1>3
    <3> QED
      BY <3>1 DEF Only
  <2>2. ids \in Seq(N) /\ Len(ids) = n
    OBVIOUS
  <2>3. at = Picks(ids, hit)
    <3>1. \A i \in 1 .. n : (PressureOf(stored, pressed, ids[i]) = wanted) <=> i \in hit
      OBVIOUS
    <3> HIDE DEF hit
    <3>2. [i \in 1 .. n |-> IF PressureOf(stored, pressed, ids[i]) = wanted THEN <<ids[i]>> ELSE <<>>]
             = [i \in 1 .. n |-> IF i \in hit THEN <<ids[i]>> ELSE <<>>]
      BY <3>1
    <3> HIDE DEF ids
    <3> QED
      BY <2>2, <3>2 DEF Only, Picks
  <2>4. hit \in SUBSET (1 .. Len(ids))
    BY <2>2
  <2>5. at \in Seq(N)
    <3> HIDE DEF ids, at, hit, N
    <3> QED
      BY <2>2, <2>3, <2>4, PicksKeepOrder
  <2>6. \A i \in 1 .. Len(at) : Exchange(rows[at[i]]) = Exchange(stored[at[i]])
    <3>1. \A i \in 1 .. Len(at) : at[i] \in 1 .. n
      <4> HIDE DEF at
      <4> QED
        BY <2>5, ElementOfSeq
    <3> HIDE DEF at
    <3> QED
      BY <1>2, <3>1
  <2>7. Segment(rows, pressed, wanted) = [i \in 1 .. Len(at) |-> Exchange(rows[at[i]])]
    BY <1>1, <2>1 DEF Segment
  <2>8. Segment(stored, pressed, wanted) = [i \in 1 .. Len(at) |-> Exchange(stored[at[i]])]
    BY <1>1 DEF Segment
  <2> HIDE DEF at
  <2> QED
    BY <2>6, <2>7, <2>8
<1> DEFINE one(s) == IF pressed = {} THEN NoFigures
                     ELSE Rows(SegmentFigures(Segment(rows, pressed, s = "pressure"), language, reversed))
           other(s) == IF pressed = {} THEN NoFigures
                       ELSE Rows(SegmentFigures(Segment(stored, pressed, s = "pressure"), language, reversed))
<1>5. \A s \in {"pressure", "rest"} : one(s) = other(s)
  BY <1>4
<1>6. /\ MeasureSegments(rows, pressed, language, reversed) = [s \in {"pressure", "rest"} |-> one(s)]
      /\ MeasureSegments(stored, pressed, language, reversed) = [s \in {"pressure", "rest"} |-> other(s)]
  BY DEF MeasureSegments
<1> HIDE DEF one, other
<1> QED
  BY <1>5, <1>6

\* Two calls with the same basis have the same figures.
LEMMA SameBasisSameFigures ==
    ASSUME NEW call, NEW other, Basis(call) = Basis(other), NEW key \in StoredKeys
    PROVE  Rows(Measure(call))[key] = Rows(Measure(other))[key]
<1>1. /\ TalkShare(call) = TalkShare(other) /\ Questions(call) = Questions(other)
      /\ Pace(call) = Pace(other) /\ WordCount(call) = WordCount(other)
      /\ Fillers(call) = Fillers(other) /\ Opening(call) = Opening(other)
      /\ Closing(call) = Closing(other) /\ Repetitions(call) = Repetitions(other)
      /\ ReactionTime(call) = ReactionTime(other) /\ Pauses(call) = Pauses(other)
      /\ PhonationShare(call) = PhonationShare(other)
      /\ RunLength(call) = RunLength(other) /\ Loudness(call) = Loudness(other)
  <2>1. PICK b : b = Basis(call) /\ b = Basis(other)
    OBVIOUS
  <2>2. /\ TalkShare(call) = TalkShare(b) /\ Questions(call) = Questions(b)
        /\ Pace(call) = Pace(b) /\ WordCount(call) = WordCount(b)
        /\ Fillers(call) = Fillers(b) /\ Opening(call) = Opening(b)
        /\ Closing(call) = Closing(b) /\ Repetitions(call) = Repetitions(b)
        /\ ReactionTime(call) = ReactionTime(b) /\ Pauses(call) = Pauses(b)
        /\ PhonationShare(call) = PhonationShare(b)
        /\ RunLength(call) = RunLength(b) /\ Loudness(call) = Loudness(b)
    BY <2>1, FiguresRestOnTheBasis
  <2>3. /\ TalkShare(other) = TalkShare(b) /\ Questions(other) = Questions(b)
        /\ Pace(other) = Pace(b) /\ WordCount(other) = WordCount(b)
        /\ Fillers(other) = Fillers(b) /\ Opening(other) = Opening(b)
        /\ Closing(other) = Closing(b) /\ Repetitions(other) = Repetitions(b)
        /\ ReactionTime(other) = ReactionTime(b) /\ Pauses(other) = Pauses(b)
        /\ PhonationShare(other) = PhonationShare(b)
        /\ RunLength(other) = RunLength(b) /\ Loudness(other) = Loudness(b)
    BY <2>1, FiguresRestOnTheBasis
  <2> QED
    BY <2>2, <2>3
<1>2. Measure(call)[key] = Measure(other)[key]
  BY <1>1 DEF Measure, StoredKeys, SegmentKeys
<1>3. \A c \in {call, other} : key \in DOMAIN Measure(c)
  BY DEF Measure, StoredKeys, SegmentKeys
<1>4. \A c \in {call, other} :
         Rows(Measure(c))[key] = IF key \in Seeded THEN Measure(c)[key] ELSE {}
  BY <1>3 DEF Rows
<1> QED
  BY <1>2, <1>4

\* A share of the talk says how long each side talked.
LEMMA ShareOfTheTalk ==
    ASSUME NEW call, NEW share \in TalkShare(call)
    PROVE  share.user = Voiced(call) /\ share.persona = call.personaMs
<1>1. share = [value |-> <<Voiced(call) * 100, Voiced(call) + call.personaMs>>,
               user |-> Voiced(call), persona |-> call.personaMs]
  BY DEF TalkShare
<1>2. PICK v, u, p : v = <<Voiced(call) * 100, Voiced(call) + call.personaMs>>
                     /\ u = Voiced(call) /\ p = call.personaMs
  OBVIOUS
<1>3. share = [value |-> v, user |-> u, persona |-> p]
  BY <1>1, <1>2
<1> QED
  BY <1>2, <1>3

\* A segment has one only of its own rows.
LEMMA ShareOfASegment ==
    ASSUME NEW part \in Seq(AnyTurn), NEW language, NEW reversed,
           NEW share \in SegmentFigures(part, language, reversed).talk_share
    PROVE  share.user = UserMs(part) /\ share.persona = PersonaMs(part)
<1> DEFINE call == Conversation(part, language, reversed)
<1>1. NoFigures.talk_share = {}
  BY DEF NoFigures, SegmentKeys
<1>2. SegmentFigures(part, language, reversed).talk_share \in {NoFigures.talk_share, TalkShare(call)}
  <2> HIDE DEF call
  <2>1. ASSUME NEW a, NEW b, NEW c, NEW d, NEW e
        PROVE  [talk_share |-> a, pace |-> b, pauses |-> c, run_length |-> d, loudness |-> e].talk_share = a
    OBVIOUS
  <2>2. SegmentFigures(part, language, reversed) \in
           {NoFigures, [talk_share |-> TalkShare(call), pace |-> Pace(call), pauses |-> Pauses(call),
                        run_length |-> RunLength(call), loudness |-> Loudness(call)]}
    BY DEF SegmentFigures, call
  <2> QED
    BY <2>1, <2>2
<1>3. share \in TalkShare(call)
  BY <1>1, <1>2
<1>4. share.user = Voiced(call) /\ share.persona = call.personaMs
  <2> HIDE DEF call
  <2> QED
    BY <1>3, ShareOfTheTalk
<1> QED
  BY <1>4, TalkOfACall

\* The two segments of some rows, and a share of the talk in some Turns.
Parted(rows, pressed, one, other) ==
    one = Segment(rows, pressed, TRUE) /\ other = Segment(rows, pressed, FALSE)

\* The figures of both.
MeasuredOver(s, rows, pressed, language, reversed) ==
    s = MeasureSegments(rows, pressed, language, reversed)

\* A share of the talk is that of some Turns.
IsShare(share, ts) == share.user = UserMs(ts) /\ share.persona = PersonaMs(ts)

\* What is measured over the segments of some rows.
LEMMA SharesOfTheSegments ==
    ASSUME NEW rows, NEW pressed, NEW language, NEW reversed,
           NEW s, MeasuredOver(s, rows, pressed, language, reversed),
           NEW one \in Seq(AnyTurn), NEW other \in Seq(AnyTurn), Parted(rows, pressed, one, other),
           NEW p, NEW r, p \in s["pressure"].talk_share, r \in s["rest"].talk_share
    PROVE  IsShare(p, one) /\ IsShare(r, other)
<1>1. NoFigures.talk_share = {}
  BY DEF NoFigures, SegmentKeys
<1>2. PICK yes, no : yes = ("pressure" = "pressure") /\ no = ("rest" = "pressure")
  OBVIOUS
<1>3. yes = TRUE /\ no = FALSE
  BY <1>2
<1>4. /\ s["pressure"] = IF pressed = {} THEN NoFigures
                         ELSE Rows(SegmentFigures(Segment(rows, pressed, yes), language, reversed))
      /\ s["rest"] = IF pressed = {} THEN NoFigures
                     ELSE Rows(SegmentFigures(Segment(rows, pressed, no), language, reversed))
  BY <1>2 DEF MeasureSegments, MeasuredOver
<1>5. pressed # {}
  BY <1>1, <1>4
<1>6. one = Segment(rows, pressed, yes) /\ other = Segment(rows, pressed, no)
  BY <1>3 DEF Parted
<1>8. ASSUME NEW part, NEW x, x \in Rows(SegmentFigures(part, language, reversed)).talk_share
      PROVE  x \in SegmentFigures(part, language, reversed).talk_share
  <2> DEFINE f == SegmentFigures(part, language, reversed)
  <2>1. DOMAIN f = SegmentKeys
    BY DEF SegmentFigures, NoFigures, SegmentKeys
  <2> HIDE DEF f
  <2>2. Rows(f)["talk_share"] = IF "talk_share" \in Seeded THEN f["talk_share"] ELSE {}
    BY <2>1 DEF Rows, SegmentKeys
  <2> QED
    BY <1>8, <2>2 DEF f
<1>7. /\ p \in SegmentFigures(one, language, reversed).talk_share
      /\ r \in SegmentFigures(other, language, reversed).talk_share
  BY <1>4, <1>5, <1>6, <1>8
<1> QED
  BY <1>7, ShareOfASegment DEF IsShare
=============================================================================
