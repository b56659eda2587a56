----------------------------- MODULE VoiceCurves -----------------------------
(* What is read off the two curves of an utterance: its pitch, in semitones *)
(* on a 10 ms grid, and its loudness on a 100 ms grid.  0 marks an unvoiced *)
(* or a silent point.  Figures that the code rounds are kept as fractions.  *)
EXTENDS Integers, Sequences, FiniteSets, SequencesExt

CONSTANTS
    HoldFrames,   \* MIN_HOLD_MS, in frames
    MaxSpan,      \* MAX_SPAN_ST
    MinVoiced,    \* MIN_VOICED_FRAMES
    PvqWindow,    \* PVQ_WINDOW_MS, in frames
    TailFrames,   \* TERMINAL_WINDOW_MS, in frames
    MinTail,      \* MIN_TERMINAL_FRAMES
    Glissando,    \* GLISSANDO_ST_S2, in semitones times frames
    MaxStep,      \* MAX_STEP_ST
    PerPoint,     \* frames to one point of the drawn curve
    SmoothPoints, \* _SMOOTH_POINTS
    MinStretch    \* _MIN_STRETCH_POINTS

ASSUME CurveAssumption ==
    {HoldFrames, PvqWindow, PerPoint, SmoothPoints, MinStretch} \subseteq Nat \ {0}

(* Selecting, sorting and adding up, put so that they can be reasoned about.*)
Only(s, Test(_)) == FlattenSeq([i \in 1 .. Len(s) |-> IF Test(s[i]) THEN <<s[i]>> ELSE <<>>])
Inserted(s, v) == InsertAt(s, 1 + Cardinality({i \in 1 .. Len(s) : s[i] <= v}), v)
Ordered(s) ==
    LET ordered[i \in 0 .. Len(s)] == IF i = 0 THEN <<>> ELSE Inserted(ordered[i - 1], s[i])
    IN  ordered[Len(s)]
Sounding(s) == Only(s, LAMBDA v : v # 0)
Total(s) ==
    LET sum[i \in 0 .. Len(s)] == IF i = 0 THEN 0 ELSE sum[i - 1] + s[i] IN sum[Len(s)]
Greater(a, b) == IF a > b THEN a ELSE b
Lesser(a, b) == IF a < b THEN a ELSE b
Around(s, i, half) == SubSeq(s, Greater(1, i - half), Lesser(Len(s), i + half))

(* Twice the median of a sorted sequence.                                   *)
Median2(s) == s[(Len(s) + 1) \div 2] + s[(Len(s) + 2) \div 2]

-----------------------------------------------------------------------------
(* Hesitation sounds: voiced stretches that hold their pitch.               *)

IsFlat(u, from, to) ==
    LET frames == {u[i] : i \in from .. to} IN
    0 \notin frames /\ Max(frames) - Min(frames) <= MaxSpan

\* Mutant of FlatEnd: an unvoiced frame does not end a hold.
FlatEndAcrossSilence(u, s) ==
    Max({s} \cup {e \in s + 1 .. Len(u) + 1 :
                    LET v == {u[i] : i \in s .. e - 1} \ {0} IN v # {} /\ Max(v) - Min(v) <= MaxSpan})

FlatEnd(u, s) == Max({s} \cup {e \in s + 1 .. Len(u) + 1 : IsFlat(u, s, e - 1)})

Holds(u) ==
    LET from[s \in 1 .. Len(u) + 1] ==
          IF s > Len(u) THEN <<>>
          ELSE LET e == FlatEnd(u, s) IN
               IF e - s >= HoldFrames
               THEN <<[start |-> s, frames |-> e - s]>> \o from[e]
               ELSE from[s + 1]
    IN  from[1]

-----------------------------------------------------------------------------
(* Intonation.                                                              *)

(* 5th to 95th percentile of the voiced frames.                             *)
PitchBand(voiced) ==
    LET s == Ordered(voiced)  margin == Len(s) \div 20 IN
    IF Len(s) < MinVoiced THEN {} ELSE {[low |-> s[1 + margin], high |-> s[Len(s) - margin]]}
RangeOf(voiced) == {b.high - b.low : b \in PitchBand(voiced)}

(* Thirds of the voiced speech, cut at voiced positions.                    *)
Thirds(contour) ==
    LET at == Only([i \in 1 .. Len(contour) |-> i], LAMBDA i : contour[i] # 0)
        cut == Len(at) \div 3
    IN  IF Len(at) < 3 THEN <<<<>>, <<>>, <<>>>>
        ELSE <<SubSeq(contour, 1, at[cut + 1] - 1),
               SubSeq(contour, at[cut + 1], at[2 * cut + 1] - 1),
               SubSeq(contour, at[2 * cut + 1], Len(contour))>>

(* The windows a pitch variation quotient is taken of: a short remainder    *)
(* counts only if there was no full window.                                 *)
PvqWindows(contour) ==
    LET n == Len(contour)
        starts == {i \in 1 .. n : (i - 1) % PvqWindow = 0
                                  /\ (i + PvqWindow - 1 <= n \/ n < PvqWindow)}
        window(i) == SubSeq(contour, i, Lesser(n, i + PvqWindow - 1))
    IN  {i \in starts : Len(Sounding(window(i)))
                           >= Greater(MinVoiced, (3 * Len(window(i))) \div 10)}

SmoothPitch(contour) ==
    [i \in 1 .. Len(contour) |->
        IF contour[i] = 0 THEN 0
        ELSE Median2(Ordered(Sounding(Around(contour, i, 1))))]

(* Steps between neighbouring voiced frames, never across a seam between    *)
(* utterances; a bigger jump is the tracker.  Half semitones; none if fewer *)
(* than the voiced frames any reading takes.                                *)
MovementSteps(utterances) ==
    LET steps(s) == Only([i \in 1 .. Len(s) - 1 |->
                                  IF s[i] = 0 \/ s[i + 1] = 0 THEN -1
                                  ELSE Greater(s[i + 1] - s[i], s[i] - s[i + 1])],
                              LAMBDA step : step \in 0 .. 2 * MaxStep)
        pooled == FlattenSeq([k \in 1 .. Len(utterances) |-> steps(SmoothPitch(utterances[k]))])
    IN  IF Len(pooled) < MinVoiced THEN <<>> ELSE pooled

(* The least-squares slope of the last voiced frames against the glissando  *)
(* threshold for as many frames.                                            *)
Ending(u) ==
    LET voiced == Sounding(u)
        tail == SubSeq(voiced, Greater(1, Len(voiced) - TailFrames + 1), Len(voiced))
        n == Len(tail)
        off(i) == 2 * i - n - 1
        rise == 2 * (n - 1) * (n - 1) * Total([i \in 1 .. n |-> off(i) * tail[i]])
        flat == Glissando * Total([i \in 1 .. n |-> off(i) * off(i)])
    IN  IF n < MinTail \/ n < 2 THEN {}
        ELSE {IF rise <= - flat THEN "falling" ELSE IF rise >= flat THEN "rising" ELSE "level"}
Endings(utterances) ==
    [kind \in {"falling", "rising", "level"} |->
        Cardinality({k \in 1 .. Len(utterances) : kind \in Ending(utterances[k])})]

(* The drawn curve, and where one utterance ends and the next begins in it. *)
Points(frames) == (frames + PerPoint - 1) \div PerPoint
Thin(contour) ==
    [p \in 1 .. Points(Len(contour)) |->
        LET w == Sounding(SubSeq(contour, (p - 1) * PerPoint + 1,
                                 Lesser(Len(contour), p * PerPoint)))
        IN  IF w = <<>> THEN 0 ELSE Median2(Ordered(w))]
Breaks(utterances) ==
    LET frames(k) == Total([i \in 1 .. k |-> Len(utterances[i])]) IN
    {frames(k) \div PerPoint : k \in 1 .. Len(utterances) - 1}
        \ {0, Points(frames(Len(utterances)))}

Profile(contour, utterances) ==
    LET voiced == Sounding(contour) IN
    {[range |-> r, band |-> PitchBand(voiced), voiced |-> Len(voiced),
      movement |-> MovementSteps(IF utterances = <<>> THEN <<contour>> ELSE utterances),
      windows |-> Cardinality(PvqWindows(contour)), endings |-> Endings(utterances),
      first |-> RangeOf(Sounding(Thirds(contour)[1])),
      last |-> RangeOf(Sounding(Thirds(contour)[3])),
      curve |-> Thin(contour), breaks |-> Breaks(utterances)] : r \in RangeOf(voiced)}

-----------------------------------------------------------------------------
(* The course of the loudness: stretches outside the speaker's own band.    *)

(* Median and twice the spread, in units of 1/4n for n audible points.      *)
LoudBand(audible) ==
    LET n == Len(audible)
        mid2 == Median2(audible)
        off == Ordered([i \in 1 .. n |-> Greater(2 * audible[i] - mid2, mid2 - 2 * audible[i])])
        spread == IF Median2(off) # 0 THEN n * Median2(off) ELSE 2 * Total(off)
    IN  [low |-> 2 * n * mid2 - 2 * spread, high |-> 2 * n * mid2 + 2 * spread, scale |-> 4 * n]

(* Running means as sum and count; a window more than half silent has none. *)
SmoothLoudness(curve) ==
    [i \in 1 .. Len(curve) |->
        LET w == Sounding(Around(curve, i, SmoothPoints \div 2)) IN
        IF Len(w) >= SmoothPoints \div 2 /\ w # <<>>
        THEN [sum |-> Total(w), count |-> Len(w)] ELSE [sum |-> 0, count |-> 0]]

Direction(band, mean) ==
    IF mean.count = 0 THEN "none"
    ELSE IF mean.sum * band.scale > band.high * mean.count THEN "louder"
    ELSE IF mean.sum * band.scale < band.low * mean.count THEN "quieter" ELSE "none"

(* At most one stretch per direction: the one furthest out over its length. *)
Stretches(curve) ==
    LET audible == Ordered(Sounding(curve))
        band == LoudBand(audible)
        means == SmoothLoudness(curve)
        way == [i \in 1 .. Len(curve) |-> Direction(band, means[i])]
        distance(i) == LET off == (means[i].sum * band.scale) \div means[i].count IN
                       IF way[i] = "louder" THEN off - band.high ELSE band.low - off
        runs(d) == {r \in (1 .. Len(curve)) \X (1 .. Len(curve)) :
                      /\ r[2] - r[1] + 1 >= MinStretch
                      /\ \A k \in r[1] .. r[2] : way[k] = d
                      /\ r[1] = 1 \/ way[r[1] - 1] # d
                      /\ r[2] = Len(curve) \/ way[r[2] + 1] # d}
        out(r) == Total([k \in 1 .. r[2] - r[1] + 1 |-> distance(r[1] + k - 1)])
        furthest(d) == {r \in runs(d) : \A q \in runs(d) :
                           out(q) < out(r) \/ (out(q) = out(r) /\ q[1] >= r[1])}
        peak(r) == Min({k \in r[1] .. r[2] : \A m \in r[1] .. r[2] : distance(m) <= distance(k)})
    IN  IF Len(audible) < MinStretch THEN {}
        ELSE {[direction |-> d, peak |-> peak(CHOOSE r \in furthest(d) : TRUE)] :
                d \in {e \in {"louder", "quieter"} : runs(e) # {}}}
=============================================================================
