------------------------------- MODULE Induction -------------------------------
(***************************************************************************)
(* Induction and recursion over the natural numbers, stated of sets and of *)
(* functions instead of operators, so that a proof can name the set it     *)
(* argues about; they rest on the well-foundedness of <.  And what they    *)
(* give for sequences: induction over their length, and what flattening,   *)
(* selecting from and mapping a sequence does with one element more.       *)
(***************************************************************************)
EXTENDS Integers, Sequences, SequencesExt, WellFoundedInduction, SequenceTheorems,
        FiniteSetTheorems, TLAPS

\* What holds of 0 and passes from each number to the next holds of all.
LEMMA SetInduction ==
    ASSUME NEW S, 0 \in S, \A n \in Nat : n \in S => n + 1 \in S
    PROVE  \A n \in Nat : n \in S
<1> DEFINE less == {p \in Nat \X Nat : p[1] < p[2]}
           T == {n \in Nat : n \notin S}
<1>1. IsWellFoundedOn(less, Nat)
  BY NatLessThanWellFounded DEF OpToRel
<1> SUFFICES ASSUME T # {} PROVE FALSE
  OBVIOUS
<1>2. T \subseteq Nat
  OBVIOUS
<1> HIDE DEF T
<1>3. PICK x \in T : \A y \in T : <<y, x>> \notin less
  BY <1>1, <1>2, WFMin
<1>4. \A y \in T : ~ y < x
  BY <1>2, <1>3
<1>5. x \in Nat /\ x \notin S
  BY DEF T
<1>6. x - 1 \in Nat /\ x - 1 < x /\ x - 1 + 1 = x
  BY <1>5
<1>7. x - 1 \in S
  BY <1>4, <1>6 DEF T
<1> QED
  BY <1>5, <1>6, <1>7

\* Course of values: what passes to a number from all smaller ones holds of all.
LEMMA StrongInduction ==
    ASSUME NEW S, \A n \in Nat : (\A m \in 0 .. n - 1 : m \in S) => n \in S
    PROVE  \A n \in Nat : n \in S
<1> DEFINE T == {n \in Nat : \A m \in 0 .. n : m \in S}
<1>1. 0 \in T
  OBVIOUS
<1>2. ASSUME NEW n \in Nat, n \in T PROVE n + 1 \in T
  <2>1. \A m \in 0 .. (n + 1) - 1 : m \in S
    BY <1>2
  <2>2. n + 1 \in S
    BY <2>1
  <2> QED
    BY <1>2, <2>2
<1> HIDE DEF T
<1>3. \A n \in Nat : n \in T
  BY <1>1, <1>2, SetInduction
<1> QED
  BY <1>3 DEF T

-----------------------------------------------------------------------------

\* The first n values of the function that starts with `first' and goes on by `step'.
Follows(g, n, first, step) ==
    /\ g[0] = first
    /\ \A i \in 0 .. n - 1 : g[i + 1] = step[<<i, g[i]>>]

\* Two such beginnings agree as far as both go.
LEMMA FollowsAgree ==
    ASSUME NEW g, NEW h, NEW n \in Nat, NEW m \in Nat, n <= m, NEW first, NEW step,
           Follows(g, n, first, step), Follows(h, m, first, step)
    PROVE  \A i \in 0 .. n : g[i] = h[i]
<1> DEFINE S == {i \in Nat : i <= n => g[i] = h[i]}
<1>1. 0 \in S
  BY DEF Follows
<1>2. ASSUME NEW i \in Nat, i \in S PROVE i + 1 \in S
  <2> SUFFICES ASSUME i + 1 <= n PROVE g[i + 1] = h[i + 1]
    OBVIOUS
  <2>1. i \in 0 .. n - 1 /\ i \in 0 .. m - 1 /\ g[i] = h[i]
    BY <1>2
  <2>2. g[i + 1] = step[<<i, g[i]>>] /\ h[i + 1] = step[<<i, h[i]>>]
    BY <2>1 DEF Follows
  <2> QED
    BY <2>1, <2>2
<1> HIDE DEF S
<1>3. \A i \in Nat : i \in S
  BY <1>1, <1>2, SetInduction
<1> QED
  BY <1>3 DEF S

\* A step that stays within a set, and all values of such a function.
Within(step, V) == \A i \in Nat : \A v \in V : step[<<i, v>>] \in V
Iterates(f, first, step) ==
    /\ f[0] = first
    /\ \A i \in Nat : f[i + 1] = step[<<i, f[i]>>]

\* Recursion: every start and every step within a set have such a function.
LEMMA Recursion ==
    ASSUME NEW V, NEW first \in V, NEW step, Within(step, V)
    PROVE  \E f \in [Nat -> V] : Iterates(f, first, step)
<1> DEFINE S == {n \in Nat : \E g \in [0 .. n -> V] : Follows(g, n, first, step)}
<1>1. 0 \in S
  <2> DEFINE g == [i \in 0 .. 0 |-> first]
  <2>1. g \in [0 .. 0 -> V] /\ Follows(g, 0, first, step)
    BY DEF Follows
  <2> QED
    BY <2>1
<1>2. ASSUME NEW n \in Nat, n \in S PROVE n + 1 \in S
  <2>1. PICK g \in [0 .. n -> V] : Follows(g, n, first, step)
    BY <1>2
  <2> DEFINE h == [i \in 0 .. n + 1 |-> IF i <= n THEN g[i] ELSE step[<<n, g[n]>>]]
  <2>2. h \in [0 .. n + 1 -> V]
    BY DEF Within
  <2>3. Follows(h, n + 1, first, step)
    <3>1. h[0] = first
      BY <2>1 DEF Follows
    <3>2. ASSUME NEW i \in 0 .. (n + 1) - 1 PROVE h[i + 1] = step[<<i, h[i]>>]
      <4>1. CASE i = n
        <5>1. n \in 0 .. n + 1 /\ n + 1 \in 0 .. n + 1 /\ n <= n /\ ~ n + 1 <= n
          OBVIOUS
        <5>2. h[n] = g[n] /\ h[n + 1] = step[<<n, g[n]>>]
          BY <5>1
        <5> QED
          BY <4>1, <5>2
      <4>2. CASE i # n
        <5>1. i \in 0 .. n - 1 /\ i + 1 \in 0 .. n
          BY <4>2
        <5>2. g[i + 1] = step[<<i, g[i]>>]
          BY <2>1, <5>1 DEF Follows
        <5>3. h[i] = g[i] /\ h[i + 1] = g[i + 1]
          BY <5>1
        <5> QED
          BY <5>2, <5>3
      <4> QED
        BY <4>1, <4>2
    <3> QED
      BY <3>1, <3>2 DEF Follows
  <2> QED
    BY <2>2, <2>3
<1>3. \A n \in Nat : n \in S
  <2> HIDE DEF S
  <2> QED
    BY <1>1, <1>2, SetInduction
<1> DEFINE G(n) == CHOOSE g \in [0 .. n -> V] : Follows(g, n, first, step)
           f == [n \in Nat |-> G(n)[n]]
<1>4. \A n \in Nat : G(n) \in [0 .. n -> V] /\ Follows(G(n), n, first, step)
  BY <1>3
<1> HIDE DEF G
<1>5. f \in [Nat -> V]
  BY <1>4
<1>6. f[0] = first
  BY <1>4 DEF Follows
<1>7. ASSUME NEW i \in Nat PROVE f[i + 1] = step[<<i, f[i]>>]
  <2>1. \A k \in 0 .. i : G(i)[k] = G(i + 1)[k]
    BY <1>4, FollowsAgree
  <2>2. G(i + 1)[i + 1] = step[<<i, G(i + 1)[i]>>]
    BY <1>4 DEF Follows
  <2> QED
    BY <2>1, <2>2
<1> QED
  BY <1>5, <1>6, <1>7 DEF Iterates

-----------------------------------------------------------------------------

\* The least and the greatest of a set within bounds.
LEMMA LeastOf ==
    ASSUME NEW a \in Int, NEW S, S # {}, \A x \in S : x \in Int /\ a <= x
    PROVE  \E x \in S : \A y \in S : x <= y
<1> DEFINE T == {n \in Nat : a + n \notin S}
<1> SUFFICES ASSUME \A x \in S : ~ \A y \in S : x <= y PROVE FALSE
  OBVIOUS
<1>1. ASSUME NEW n \in Nat, \A m \in 0 .. n - 1 : m \in T PROVE n \in T
  <2> SUFFICES ASSUME a + n \in S PROVE FALSE
    OBVIOUS
  <2>1. PICK y \in S : ~ a + n <= y
    OBVIOUS
  <2>2. y - a \in 0 .. n - 1 /\ a + (y - a) = y
    BY <2>1
  <2>3. y - a \in T
    BY <1>1, <2>2
  <2> QED
    BY <2>2, <2>3
<1> HIDE DEF T
<1>2. \A n \in Nat : n \in T
  BY <1>1, StrongInduction
<1>3. PICK x \in S : TRUE
  OBVIOUS
<1>4. x - a \in Nat /\ a + (x - a) = x
  BY <1>3
<1> QED
  BY <1>2, <1>3, <1>4 DEF T

\* A set bounded above has a greatest element.
LEMMA GreatestOf ==
    ASSUME NEW b \in Int, NEW S, S # {}, \A x \in S : x \in Int /\ x <= b
    PROVE  \E x \in S : \A y \in S : x >= y
<1> DEFINE N == {- x : x \in S}
<1>1. N # {} /\ - b \in Int /\ \A x \in N : x \in Int /\ - b <= x
  OBVIOUS
<1> HIDE DEF N
<1>2. PICK x \in N : \A y \in N : x <= y
  BY <1>1, LeastOf
<1>3. PICK z \in S : x = - z
  BY <1>2 DEF N
<1>4. ASSUME NEW y \in S PROVE z >= y
  <2>1. - y \in N
    BY DEF N
  <2> QED
    BY <1>2, <1>3, <2>1
<1> QED
  BY <1>4

\* What a function does to the values above settles what it does to a value.
LooksAhead(B, n, V) ==
    \A g, h \in [1 .. n -> V] : \A s \in 1 .. n :
        (\A r \in s + 1 .. n : g[r] = h[r]) => B[g][s] = B[h][s]

\* Recursion downwards: such a function has a fixed point.
LEMMA Descent ==
    ASSUME NEW n \in Nat, NEW V, NEW first \in [1 .. n -> V],
           NEW B \in [[1 .. n -> V] -> [1 .. n -> V]], LooksAhead(B, n, V)
    PROVE  \E f \in [1 .. n -> V] : f = B[f]
<1> DEFINE F == [1 .. n -> V]
           step == [p \in Nat \X F |-> B[p[2]]]
<1>1. Within(step, F)
  BY DEF Within
<1> HIDE DEF step
<1>2. PICK g \in [Nat -> F] : Iterates(g, first, step)
  BY <1>1, Recursion
<1>3. ASSUME NEW i \in Nat PROVE g[i] \in F /\ g[i + 1] = B[g[i]]
  <2>1. g[i] \in F /\ g[i + 1] = step[<<i, g[i]>>]
    BY <1>2 DEF Iterates
  <2> QED
    BY <2>1 DEF step
<1> DEFINE S == {d \in Nat : \A s \in 1 .. n : n - s < d => g[d + 1][s] = g[d][s]}
<1>4. 0 \in S
  OBVIOUS
<1>5. ASSUME NEW d \in Nat, d \in S PROVE d + 1 \in S
  <2> SUFFICES ASSUME NEW s \in 1 .. n, n - s < d + 1
               PROVE  g[d + 1 + 1][s] = g[d + 1][s]
    OBVIOUS
  <2> DEFINE a == g[d]
             b == g[d + 1]
  <2>1. \A r \in s + 1 .. n : b[r] = a[r]
    BY <1>5
  <2>2. d + 1 \in Nat
    OBVIOUS
  <2>3. a \in F /\ b \in F /\ b = B[a]
    BY <1>3
  <2>4. g[d + 1 + 1] = B[b]
    BY <1>3, <2>2
  <2> HIDE DEF a, b
  <2>5. a \in [1 .. n -> V] /\ b \in [1 .. n -> V]
    BY <2>3
  <2>6. B[b][s] = B[a][s]
    BY <2>1, <2>5 DEF LooksAhead
  <2>7. g[d + 1 + 1][s] = b[s]
    BY <2>3, <2>4, <2>6
  <2> QED
    BY <2>7 DEF b
<1> HIDE DEF S
<1>6. \A d \in Nat : d \in S
  BY <1>4, <1>5, SetInduction
<1>7. n \in S
  BY <1>6
<1>8. \A s \in 1 .. n : g[n + 1][s] = g[n][s]
  BY <1>7 DEF S
<1>9. g[n] \in F /\ g[n + 1] \in F /\ g[n + 1] = B[g[n]]
  BY <1>3
<1>10. g[n + 1] = g[n]
  BY <1>8, <1>9
<1> QED
  BY <1>9, <1>10

-----------------------------------------------------------------------------
(* Replacing the last.                                                      *)

\* A sequence with its last element replaced.
LEMMA LastReplaced ==
    ASSUME NEW S, NEW s \in Seq(S), Len(s) > 0, NEW e \in S
    PROVE  LET r == [s EXCEPT ![Len(s)] = e] IN
           /\ r \in Seq(S) /\ Len(r) = Len(s) /\ r[Len(s)] = e
           /\ \A k \in 1 .. Len(s) : k # Len(s) => r[k] = s[k]
<1>1. Len(s) \in Nat /\ Len(s) \in 1 .. Len(s)
  BY LenProperties
<1> QED
  BY <1>1, ExceptSeq

-----------------------------------------------------------------------------
(* Bounds.                                                                  *)

\* Max picks the greatest of a set that has one.
LEMMA MaxOfBounded ==
    ASSUME NEW b \in Int, NEW S, S # {}, \A x \in S : x \in Int /\ x <= b
    PROVE  Max(S) \in S /\ \A y \in S : Max(S) >= y
<1>1. \E x \in S : \A y \in S : x >= y
  BY GreatestOf
<1> QED
  BY <1>1 DEF Max

-----------------------------------------------------------------------------
(* Sequences: induction, and what FlattenSeq does.                          *)

\* What holds of the empty sequence and passes to every sequence one longer holds of all.
LEMMA SequenceInduction ==
    ASSUME NEW S, NEW P, <<>> \in P,
           \A s \in Seq(S) : s \in P => \A e \in S : Append(s, e) \in P
    PROVE  \A s \in Seq(S) : s \in P
<1> DEFINE T == {n \in Nat : \A s \in Seq(S) : Len(s) = n => s \in P}
<1>1. 0 \in T
  BY EmptySeq
<1>2. ASSUME NEW n \in Nat, n \in T PROVE n + 1 \in T
  <2> SUFFICES ASSUME NEW s \in Seq(S), Len(s) = n + 1 PROVE s \in P
    OBVIOUS
  <2>1. s # <<>>
    BY EmptySeq
  <2>2. PICK front \in Seq(S), e \in S : s = Append(front, e)
    BY <2>1, SequenceEmptyOrAppend
  <2>3. Len(front) = n
    BY <2>2, AppendProperties, LenProperties
  <2> QED
    BY <1>2, <2>2, <2>3
<1> HIDE DEF T
<1>3. \A n \in Nat : n \in T
  BY <1>1, <1>2, SetInduction
<1> QED
  BY <1>3, LenProperties DEF T

\* The beginnings of a flattened sequence of sequences.
Unrolls(g, ss) ==
    /\ g[0] = <<>>
    /\ \A i \in 1 .. Len(ss) : g[i] = g[i - 1] \o ss[i]

\* There are such beginnings, and the last one is the flattened sequence.
LEMMA FlattenUnrolls ==
    ASSUME NEW S, NEW ss \in Seq(Seq(S))
    PROVE  \E g \in [Nat -> Seq(S)] : Unrolls(g, ss) /\ g[Len(ss)] = FlattenSeq(ss)
<1>0. PICK n \in Nat : n = Len(ss)
  BY LenProperties
<1>1. \A i \in 1 .. n : ss[i] \in Seq(S)
  BY <1>0, ElementOfSeq
<1> DEFINE step == [p \in Nat \X Seq(S) |-> IF p[1] + 1 <= n THEN p[2] \o ss[p[1] + 1] ELSE p[2]]
<1>2. Within(step, Seq(S))
  <2> SUFFICES ASSUME NEW i \in Nat, NEW v \in Seq(S) PROVE step[<<i, v>>] \in Seq(S)
    BY DEF Within
  <2>1. CASE i + 1 <= n
    <3>1. ss[i + 1] \in Seq(S)
      BY <1>1, <2>1
    <3>2. v \o ss[i + 1] \in Seq(S)
      BY <3>1, ConcatProperties
    <3> QED
      BY <2>1, <3>2
  <2>2. CASE ~ i + 1 <= n
    BY <2>2
  <2> QED
    BY <2>1, <2>2
<1>3. <<>> \in Seq(S)
  BY EmptySeq
<1> HIDE DEF step
<1>4. PICK g \in [Nat -> Seq(S)] : Iterates(g, <<>>, step)
  BY <1>2, <1>3, Recursion
<1>5. g[0] = <<>>
  BY <1>4 DEF Iterates
<1>6. ASSUME NEW i \in 1 .. n PROVE g[i] = g[i - 1] \o ss[i]
  <2>1. i - 1 \in Nat /\ i - 1 + 1 = i /\ i <= n
    OBVIOUS
  <2>2. g[i] = step[<<i - 1, g[i - 1]>>]
    BY <1>4, <2>1 DEF Iterates
  <2>3. g[i - 1] \in Seq(S)
    BY <2>1
  <2> QED
    BY <2>1, <2>2, <2>3 DEF step
<1>7. CASE n = 0
  <2>1. ss = <<>>
    BY <1>0, <1>7, EmptySeq
  <2>2. FlattenSeq(ss) = <<>>
    BY <1>0, <1>7, <2>1 DEF FlattenSeq
  <2> QED
    BY <1>0, <1>5, <1>6, <1>7, <2>2 DEF Unrolls
<1>8. CASE n # 0
  <2> DEFINE F(h) == [i \in 1 .. n |-> IF i = 1 THEN ss[i] ELSE h[i - 1] \o ss[i]]
             flatten == CHOOSE h : h = F(h)
             w == [i \in 1 .. n |-> g[i]]
  <2>1. w = F(w)
    <3>1. ASSUME NEW i \in 1 .. n PROVE g[i] = IF i = 1 THEN ss[i] ELSE w[i - 1] \o ss[i]
      <4>1. CASE i = 1
        <5>0. i - 1 = 0
          BY <4>1
        <5>1. g[i] = g[i - 1] \o ss[i]
          BY <1>6
        <5>2. g[i - 1] = <<>> /\ ss[i] \in Seq(S)
          BY <1>1, <1>5, <5>0
        <5> QED
          BY <4>1, <5>1, <5>2, ConcatEmptySeq
      <4>2. CASE i # 1
        <5>1. i - 1 \in 1 .. n
          BY <4>2
        <5> QED
          BY <1>6, <4>2, <5>1
      <4> QED
        BY <4>1, <4>2
    <3> QED
      BY <3>1
  <2>2. flatten = F(flatten)
    <3> HIDE DEF F
    <3> QED
      BY <2>1
  <2>3. FlattenSeq(ss) = flatten[n]
    BY <1>0, <1>8 DEF FlattenSeq
  <2> HIDE DEF flatten
  <2>4. ASSUME NEW i \in 1 .. n
        PROVE  flatten[i] = IF i = 1 THEN ss[i] ELSE flatten[i - 1] \o ss[i]
    <3>1. flatten[i] = F(flatten)[i]
      BY <2>2
    <3> HIDE <2>2
    <3> QED
      BY <3>1
  <2> DEFINE T == {k \in Nat : k + 1 <= n => flatten[k + 1] = g[k + 1]}
  <2>6. 0 \in T
    <3>1. 1 \in 1 .. n /\ 1 - 1 = 0
      BY <1>8
    <3>2. g[1] = g[1 - 1] \o ss[1] /\ ss[1] \in Seq(S) /\ flatten[1] = ss[1]
      BY <1>1, <1>6, <2>4, <3>1
    <3>3. g[1] = ss[1]
      BY <1>5, <3>1, <3>2, ConcatEmptySeq
    <3> QED
      BY <3>2, <3>3
  <2>7. ASSUME NEW k \in Nat, k \in T PROVE k + 1 \in T
    <3> SUFFICES ASSUME k + 2 <= n PROVE flatten[k + 2] = g[k + 2]
      <4>1. k + 1 + 1 = k + 2 /\ k + 1 \in Nat
        OBVIOUS
      <4> QED
        BY <4>1
    <3>1. k + 2 # 1 /\ k + 2 \in 1 .. n /\ (k + 2) - 1 = k + 1 /\ k + 1 <= n
      OBVIOUS
    <3>2. /\ flatten[k + 2] = flatten[(k + 2) - 1] \o ss[k + 2]
          /\ g[k + 2] = g[(k + 2) - 1] \o ss[k + 2]
      BY <1>6, <2>4, <3>1
    <3>3. flatten[k + 1] = g[k + 1]
      BY <2>7, <3>1
    <3> QED
      BY <3>1, <3>2, <3>3
  <2> HIDE DEF T
  <2>8. \A k \in Nat : k \in T
    BY <2>6, <2>7, SetInduction
  <2>9. n - 1 \in T /\ (n - 1) + 1 = n
    BY <1>8, <2>8
  <2>10. flatten[n] = g[n]
    BY <2>9 DEF T
  <2> QED
    BY <1>0, <1>5, <1>6, <2>3, <2>10 DEF Unrolls
<1> QED
  BY <1>7, <1>8

\* Two sequences of beginnings agree.
Agree(g, h, n) == \A k \in Nat : k <= n => g[k] = h[k]

\* One sequence is the beginning of another.
Begins(ss, tt) == Len(ss) <= Len(tt) /\ \A i \in 1 .. Len(ss) : ss[i] = tt[i]

\* Sequences that begin alike are flattened alike as far as they do.
LEMMA UnrollsAgree ==
    ASSUME NEW S, NEW ss \in Seq(Seq(S)), NEW tt \in Seq(Seq(S)),
           NEW g \in [Nat -> Seq(S)], NEW h \in [Nat -> Seq(S)],
           Unrolls(g, ss), Unrolls(h, tt), Begins(ss, tt)
    PROVE  Agree(g, h, Len(ss))
<1>0. PICK n \in Nat, m \in Nat : n = Len(ss) /\ m = Len(tt)
  BY LenProperties
<1> DEFINE T == {k \in Nat : k <= n => g[k] = h[k]}
<1>1. 0 \in T
  BY DEF Unrolls
<1>2. ASSUME NEW k \in Nat, k \in T PROVE k + 1 \in T
  <2> SUFFICES ASSUME k + 1 <= n PROVE g[k + 1] = h[k + 1]
    OBVIOUS
  <2>1. k + 1 \in 1 .. n /\ k + 1 \in 1 .. m /\ (k + 1) - 1 = k
    BY <1>0 DEF Begins
  <2>2. g[k + 1] = g[(k + 1) - 1] \o ss[k + 1] /\ h[k + 1] = h[(k + 1) - 1] \o tt[k + 1]
    BY <1>0, <2>1 DEF Unrolls
  <2>3. g[k] = h[k] /\ ss[k + 1] = tt[k + 1]
    BY <1>0, <1>2, <2>1 DEF Begins
  <2> QED
    BY <2>1, <2>2, <2>3
<1> HIDE DEF T
<1>3. \A k \in Nat : k \in T
  BY <1>1, <1>2, SetInduction
<1> QED
  BY <1>0, <1>3 DEF T, Agree

\* Flattening, by the last sequence.
LEMMA FlattenEmpty == FlattenSeq(<<>>) = <<>>
BY DEF FlattenSeq

\* One sequence more is added at the end.
LEMMA FlattenAppend ==
    ASSUME NEW S, NEW ss \in Seq(Seq(S)), NEW e \in Seq(S)
    PROVE  /\ FlattenSeq(ss) \in Seq(S)
           /\ FlattenSeq(Append(ss, e)) = FlattenSeq(ss) \o e
<1>0. PICK n \in Nat : n = Len(ss)
  BY LenProperties
<1> DEFINE tt == Append(ss, e)
<1>1. tt \in Seq(Seq(S)) /\ Len(tt) = n + 1 /\ tt[n + 1] = e /\ \A i \in 1 .. n : ss[i] = tt[i]
  BY <1>0, AppendProperties
<1> HIDE DEF tt
<1>2. PICK g \in [Nat -> Seq(S)] : Unrolls(g, ss) /\ g[n] = FlattenSeq(ss)
  BY <1>0, FlattenUnrolls
<1>3. PICK h \in [Nat -> Seq(S)] : Unrolls(h, tt) /\ h[n + 1] = FlattenSeq(tt)
  BY <1>1, FlattenUnrolls
<1>4. g[n] = h[n]
  <2>1. Begins(ss, tt)
    BY <1>0, <1>1 DEF Begins
  <2>2. Unrolls(g, ss) /\ Unrolls(h, tt)
    BY <1>2, <1>3
  <2>3. tt \in Seq(Seq(S))
    BY <1>1
  <2>4. Agree(g, h, Len(ss))
    BY <2>1, <2>2, <2>3, UnrollsAgree, Zenon
  <2> QED
    BY <1>0, <2>4 DEF Agree
<1>5. h[n + 1] = h[n] \o e
  <2>1. n + 1 \in 1 .. n + 1 /\ (n + 1) - 1 = n
    OBVIOUS
  <2> QED
    BY <1>1, <1>3, <2>1 DEF Unrolls
<1>6. g[n] \in Seq(S)
  OBVIOUS
<1> QED
  BY <1>2, <1>3, <1>4, <1>5, <1>6 DEF tt

\* Where the elements of a flattened sequence come from: in order, and none is lost.
Sourced(ss, u, from) ==
    /\ from \in [1 .. Len(u) -> 1 .. Len(ss)]
    /\ \A i \in 1 .. Len(u) : \E r \in 1 .. Len(ss[from[i]]) : u[i] = ss[from[i]][r]
    /\ \A i, j \in 1 .. Len(u) : i <= j => from[i] <= from[j]
    /\ \A k \in 1 .. Len(ss) : \A r \in 1 .. Len(ss[k]) :
          \E i \in 1 .. Len(u) : from[i] = k /\ u[i] = ss[k][r]

\* One sequence more.
LEMMA SourcedAppend ==
    ASSUME NEW S, NEW ss \in Seq(Seq(S)), NEW e \in Seq(S), NEW u \in Seq(S),
           NEW from, Sourced(ss, u, from)
    PROVE  \E f : Sourced(Append(ss, e), u \o e, f)
<1>0. PICK n \in Nat, m \in Nat, l \in Nat : n = Len(ss) /\ m = Len(u) /\ l = Len(e)
  BY LenProperties
<1> DEFINE tt == Append(ss, e)
           v == u \o e
           f == [i \in 1 .. m + l |-> IF i <= m THEN from[i] ELSE n + 1]
<1>1. tt \in Seq(Seq(S)) /\ Len(tt) = n + 1 /\ tt[n + 1] = e /\ \A k \in 1 .. n : tt[k] = ss[k]
  BY <1>0, AppendProperties
<1>2. /\ v \in Seq(S) /\ Len(v) = m + l
      /\ \A i \in 1 .. m + l : v[i] = IF i <= m THEN u[i] ELSE e[i - m]
  BY <1>0, ConcatProperties
<1> HIDE DEF tt, v
<1>3. /\ from \in [1 .. m -> 1 .. n]
      /\ \A i \in 1 .. m : \E r \in 1 .. Len(ss[from[i]]) : u[i] = ss[from[i]][r]
      /\ \A i, j \in 1 .. m : i <= j => from[i] <= from[j]
      /\ \A k \in 1 .. n : \A r \in 1 .. Len(ss[k]) :
            \E i \in 1 .. m : from[i] = k /\ u[i] = ss[k][r]
  BY <1>0 DEF Sourced
<1>4. /\ \A i \in 1 .. m : f[i] = from[i] /\ f[i] \in 1 .. n /\ i \in 1 .. m + l /\ v[i] = u[i]
      /\ \A i \in m + 1 .. m + l : f[i] = n + 1 /\ i - m \in 1 .. l /\ v[i] = e[i - m]
      /\ \A i \in 1 .. m + l : i \in 1 .. m \/ i \in m + 1 .. m + l
  <2>1. ASSUME NEW i \in 1 .. m
        PROVE  f[i] = from[i] /\ f[i] \in 1 .. n /\ i \in 1 .. m + l /\ v[i] = u[i]
    <3>1. i \in 1 .. m + l /\ i <= m
      OBVIOUS
    <3> QED
      BY <1>2, <1>3, <3>1
  <2>2. ASSUME NEW i \in m + 1 .. m + l
        PROVE  f[i] = n + 1 /\ i - m \in 1 .. l /\ v[i] = e[i - m]
    <3>1. i \in 1 .. m + l /\ ~ i <= m /\ i - m \in 1 .. l
      OBVIOUS
    <3> QED
      BY <1>2, <3>1
  <2>3. \A i \in 1 .. m + l : i \in 1 .. m \/ i \in m + 1 .. m + l
    OBVIOUS
  <2> HIDE DEF f
  <2> QED
    BY <2>1, <2>2, <2>3
<1>5. f \in [1 .. m + l -> 1 .. n + 1]
  <2>1. ASSUME NEW i \in 1 .. m + l PROVE (IF i <= m THEN from[i] ELSE n + 1) \in 1 .. n + 1
    <3>1. from \in [1 .. m -> 1 .. n]
      BY <1>3
    <3>2. CASE i <= m
      <4>1. i \in 1 .. m
        BY <3>2
      <4>2. from[i] \in 1 .. n
        BY <3>1, <4>1
      <4> QED
        BY <3>2, <4>2
    <3>3. CASE ~ i <= m
      <4>1. n + 1 \in 1 .. n + 1
        OBVIOUS
      <4> QED
        BY <3>3, <4>1
    <3> QED
      BY <3>2, <3>3
  <2> QED
    BY <2>1
<1> HIDE DEF f
<1>6. ASSUME NEW i \in 1 .. m + l
      PROVE  \E r \in 1 .. Len(tt[f[i]]) : v[i] = tt[f[i]][r]
  <2>1. CASE i \in 1 .. m
    <3>1. PICK r \in 1 .. Len(ss[from[i]]) : u[i] = ss[from[i]][r]
      BY <1>3, <2>1
    <3>2. f[i] = from[i] /\ v[i] = u[i] /\ tt[f[i]] = ss[from[i]]
      BY <1>1, <1>4, <2>1
    <3> QED
      BY <3>1, <3>2
  <2>2. CASE i \in m + 1 .. m + l
    <3>1. f[i] = n + 1 /\ i - m \in 1 .. l /\ v[i] = e[i - m]
      BY <1>4, <2>2
    <3> QED
      BY <1>0, <1>1, <3>1
  <2> QED
    BY <1>4, <2>1, <2>2
<1>7. ASSUME NEW i \in 1 .. m + l, NEW j \in 1 .. m + l, i <= j PROVE f[i] <= f[j]
  <2>1. CASE j \in 1 .. m
    <3>1. i \in 1 .. m
      BY <1>7, <2>1
    <3> QED
      BY <1>3, <1>4, <1>7, <2>1, <3>1
  <2>2. CASE j \in m + 1 .. m + l
    <3>1. f[j] = n + 1 /\ f[i] \in 1 .. n + 1
      BY <1>4, <1>5, <2>2
    <3> QED
      BY <3>1
  <2> QED
    BY <1>4, <2>1, <2>2
<1>8. ASSUME NEW k \in 1 .. n + 1, NEW r \in 1 .. Len(tt[k])
      PROVE  \E i \in 1 .. m + l : f[i] = k /\ v[i] = tt[k][r]
  <2>1. CASE k \in 1 .. n
    <3>1. tt[k] = ss[k]
      BY <1>1, <2>1
    <3>2. PICK i \in 1 .. m : from[i] = k /\ u[i] = ss[k][r]
      BY <1>3, <2>1, <3>1
    <3> QED
      BY <1>4, <3>1, <3>2
  <2>2. CASE k = n + 1
    <3>1. tt[k] = e /\ r \in 1 .. l
      BY <1>0, <1>1, <2>2
    <3>2. m + r \in m + 1 .. m + l /\ m + r \in 1 .. m + l /\ (m + r) - m = r
      BY <3>1
    <3>3. f[m + r] = n + 1 /\ v[m + r] = e[(m + r) - m]
      BY <1>4, <3>2
    <3> QED
      BY <2>2, <3>1, <3>2, <3>3
  <2> QED
    BY <2>1, <2>2
<1>9. Sourced(tt, v, f)
  BY <1>1, <1>2, <1>5, <1>6, <1>7, <1>8 DEF Sourced
<1> QED
  BY <1>9 DEF tt, v

\* The elements of a flattened sequence come in order, and none is lost.
LEMMA FlattenKeepsOrder ==
    ASSUME NEW S, NEW ss \in Seq(Seq(S))
    PROVE  /\ FlattenSeq(ss) \in Seq(S)
           /\ \E from : Sourced(ss, FlattenSeq(ss), from)
<1> DEFINE P == {tt \in Seq(Seq(S)) : /\ FlattenSeq(tt) \in Seq(S)
                                     /\ \E from : Sourced(tt, FlattenSeq(tt), from)}
<1>1. <<>> \in P
  <2>1. <<>> \in Seq(Seq(S)) /\ <<>> \in Seq(S) /\ FlattenSeq(<<>>) = <<>>
    BY EmptySeq, FlattenEmpty
  <2>2. Sourced(<<>>, <<>>, [i \in 1 .. 0 |-> 0])
    <3>1. Len(<<>>) = 0
      BY EmptySeq
    <3> QED
      BY <3>1 DEF Sourced
  <2> QED
    BY <2>1, <2>2
<1>2. ASSUME NEW tt \in Seq(Seq(S)), tt \in P, NEW e \in Seq(S)
      PROVE  Append(tt, e) \in P
  <2>1. PICK from : Sourced(tt, FlattenSeq(tt), from)
    BY <1>2
  <2>2. FlattenSeq(tt) \in Seq(S) /\ FlattenSeq(Append(tt, e)) = FlattenSeq(tt) \o e
    BY FlattenAppend
  <2> DEFINE u == FlattenSeq(tt)
  <2>3. u \in Seq(S) /\ Sourced(tt, u, from)
    BY <2>1, <2>2
  <2> HIDE DEF u
  <2>4. PICK f : Sourced(Append(tt, e), u \o e, f)
    BY <2>3, SourcedAppend
  <2>5. u \o e \in Seq(S) /\ Append(tt, e) \in Seq(Seq(S))
    BY <2>3, ConcatProperties, AppendProperties
  <2> QED
    BY <2>2, <2>4, <2>5 DEF u
<1> HIDE DEF P
<1>3. \A tt \in Seq(Seq(S)) : tt \in P
  BY <1>1, <1>2, SequenceInduction
<1> QED
  BY <1>3 DEF P

-----------------------------------------------------------------------------
(* Selecting.                                                               *)

\* The elements at some positions.
Picks(s, at) == FlattenSeq([i \in 1 .. Len(s) |-> IF i \in at THEN <<s[i]>> ELSE <<>>])

\* Where they come from.
PickedFrom(s, at, p, from) ==
    /\ from \in [1 .. Len(p) -> 1 .. Len(s)]
    /\ \A i \in 1 .. Len(p) : from[i] \in at /\ p[i] = s[from[i]]
    /\ \A i, j \in 1 .. Len(p) : i <= j => from[i] <= from[j]
    /\ \A k \in at : \E i \in 1 .. Len(p) : from[i] = k

\* They come in order, and none is lost.
LEMMA PicksKeepOrder ==
    ASSUME NEW S, NEW s \in Seq(S), NEW at \in SUBSET (1 .. Len(s))
    PROVE  Picks(s, at) \in Seq(S) /\ \E from : PickedFrom(s, at, Picks(s, at), from)
<1>0. PICK n \in Nat : n = Len(s)
  BY LenProperties
<1> DEFINE ss == [i \in 1 .. n |-> IF i \in at THEN <<s[i]>> ELSE <<>>]
           p == Picks(s, at)
<1>1. \A i \in 1 .. n : /\ (IF i \in at THEN <<s[i]>> ELSE <<>>) \in Seq(S)
                        /\ Len(IF i \in at THEN <<s[i]>> ELSE <<>>) = IF i \in at THEN 1 ELSE 0
                        /\ <<s[i]>>[1] = s[i]
  <2>1. ASSUME NEW i \in 1 .. n PROVE <<s[i]>> \in Seq(S) /\ <<>> \in Seq(S)
    <3>1. s[i] \in S
      BY <1>0, ElementOfSeq
    <3> QED
      BY <3>1, EmptySeq
  <2> QED
    BY <2>1
<1>2. ss \in Seq(Seq(S)) /\ Len(ss) = n
  <2>1. ss \in [1 .. n -> Seq(S)]
    BY <1>1
  <2> HIDE DEF ss
  <2> QED
    BY <2>1, SeqDef
<1>3. \A i \in 1 .. n : /\ Len(ss[i]) = IF i \in at THEN 1 ELSE 0
                        /\ i \in at => ss[i][1] = s[i]
  BY <1>1
<1>4. p = FlattenSeq(ss)
  BY <1>0 DEF Picks
<1> HIDE DEF ss, p
<1>5. p \in Seq(S)
  BY <1>2, <1>4, FlattenKeepsOrder
<1>6. PICK from : Sourced(ss, p, from)
  BY <1>2, <1>4, FlattenKeepsOrder
<1>7. PICK m \in Nat : m = Len(p)
  BY <1>5, LenProperties
<1>8. /\ from \in [1 .. m -> 1 .. n]
      /\ \A i \in 1 .. m : \E r \in 1 .. Len(ss[from[i]]) : p[i] = ss[from[i]][r]
      /\ \A i, j \in 1 .. m : i <= j => from[i] <= from[j]
      /\ \A k \in 1 .. n : \A r \in 1 .. Len(ss[k]) : \E i \in 1 .. m : from[i] = k
  BY <1>2, <1>6, <1>7 DEF Sourced
<1>9. ASSUME NEW i \in 1 .. m PROVE from[i] \in at /\ p[i] = s[from[i]]
  <2>1. PICK k \in 1 .. n : k = from[i]
    BY <1>8
  <2>2. PICK r \in 1 .. Len(ss[k]) : p[i] = ss[k][r]
    BY <1>8, <2>1
  <2>3. k \in at
    BY <1>3, <2>2
  <2>4. r = 1
    BY <1>3, <2>3
  <2> QED
    BY <1>3, <2>1, <2>2, <2>3, <2>4
<1>10. ASSUME NEW k \in at PROVE \E i \in 1 .. m : from[i] = k
  <2>1. k \in 1 .. n /\ 1 \in 1 .. Len(ss[k])
    BY <1>0, <1>3
  <2> QED
    BY <1>8, <2>1
<1>11. PickedFrom(s, at, p, from)
  BY <1>0, <1>7, <1>8, <1>9, <1>10 DEF PickedFrom
<1> QED
  BY <1>5, <1>11 DEF p

-----------------------------------------------------------------------------
(* Greatest elements.                                                       *)

\* A finite set has an element at which a function is greatest.
LEMMA MostOf ==
    ASSUME NEW S, IsFiniteSet(S), S # {}, NEW f \in [S -> Int]
    PROVE  \E x \in S : \A y \in S : f[y] <= f[x]
<1> DEFINE Has(R) == R # {} => \E x \in R : \A y \in R : f[y] <= f[x]
           T == {n \in Nat : \A R \in SUBSET S : Cardinality(R) = n => Has(R)}
<1>1. 0 \in T
  <2> SUFFICES ASSUME NEW R \in SUBSET S, Cardinality(R) = 0 PROVE Has(R)
    OBVIOUS
  <2>1. R = {}
    BY FS_Subset, FS_EmptySet
  <2> QED
    BY <2>1
<1>2. ASSUME NEW n \in Nat, n \in T PROVE n + 1 \in T
  <2> SUFFICES ASSUME NEW R \in SUBSET S, Cardinality(R) = n + 1, R # {}
               PROVE  \E x \in R : \A y \in R : f[y] <= f[x]
    OBVIOUS
  <2>1. PICK e \in R : TRUE
    OBVIOUS
  <2> DEFINE Q == R \ {e}
  <2>2. Q \in SUBSET S /\ Cardinality(Q) = n
    <3>1. IsFiniteSet(R)
      BY FS_Subset
    <3>2. Cardinality(Q) = (n + 1) - 1
      BY <2>1, <3>1, FS_RemoveElement
    <3> QED
      BY <3>2
  <2>3. Has(Q)
    BY <1>2, <2>2
  <2>4. CASE Q = {}
    BY <2>1, <2>4
  <2>5. CASE Q # {}
    <3>1. PICK x \in Q : \A y \in Q : f[y] <= f[x]
      BY <2>3, <2>5
    <3>2. f[e] \in Int /\ \A y \in R : f[y] \in Int
      BY <2>1
    <3>3. CASE f[e] <= f[x]
      BY <3>1, <3>3
    <3>4. CASE f[e] > f[x]
      <4>1. \A y \in R : f[y] <= f[e]
        BY <3>1, <3>2, <3>4
      <4> QED
        BY <2>1, <4>1
    <3> QED
      BY <3>1, <3>2, <3>3, <3>4
  <2> QED
    BY <2>4, <2>5
<1> HIDE DEF T
<1>3. \A n \in Nat : n \in T
  BY <1>1, <1>2, SetInduction
<1>4. Cardinality(S) \in T
  BY <1>3, FS_CardinalityType
<1> QED
  BY <1>4 DEF T

-----------------------------------------------------------------------------
(* One element more.                                                        *)

\* A sequence and the one an element longer, as functions.
LEMMA OneLonger ==
    ASSUME NEW V, NEW n \in Nat, NEW f \in [1 .. n -> V], NEW g \in [1 .. n + 1 -> V],
           \A i \in 1 .. n : g[i] = f[i]
    PROVE  /\ f \in Seq(V) /\ Len(f) = n
           /\ g = Append(f, g[n + 1])
<1>1. f \in Seq(V) /\ g \in Seq(V) /\ Len(f) = n /\ Len(g) = n + 1
  <2>1. n + 1 \in Nat
    OBVIOUS
  <2>2. f \in Seq(V) /\ g \in Seq(V)
    BY <2>1, SeqDef
  <2> QED
    BY <2>1, <2>2, LenProperties
<1>2. PICK e \in V : e = g[n + 1]
  <2>1. n + 1 \in 1 .. n + 1
    OBVIOUS
  <2> QED
    BY <2>1
<1>3. /\ Append(f, e) \in Seq(V) /\ Len(Append(f, e)) = n + 1
      /\ \A i \in 1 .. n : Append(f, e)[i] = f[i]
      /\ Append(f, e)[n + 1] = e
  BY <1>1, AppendProperties
<1> DEFINE h == Append(f, e)
<1>4. h \in Seq(V) /\ Len(h) = Len(g) /\ \A i \in 1 .. Len(g) : g[i] = h[i]
  <2>1. ASSUME NEW i \in 1 .. n + 1 PROVE g[i] = h[i]
    <3>1. CASE i = n + 1
      BY <1>2, <1>3, <3>1
    <3>2. CASE i # n + 1
      <4>1. i \in 1 .. n
        BY <3>2
      <4> QED
        BY <1>3, <4>1
    <3> QED
      BY <3>1, <3>2
  <2> QED
    BY <1>1, <1>3, <2>1
<1> HIDE DEF h
<1>5. g = h
  BY <1>1, <1>4, SeqEqual
<1> QED
  BY <1>1, <1>2, <1>5 DEF h

\* A function of the elements of a sequence.
Mapped(F, s) == [i \in 1 .. Len(s) |-> F[s[i]]]

\* Over which set, into which.
Maps(F, S, V) == F \in [S -> V]

\* One element further.
LEMMA MappedAppend ==
    ASSUME NEW S, NEW V, NEW F, Maps(F, S, V), NEW s \in Seq(S), NEW e \in S
    PROVE  /\ Mapped(F, s) \in Seq(V) /\ Len(Mapped(F, s)) = Len(s)
           /\ Mapped(F, Append(s, e)) = Append(Mapped(F, s), F[e])
<1>0. PICK n \in Nat : n = Len(s)
  BY LenProperties
<1> DEFINE t == Append(s, e)
           f == Mapped(F, s)
           g == Mapped(F, t)
<1>1. t \in Seq(S) /\ Len(t) = n + 1 /\ t[n + 1] = e /\ \A i \in 1 .. n : t[i] = s[i]
  BY <1>0, AppendProperties
<1> HIDE DEF t
<1>2. \A i \in 1 .. n + 1 : t[i] \in S
  BY <1>1, ElementOfSeq
<1>3. \A i \in 1 .. n : i \in 1 .. n + 1 /\ s[i] \in S
  BY <1>0, ElementOfSeq
<1>4. g \in [1 .. n + 1 -> V] /\ \A i \in 1 .. n + 1 : g[i] = F[t[i]]
  BY <1>1, <1>2 DEF Mapped, Maps
<1>5. f \in [1 .. n -> V] /\ \A i \in 1 .. n : f[i] = F[s[i]]
  BY <1>0, <1>3 DEF Mapped, Maps
<1> HIDE DEF f, g
<1>6. \A i \in 1 .. n : g[i] = f[i]
  BY <1>1, <1>3, <1>4, <1>5
<1>7. f \in Seq(V) /\ Len(f) = n /\ g = Append(f, g[n + 1])
  BY <1>4, <1>5, <1>6, OneLonger
<1>8. g[n + 1] = F[e]
  <2>1. n + 1 \in 1 .. n + 1
    OBVIOUS
  <2> QED
    BY <1>1, <1>4, <2>1
<1> QED
  BY <1>0, <1>7, <1>8 DEF f, g, t

\* And flattened.
LEMMA FlattenMapped ==
    ASSUME NEW S, NEW V, NEW F, Maps(F, S, Seq(V)), NEW s \in Seq(S), NEW e \in S
    PROVE  /\ FlattenSeq(Mapped(F, s)) \in Seq(V)
           /\ FlattenSeq(Mapped(F, Append(s, e))) = FlattenSeq(Mapped(F, s)) \o F[e]
<1> DEFINE W == Seq(V)
<1>0. Maps(F, S, W) /\ F[e] \in W
  BY DEF Maps
<1> HIDE DEF W
<1>1. /\ Mapped(F, s) \in Seq(W)
      /\ Mapped(F, Append(s, e)) = Append(Mapped(F, s), F[e])
  BY <1>0, MappedAppend
<1> QED
  BY <1>0, <1>1, FlattenAppend DEF W

\* Of nothing there is nothing.
LEMMA MappedEmpty ==
    ASSUME NEW F
    PROVE  Mapped(F, <<>>) = <<>>
  BY EmptySeq DEF Mapped

\* What is picked of a sequence one element longer.
LEMMA PicksAppend ==
    ASSUME NEW S, NEW s \in Seq(S), NEW e \in S, NEW at, NEW further,
           \A i \in 1 .. Len(s) : i \in further <=> i \in at
    PROVE  /\ Picks(s, at) \in Seq(S)
           /\ Picks(Append(s, e), further) =
                 IF Len(s) + 1 \in further THEN Append(Picks(s, at), e) ELSE Picks(s, at)
<1>0. PICK n \in Nat : n = Len(s)
  BY LenProperties
<1> DEFINE t == Append(s, e)
           f == [i \in 1 .. n |-> IF i \in at THEN <<s[i]>> ELSE <<>>]
           g == [i \in 1 .. n + 1 |-> IF i \in further THEN <<t[i]>> ELSE <<>>]
<1>1. t \in Seq(S) /\ Len(t) = n + 1 /\ t[n + 1] = e /\ \A i \in 1 .. n : t[i] = s[i]
  BY <1>0, AppendProperties
<1>2. Picks(s, at) = FlattenSeq(f) /\ Picks(t, further) = FlattenSeq(g)
  BY <1>0, <1>1 DEF Picks
<1> HIDE DEF t
<1>3. \A x \in S : <<x>> \in Seq(S)
  OBVIOUS
<1>4. <<>> \in Seq(S)
  BY EmptySeq
<1>5. g \in [1 .. n + 1 -> Seq(S)]
  <2>1. ASSUME NEW i \in 1 .. n + 1 PROVE (IF i \in further THEN <<t[i]>> ELSE <<>>) \in Seq(S)
    <3>1. t[i] \in S
      BY <1>1, ElementOfSeq
    <3> QED
      BY <1>3, <1>4, <3>1
  <2> QED
    BY <2>1
<1>6. f \in [1 .. n -> Seq(S)]
  <2>1. ASSUME NEW i \in 1 .. n PROVE (IF i \in at THEN <<s[i]>> ELSE <<>>) \in Seq(S)
    <3>1. s[i] \in S
      BY <1>0, ElementOfSeq
    <3> QED
      BY <1>3, <1>4, <3>1
  <2> QED
    BY <2>1
<1>7. \A i \in 1 .. n : g[i] = f[i]
  BY <1>0, <1>1
<1>8. n + 1 \in 1 .. n + 1 /\ g[n + 1] = IF n + 1 \in further THEN <<e>> ELSE <<>>
  BY <1>1
<1> HIDE DEF f, g
<1>9. f \in Seq(Seq(S)) /\ g = Append(f, g[n + 1])
  BY <1>5, <1>6, <1>7, OneLonger
<1>10. g[n + 1] \in Seq(S)
  BY <1>5, <1>8
<1>11. FlattenSeq(f) \in Seq(S) /\ FlattenSeq(g) = FlattenSeq(f) \o g[n + 1]
  BY <1>9, <1>10, FlattenAppend
<1> DEFINE p == FlattenSeq(f)
<1>12. p \in Seq(S)
  BY <1>11
<1> HIDE DEF p
<1>13. p \o <<e>> = Append(p, e) /\ p \o <<>> = p
  BY <1>12, ConcatEmptySeq, AppendIsConcat
<1> QED
  BY <1>0, <1>2, <1>8, <1>11, <1>13 DEF t, p

\* Appending after two sequences were joined, or before.
LEMMA ConcatLonger ==
    ASSUME NEW V, NEW a \in Seq(V), NEW s \in Seq(V), NEW e \in V
    PROVE  a \o Append(s, e) = Append(a \o s, e)
<1>1. <<e>> \in Seq(V) /\ Append(s, e) = s \o <<e>>
  BY AppendIsConcat
<1>2. a \o s \in Seq(V)
  BY ConcatProperties
<1>3. Append(a \o s, e) = (a \o s) \o <<e>>
  BY <1>2, AppendIsConcat
<1>4. PICK z \in Seq(V) : z = <<e>>
  BY <1>1
<1>5. (a \o s) \o z = a \o (s \o z)
  BY ConcatAssociative
<1> QED
  BY <1>1, <1>3, <1>4, <1>5

\* Two sequences mapped one after the other.
LEMMA MappedConcat ==
    ASSUME NEW S, NEW V, NEW F, Maps(F, S, V), NEW a \in Seq(S), NEW b \in Seq(S)
    PROVE  /\ Mapped(F, a) \in Seq(V) /\ Mapped(F, b) \in Seq(V)
           /\ Mapped(F, a \o b) = Mapped(F, a) \o Mapped(F, b)
<1>0. PICK n \in Nat, m \in Nat : n = Len(a) /\ m = Len(b)
  BY LenProperties
<1>1. \A x \in S : F[x] \in V
  BY DEF Maps
<1>2. (\A i \in 1 .. n : a[i] \in S) /\ (\A i \in 1 .. m : b[i] \in S)
  BY <1>0, ElementOfSeq
<1>3. /\ Mapped(F, a) \in [1 .. n -> V] /\ Mapped(F, b) \in [1 .. m -> V]
      /\ \A i \in 1 .. n : Mapped(F, a)[i] = F[a[i]]
      /\ \A i \in 1 .. m : Mapped(F, b)[i] = F[b[i]]
  BY <1>0, <1>1, <1>2 DEF Mapped
<1> DEFINE f == Mapped(F, a)
           g == Mapped(F, b)
           c == a \o b
<1>4. f \in Seq(V) /\ g \in Seq(V) /\ Len(f) = n /\ Len(g) = m
  <2> HIDE DEF f, g
  <2>1. f \in [1 .. n -> V] /\ g \in [1 .. m -> V]
    BY <1>3 DEF f, g
  <2>2. f \in Seq(V) /\ g \in Seq(V)
    BY <2>1, SeqDef
  <2> QED
    BY <2>1, <2>2, LenProperties
<1>5. /\ c \in Seq(S) /\ Len(c) = n + m
      /\ \A i \in 1 .. n + m : c[i] = IF i <= n THEN a[i] ELSE b[i - n]
  BY <1>0, ConcatProperties
<1> HIDE DEF f, g, c
<1>6. /\ f \o g \in Seq(V) /\ Len(f \o g) = n + m
      /\ \A i \in 1 .. n + m : (f \o g)[i] = IF i <= n THEN f[i] ELSE g[i - n]
  BY <1>4, ConcatProperties
<1> DEFINE h == Mapped(F, c)
<1>7. h \in [1 .. n + m -> V] /\ \A i \in 1 .. n + m : h[i] = F[c[i]]
  <2>1. \A i \in 1 .. n + m : c[i] \in S
    BY <1>5, ElementOfSeq
  <2> QED
    BY <1>1, <1>5, <2>1 DEF Mapped
<1> HIDE DEF h
<1>8. h \in Seq(V) /\ Len(h) = n + m
  <2>1. n + m \in Nat
    OBVIOUS
  <2>2. h \in Seq(V)
    BY <1>7, <2>1, SeqDef
  <2> QED
    BY <1>7, <2>1, <2>2, LenProperties
<1>9. ASSUME NEW i \in 1 .. n + m PROVE h[i] = (f \o g)[i]
  <2>1. CASE i <= n
    <3>1. i \in 1 .. n
      BY <2>1
    <3>2. (f \o g)[i] = f[i] /\ c[i] = a[i] /\ h[i] = F[c[i]]
      BY <1>5, <1>6, <1>7, <2>1
    <3>3. f[i] = F[a[i]]
      BY <1>3, <3>1 DEF f
    <3> QED
      BY <3>2, <3>3
  <2>2. CASE ~ i <= n
    <3>1. i - n \in 1 .. m
      BY <2>2
    <3>2. (f \o g)[i] = g[i - n] /\ c[i] = b[i - n] /\ h[i] = F[c[i]]
      BY <1>5, <1>6, <1>7, <2>2
    <3>3. g[i - n] = F[b[i - n]]
      BY <1>3, <3>1 DEF g
    <3> QED
      BY <3>2, <3>3
  <2> QED
    BY <2>1, <2>2
<1>10. h = f \o g
  BY <1>6, <1>8, <1>9, SeqEqual
<1> QED
  BY <1>4, <1>10 DEF f, g, h, c

\* A sequence one of whose ends is <<>> is the other; neither end is lost.
LEMMA LongerIsNotEmpty ==
    ASSUME NEW S, NEW s \in Seq(S), NEW e \in Seq(S), e # <<>>
    PROVE  s \o e \in Seq(S) /\ s \o e # <<>>
<1>1. Len(e) \in Nat /\ Len(e) # 0 /\ Len(s) \in Nat
  BY EmptySeq, LenProperties
<1>2. s \o e \in Seq(S) /\ Len(s \o e) = Len(s) + Len(e)
  BY ConcatProperties
<1>3. Len(<<>>) = 0
  BY EmptySeq
<1> QED
  BY <1>1, <1>2, <1>3
=============================================================================
