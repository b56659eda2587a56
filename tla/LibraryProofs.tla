---------------------------- MODULE LibraryProofs ----------------------------
(***************************************************************************)
(* Proofs about Library, for any subjects, connections, accounts, releases  *)
(* of the seed and caps: a row is read only where it was written, the slots *)
(* of a subject are its calls being served, a wrap-up cites nothing that is *)
(* not there, the suggestions are the best there is, and every variable     *)
(* keeps its type.  The invariant has two layers: IInv (the soundness of    *)
(* rows, records, slots, presses and deletions) and, proved with its help,  *)
(* Typed.                                                                   *)
(***************************************************************************)
EXTENDS Library, FiniteSetTheorems, SequenceTheorems, TLAPS

-----------------------------------------------------------------------------
(* The inductive invariant *)

AnyRow ==
    [id: Nat, by: Subjects \cup {Nobody}, tenant: Tenants \cup {Nobody},
     visibility: {"public", "private", "tenant"}, active: BOOLEAN,
     category: Categories \cup {NoCategory}, reverse: BOOLEAN, origin: Nat,
     derived: BOOLEAN, text: {"seed", "written", "follow_up", "reverse"},
     written: Tenants \cup {Nobody}, shared: Tenants \cup {Nobody}, missed: BOOLEAN]

\* Who wrote a row decides what may become of it: a drafted one is private until a
\* deletion unties it, and then it is out of the library for good, or was missed.
Sound(r) ==
    /\ r.text = "seed" <=> r.by = Nobody
    /\ r.text \in {"written", "follow_up"} =>
        /\ ~r.reverse
        /\ r.written \in Tenants /\ r.tenant = r.written
        /\ r.visibility # "public"
        /\ r.visibility = "tenant" => r.shared \in Tenants \ {Default}
    /\ r.text = "reverse" => r.reverse /\ r.visibility = "private"
    /\ r.text = "follow_up" =>
        /\ ~r.derived => r.origin = None /\ (r.active => r.missed)
        /\ r.visibility = "tenant" => ~r.derived

RowsSound ==
    /\ rows \in Seq(AnyRow)
    /\ \A k \in 1 .. Len(rows) : Sound(rows[k])

\* What a call was played on is a row, and its wrap-up cites what there is.
Summaries == {"missing", "nothing_said", "prose", "no_wrapup", "answer"}
AnyCall ==
    [by: Subjects, row: Nat, said: Said, live: BOOLEAN,
     wrapup: [summary: Summaries, points: SUBSET Points]]
CallsRecorded ==
    /\ calls \in Seq(AnyCall)
    /\ \A c \in 1 .. Len(calls) : calls[c].row \in 1 .. Len(rows)

Phases == {"closed", "admitted", "chosen", "serving"}
ConnsKnown ==
    /\ conns \in [Conns -> [phase: Phases, subject: Subjects \cup {Nobody},
                            tenant: Tenants \cup {Nobody}, row: Nat]]
    /\ \A c \in Conns :
        /\ conns[c].phase # "closed" => conns[c].subject \in Subjects
        /\ conns[c].phase \in {"chosen", "serving"} => conns[c].row \in 1 .. Len(rows)

Serving(s) == {c \in Conns : conns[c].phase = "serving" /\ conns[c].subject = s}
SlotsCounted ==
    /\ open \in [Subjects -> Nat]
    /\ SlotsMatchCalls

Core == RowsSound /\ CallsRecorded /\ ConnsKnown /\ SlotsCounted

\* A press knows the company it was made in and what it asks for, a deletion the call
\* it removes and rows that are there.
AnyPress(n, m) ==
    [phase: {"idle", "waking", "drafting"}, row: 0 .. n, call: 0 .. m,
     reverse: BOOLEAN, tenant: Tenants \cup {Nobody}]
PressKnown ==
    /\ press \in [Subjects -> AnyPress(Len(rows), Len(calls))]
    /\ \A s \in Subjects :
        /\ press[s].phase = "waking" => press[s].row \in 1 .. Len(rows)
        /\ press[s].phase = "drafting" =>
            press[s].call \in 1 .. Len(calls) /\ press[s].tenant \in Tenants
LeavingKnown == leaving \subseteq [call: 1 .. Len(calls), retired: SUBSET (1 .. Len(rows))]

IInv == Core /\ PressKnown /\ LeavingKnown

-----------------------------------------------------------------------------
(* Rows *)

\* Whatever a token says, it puts its holder in one company, `default` if in no other.
LEMMA TenantOfIsTenant == \A s : TenantOf(s) \in Tenants
BY DEF TenantOf, TenantRef, Tenants

\* Nobody is not the name of a company.
LEMMA NobodyIsNoTenant == Nobody \notin Tenants
BY AccessAssumption DEF Tenants

\* The rows the code makes.
LEMMA RowType ==
    ASSUME NEW id \in Nat, NEW by \in Subjects \cup {Nobody}, NEW tenant \in Tenants \cup {Nobody},
           NEW visibility \in {"public", "private", "tenant"},
           NEW category \in Categories \cup {NoCategory},
           NEW text \in {"seed", "written", "follow_up", "reverse"},
           NEW reverse \in BOOLEAN, NEW origin \in Nat
    PROVE  LET r == Row(id, by, tenant, visibility, category, text, reverse, origin) IN
           /\ r \in AnyRow
           /\ r.by = by /\ r.tenant = tenant /\ r.written = tenant /\ r.text = text
           /\ r.visibility = visibility /\ r.reverse = reverse /\ r.origin = origin
           /\ r.derived = (text = "follow_up") /\ ~r.missed
BY DEF Row, AnyRow

\* Writing a row at the end, and changing rows in place, keep them sound.
LEMMA RowAdded ==
    ASSUME RowsSound, NEW r \in AnyRow, Sound(r), rows' = Append(rows, r)
    PROVE  RowsSound' /\ Len(rows') = Len(rows) + 1
<1>1. /\ rows' \in Seq(AnyRow) /\ Len(rows') = Len(rows) + 1
      /\ \A k \in 1 .. Len(rows) : rows'[k] = rows[k]
      /\ rows'[Len(rows) + 1] = r
  BY AppendProperties DEF RowsSound
<1> QED BY <1>1 DEF RowsSound

\* Rows changed in place stay sound when each one is.
LEMMA RowsChanged ==
    ASSUME RowsSound, NEW new \in [1 .. Len(rows) -> AnyRow],
           \A k \in 1 .. Len(rows) : Sound(new[k]), rows' = new
    PROVE  RowsSound' /\ Len(rows') = Len(rows)
<1>1. Len(rows) \in Nat
  BY LenProperties DEF RowsSound
<1>2. new \in Seq(AnyRow) /\ Len(new) = Len(rows)
  BY <1>1, SeqDef, LenProperties
<1> QED BY <1>2 DEF RowsSound

\* Any one row of a sound table is sound.
LEMMA RowOf == ASSUME RowsSound, NEW k \in 1 .. Len(rows) PROVE rows[k] \in AnyRow /\ Sound(rows[k])
BY ElementOfSeq DEF RowsSound

\* Writing a Scenario keeps the table sound.
LEMMA CreateRows == ASSUME IInv, NEW s \in Subjects, Create(s) PROVE RowsSound' /\ Len(rows') >= Len(rows)
<1>1. RowsSound /\ Len(rows) \in Nat
  BY LenProperties DEF IInv, Core, RowsSound
<1>2. PICK category \in Categories \cup {NoCategory} :
        rows' = Append(rows, Row(Len(rows) + 1, s, TenantOf(s), "private", category,
                                 "written", FALSE, None))
  BY DEF Create
<1> DEFINE r == Row(Len(rows) + 1, s, TenantOf(s), "private", category, "written", FALSE, None)
<1>3. /\ r \in AnyRow /\ r.by = s /\ r.tenant = TenantOf(s) /\ r.written = TenantOf(s)
      /\ r.text = "written" /\ r.visibility = "private" /\ r.reverse = FALSE
  <2>1. /\ Len(rows) + 1 \in Nat /\ TenantOf(s) \in Tenants /\ None \in Nat
        /\ "written" \in {"seed", "written", "follow_up", "reverse"}
        /\ "private" \in {"public", "private", "tenant"} /\ FALSE \in BOOLEAN
    BY <1>1, TenantOfIsTenant DEF None
  <2> QED BY <2>1 DEF Row, AnyRow
<1> HIDE DEF r
<1>4. Sound(r)
  BY <1>3, TenantOfIsTenant, LibraryAssumption DEF Sound
<1> QED
  <2>1. rows' = Append(rows, r)
    BY <1>2 DEF r
  <2> QED BY <1>1, <2>1, <1>3, <1>4, RowAdded

\* The edits of one row: a new category, another visibility, out of the library.
LEMMA OneRowChanged ==
    ASSUME RowsSound, NEW k \in 1 .. Len(rows), NEW r \in AnyRow, Sound(r),
           rows' = [rows EXCEPT ![k] = r]
    PROVE  RowsSound' /\ Len(rows') >= Len(rows)
<1>1. Len(rows) \in Nat
  BY LenProperties DEF RowsSound
<1> QED BY <1>1, ExceptSeq DEF RowsSound

\* Editing one does.
LEMMA UpdateRows ==
    ASSUME IInv, NEW s \in Subjects, NEW k \in 1 .. Len(rows), Update(s, k)
    PROVE  RowsSound' /\ Len(rows') >= Len(rows)
<1>1. RowsSound /\ rows[k] \in AnyRow /\ Sound(rows[k])
  BY RowOf DEF IInv, Core
<1>2. PICK category \in Categories \cup {NoCategory} : rows' = [rows EXCEPT ![k].category = category]
  BY DEF Update
<1> DEFINE r == [rows[k] EXCEPT !.category = category]
<1>3. rows' = [rows EXCEPT ![k] = r]
  BY <1>1, <1>2, LenProperties DEF RowsSound
<1>4. r \in AnyRow /\ Sound(r)
  BY <1>1 DEF AnyRow, Sound
<1> QED BY <1>1, <1>3, <1>4, OneRowChanged

\* Taking one away does: the row stays, inactive.
LEMMA DeactivateRows ==
    ASSUME IInv, NEW s \in Subjects, NEW k \in 1 .. Len(rows), Deactivate(s, k)
    PROVE  RowsSound' /\ Len(rows') >= Len(rows)
<1>1. RowsSound /\ rows[k] \in AnyRow /\ Sound(rows[k])
  BY RowOf DEF IInv, Core
<1> DEFINE r == [rows[k] EXCEPT !.active = FALSE]
<1>2. rows' = [rows EXCEPT ![k] = r]
  BY <1>1, LenProperties DEF RowsSound, Deactivate
<1>3. r \in AnyRow /\ Sound(r)
  BY <1>1 DEF AnyRow, Sound
<1> QED BY <1>1, <1>2, <1>3, OneRowChanged

\* Sharing one does: only a hand-written row reaches a company.
LEMMA SetVisibilityRows ==
    ASSUME IInv, NEW s \in Subjects, NEW k \in 1 .. Len(rows), SetVisibility(s, k)
    PROVE  RowsSound' /\ Len(rows') >= Len(rows)
<1>1. /\ RowsSound /\ rows[k] \in AnyRow /\ Sound(rows[k])
      /\ rows[k].by = s /\ ~rows[k].reverse /\ ~rows[k].derived
  BY RowOf DEF IInv, Core, SetVisibility, Editable
<1>2. PICK visibility \in {"private", "tenant"} :
        /\ visibility = "tenant" => TenantOf(s) # Default
        /\ rows' = [rows EXCEPT
                ![k].tenant = IF @ = Nobody THEN TenantOf(s) ELSE @,
                ![k].visibility = visibility,
                ![k].shared = IF visibility = "tenant" THEN TenantOf(s) ELSE Nobody]
  BY DEF SetVisibility
<1> DEFINE tenant == IF rows[k].tenant = Nobody THEN TenantOf(s) ELSE rows[k].tenant
           shared == IF visibility = "tenant" THEN TenantOf(s) ELSE Nobody
           r == [rows[k] EXCEPT !.tenant = tenant, !.visibility = visibility, !.shared = shared]
<1>3. rows' = [rows EXCEPT ![k] = r]
  BY <1>1, <1>2, LenProperties DEF RowsSound, AnyRow
<1>4. tenant \in Tenants \cup {Nobody} /\ shared \in Tenants \cup {Nobody}
  BY <1>1, TenantOfIsTenant DEF AnyRow
<1>5. visibility = "tenant" => shared \in Tenants \ {Default}
  BY <1>2, TenantOfIsTenant
<1>6. rows[k].text \in {"written", "follow_up"} => tenant = rows[k].tenant
  BY <1>1, NobodyIsNoTenant DEF Sound
<1> HIDE DEF tenant, shared
<1>7. /\ r \in AnyRow
      /\ r.tenant = tenant /\ r.visibility = visibility /\ r.shared = shared
      /\ r.by = rows[k].by /\ r.text = rows[k].text /\ r.written = rows[k].written
      /\ r.reverse = rows[k].reverse /\ r.derived = rows[k].derived
      /\ r.active = rows[k].active /\ r.origin = rows[k].origin /\ r.missed = rows[k].missed
  BY <1>1, <1>2, <1>4 DEF AnyRow
<1> HIDE DEF r
<1>8. rows[k].text \in {"seed", "written", "follow_up", "reverse"} /\ rows[k].text # "reverse"
      /\ rows[k].text # "seed"
  BY <1>1, LibraryAssumption DEF AnyRow, Sound
<1>9. Sound(r)
  BY <1>1, <1>2, <1>5, <1>6, <1>7, <1>8 DEF Sound
<1> QED BY <1>1, <1>3, <1>7, <1>9, OneRowChanged

\* A new release of the seed changes seed rows only.
LEMMA RestartRows == ASSUME IInv, Restart PROVE RowsSound' /\ Len(rows') >= Len(rows)
<1>1. RowsSound /\ Len(rows) \in Nat
  BY LenProperties DEF IInv, Core, RowsSound
<1>2. PICK release \in Releases : rows' = Reseeded(release)
  BY DEF Restart
<1>3. ASSUME NEW k \in 1 .. Len(rows)
      PROVE  Reseeded(release)[k] \in AnyRow /\ Sound(Reseeded(release)[k])
  <2>1. rows[k] \in AnyRow /\ Sound(rows[k])
    BY <1>1, RowOf
  <2>2. CASE rows[k].by = Nobody
    <3> DEFINE active == k \in release.scenarios
               r == [rows[k] EXCEPT !.active = active]
    <3>1. Reseeded(release)[k] = r
      BY <2>2 DEF Reseeded
    <3>2. active \in BOOLEAN
      OBVIOUS
    <3> HIDE DEF active
    <3>3. r \in AnyRow /\ r.text = "seed" /\ r.by = Nobody
      BY <2>1, <2>2, <3>2 DEF AnyRow, Sound
    <3> QED BY <3>1, <3>3 DEF Sound
  <2>3. CASE rows[k].by # Nobody
    BY <2>1, <2>3 DEF Reseeded
  <2> QED BY <2>2, <2>3
<1>4. Reseeded(release) \in [1 .. Len(rows) -> AnyRow]
  BY <1>3 DEF Reseeded
<1> QED BY <1>1, <1>2, <1>3, <1>4, RowsChanged

\* Waking a row that was made of a call: if the call is gone by now, it was missed.
LEMMA WakeRows ==
    ASSUME IInv, NEW s \in Subjects, Wake(s)
    PROVE  RowsSound' /\ Len(rows') >= Len(rows)
<1> DEFINE k == press[s].row
<1>1. k \in 1 .. Len(rows)
  BY DEF IInv, PressKnown, Wake
<1>2. RowsSound /\ rows[k] \in AnyRow /\ Sound(rows[k])
  BY <1>1, RowOf DEF IInv, Core
<1> DEFINE missed == rows[k].missed \/ rows[k].origin = None
           r == [rows[k] EXCEPT !.active = TRUE, !.missed = missed]
<1>3. rows' = [rows EXCEPT ![k] = r]
  <2>1. rows' = [rows EXCEPT ![k].active = TRUE, ![k].missed = @ \/ rows[k].origin = None]
    BY DEF Wake
  <2> QED BY <1>1, <1>2, <2>1, LenProperties DEF RowsSound, AnyRow
<1>4. missed \in BOOLEAN /\ (rows[k].origin = None => missed)
  BY <1>2 DEF AnyRow
<1> HIDE DEF missed
<1>5. /\ r \in AnyRow /\ r.missed = missed
      /\ r.by = rows[k].by /\ r.text = rows[k].text
      /\ r.visibility = rows[k].visibility /\ r.reverse = rows[k].reverse
      /\ r.derived = rows[k].derived /\ r.origin = rows[k].origin
      /\ r.written = rows[k].written /\ r.shared = rows[k].shared
      /\ r.tenant = rows[k].tenant
  BY <1>2, <1>4 DEF AnyRow
<1> HIDE DEF r, k
<1>6. Sound(r)
  BY <1>2, <1>4, <1>5 DEF Sound
<1> QED BY <1>1, <1>2, <1>3, <1>5, <1>6, OneRowChanged

\* The row of a draft is a private one of its owner.
LEMMA DraftedRowType ==
    ASSUME IInv, NEW s \in Subjects, press[s].phase = "drafting"
    PROVE  LET r == DraftedRow(s, press[s]) IN
           /\ r \in AnyRow /\ Sound(r)
           /\ r.id = Len(rows) + 1 /\ r.origin = press[s].call /\ r.tenant = press[s].tenant
<1> DEFINE p == press[s]
<1>1. /\ p.call \in 1 .. Len(calls) /\ p.tenant \in Tenants /\ p.reverse \in BOOLEAN
      /\ p.call \in Nat
  BY DEF IInv, PressKnown, AnyPress
<1>2. RowsSound /\ Len(rows) \in Nat /\ calls[p.call].row \in 1 .. Len(rows)
  BY <1>1, LenProperties DEF IInv, Core, RowsSound, CallsRecorded
<1> DEFINE category == IF p.reverse THEN rows[calls[p.call].row].category ELSE NoCategory
           text == IF p.reverse THEN "reverse" ELSE "follow_up"
           r == Row(Len(rows) + 1, s, p.tenant, "private", category, text, p.reverse, p.call)
<1>3. /\ category \in Categories \cup {NoCategory} /\ Len(rows) + 1 \in Nat
      /\ text \in {"seed", "written", "follow_up", "reverse"}
      /\ "private" \in {"public", "private", "tenant"}
  BY <1>1, <1>2, RowOf DEF AnyRow
<1>4. text = IF p.reverse THEN "reverse" ELSE "follow_up"
  OBVIOUS
<1>5. DraftedRow(s, p) = r
  BY DEF DraftedRow
<1> HIDE DEF category, text, p
<1>6. /\ r \in AnyRow /\ r.by = s /\ r.text = text /\ r.visibility = "private"
      /\ r.reverse = p.reverse /\ r.derived = (text = "follow_up")
      /\ r.id = Len(rows) + 1 /\ r.origin = p.call /\ r.tenant = p.tenant
      /\ r.written = p.tenant
  BY <1>1, <1>3 DEF Row, AnyRow
<1> HIDE DEF r
<1>7. Sound(r)
  BY <1>1, <1>4, <1>6, LibraryAssumption DEF Sound
<1> QED BY <1>5, <1>6, <1>7 DEF p

\* A draft is stored as such a row.
LEMMA InsertRows ==
    ASSUME IInv, NEW s \in Subjects, Insert(s)
    PROVE  RowsSound' /\ Len(rows') >= Len(rows)
<1> DEFINE r == DraftedRow(s, press[s])
<1>1. RowsSound /\ Len(rows) \in Nat /\ press[s].phase = "drafting"
  BY LenProperties DEF IInv, Core, RowsSound, Insert
<1>2. rows' = Append(rows, r)
  BY DEF Insert
<1>3. r \in AnyRow /\ Sound(r)
  BY <1>1, DraftedRowType
<1> HIDE DEF r
<1> QED BY <1>1, <1>2, <1>3, RowAdded

\* Deleting a call unties what was made of it: a follow-up that stays active was
\* missed.
LEMMA DeleteCallRows ==
    ASSUME IInv, NEW gone \in leaving, rows' = Untied(gone)
    PROVE  RowsSound' /\ Len(rows') = Len(rows)
<1>1. RowsSound /\ Len(rows) \in Nat
  BY LenProperties DEF IInv, Core, RowsSound
<1>3. ASSUME NEW k \in 1 .. Len(rows) PROVE Untied(gone)[k] \in AnyRow /\ Sound(Untied(gone)[k])
  <2>1. rows[k] \in AnyRow /\ Sound(rows[k])
    BY <1>1, RowOf
  <2>2. CASE rows[k].origin = gone.call
    <3> DEFINE active == rows[k].active /\ k \notin gone.retired
               missed == rows[k].missed \/ k \notin gone.retired
               r == [rows[k] EXCEPT !.origin = None, !.derived = FALSE, !.active = active,
                                    !.missed = missed]
    <3>1. Untied(gone)[k] = r
      BY <2>1, <2>2 DEF Untied, AnyRow
    <3>2. active \in BOOLEAN /\ missed \in BOOLEAN /\ (active => missed) /\ None \in Nat
      BY <2>1 DEF None, AnyRow
    <3> HIDE DEF active, missed
    <3>3. /\ r \in AnyRow
          /\ r.active = active /\ r.missed = missed /\ r.origin = None /\ ~r.derived
          /\ r.by = rows[k].by /\ r.text = rows[k].text /\ r.written = rows[k].written
          /\ r.reverse = rows[k].reverse /\ r.tenant = rows[k].tenant
          /\ r.visibility = rows[k].visibility /\ r.shared = rows[k].shared
      BY <2>1, <3>2 DEF AnyRow
    <3> HIDE DEF r
    <3>4. Sound(r)
      BY <2>1, <3>2, <3>3 DEF Sound
    <3> QED BY <3>1, <3>3, <3>4
  <2>3. CASE rows[k].origin # gone.call
    BY <2>1, <2>3 DEF Untied
  <2> QED BY <2>2, <2>3
<1>4. Untied(gone) \in [1 .. Len(rows) -> AnyRow]
  BY <1>3 DEF Untied
<1> QED BY <1>1, <1>3, <1>4, RowsChanged

-----------------------------------------------------------------------------
(* Calls *)

\* Whatever the model answered, what is stored of a point cites a Turn of the call
\* or none, and a goal that exists or none.
LEMMA KeptIsPoint ==
    ASSUME NEW answer \in Answers, NEW p \in answer.points
    PROVE  Kept(p, Goals, catalogue) \in Points
<1>1. p.kind \in PointKinds
  BY LibraryAssumption
<1> QED BY <1>1 DEF Kept, Point, Points, Assignable

\* A wrap-up stored is grounded, and follows a call that was recorded.
LEMMA WrapUpCalls ==
    ASSUME IInv, NEW c \in 1 .. Len(calls), WrapUp(c), rows' = rows
    PROVE  CallsRecorded' /\ Len(calls') = Len(calls)
<1>1. /\ calls \in Seq(AnyCall) /\ Len(calls) \in Nat /\ calls[c] \in AnyCall
      /\ \A d \in 1 .. Len(calls) : calls[d].row \in 1 .. Len(rows)
  BY LenProperties, ElementOfSeq DEF IInv, Core, CallsRecorded
<1>2. PICK w \in Wrapups(c) :
        calls' = [calls EXCEPT ![c].wrapup =
            [summary |-> w.summary, points |-> {Kept(p, Goals, catalogue) : p \in w.points}]]
  BY DEF WrapUp
<1> DEFINE points == {Kept(p, Goals, catalogue) : p \in w.points}
<1>3. w.summary \in Summaries /\ points \subseteq Points
  <2>1. CASE w = NoFeedback("nothing_said")
    BY <2>1 DEF NoFeedback, Summaries
  <2>2. CASE w # NoFeedback("nothing_said")
    <3>1. PICK answers \in Answers \X Answers : w = Asked(answers)
      BY <1>2, <2>2 DEF Wrapups
    <3>2. answers[1] \in Answers /\ answers[2] \in Answers
      OBVIOUS
    <3>3. CASE Taken(answers, HasSummary) = {}
      BY <3>1, <3>3 DEF Asked, NoFeedback, Narrative, Summaries
    <3>4. CASE Taken(answers, HasSummary) # {}
      <4>1. /\ w.summary = "answer"
            /\ w.points = UNION {answers[k].points : k \in Taken(answers, HasSummary)}
        BY <3>1, <3>4 DEF Asked
      <4>2. ASSUME NEW p \in w.points PROVE Kept(p, Goals, catalogue) \in Points
        <5>1. PICK k \in Taken(answers, HasSummary) : p \in answers[k].points
          BY <4>1
        <5>2. answers[k] \in Answers
          <6>1. k = 1 \/ k = 2
            BY DEF Taken
          <6> QED BY <6>1, <3>2
        <5> QED BY <5>1, <5>2, KeptIsPoint
      <4> QED BY <4>1, <4>2 DEF Summaries
    <3> QED BY <3>3, <3>4
  <2> QED BY <2>1, <2>2
<1> HIDE DEF points
<1> DEFINE call == [calls[c] EXCEPT !.wrapup = [summary |-> w.summary, points |-> points]]
<1>4. calls' = [calls EXCEPT ![c] = call]
  BY <1>1, <1>2 DEF points
<1>5. call \in AnyCall /\ call.row = calls[c].row
  BY <1>1, <1>3 DEF AnyCall
<1> HIDE DEF call
<1>6. /\ calls' \in Seq(AnyCall) /\ Len(calls') = Len(calls)
      /\ \A d \in 1 .. Len(calls) : calls'[d] = IF d = c THEN call ELSE calls[d]
  BY <1>1, <1>4, <1>5, ExceptSeq
<1>7. ASSUME NEW d \in 1 .. Len(calls') PROVE calls'[d].row \in 1 .. Len(rows')
  BY <1>1, <1>5, <1>6
<1> QED BY <1>6, <1>7 DEF CallsRecorded

CallGone(c) == calls' = [calls EXCEPT ![c].live = FALSE, ![c].wrapup = NoWrapup]

\* Deleting a call leaves the other records as they are.
LEMMA DeleteCallCalls ==
    ASSUME IInv, NEW c \in 1 .. Len(calls), CallGone(c), RowsSound', Len(rows') >= Len(rows)
    PROVE  CallsRecorded' /\ Len(calls') = Len(calls)
<1>1. /\ calls \in Seq(AnyCall) /\ Len(calls) \in Nat /\ calls[c] \in AnyCall
      /\ \A d \in 1 .. Len(calls) : calls[d].row \in 1 .. Len(rows)
      /\ Len(rows) \in Nat /\ Len(rows') \in Nat
  BY LenProperties, ElementOfSeq DEF IInv, Core, CallsRecorded, RowsSound
<1> DEFINE call == [calls[c] EXCEPT !.live = FALSE, !.wrapup = NoWrapup]
<1>2. calls' = [calls EXCEPT ![c] = call]
  BY <1>1 DEF CallGone, AnyCall
<1>3. call \in AnyCall /\ call.row = calls[c].row
  BY <1>1 DEF AnyCall, NoWrapup, Summaries
<1> HIDE DEF call
<1>4. /\ calls' \in Seq(AnyCall) /\ Len(calls') = Len(calls)
      /\ \A d \in 1 .. Len(calls) : calls'[d] = IF d = c THEN call ELSE calls[d]
  BY <1>1, <1>2, <1>3, ExceptSeq
<1>5. ASSUME NEW d \in 1 .. Len(calls') PROVE calls'[d].row \in 1 .. Len(rows')
  BY <1>1, <1>3, <1>4
<1> QED BY <1>4, <1>5 DEF CallsRecorded

\* The end of a call records it once.
LEMMA EndCallCalls ==
    ASSUME IInv, NEW c \in Conns, EndCall(c)
    PROVE  CallsRecorded' /\ Len(calls') >= Len(calls)
<1>1. /\ calls \in Seq(AnyCall) /\ Len(calls) \in Nat
      /\ \A d \in 1 .. Len(calls) : calls[d].row \in 1 .. Len(rows)
      /\ rows' = rows /\ Len(rows) \in Nat
  BY LenProperties DEF IInv, Core, CallsRecorded, EndCall, RowsSound
<1>2. /\ conns[c].phase = "serving" /\ conns[c].subject \in Subjects
      /\ conns[c].row \in 1 .. Len(rows) /\ conns[c].row \in Nat
  BY <1>1 DEF IInv, Core, ConnsKnown, EndCall
<1>3. CASE calls' = calls
  BY <1>1, <1>3 DEF CallsRecorded
<1>4. CASE calls' # calls
  <2>1. PICK said \in Said :
          calls' = Append(calls, [by |-> conns[c].subject, row |-> conns[c].row, said |-> said,
                                  wrapup |-> NoWrapup, live |-> TRUE])
    BY <1>4 DEF EndCall
  <2> DEFINE call == [by |-> conns[c].subject, row |-> conns[c].row, said |-> said,
                      wrapup |-> NoWrapup, live |-> TRUE]
  <2>2. call \in AnyCall /\ call.row = conns[c].row
    BY <1>2 DEF AnyCall, NoWrapup, Summaries
  <2>3. calls' = Append(calls, call)
    BY <2>1
  <2> HIDE DEF call
  <2>4. /\ calls' \in Seq(AnyCall) /\ Len(calls') = Len(calls) + 1
        /\ \A d \in 1 .. Len(calls) : calls'[d] = calls[d]
        /\ calls'[Len(calls) + 1] = call
    BY <1>1, <2>2, <2>3, AppendProperties
  <2>5. ASSUME NEW d \in 1 .. Len(calls') PROVE calls'[d].row \in 1 .. Len(rows')
    BY <1>1, <1>2, <2>2, <2>4
  <2> QED BY <1>1, <2>4, <2>5 DEF CallsRecorded
<1> QED BY <1>3, <1>4

\* More rows, and the calls as they were.
LEMMA CallsLeft ==
    ASSUME IInv, RowsSound', Len(rows') >= Len(rows), calls' = calls
    PROVE  CallsRecorded' /\ Len(calls') >= Len(calls)
BY LenProperties DEF IInv, Core, RowsSound, CallsRecorded

-----------------------------------------------------------------------------
(* Connections and slots *)

\* Connections left alone stay well formed.
LEMMA ConnsLeft ==
    ASSUME IInv, RowsSound', Len(rows') >= Len(rows), conns' = conns, open' = open
    PROVE  ConnsKnown' /\ SlotsCounted'
<1>1. ConnsKnown'
  BY LenProperties DEF IInv, Core, RowsSound, ConnsKnown
<1>2. SlotsCounted'
  BY DEF IInv, Core, SlotsCounted, SlotsMatchCalls
<1> QED BY <1>1, <1>2

\* A connection takes up something else; whether it is served is what it was.
LEMMA OneConnChanged ==
    ASSUME IInv, rows' = rows, open' = open, NEW c \in Conns, NEW new,
           conns' = [conns EXCEPT ![c] = new],
           new \in [phase: Phases, subject: Subjects \cup {Nobody},
                    tenant: Tenants \cup {Nobody}, row: Nat],
           new.phase # "closed" => new.subject \in Subjects,
           new.phase = "chosen" => new.row \in 1 .. Len(rows),
           conns[c].phase # "serving", new.phase # "serving"
    PROVE  ConnsKnown' /\ SlotsCounted'
<1>1. ConnsKnown'
  BY DEF IInv, Core, ConnsKnown
<1>2. \A s \in Subjects : Serving(s)' = Serving(s)
  BY DEF IInv, Core, ConnsKnown, Serving
<1>3. SlotsCounted'
  BY <1>2 DEF IInv, Core, SlotsCounted, SlotsMatchCalls, Serving
<1> QED BY <1>1, <1>3

\* A subject is served on finitely many connections.
LEMMA ServingIsFinite == \A s : IsFiniteSet(Serving(s))
<1>1. \A s : Serving(s) \subseteq Conns
  BY DEF Serving
<1> QED BY <1>1, FS_Subset, LibraryAssumption

\* A slot claimed is a call more being served.
LEMMA ClaimConns ==
    ASSUME IInv, NEW c \in Conns, Claim(c) PROVE ConnsKnown' /\ SlotsCounted'
<1>0. PICK s \in Subjects : s = conns[c].subject
  BY DEF IInv, Core, ConnsKnown, Claim
<1>1. /\ s = conns[c].subject /\ conns[c].phase = "chosen"
      /\ rows' = rows
      /\ open \in [Subjects -> Nat] /\ open[s] < MaxOpenCalls
      /\ conns' = [conns EXCEPT ![c].phase = "serving"]
      /\ open' = [open EXCEPT ![s] = @ + 1]
  BY <1>0 DEF IInv, Core, ConnsKnown, SlotsCounted, Claim
<1>2. ConnsKnown'
  BY <1>1 DEF IInv, Core, ConnsKnown, Phases
<1>3. /\ c \notin Serving(s) /\ Serving(s)' = Serving(s) \cup {c}
      /\ \A t \in Subjects \ {s} : Serving(t)' = Serving(t)
  BY <1>1 DEF IInv, Core, ConnsKnown, Serving
<1>4. \A t \in Subjects : open[t] = Cardinality(Serving(t)) /\ open[t] <= MaxOpenCalls
  BY DEF IInv, Core, SlotsCounted, SlotsMatchCalls, Serving
<1>5. Cardinality(Serving(s)') = Cardinality(Serving(s)) + 1
  BY <1>3, ServingIsFinite, FS_AddElement
<1>6. ASSUME NEW t \in Subjects
      PROVE  open'[t] = Cardinality(Serving(t)') /\ open'[t] <= MaxOpenCalls /\ open'[t] \in Nat
  <2>1. CASE t = s
    <3>1. open'[s] = open[s] + 1 /\ open[s] \in Nat /\ open[s] < MaxOpenCalls
      BY <1>1
    <3>2. open[s] = Cardinality(Serving(s)) /\ MaxOpenCalls \in Nat
      BY <1>4, LibraryAssumption
    <3> QED BY <1>5, <2>1, <3>1, <3>2
  <2>2. CASE t # s
    BY <1>1, <1>3, <1>4, <2>2
  <2> QED BY <2>1, <2>2
<1>7. SlotsCounted'
  BY <1>1, <1>6 DEF SlotsCounted, SlotsMatchCalls, Serving
<1> QED BY <1>2, <1>7

\* A slot given back is a call less.
LEMMA EndCallConns ==
    ASSUME IInv, NEW c \in Conns, EndCall(c) PROVE ConnsKnown' /\ SlotsCounted'
<1>0. PICK s \in Subjects : s = conns[c].subject
  BY DEF IInv, Core, ConnsKnown, EndCall
<1>1. /\ s = conns[c].subject /\ conns[c].phase = "serving"
      /\ rows' = rows
      /\ open \in [Subjects -> Nat]
      /\ conns' = [conns EXCEPT ![c] = Closed]
      /\ open' = [open EXCEPT ![s] = @ - 1]
  BY <1>0 DEF IInv, Core, ConnsKnown, SlotsCounted, EndCall, Released
<1>2. ConnsKnown'
  BY <1>1 DEF IInv, Core, ConnsKnown, Phases, Closed, None
<1>3. /\ c \in Serving(s) /\ Serving(s)' = Serving(s) \ {c}
      /\ \A t \in Subjects \ {s} : Serving(t)' = Serving(t)
  <2>1. /\ Closed.phase = "closed" /\ conns \in [Conns -> [phase: Phases,
                subject: Subjects \cup {Nobody}, tenant: Tenants \cup {Nobody}, row: Nat]]
    BY DEF IInv, Core, ConnsKnown, Closed
  <2>2. \A d \in Conns : conns'[d] = IF d = c THEN Closed ELSE conns[d]
    BY <1>1, <2>1
  <2> QED BY <1>1, <2>1, <2>2 DEF Serving
<1>4. \A t \in Subjects : open[t] = Cardinality(Serving(t)) /\ open[t] <= MaxOpenCalls
  BY DEF IInv, Core, SlotsCounted, SlotsMatchCalls, Serving
<1>5. /\ Cardinality(Serving(s)') = Cardinality(Serving(s)) - 1
      /\ Cardinality(Serving(s)') \in Nat
  BY <1>3, ServingIsFinite, FS_RemoveElement, FS_CardinalityType
<1>6. ASSUME NEW t \in Subjects
      PROVE  open'[t] = Cardinality(Serving(t)') /\ open'[t] <= MaxOpenCalls /\ open'[t] \in Nat
  <2>1. CASE t = s
    <3>1. open'[s] = open[s] - 1 /\ open[s] \in Nat
      BY <1>1
    <3>2. open[s] = Cardinality(Serving(s)) /\ open[s] <= MaxOpenCalls /\ MaxOpenCalls \in Nat
      BY <1>1, <1>4, LibraryAssumption
    <3> QED BY <1>5, <2>1, <3>1, <3>2
  <2>2. CASE t # s
    BY <1>1, <1>3, <1>4, <2>2
  <2> QED BY <2>1, <2>2
<1>7. SlotsCounted'
  BY <1>1, <1>6 DEF SlotsCounted, SlotsMatchCalls, Serving
<1> QED BY <1>2, <1>7

\* A restart closes every socket and counts from nothing.
LEMMA RestartConns ==
    ASSUME IInv, Restart PROVE ConnsKnown' /\ SlotsCounted'
<1>1. conns' = [c \in Conns |-> Closed] /\ open' = [s \in Subjects |-> 0]
  BY DEF Restart
<1>2. ConnsKnown'
  BY <1>1 DEF ConnsKnown, Phases, Closed, None
<1>3. \A s \in Subjects : Serving(s)' = {}
  BY <1>1 DEF Serving, Closed
<1>4. 0 <= MaxOpenCalls /\ Cardinality({}) = 0
  BY FS_EmptySet, LibraryAssumption
<1>5. \A s \in Subjects : open'[s] = Cardinality(Serving(s)') /\ open'[s] <= MaxOpenCalls
  BY <1>1, <1>3, <1>4
<1>6. SlotsCounted'
  BY <1>1, <1>5 DEF SlotsCounted, SlotsMatchCalls, Serving
<1> QED BY <1>2, <1>6

-----------------------------------------------------------------------------
(* The invariant *)

\* The first state is well formed.
LEMMA InvInit == Init => IInv
<1> SUFFICES ASSUME Init PROVE IInv
  OBVIOUS
<1>1. PICK release \in Releases :
        rows = [k \in 1 .. Len(BuiltIns) |-> [BuiltIn(k) EXCEPT !.active = k \in release.scenarios]]
  BY DEF Init
<1>2. Len(BuiltIns) \in Nat /\ \A k \in 1 .. Len(BuiltIns) : BuiltIns[k] \in Categories
  BY LibraryAssumption, LenProperties, ElementOfSeq
<1>3. ASSUME NEW k \in 1 .. Len(BuiltIns) PROVE rows[k] \in AnyRow /\ Sound(rows[k])
  <2> DEFINE active == k \in release.scenarios
             r == [BuiltIn(k) EXCEPT !.active = active]
  <2>1. rows[k] = r
    BY <1>1
  <2>2. active \in BOOLEAN /\ k \in Nat /\ BuiltIns[k] \in Categories
    BY <1>2
  <2> HIDE DEF active
  <2>3. r \in AnyRow /\ r.text = "seed" /\ r.by = Nobody
    BY <2>2 DEF BuiltIn, Row, AnyRow, None
  <2> QED BY <2>1, <2>3 DEF Sound
<1>4. rows \in Seq(AnyRow) /\ Len(rows) = Len(BuiltIns)
  <2>1. rows \in [1 .. Len(BuiltIns) -> AnyRow]
    BY <1>1, <1>3
  <2> QED BY <1>2, <2>1, SeqDef, LenProperties
<1>5. RowsSound
  BY <1>3, <1>4 DEF RowsSound
<1>6. CallsRecorded
  BY EmptySeq DEF Init, CallsRecorded
<1>7. ConnsKnown
  BY DEF Init, ConnsKnown, Phases, Closed, None
<1>8. \A s \in Subjects : Serving(s) = {}
  BY DEF Init, Serving, Closed
<1>9. open = [s \in Subjects |-> 0] /\ 0 <= MaxOpenCalls /\ Cardinality({}) = 0
  BY FS_EmptySet, LibraryAssumption DEF Init
<1>10. \A s \in Subjects : open[s] = Cardinality(Serving(s)) /\ open[s] <= MaxOpenCalls
  BY <1>8, <1>9
<1>11. SlotsCounted
  BY <1>9, <1>10 DEF SlotsCounted, SlotsMatchCalls, Serving
<1>12. PressKnown /\ LeavingKnown
  <2>1. Len(rows) \in Nat /\ Len(calls) \in Nat
    BY <1>5, <1>6, LenProperties DEF RowsSound, CallsRecorded
  <2>2. Idle \in AnyPress(Len(rows), Len(calls)) /\ Idle.phase = "idle"
    BY <2>1 DEF Idle, None, AnyPress
  <2> QED BY <2>2 DEF Init, PressKnown, LeavingKnown
<1> QED BY <1>5, <1>6, <1>7, <1>11, <1>12 DEF IInv, Core

Growing == Core' /\ Len(rows') >= Len(rows) /\ Len(calls') >= Len(calls)

\* Every step keeps rows, calls and connections well formed, and loses no row and no
\* call.
LEMMA CoreNext == IInv /\ [Next]_vars => Growing
<1> SUFFICES ASSUME IInv, [Next]_vars PROVE Growing
  OBVIOUS
<1>0. RowsSound /\ Len(rows) \in Nat /\ Len(rows) >= Len(rows) /\ Len(calls) \in Nat
  BY LenProperties DEF IInv, Core, RowsSound, CallsRecorded
<1>same. ASSUME rows' = rows PROVE RowsSound' /\ Len(rows') >= Len(rows)
  BY <1>0, <1>same DEF RowsSound
<1>1. CASE Restart
  BY <1>1, RestartRows, RestartConns, CallsLeft DEF IInv, Core, Growing, Restart
<1>2. ASSUME NEW s \in Subjects,
             ChangeAccount(s) \/ Visit(s) \/ SetFocus(s) \/ HourPasses(s) \/ NothingMade(s)
      PROVE  Growing
  <2>1. rows' = rows /\ calls' = calls /\ conns' = conns /\ open' = open
    BY <1>2 DEF ChangeAccount, Visit, SetFocus, HourPasses, NothingMade
  <2> QED BY <1>same, <2>1, CallsLeft, ConnsLeft DEF IInv, Core, Growing
<1>3. ASSUME NEW s \in Subjects, Create(s) PROVE Growing
  <2>1. calls' = calls /\ conns' = conns /\ open' = open
    BY <1>3 DEF Create
  <2> QED BY <1>3, <2>1, CreateRows, CallsLeft, ConnsLeft DEF IInv, Core, Growing
<1>4. ASSUME NEW s \in Subjects, NEW k \in 1 .. Len(rows),
             Update(s, k) \/ SetVisibility(s, k) \/ Deactivate(s, k)
      PROVE  Growing
  <2>1. calls' = calls /\ conns' = conns /\ open' = open
    BY <1>4 DEF Update, SetVisibility, Deactivate
  <2>2. RowsSound' /\ Len(rows') >= Len(rows)
    BY <1>4, UpdateRows, SetVisibilityRows, DeactivateRows
  <2> QED BY <2>1, <2>2, CallsLeft, ConnsLeft DEF IInv, Core, Growing
<1>5. ASSUME NEW s \in Subjects, NEW c \in Conns, Connect(c, s) PROVE Growing
  <2> DEFINE new == [phase |-> "admitted", subject |-> s, tenant |-> TenantOf(s), row |-> None]
  <2>1. /\ rows' = rows /\ calls' = calls /\ open' = open
        /\ conns[c].phase = "closed" /\ conns' = [conns EXCEPT ![c] = new]
    BY <1>5 DEF Connect
  <2>2. /\ new \in [phase: Phases, subject: Subjects \cup {Nobody},
                    tenant: Tenants \cup {Nobody}, row: Nat]
        /\ new.phase = "admitted" /\ new.subject \in Subjects
    BY TenantOfIsTenant DEF Phases, None
  <2> HIDE DEF new
  <2>3. ConnsKnown' /\ SlotsCounted'
    BY <2>1, <2>2, OneConnChanged
  <2> QED BY <1>same, <2>1, <2>3, CallsLeft DEF IInv, Core, Growing
<1>6. ASSUME NEW c \in Conns, LoadSelection(c) PROVE Growing
  <2>1. /\ rows' = rows /\ calls' = calls /\ open' = open
        /\ conns[c].phase = "admitted" /\ conns \in [Conns -> [phase: Phases,
                subject: Subjects \cup {Nobody}, tenant: Tenants \cup {Nobody}, row: Nat]]
        /\ conns[c].subject \in Subjects
    BY <1>6 DEF LoadSelection, IInv, Core, ConnsKnown
  <2>2. PICK k \in 1 .. Len(rows) : conns' = [conns EXCEPT ![c].phase = "chosen", ![c].row = k]
    BY <1>6 DEF LoadSelection, ReadableBy
  <2> DEFINE new == [conns[c] EXCEPT !.phase = "chosen", !.row = k]
  <2>3. conns' = [conns EXCEPT ![c] = new]
    BY <2>1, <2>2
  <2>4. /\ new \in [phase: Phases, subject: Subjects \cup {Nobody},
                    tenant: Tenants \cup {Nobody}, row: Nat]
        /\ new.phase = "chosen" /\ new.subject \in Subjects /\ new.row \in 1 .. Len(rows)
    <3>1. k \in Nat /\ "chosen" \in Phases
      BY <1>0 DEF Phases
    <3>2. conns[c] \in [phase: Phases, subject: Subjects \cup {Nobody},
                        tenant: Tenants \cup {Nobody}, row: Nat]
      BY <2>1
    <3> QED BY <2>1, <3>1, <3>2
  <2> HIDE DEF new
  <2>5. ConnsKnown' /\ SlotsCounted'
    BY <2>1, <2>3, <2>4, OneConnChanged
  <2> QED BY <1>same, <2>1, <2>5, CallsLeft DEF IInv, Core, Growing
<1>7. ASSUME NEW c \in Conns, RefuseSelection(c) \/ TooManyCalls(c) PROVE Growing
  <2>1. /\ rows' = rows /\ calls' = calls /\ open' = open
        /\ conns[c].phase # "serving" /\ conns' = [conns EXCEPT ![c] = Closed]
    BY <1>7 DEF RefuseSelection, TooManyCalls
  <2>2. /\ Closed \in [phase: Phases, subject: Subjects \cup {Nobody},
                       tenant: Tenants \cup {Nobody}, row: Nat]
        /\ Closed.phase = "closed"
    BY DEF Closed, Phases, None
  <2>3. ConnsKnown' /\ SlotsCounted'
    BY <2>1, <2>2, OneConnChanged
  <2> QED BY <1>same, <2>1, <2>3, CallsLeft DEF IInv, Core, Growing
<1>8. ASSUME NEW c \in Conns, Claim(c) PROVE Growing
  <2>1. rows' = rows /\ calls' = calls
    BY <1>8 DEF Claim
  <2> QED BY <1>same, <1>8, <2>1, ClaimConns, CallsLeft DEF IInv, Core, Growing
<1>9. ASSUME NEW c \in Conns, EndCall(c) PROVE Growing
  <2>1. rows' = rows
    BY <1>9 DEF EndCall
  <2> QED BY <1>same, <1>9, <2>1, EndCallCalls, EndCallConns DEF IInv, Core, Growing
<1>10. ASSUME NEW c \in 1 .. Len(calls), WrapUp(c) PROVE Growing
  <2>1. rows' = rows /\ conns' = conns /\ open' = open
    BY <1>10 DEF WrapUp
  <2> QED BY <1>same, <1>10, <2>1, WrapUpCalls, ConnsLeft DEF IInv, Core, Growing
<1>11. CASE DeleteCall
  <2>1. PICK gone \in leaving :
          /\ rows' = Untied(gone)
          /\ calls' = [calls EXCEPT ![gone.call].live = FALSE, ![gone.call].wrapup = NoWrapup]
          /\ conns' = conns /\ open' = open
    BY <1>11 DEF DeleteCall
  <2>2. gone.call \in 1 .. Len(calls)
    BY DEF IInv, LeavingKnown
  <2>3. RowsSound' /\ Len(rows') >= Len(rows)
    BY <1>0, <2>1, DeleteCallRows
  <2>4. CallsRecorded' /\ Len(calls') = Len(calls)
    BY <2>1, <2>2, <2>3, DeleteCallCalls DEF CallGone
  <2> QED BY <1>0, <2>1, <2>3, <2>4, ConnsLeft DEF IInv, Core, Growing
<1>12. ASSUME NEW s \in Subjects, NEW c \in 1 .. Len(calls), NEW reverse \in BOOLEAN,
              Restore(s, c, reverse) \/ Make(s, c, reverse) \/ StartDelete(s, c)
       PROVE  Growing
  <2>1. rows' = rows /\ calls' = calls /\ conns' = conns /\ open' = open
    BY <1>12 DEF Restore, Make, StartDelete
  <2> QED BY <1>same, <2>1, CallsLeft, ConnsLeft DEF IInv, Core, Growing
<1>15. ASSUME NEW s \in Subjects, Wake(s) \/ Insert(s) PROVE Growing
  <2>1. calls' = calls /\ conns' = conns /\ open' = open
    BY <1>15 DEF Wake, Insert
  <2>2. RowsSound' /\ Len(rows') >= Len(rows)
    BY <1>15, WakeRows, InsertRows
  <2> QED BY <2>1, <2>2, CallsLeft, ConnsLeft DEF IInv, Core, Growing
<1>13. CASE UNCHANGED vars
  <2>1. rows' = rows /\ calls' = calls /\ conns' = conns /\ open' = open
    BY <1>13 DEF vars
  <2> QED BY <1>same, <2>1, CallsLeft, ConnsLeft DEF IInv, Core, Growing
<1>14. CASE Next
  BY <1>1, <1>2, <1>3, <1>4, <1>5, <1>6, <1>7, <1>8, <1>9, <1>10, <1>11, <1>12, <1>14, <1>15 DEF Next
<1> QED BY <1>13, <1>14

\* Presses and deletions outlive rows and calls that only grow in number.
LEMMA PressLeft ==
    ASSUME IInv, Growing, press' = press PROVE PressKnown'
<1>1. /\ Len(rows) \in Nat /\ Len(rows') \in Nat /\ Len(rows') >= Len(rows)
      /\ Len(calls) \in Nat /\ Len(calls') \in Nat /\ Len(calls') >= Len(calls)
  BY LenProperties DEF IInv, Core, Growing, RowsSound, CallsRecorded
<1>2. AnyPress(Len(rows), Len(calls)) \subseteq AnyPress(Len(rows'), Len(calls'))
  BY <1>1 DEF AnyPress
<1> QED BY <1>1, <1>2 DEF IInv, PressKnown

\* One press changed.
LEMMA PressChanged ==
    ASSUME IInv, Growing, NEW s \in Subjects, NEW p \in AnyPress(Len(rows), Len(calls)),
           press' = [press EXCEPT ![s] = p],
           p.phase = "waking" => p.row \in 1 .. Len(rows),
           p.phase = "drafting" => p.call \in 1 .. Len(calls) /\ p.tenant \in Tenants
    PROVE  PressKnown'
<1>1. /\ Len(rows) \in Nat /\ Len(rows') \in Nat /\ Len(rows') >= Len(rows)
      /\ Len(calls) \in Nat /\ Len(calls') \in Nat /\ Len(calls') >= Len(calls)
  BY LenProperties DEF IInv, Core, Growing, RowsSound, CallsRecorded
<1>2. AnyPress(Len(rows), Len(calls)) \subseteq AnyPress(Len(rows'), Len(calls'))
  BY <1>1 DEF AnyPress
<1>3. \A t \in Subjects : press'[t] = IF t = s THEN p ELSE press[t]
  BY DEF IInv, PressKnown
<1> QED BY <1>1, <1>2, <1>3 DEF IInv, PressKnown

\* Nobody having pressed anything is a state they can be in.
LEMMA IdleIsPress ==
    ASSUME IInv PROVE Idle \in AnyPress(Len(rows), Len(calls)) /\ Idle.phase = "idle"
BY LenProperties DEF IInv, Core, RowsSound, CallsRecorded, Idle, None, AnyPress

\* Deletions that are left, or end.
LEMMA LeavingLeft ==
    ASSUME IInv, Growing, leaving' \subseteq leaving PROVE LeavingKnown'
<1>1. /\ Len(rows) \in Nat /\ Len(rows') \in Nat /\ Len(rows') >= Len(rows)
      /\ Len(calls) \in Nat /\ Len(calls') \in Nat /\ Len(calls') >= Len(calls)
  BY LenProperties DEF IInv, Core, Growing, RowsSound, CallsRecorded
<1> QED BY <1>1 DEF IInv, LeavingKnown

\* Every step keeps presses and deletions well formed.
LEMMA PressNext == IInv /\ [Next]_vars => PressKnown' /\ LeavingKnown'
<1> SUFFICES ASSUME IInv, [Next]_vars PROVE PressKnown' /\ LeavingKnown'
  OBVIOUS
<1>0. Growing
  BY CoreNext
<1>1. CASE Restart
  <2>1. press' = [s \in Subjects |-> Idle] /\ leaving' = {}
    BY <1>1 DEF Restart
  <2>2. Len(rows') \in Nat /\ Len(calls') \in Nat
    BY <1>0, LenProperties DEF Growing, Core, RowsSound, CallsRecorded
  <2>3. Idle \in AnyPress(Len(rows'), Len(calls')) /\ Idle.phase = "idle"
    BY <2>2 DEF Idle, None, AnyPress
  <2> QED BY <2>1, <2>3 DEF PressKnown, LeavingKnown
<1>2. ASSUME press' = press, leaving' = leaving PROVE PressKnown' /\ LeavingKnown'
  BY <1>0, <1>2, PressLeft, LeavingLeft
<1>3. CASE DeleteCall
  BY <1>0, <1>3, PressLeft, LeavingLeft DEF DeleteCall
<1>4. ASSUME NEW s \in Subjects, Wake(s) \/ Insert(s) \/ NothingMade(s)
      PROVE  PressKnown' /\ LeavingKnown'
  <2>1. press' = [press EXCEPT ![s] = Idle] /\ leaving' = leaving
    BY <1>4 DEF Wake, Insert, NothingMade
  <2> QED BY <1>0, <2>1, IdleIsPress, PressChanged, LeavingLeft
<1>5. ASSUME NEW s \in Subjects, NEW c \in 1 .. Len(calls), StartDelete(s, c)
      PROVE  PressKnown' /\ LeavingKnown'
  <2>1. /\ press' = press /\ rows' = rows /\ calls' = calls
        /\ leaving' = leaving \cup {[call |-> c, retired |-> MadeOf(c, FALSE)]}
    BY <1>5 DEF StartDelete
  <2>2. MadeOf(c, FALSE) \subseteq 1 .. Len(rows)
    BY DEF MadeOf
  <2> DEFINE gone == [call |-> c, retired |-> MadeOf(c, FALSE)]
  <2>3. gone \in [call: 1 .. Len(calls), retired: SUBSET (1 .. Len(rows))]
    BY <2>2
  <2> HIDE DEF gone
  <2>4. LeavingKnown'
    <3>1. leaving' = leaving \cup {gone}
      BY <2>1 DEF gone
    <3> QED BY <2>1, <2>3, <3>1 DEF IInv, LeavingKnown
  <2> QED BY <1>0, <2>1, <2>4, PressLeft
<1>6. ASSUME NEW s \in Subjects, NEW c \in 1 .. Len(calls), NEW reverse \in BOOLEAN,
             Restore(s, c, reverse)
      PROVE  PressKnown' /\ LeavingKnown'
  <2>1. PICK k \in MadeOf(c, reverse) :
          press' = IF rows[k].active THEN press
                   ELSE [press EXCEPT ![s] = Waking(k)]
    BY <1>6 DEF Restore
  <2>2. leaving' = leaving /\ k \in 1 .. Len(rows)
    BY <1>6 DEF Restore, MadeOf
  <2> DEFINE p == [phase |-> "waking", row |-> k, call |-> None, reverse |-> FALSE,
                   tenant |-> Nobody]
  <2>3. p \in AnyPress(Len(rows), Len(calls)) /\ p.row = k /\ p.phase = "waking"
    <3>1. k \in 0 .. Len(rows) /\ None \in 0 .. Len(calls)
      BY <2>2, LenProperties DEF IInv, Core, RowsSound, CallsRecorded, None
    <3> QED BY <3>1 DEF AnyPress
  <2>4. press' = press \/ press' = [press EXCEPT ![s] = p]
    BY <2>1 DEF Waking
  <2> HIDE DEF p
  <2> QED BY <1>0, <2>2, <2>3, <2>4, PressLeft, PressChanged, LeavingLeft
<1>7. ASSUME NEW s \in Subjects, NEW c \in 1 .. Len(calls), NEW reverse \in BOOLEAN,
             Make(s, c, reverse)
      PROVE  PressKnown' /\ LeavingKnown'
  <2> DEFINE p == [phase |-> "drafting", row |-> None, call |-> c,
                   reverse |-> reverse, tenant |-> TenantOf(s)]
  <2>1. press' = [press EXCEPT ![s] = p] /\ leaving' = leaving
    BY <1>7 DEF Make
  <2>2. p \in AnyPress(Len(rows), Len(calls)) /\ p.phase = "drafting" /\ p.call = c
        /\ p.tenant \in Tenants
    BY TenantOfIsTenant, LenProperties DEF IInv, Core, RowsSound, AnyPress, None
  <2> HIDE DEF p
  <2> QED BY <1>0, <2>1, <2>2, PressChanged, LeavingLeft
<1>8. CASE UNCHANGED vars
  BY <1>2, <1>8 DEF vars
<1>9. ASSUME NEW s \in Subjects,
             \/ ChangeAccount(s) \/ Visit(s) \/ SetFocus(s) \/ HourPasses(s) \/ Create(s)
             \/ \E k \in 1 .. Len(rows) : Update(s, k) \/ SetVisibility(s, k) \/ Deactivate(s, k)
             \/ \E c \in Conns : Connect(c, s)
      PROVE  PressKnown' /\ LeavingKnown'
  <2>1. press' = press /\ leaving' = leaving
    BY <1>9 DEF ChangeAccount, Visit, SetFocus, HourPasses, Create, Update, SetVisibility,
                Deactivate, Connect
  <2> QED BY <1>2, <2>1
<1>10. ASSUME \/ \E c \in Conns : \/ LoadSelection(c) \/ RefuseSelection(c) \/ Claim(c)
                                  \/ TooManyCalls(c) \/ EndCall(c)
              \/ \E c \in 1 .. Len(calls) : WrapUp(c)
       PROVE  PressKnown' /\ LeavingKnown'
  <2>1. press' = press /\ leaving' = leaving
    BY <1>10 DEF LoadSelection, RefuseSelection, Claim, TooManyCalls, EndCall, WrapUp
  <2> QED BY <1>2, <2>1
<1>11. CASE Next
  BY <1>1, <1>3, <1>4, <1>5, <1>6, <1>7, <1>9, <1>10, <1>11 DEF Next
<1> QED BY <1>8, <1>11

\* Every step keeps the state well formed.
LEMMA InvNext == IInv /\ [Next]_vars => IInv'
BY CoreNext, PressNext DEF IInv, Growing

\* The inductive invariant holds throughout.
LEMMA Invariance == Spec => []IInv
<1> QED BY InvInit, InvNext, PTL DEF Spec

-----------------------------------------------------------------------------
(* Ranking: the first n of a finite set in a strict total order             *)

Ordering(R, S) ==
    /\ \A a \in S : <<a, a>> \notin R
    /\ \A a, b, c \in S : <<a, b>> \in R /\ <<b, c>> \in R => <<a, c>> \in R
    /\ \A a, b \in S : a = b \/ <<a, b>> \in R \/ <<b, a>> \in R
Before(R, S, c) == {d \in S : <<d, c>> \in R}
Rank(R, S, c) == Cardinality(Before(R, S, c))

\* A rank is below the size of the set, and grows along the order.
LEMMA RanksGrow ==
    ASSUME NEW S, IsFiniteSet(S), NEW R, Ordering(R, S)
    PROVE  /\ \A c \in S : Rank(R, S, c) \in 0 .. Cardinality(S) - 1
           /\ \A a, b \in S : <<a, b>> \in R => Rank(R, S, a) < Rank(R, S, b)
<1>1. \A c \in S : IsFiniteSet(Before(R, S, c)) /\ Rank(R, S, c) \in Nat
  <2> SUFFICES ASSUME NEW c \in S
               PROVE  IsFiniteSet(Before(R, S, c)) /\ Rank(R, S, c) \in Nat
    OBVIOUS
  <2>1. Before(R, S, c) \subseteq S
    BY DEF Before
  <2> QED
    BY <2>1, FS_Subset, FS_CardinalityType DEF Rank
<1>2. ASSUME NEW A, NEW B, IsFiniteSet(B), A \subseteq B, NEW x \in B, x \notin A
      PROVE  Cardinality(A) < Cardinality(B)
  <2>1. IsFiniteSet(A) /\ Cardinality(A) <= Cardinality(B) /\ Cardinality(A) # Cardinality(B)
    BY <1>2, FS_Subset
  <2>2. Cardinality(A) \in Nat /\ Cardinality(B) \in Nat
    BY <1>2, <2>1, FS_CardinalityType
  <2> QED
    BY <2>1, <2>2
<1>3. ASSUME NEW c \in S PROVE Rank(R, S, c) \in 0 .. Cardinality(S) - 1
  <2>1. Before(R, S, c) \subseteq S /\ c \notin Before(R, S, c)
    BY DEF Before, Ordering
  <2>2. Rank(R, S, c) < Cardinality(S)
    BY <1>2, <2>1 DEF Rank
  <2> QED
    BY <1>1, <2>2, FS_CardinalityType
<1>4. ASSUME NEW a \in S, NEW b \in S, <<a, b>> \in R PROVE Rank(R, S, a) < Rank(R, S, b)
  <2>1. \A d \in S : <<d, a>> \in R => <<d, b>> \in R
    BY <1>4 DEF Ordering
  <2>2. Before(R, S, a) \subseteq Before(R, S, b)
    BY <2>1 DEF Before
  <2>3. a \in Before(R, S, b) /\ a \notin Before(R, S, a)
    BY <1>4 DEF Before, Ordering
  <2> QED
    BY <1>1, <1>2, <2>2, <2>3 DEF Rank
<1> QED
  BY <1>3, <1>4

\* Every rank below the size of the set is somebody's.
LEMMA RanksAreAll ==
    ASSUME NEW S, IsFiniteSet(S), NEW R, Ordering(R, S)
    PROVE  [c \in S |-> Rank(R, S, c)] \in Bijection(S, 0 .. Cardinality(S) - 1)
<1> DEFINE T == 0 .. Cardinality(S) - 1
           f == [c \in S |-> Rank(R, S, c)]
<1>1. f \in [S -> T]
  BY RanksGrow
<1>2. \A a, b \in S : f[a] = f[b] => a = b
  <2> SUFFICES ASSUME NEW a \in S, NEW b \in S, f[a] = f[b] PROVE a = b
    OBVIOUS
  <2>1. Rank(R, S, a) = Rank(R, S, b) /\ Rank(R, S, a) \in Int
    BY RanksGrow
  <2>2. <<a, b>> \notin R /\ <<b, a>> \notin R
    BY <2>1, RanksGrow
  <2> QED
    BY <2>2 DEF Ordering
<1>3. IsFiniteSet(T) /\ Cardinality(T) = Cardinality(S)
  <2>1. Cardinality(S) \in Nat
    BY FS_CardinalityType
  <2> QED
    BY <2>1, FS_Interval
<1> HIDE DEF f, T
<1>4. f \in Injection(S, T)
  BY <1>1, <1>2 DEF Injection, IsInjective
<1>5. f \in Surjection(S, T)
  BY <1>3, <1>4, FS_Injection
<1>6. f \in Bijection(S, T)
  BY <1>4, <1>5 DEF Bijection
<1> QED
  BY <1>6 DEF f, T

\* The first n are n, or all there are, and nobody else comes before any of them.
LEMMA FirstOfAll ==
    ASSUME NEW S, IsFiniteSet(S), NEW R, Ordering(R, S), NEW n \in Nat,
           NEW first, first = {c \in S : Rank(R, S, c) < n}
    PROVE  /\ IsFiniteSet(first) /\ Cardinality(first) <= n
           /\ Cardinality(first) = n \/ first = S
           /\ \A p \in first, q \in S \ first : <<p, q>> \in R
<1> DEFINE size == Cardinality(S)
           f == [c \in S |-> Rank(R, S, c)]
           m == IF n <= size THEN n ELSE size
           g == [c \in first |-> f[c]]
<1>1. size \in Nat /\ IsFiniteSet(first) /\ Cardinality(first) \in Nat
  BY FS_CardinalityType, FS_Subset
<1>2. f \in Bijection(S, 0 .. size - 1)
  BY RanksAreAll
<1>3. /\ f \in [S -> 0 .. size - 1]
      /\ \A a, b \in S : f[a] = f[b] => a = b
      /\ \A r \in 0 .. size - 1 : \E c \in S : f[c] = r
  BY <1>2 DEF Bijection, Injection, IsInjective, Surjection
<1>4. first = {c \in S : f[c] < n}
  OBVIOUS
<1> HIDE DEF f, size
<1>5. g \in Bijection(first, 0 .. m - 1)
  <2>1. g \in [first -> 0 .. m - 1]
    BY <1>1, <1>3, <1>4
  <2>2. \A a, b \in first : g[a] = g[b] => a = b
    BY <1>3, <1>4
  <2>3. \A r \in 0 .. m - 1 : \E c \in first : g[c] = r
    <3> SUFFICES ASSUME NEW r \in 0 .. m - 1 PROVE \E c \in first : g[c] = r
      OBVIOUS
    <3>1. PICK c \in S : f[c] = r
      BY <1>1, <1>3
    <3>2. c \in first
      BY <1>1, <1>4, <3>1
    <3> QED
      BY <3>1, <3>2
  <2> HIDE DEF g, m
  <2> QED
    BY <2>1, <2>2, <2>3 DEF Bijection, Injection, IsInjective, Surjection
<1> HIDE DEF g
<1>6. m \in Nat /\ m <= n /\ (n <= size => m = n)
  BY <1>1
<1> HIDE DEF m
<1>7. Cardinality(first) = m
  <2>1. ExistsBijection(first, 0 .. m - 1)
    BY <1>5 DEF ExistsBijection
  <2>2. Cardinality(0 .. m - 1) = Cardinality(first)
    BY <1>1, <2>1, FS_Bijection
  <2>3. 0 \in Int /\ m - 1 \in Int
    BY <1>6
  <2>4. Cardinality(0 .. m - 1) = IF 0 > m - 1 THEN 0 ELSE (m - 1) - 0 + 1
    BY <2>3, FS_Interval
  <2> QED
    BY <1>6, <2>2, <2>4
<1>8. n > size => first = S
  BY <1>1, <1>3, <1>4
<1>9. \A p \in first, q \in S \ first : <<p, q>> \in R
  <2> SUFFICES ASSUME NEW p \in first, NEW q \in S \ first PROVE <<p, q>> \in R
    OBVIOUS
  <2>1. p \in S /\ Rank(R, S, p) < n /\ ~ Rank(R, S, q) < n
    OBVIOUS
  <2>2. Rank(R, S, p) \in Int /\ Rank(R, S, q) \in Int
    BY <2>1, RanksGrow
  <2>3. <<q, p>> \notin R /\ p # q
    BY <2>1, <2>2, RanksGrow
  <2> QED
    BY <2>1, <2>3 DEF Ordering
<1> QED
  BY <1>1, <1>6, <1>7, <1>8, <1>9

\* One comes before all others, and only one.
LEMMA OneComesFirst ==
    ASSUME NEW S, IsFiniteSet(S), NEW R, Ordering(R, S),
           NEW first, first = {a \in S : \A b \in S \ {a} : <<a, b>> \in R}
    PROVE  IsFiniteSet(first) /\ Cardinality(first) <= 1 /\ (S # {} => first # {})
<1>1. first = {c \in S : Rank(R, S, c) < 1}
  <2>1. ASSUME NEW a \in first PROVE Rank(R, S, a) < 1
    <3>1. \A b \in S : <<b, a>> \notin R
      BY DEF Ordering
    <3>2. Before(R, S, a) = {}
      BY <3>1 DEF Before
    <3> QED
      BY <3>2, FS_EmptySet DEF Rank
  <2>2. ASSUME NEW a \in S, Rank(R, S, a) < 1 PROVE a \in first
    <3>1. IsFiniteSet(Before(R, S, a)) /\ Rank(R, S, a) = 0
      <4>1. Before(R, S, a) \subseteq S
        BY DEF Before
      <4> QED
        BY <2>2, <4>1, RanksGrow, FS_Subset
    <3>2. Before(R, S, a) = {}
      BY <3>1, FS_EmptySet DEF Rank
    <3> QED
      BY <3>2 DEF Before, Ordering
  <2> QED
    BY <2>1, <2>2
<1>2. IsFiniteSet(first) /\ Cardinality(first) <= 1 /\ (Cardinality(first) = 1 \/ first = S)
  BY <1>1, FirstOfAll
<1> QED
  BY <1>2, FS_EmptySet

-----------------------------------------------------------------------------
(* Suggestions                                                              *)

\* What the rules need to know of the state: rows are numbered, and what a user wants
\* to practise are goals there are.
Suggestible ==
    /\ RowsSound
    /\ \A k \in 1 .. Len(rows) : rows[k].id = k
    /\ profile \in [Subjects -> [decided: BOOLEAN, goals: SUBSET Goals, kinds: SUBSET Categories]]
    /\ catalogue \subseteq Goals

\* A listing is a finite set of candidates with ids of their own.
LEMMA ListingIsFinite ==
    ASSUME Suggestible, NEW s \in Subjects
    PROVE  /\ IsFiniteSet(Candidates(s))
           /\ \A a \in Candidates(s) : a.id \in Nat /\ a.group \in Nat /\ a.reverse \in BOOLEAN
           /\ \A a, b \in Candidates(s) : a.id = b.id => a = b
<1>1. Len(rows) \in Nat /\ Listed(s) \subseteq 1 .. Len(rows)
  BY LenProperties DEF Suggestible, RowsSound, Listed, ReadableBy
<1>2. IsFiniteSet(Listed(s))
  <2>1. IsFiniteSet(1 .. Len(rows))
    BY <1>1, FS_Interval
  <2> QED
    BY <1>1, <2>1, FS_Subset
<1> DEFINE f == [k \in Listed(s) |-> Candidate(rows[k], s)]
<1>3. f \in Surjection(Listed(s), Candidates(s))
  BY DEF Candidates, Surjection
<1>4. IsFiniteSet(Candidates(s))
  <2> HIDE DEF f
  <2> QED
    BY <1>2, <1>3, FS_Surjection
<1>5. ASSUME NEW a \in Candidates(s)
      PROVE  \E k \in 1 .. Len(rows) : a = Candidate(rows[k], s) /\ rows[k] \in AnyRow /\ rows[k].id = k
  <2>1. PICK k \in Listed(s) : a = Candidate(rows[k], s)
    BY DEF Candidates
  <2> QED
    BY <1>1, <2>1, RowOf DEF Suggestible
<1>6. ASSUME NEW a \in Candidates(s)
      PROVE  a.id \in Nat /\ a.group \in Nat /\ a.reverse \in BOOLEAN
  <2>1. PICK k \in 1 .. Len(rows) :
          a = Candidate(rows[k], s) /\ rows[k] \in AnyRow /\ rows[k].id = k
    BY <1>5
  <2>2. OriginGroup(rows[k], s) \in Nat
    BY DEF OriginGroup
  <2> QED
    BY <1>1, <2>1, <2>2 DEF Candidate, AnyRow
<1>7. ASSUME NEW a \in Candidates(s), NEW b \in Candidates(s), a.id = b.id PROVE a = b
  <2>1. PICK k \in 1 .. Len(rows) : a = Candidate(rows[k], s) /\ rows[k].id = k
    BY <1>5
  <2>2. PICK l \in 1 .. Len(rows) : b = Candidate(rows[l], s) /\ rows[l].id = l
    BY <1>5
  <2>3. a.id = k /\ b.id = l
    BY <2>1, <2>2 DEF Candidate
  <2> QED
    BY <1>7, <2>1, <2>2, <2>3
<1> QED
  BY <1>4, <1>6, <1>7

\* The score is the gain: the goals served that the category trains, and two for its kind.
LEMMA ScoreIsGain ==
    ASSUME Suggestible, NEW s \in Subjects, NEW c
    PROVE  /\ Score(c, profile[s], catalogue) = Gain(c, s)
           /\ Score(c, profile[s], catalogue) \in Nat
           /\ Reason(c, profile[s], catalogue).goals \subseteq Served(s)
<1>1. profile[s].goals \subseteq Goals
  BY DEF Suggestible
<1> DEFINE G == {g \in profile[s].goals : c.category \in GoalCategories(catalogue, g)}
<1>2. /\ G = {g \in Served(s) : c.category \in PractisedIn[g]}
      /\ G \subseteq Served(s)
  BY DEF Served, GoalCategories
<1>3. IsFiniteSet(G)
  BY <1>1, FS_Subset, SuggestionsAssumption
<1>4. Cardinality(G) \in Nat
  BY <1>3, FS_CardinalityType
<1>5. Reason(c, profile[s], catalogue) =
        [callType |-> c.category \in profile[s].kinds, goals |-> G]
  BY DEF Reason
<1> HIDE DEF G
<1>6. Score(c, profile[s], catalogue) =
        Cardinality(G) + (IF c.category \in profile[s].kinds THEN 2 ELSE 0)
  <2> DEFINE why == Reason(c, profile[s], catalogue)
  <2>1. Score(c, profile[s], catalogue) =
          Cardinality(why.goals) + (IF why.callType THEN 2 ELSE 0)
    BY DEF Score
  <2> DEFINE kind == c.category \in profile[s].kinds
  <2>2. why = [callType |-> kind, goals |-> G]
    BY <1>5
  <2> HIDE DEF why, kind
  <2>3. why.goals = G /\ why.callType = kind
    BY <2>2
  <2>4. kind = (c.category \in profile[s].kinds)
    BY DEF kind
  <2> QED
    BY <2>1, <2>3, <2>4
<1>7. Gain(c, s) = (IF c.category \in profile[s].kinds THEN 2 ELSE 0) + Cardinality(G)
  BY <1>2 DEF Gain
<1> QED
  BY <1>2, <1>4, <1>5, <1>6, <1>7

\* The pairs of candidates of which the first is suggested before the second, and
\* those of which the first is listed before it.
AheadIn(all, s) ==
    {p \in all \X all : Ahead(p[1], p[2], profile[s], catalogue, Played(s))}
ListedIn(all) == {p \in all \X all : ListedBefore(p[1], p[2])}

\* Both are strict total orders of what is listed.
LEMMA AheadOrders ==
    ASSUME Suggestible, NEW s \in Subjects
    PROVE  /\ Ordering(AheadIn(Candidates(s), s), Candidates(s))
           /\ Ordering(ListedIn(Candidates(s)), Candidates(s))
<1> DEFINE all == Candidates(s)
           score(c) == Score(c, profile[s], catalogue)
           fresh(c) == c.id \notin Played(s)
<1>1. /\ \A a \in all : a.id \in Nat /\ a.group \in Nat /\ score(a) \in Nat
      /\ \A a, b \in all : a.id = b.id => a = b
  BY ListingIsFinite, ScoreIsGain
<1>2. \A a, b \in all : <<a, b>> \in ListedIn(all) <=>
                          a.group < b.group \/ (a.group = b.group /\ a.id < b.id)
  BY DEF ListedIn, ListedBefore
<1>3. \A a, b \in all : <<a, b>> \in AheadIn(all, s) <=>
        \/ score(a) > score(b)
        \/ /\ score(a) = score(b)
           /\ \/ fresh(a) /\ ~fresh(b)
              \/ (fresh(a) <=> fresh(b)) /\ <<a, b>> \in ListedIn(all)
  BY <1>2 DEF AheadIn, Ahead, ListedBefore
<1> HIDE DEF all, score, fresh
<1>4. Ordering(ListedIn(all), all)
  BY <1>1, <1>2 DEF Ordering
<1>5. Ordering(AheadIn(all, s), all)
  <2>1. \A a \in all : <<a, a>> \notin AheadIn(all, s)
    <3> SUFFICES ASSUME NEW a \in all PROVE <<a, a>> \notin AheadIn(all, s)
      OBVIOUS
    <3>1. score(a) \in Nat /\ <<a, a>> \notin ListedIn(all)
      BY <1>1, <1>4 DEF Ordering
    <3> QED
      BY <1>3, <3>1
  <2>2. \A a, b, c \in all : <<a, b>> \in AheadIn(all, s) /\ <<b, c>> \in AheadIn(all, s)
                                => <<a, c>> \in AheadIn(all, s)
    <3> SUFFICES ASSUME NEW a \in all, NEW b \in all, NEW c \in all,
                        <<a, b>> \in AheadIn(all, s), <<b, c>> \in AheadIn(all, s)
                 PROVE  <<a, c>> \in AheadIn(all, s)
      OBVIOUS
    <3>1. score(a) \in Nat /\ score(b) \in Nat /\ score(c) \in Nat
      BY <1>1
    <3>2. <<a, b>> \in ListedIn(all) /\ <<b, c>> \in ListedIn(all) => <<a, c>> \in ListedIn(all)
      BY <1>4 DEF Ordering
    <3> QED
      BY <1>3, <3>1, <3>2
  <2>3. \A a, b \in all : a = b \/ <<a, b>> \in AheadIn(all, s) \/ <<b, a>> \in AheadIn(all, s)
    <3> SUFFICES ASSUME NEW a \in all, NEW b \in all, a # b
                 PROVE  <<a, b>> \in AheadIn(all, s) \/ <<b, a>> \in AheadIn(all, s)
      OBVIOUS
    <3>1. score(a) \in Nat /\ score(b) \in Nat
      BY <1>1
    <3>2. <<a, b>> \in ListedIn(all) \/ <<b, a>> \in ListedIn(all)
      BY <1>4 DEF Ordering
    <3> QED
      BY <1>3, <3>1, <3>2
  <2> QED
    BY <2>1, <2>2, <2>3 DEF Ordering
<1> QED
  BY <1>4, <1>5 DEF all

\* An order of a set is one of every part of it, which is finite with it.
LEMMA OrderingOfPart ==
    ASSUME NEW S, IsFiniteSet(S), NEW R, Ordering(R, S), NEW T, T \subseteq S
    PROVE  Ordering(R, T) /\ IsFiniteSet(T)
BY FS_Subset DEF Ordering

\* The suggestions: as many as fit, and none better left out.
LEMMA PicksAreBest ==
    ASSUME Suggestible, NEW s \in Subjects
    PROVE  LET all == Candidates(s)
               suits == {c \in all : ~c.reverse /\ c.category # NoCategory /\ Gain(c, s) > 0}
               picks == Picks(all, profile[s], catalogue, Played(s))
           IN  /\ picks \subseteq suits
               /\ Cardinality(picks) <= MaxRecommendations
               /\ Cardinality(picks) = MaxRecommendations \/ picks = suits
               /\ \A p \in picks, q \in suits \ picks :
                    \/ Gain(p, s) > Gain(q, s)
                    \/ /\ Gain(p, s) = Gain(q, s)
                       /\ q.id \notin Played(s) => p.id \notin Played(s)
<1> DEFINE all == Candidates(s)
           suits == {c \in all : ~c.reverse /\ c.category # NoCategory /\ Gain(c, s) > 0}
           picks == Picks(all, profile[s], catalogue, Played(s))
           R == AheadIn(all, s)
<1>1. suits = Scored(all, profile[s], catalogue) /\ suits \subseteq all
  BY ScoreIsGain DEF Scored
<1>2. IsFiniteSet(all) /\ Ordering(R, all)
  BY ListingIsFinite, AheadOrders
<1>3. \A a, b \in all : <<a, b>> \in R <=> Ahead(a, b, profile[s], catalogue, Played(s))
  BY DEF AheadIn
<1> HIDE DEF all, R, suits
<1>4. IsFiniteSet(suits) /\ Ordering(R, suits)
  BY <1>1, <1>2, OrderingOfPart
<1>5. picks = {c \in suits : Rank(R, suits, c) < MaxRecommendations}
  <2>1. \A c \in suits : Before(R, suits, c) =
                           {d \in suits : Ahead(d, c, profile[s], catalogue, Played(s))}
    BY <1>1, <1>3 DEF Before
  <2> QED
    BY <1>1, <2>1 DEF Picks, Rank
<1> HIDE DEF picks
<1>6. MaxRecommendations \in Nat
  BY SuggestionsAssumption
<1>7. /\ Cardinality(picks) <= MaxRecommendations
      /\ Cardinality(picks) = MaxRecommendations \/ picks = suits
      /\ \A p \in picks, q \in suits \ picks : <<p, q>> \in R
  BY <1>4, <1>5, <1>6, FirstOfAll
<1>8. ASSUME NEW p \in picks, NEW q \in suits \ picks
      PROVE  \/ Gain(p, s) > Gain(q, s)
             \/ /\ Gain(p, s) = Gain(q, s)
                /\ q.id \notin Played(s) => p.id \notin Played(s)
  <2>1. p \in all /\ q \in all
    BY <1>1, <1>5
  <2>2. Ahead(p, q, profile[s], catalogue, Played(s))
    BY <1>3, <1>7, <2>1
  <2> QED
    BY <2>2, ScoreIsGain DEF Ahead
<1>9. picks \subseteq suits
  BY <1>5
<1> QED
  BY <1>7, <1>8, <1>9 DEF picks, suits, all

\* The offer after a call is one of something else, fresh if anything suggested is.
LEMMA OfferIsSomethingElse ==
    ASSUME Suggestible, NEW s \in Subjects, NEW just \in Candidates(s)
    PROVE  LET all == Candidates(s)
               picks == Picks(all, profile[s], catalogue, Played(s))
               offer == LibraryChoice(just, all, profile[s], catalogue, Played(s))
           IN  /\ Cardinality(offer) <= 1
               /\ \A o \in offer : o \in all /\ o.id # just.id /\ ~o.reverse
               /\ (\E p \in picks : p.id \notin Played(s) /\ p # just) =>
                     \A o \in offer : o.id \notin Played(s)
               /\ (\E p \in picks : p # just) => offer # {}
<1> DEFINE all == Candidates(s)
           played == Played(s)
           picks == Picks(all, profile[s], catalogue, played)
           offer == LibraryChoice(just, all, profile[s], catalogue, played)
           others == {p \in picks : p.id # just.id}
           fresh == {p \in others : p.id \notin played}
           same == {c \in all : /\ just.category # NoCategory
                                /\ c.id # just.id /\ ~c.reverse
                                /\ c.category = just.category
                                /\ c.id \notin played}
           First(S) == {a \in S : \A b \in S \ {a} :
                            Ahead(a, b, profile[s], catalogue, played)}
           Top(S) == {a \in S : \A b \in S \ {a} : ListedBefore(a, b)}
<1>1. offer = IF fresh # {} THEN First(fresh)
              ELSE IF others # {} THEN First(others) ELSE Top(same)
  BY DEF LibraryChoice
<1>2. \A p \in picks : p \in all /\ ~p.reverse
  BY PicksAreBest
<1>3. \A p \in picks : p # just => p.id # just.id
  BY <1>2, ListingIsFinite
<1>4. IsFiniteSet(all) /\ Ordering(AheadIn(all, s), all) /\ Ordering(ListedIn(all), all)
  BY ListingIsFinite, AheadOrders
<1>5. ASSUME NEW S, S \subseteq all
      PROVE  /\ Cardinality(First(S)) <= 1 /\ First(S) \subseteq S /\ (S # {} => First(S) # {})
             /\ Cardinality(Top(S)) <= 1 /\ Top(S) \subseteq S
  <2>1. IsFiniteSet(S) /\ Ordering(AheadIn(all, s), S) /\ Ordering(ListedIn(all), S)
    BY <1>4, <1>5, OrderingOfPart
  <2>2. First(S) = {a \in S : \A b \in S \ {a} : <<a, b>> \in AheadIn(all, s)}
    BY <1>5 DEF AheadIn
  <2>3. Top(S) = {a \in S : \A b \in S \ {a} : <<a, b>> \in ListedIn(all)}
    BY <1>5 DEF ListedIn
  <2> HIDE DEF all, First, Top
  <2>4. Cardinality(First(S)) <= 1 /\ (S # {} => First(S) # {})
    BY <2>1, <2>2, OneComesFirst
  <2>5. Cardinality(Top(S)) <= 1
    BY <2>1, <2>3, OneComesFirst
  <2> QED
    BY <2>2, <2>3, <2>4, <2>5
<1> HIDE DEF First, Top, offer
<1>6. fresh \subseteq all /\ others \subseteq all /\ same \subseteq all
  BY <1>2
<1>7. CASE fresh # {}
  <2>1. offer = First(fresh)
    BY <1>1, <1>7
  <2>2. Cardinality(offer) <= 1 /\ offer \subseteq fresh /\ offer # {}
    BY <1>5, <1>6, <1>7, <2>1
  <2> QED
    BY <1>2, <2>2 DEF offer
<1>8. CASE fresh = {} /\ others # {}
  <2>1. offer = First(others)
    BY <1>1, <1>8
  <2>2. Cardinality(offer) <= 1 /\ offer \subseteq others /\ offer # {}
    BY <1>5, <1>6, <1>8, <2>1
  <2>3. ~ \E p \in picks : p.id \notin played /\ p # just
    BY <1>3, <1>8
  <2> QED
    BY <1>2, <2>2, <2>3 DEF offer
<1>9. CASE others = {}
  <2>1. offer = Top(same)
    BY <1>1, <1>9
  <2>2. Cardinality(offer) <= 1 /\ offer \subseteq same
    BY <1>5, <1>6, <2>1
  <2>3. ~ \E p \in picks : p # just
    BY <1>3, <1>9
  <2> QED
    BY <2>2, <2>3 DEF offer
<1> QED
  BY <1>7, <1>8, <1>9

\* What is suggested is the best there is.
LEMMA SuggestedIsBest == Suggestible => BestSuggestions
<1> SUFFICES ASSUME Suggestible PROVE BestSuggestions
  OBVIOUS
<1>1. ASSUME NEW s \in Subjects
      PROVE  \A p \in Picks(Candidates(s), profile[s], catalogue, Played(s)) :
               Reason(p, profile[s], catalogue).goals \subseteq Served(s)
  BY ScoreIsGain
<1> QED
  BY <1>1, PicksAreBest, OfferIsSomethingElse DEF BestSuggestions

-----------------------------------------------------------------------------
(* The rest of the types *)

\* Rows are numbered in the order of creation, made of calls there were, and stamped
\* with companies that are registered.
Numbered ==
    /\ Len(rows) <= MaxRows
    /\ \A k \in 1 .. Len(rows) : /\ rows[k].id = k
                                 /\ rows[k].origin \in 0 .. MaxCalls
                                 /\ rows[k].tenant \in tenants \cup {Nobody}
Companies == tenants \subseteq Tenants /\ Default \in tenants
Practice ==
    /\ profile \in [Subjects -> [decided: BOOLEAN, goals: SUBSET Goals, kinds: SUBSET Categories]]
    /\ catalogue \subseteq Goals
Sockets == \A c \in Conns : /\ conns[c].row \in 0 .. Len(rows)
                            /\ conns[c].phase # "closed" => conns[c].tenant \in Tenants
Counted ==
    /\ tokens \in [Subjects -> Accounts]
    /\ drafts \in [Subjects -> 0 .. MaxDrafts]
    /\ Len(calls) <= MaxCalls

Pressing == \A s \in Subjects : press[s].tenant \in tenants \cup {Nobody}

Typed == Numbered /\ Companies /\ Practice /\ Sockets /\ Counted /\ Pressing

\* A row more, and rows changed in place.
LEMMA NumberedAdded ==
    ASSUME RowsSound, Numbered, tenants \subseteq tenants',
           NEW r \in AnyRow, rows' = Append(rows, r), Len(rows) + 1 <= MaxRows,
           r.id = Len(rows) + 1, r.origin \in 0 .. MaxCalls, r.tenant \in tenants' \cup {Nobody}
    PROVE  Numbered'
<1>1. /\ Len(rows) \in Nat /\ Len(rows') = Len(rows) + 1
      /\ \A k \in 1 .. Len(rows) : rows'[k] = rows[k]
      /\ rows'[Len(rows) + 1] = r
  BY AppendProperties, LenProperties DEF RowsSound
<1>2. ASSUME NEW k \in 1 .. Len(rows')
      PROVE  /\ rows'[k].id = k /\ rows'[k].origin \in 0 .. MaxCalls
             /\ rows'[k].tenant \in tenants' \cup {Nobody}
  <2>1. CASE k = Len(rows) + 1
    BY <1>1, <2>1
  <2>2. CASE k # Len(rows) + 1
    <3>1. k \in 1 .. Len(rows)
      BY <1>1, <2>2
    <3> QED
      BY <1>1, <3>1 DEF Numbered
  <2> QED
    BY <2>1, <2>2
<1> QED
  BY <1>1, <1>2 DEF Numbered

\* Rows changed in place keep their numbers.
LEMMA NumberedChanged ==
    ASSUME Numbered, tenants \subseteq tenants', Len(rows') = Len(rows),
           \A k \in 1 .. Len(rows) :
               /\ rows'[k].id = rows[k].id
               /\ rows'[k].origin \in {rows[k].origin, None}
               /\ rows'[k].tenant \in tenants' \cup {rows[k].tenant}
    PROVE  Numbered'
<1>1. ASSUME NEW k \in 1 .. Len(rows)
      PROVE  /\ rows'[k].id = k /\ rows'[k].origin \in 0 .. MaxCalls
             /\ rows'[k].tenant \in tenants' \cup {Nobody}
  <2>1. /\ rows[k].id = k /\ rows[k].origin \in 0 .. MaxCalls
        /\ rows[k].tenant \in tenants \cup {Nobody}
    BY DEF Numbered
  <2>2. None \in 0 .. MaxCalls
    BY LibraryAssumption DEF None
  <2> QED
    BY <2>1, <2>2
<1> QED
  BY <1>1 DEF Numbered

\* One row with other fields is the same row as far as these go.
LEMMA NumberedOne ==
    ASSUME RowsSound, Numbered, tenants \subseteq tenants', NEW k \in 1 .. Len(rows), NEW r,
           rows' = [rows EXCEPT ![k] = r],
           r.id = rows[k].id, r.origin = rows[k].origin,
           r.tenant \in tenants' \cup {rows[k].tenant}
    PROVE  Numbered'
<1>1. Len(rows) \in Nat /\ rows \in [1 .. Len(rows) -> AnyRow]
  BY LenProperties DEF RowsSound
<1>2. rows' = [j \in 1 .. Len(rows) |-> IF j = k THEN r ELSE rows[j]]
  BY <1>1
<1>3. /\ Len(rows') = Len(rows)
      /\ \A j \in 1 .. Len(rows) : rows'[j] = IF j = k THEN r ELSE rows[j]
  BY <1>1, <1>2, LenProperties
<1> QED
  BY <1>3, NumberedChanged

\* Nothing of the rows and companies changes.
LEMMA NumberedLeft ==
    ASSUME Numbered, rows' = rows, tenants \subseteq tenants' PROVE Numbered'
BY DEF Numbered

\* A request that asks for the company registers it.
LEMMA InCompanyGrows ==
    ASSUME NEW s \in Subjects, InCompany(s), Companies
    PROVE  Companies' /\ tenants \subseteq tenants' /\ TenantOf(s) \in tenants'
BY TenantOfIsTenant DEF InCompany, Registered, Companies, TenantOf

\* Sockets that are left alone.
LEMMA SocketsLeft ==
    ASSUME RowsSound, RowsSound', Sockets, conns' = conns, Len(rows') >= Len(rows)
    PROVE  Sockets'
<1>1. Len(rows) \in Nat /\ Len(rows') \in Nat
  BY LenProperties DEF RowsSound
<1> QED
  BY <1>1 DEF Sockets

\* A connection takes up something else.
LEMMA SocketsChanged ==
    ASSUME IInv, Sockets, rows' = rows, NEW c \in Conns, NEW new, conns' = [conns EXCEPT ![c] = new],
           new.row \in 0 .. Len(rows), new.phase # "closed" => new.tenant \in Tenants
    PROVE  Sockets'
BY DEF Sockets, IInv, Core, ConnsKnown

\* The first state has the types.
LEMMA TypedInit == Init => Typed
<1> SUFFICES ASSUME Init PROVE Typed
  OBVIOUS
<1>1. PICK release \in Releases :
        /\ catalogue = release.goals
        /\ rows = [k \in 1 .. Len(BuiltIns) |-> [BuiltIn(k) EXCEPT !.active = k \in release.scenarios]]
  BY DEF Init
<1>2. Len(BuiltIns) \in Nat /\ Len(BuiltIns) <= MaxRows /\ MaxCalls \in Nat /\ MaxDrafts \in Nat
  BY LibraryAssumption, LenProperties
<1>3. Len(rows) = Len(BuiltIns)
  BY <1>1, <1>2, LenProperties
<1>4. ASSUME NEW k \in 1 .. Len(rows)
      PROVE  /\ rows[k].id = k /\ rows[k].origin \in 0 .. MaxCalls
             /\ rows[k].tenant \in tenants \cup {Nobody}
  <2> DEFINE active == k \in release.scenarios
  <2>1. rows[k] = [BuiltIn(k) EXCEPT !.active = active]
    BY <1>1, <1>3
  <2> HIDE DEF active
  <2> QED
    BY <1>2, <2>1 DEF BuiltIn, Row, None
<1>5. Numbered
  BY <1>2, <1>3, <1>4 DEF Numbered
<1>6. Companies
  BY DEF Init, Companies, Tenants
<1>7. Practice
  <2>1. catalogue \subseteq Goals
    BY <1>1, LibraryAssumption
  <2> QED
    BY <2>1 DEF Init, Practice, Undecided
<1>8. Sockets
  BY <1>2, <1>3 DEF Init, Sockets, Closed, None
<1>9. Counted
  BY <1>2, LenProperties DEF Init, Counted
<1>10. Pressing
  BY DEF Init, Pressing, Idle
<1> QED
  BY <1>5, <1>6, <1>7, <1>8, <1>9, <1>10 DEF Typed

\* The company of a press is registered by the time its row is stored.
LEMMA PressingNext ==
    ASSUME IInv, Companies, Pressing, [Next]_vars
    PROVE  Pressing'
<1>1. tenants \subseteq tenants'
  <2>1. ASSUME NEW s \in Subjects, InCompany(s) PROVE tenants \subseteq tenants'
    BY <2>1, InCompanyGrows
  <2>2. ASSUME NEW s \in Subjects,
               \/ Visit(s) \/ Create(s)
               \/ \E k \in 1 .. Len(rows) : SetVisibility(s, k)
               \/ \E c \in 1 .. Len(calls) : \E reverse \in BOOLEAN :
                   Restore(s, c, reverse) \/ Make(s, c, reverse)
        PROVE  tenants \subseteq tenants'
    BY <2>1, <2>2 DEF Visit, Create, SetVisibility, Restore, Make
  <2>3. ASSUME NEW c \in Conns, LoadSelection(c) PROVE tenants \subseteq tenants'
    BY <2>3 DEF LoadSelection
  <2>4. CASE tenants' = tenants
    BY <2>4
  <2> QED
    BY <2>2, <2>3, <2>4 DEF Next, vars, Restart, DeleteCall, ChangeAccount,
       SetFocus, HourPasses, Wake, Insert, NothingMade, Update, Deactivate, Connect,
       StartDelete, RefuseSelection, Claim, TooManyCalls, EndCall, WrapUp
<1>2. \A s \in Subjects : press'[s] = press[s] \/ press'[s].tenant \in tenants' \cup {Nobody}
  <2>0. press = [s \in Subjects |-> press[s]]
    BY DEF IInv, PressKnown
  <2>1. CASE Restart
    BY <2>1 DEF Restart, Idle
  <2>2. ASSUME NEW s \in Subjects, Wake(s) \/ Insert(s) \/ NothingMade(s)
        PROVE  \A t \in Subjects : press'[t] = press[t] \/ press'[t].tenant \in tenants' \cup {Nobody}
    BY <2>0, <2>2 DEF Wake, Insert, NothingMade, Idle
  <2>3. ASSUME NEW s \in Subjects, NEW c \in 1 .. Len(calls), NEW reverse \in BOOLEAN,
               Restore(s, c, reverse)
        PROVE  \A t \in Subjects : press'[t] = press[t] \/ press'[t].tenant \in tenants' \cup {Nobody}
    BY <2>0, <2>3 DEF Restore, Waking
  <2>4. ASSUME NEW s \in Subjects, NEW c \in 1 .. Len(calls), NEW reverse \in BOOLEAN,
               Make(s, c, reverse)
        PROVE  \A t \in Subjects : press'[t] = press[t] \/ press'[t].tenant \in tenants' \cup {Nobody}
    <3>1. TenantOf(s) \in tenants'
      BY <2>4, InCompanyGrows DEF Make
    <3>2. press' = [press EXCEPT ![s] = [phase |-> "drafting", row |-> None, call |-> c,
                                         reverse |-> reverse, tenant |-> TenantOf(s)]]
      BY <2>4 DEF Make
    <3> QED
      BY <2>0, <3>1, <3>2
  <2>5. CASE press' = press
    BY <2>5
  <2> QED
    BY <2>1, <2>2, <2>3, <2>4, <2>5 DEF Next, vars, DeleteCall, ChangeAccount, Visit, Create,
       SetFocus, HourPasses, Update, SetVisibility, Deactivate, Connect, StartDelete,
       LoadSelection, RefuseSelection, Claim, TooManyCalls, EndCall, WrapUp
<1> QED
  BY <1>1, <1>2 DEF Pressing

\* Every step keeps the types, given that the state is well formed.
LEMMA TypedNext == IInv /\ IInv' /\ Typed /\ [Next]_vars => Typed'
<1> SUFFICES ASSUME IInv, IInv', Typed, [Next]_vars PROVE Typed'
  OBVIOUS
<1>1. /\ RowsSound /\ RowsSound' /\ Numbered /\ Companies /\ Practice /\ Sockets /\ Counted
      /\ Len(rows) \in Nat /\ Len(rows') \in Nat /\ Len(calls) \in Nat
      /\ rows \in [1 .. Len(rows) -> AnyRow] /\ MaxCalls \in Nat
  BY LenProperties, LibraryAssumption DEF IInv, Core, RowsSound, Typed, CallsRecorded
<1>0. Pressing'
  BY <1>1, PressingNext DEF Typed
<1>2. CASE Restart
  <2>1. PICK release \in Releases : catalogue' = release.goals /\ rows' = Reseeded(release)
    BY <1>2 DEF Restart
  <2>2. /\ conns' = [c \in Conns |-> Closed] /\ drafts' = [s \in Subjects |-> 0]
        /\ UNCHANGED <<tokens, tenants, profile, calls>>
    BY <1>2 DEF Restart
  <2>3. Len(rows') = Len(rows) /\ \A k \in 1 .. Len(rows) : rows'[k] = Reseeded(release)[k]
    BY <1>1, <2>1, LenProperties DEF Reseeded
  <2>4. ASSUME NEW k \in 1 .. Len(rows)
        PROVE  /\ rows'[k].id = rows[k].id /\ rows'[k].origin = rows[k].origin
               /\ rows'[k].tenant = rows[k].tenant
    <3> DEFINE active == k \in release.scenarios
    <3>1. Reseeded(release)[k] \in {rows[k], [rows[k] EXCEPT !.active = active]}
      BY DEF Reseeded
    <3>2. rows[k] \in AnyRow
      BY <1>1
    <3> HIDE DEF active
    <3> QED
      BY <2>3, <3>1, <3>2 DEF AnyRow
  <2>5. Numbered'
    BY <1>1, <2>2, <2>3, <2>4, NumberedChanged
  <2>6. Sockets' /\ Counted'
    <3>1. Closed.row \in 0 .. Len(rows') /\ Closed.phase = "closed"
      BY <1>1 DEF Closed, None
    <3>2. 0 \in 0 .. MaxDrafts
      BY LibraryAssumption
    <3> QED
      BY <1>1, <2>2, <3>1, <3>2 DEF Sockets, Counted
  <2>7. Practice' /\ Companies'
    <3>1. catalogue' \subseteq Goals
      BY <2>1, LibraryAssumption
    <3> QED
      BY <1>1, <2>2, <3>1 DEF Practice, Companies
  <2> QED
    BY <1>0, <2>5, <2>6, <2>7 DEF Typed
<1>3. ASSUME NEW s \in Subjects,
             ChangeAccount(s) \/ Visit(s) \/ SetFocus(s) \/ HourPasses(s) \/ NothingMade(s)
      PROVE  Typed'
  <2>1. rows' = rows /\ conns' = conns /\ calls' = calls
    BY <1>3 DEF ChangeAccount, Visit, SetFocus, HourPasses, NothingMade
  <2>2. Companies' /\ tenants \subseteq tenants'
    BY <1>1, <1>3, InCompanyGrows DEF ChangeAccount, Visit, SetFocus, HourPasses, NothingMade, Companies
  <2>3. Numbered' /\ Sockets'
    BY <1>1, <2>1, <2>2, NumberedLeft DEF Sockets
  <2>4. Practice'
    <3>1. CASE SetFocus(s)
      <4>1. PICK goals \in SUBSET catalogue, kinds \in SUBSET Categories :
              profile' = [profile EXCEPT ![s] = [decided |-> TRUE, goals |-> goals, kinds |-> kinds]]
        BY <3>1 DEF SetFocus
      <4>2. catalogue' = catalogue
        BY <3>1 DEF SetFocus
      <4> QED
        BY <1>1, <4>1, <4>2 DEF Practice
    <3>2. CASE ~SetFocus(s)
      BY <1>1, <1>3, <3>2 DEF Practice, ChangeAccount, Visit, HourPasses, NothingMade
    <3> QED
      BY <3>1, <3>2
  <2>5. Counted'
    <3>1. CASE HourPasses(s)
      <4>1. drafts' = [drafts EXCEPT ![s] = @ - 1] /\ drafts[s] > 0 /\ tokens' = tokens
        BY <3>1 DEF HourPasses
      <4>2. drafts[s] \in 0 .. MaxDrafts /\ MaxDrafts \in Nat
        BY <1>1, LibraryAssumption DEF Counted
      <4>3. drafts[s] - 1 \in 0 .. MaxDrafts
        BY <4>1, <4>2
      <4> QED
        BY <1>1, <2>1, <4>1, <4>3 DEF Counted
    <3>2. CASE ~HourPasses(s)
      BY <1>1, <1>3, <2>1, <3>2 DEF Counted, ChangeAccount, Visit, SetFocus, NothingMade
    <3> QED
      BY <3>1, <3>2
  <2> QED
    BY <1>0, <2>2, <2>3, <2>4, <2>5 DEF Typed
<1>4. ASSUME NEW s \in Subjects, Create(s) PROVE Typed'
  <2>1. PICK category \in Categories \cup {NoCategory} :
          rows' = Append(rows, Row(Len(rows) + 1, s, TenantOf(s), "private", category,
                                   "written", FALSE, None))
    BY <1>4 DEF Create
  <2> DEFINE r == Row(Len(rows) + 1, s, TenantOf(s), "private", category, "written", FALSE, None)
  <2>2. /\ InCompany(s) /\ Len(rows) < MaxRows
        /\ UNCHANGED <<tokens, profile, catalogue, conns, drafts, calls>>
    BY <1>4 DEF Create
  <2>3. Companies' /\ tenants \subseteq tenants' /\ TenantOf(s) \in tenants'
    BY <1>1, <2>2, InCompanyGrows
  <2>4. r \in AnyRow /\ r.id = Len(rows) + 1 /\ r.origin = None /\ r.tenant = TenantOf(s)
    <3>1. /\ Len(rows) + 1 \in Nat /\ TenantOf(s) \in Tenants /\ None \in Nat
          /\ "written" \in {"seed", "written", "follow_up", "reverse"}
          /\ "private" \in {"public", "private", "tenant"} /\ FALSE \in BOOLEAN
      BY <1>1, TenantOfIsTenant DEF None
    <3> QED BY <3>1 DEF Row, AnyRow
  <2>5. Len(rows) + 1 <= MaxRows /\ None \in 0 .. MaxCalls
    BY <1>1, <2>2, LibraryAssumption DEF None
  <2> HIDE DEF r
  <2>6. rows' = Append(rows, r)
    BY <2>1 DEF r
  <2>7. Numbered'
    BY <1>1, <2>3, <2>4, <2>5, <2>6, NumberedAdded
  <2>8. Len(rows') >= Len(rows)
    BY <1>1, <1>4, CreateRows
  <2> QED
    BY <1>0, <1>1, <2>2, <2>3, <2>7, <2>8, SocketsLeft DEF Typed, Practice, Counted
<1>5. ASSUME NEW s \in Subjects, NEW k \in 1 .. Len(rows),
             Update(s, k) \/ SetVisibility(s, k) \/ Deactivate(s, k)
      PROVE  Typed'
  <2>1. UNCHANGED <<tokens, profile, catalogue, conns, drafts, calls>>
    BY <1>5 DEF Update, SetVisibility, Deactivate
  <2>2. Companies' /\ tenants \subseteq tenants' /\ (SetVisibility(s, k) => TenantOf(s) \in tenants')
    BY <1>1, <1>5, InCompanyGrows DEF Update, SetVisibility, Deactivate, Companies
  <2>3. rows[k] \in AnyRow
    BY <1>1
  <2>4. Numbered'
    <3>1. CASE Update(s, k)
      <4>1. PICK category : rows' = [rows EXCEPT ![k].category = category]
        BY <3>1 DEF Update
      <4> DEFINE r == [rows[k] EXCEPT !.category = category]
      <4>2. /\ rows' = [rows EXCEPT ![k] = r] /\ r.id = rows[k].id /\ r.origin = rows[k].origin
            /\ r.tenant = rows[k].tenant
        BY <1>1, <2>3, <4>1 DEF AnyRow
      <4> HIDE DEF r
      <4> QED
        BY <1>1, <2>2, <4>2, NumberedOne
    <3>2. CASE Deactivate(s, k)
      <4> DEFINE r == [rows[k] EXCEPT !.active = FALSE]
      <4>1. /\ rows' = [rows EXCEPT ![k] = r] /\ r.id = rows[k].id /\ r.origin = rows[k].origin
            /\ r.tenant = rows[k].tenant
        BY <1>1, <2>3, <3>2 DEF AnyRow, Deactivate
      <4> HIDE DEF r
      <4> QED
        BY <1>1, <2>2, <4>1, NumberedOne
    <3>3. CASE SetVisibility(s, k)
      <4>1. PICK visibility :
              rows' = [rows EXCEPT
                ![k].tenant = IF @ = Nobody THEN TenantOf(s) ELSE @,
                ![k].visibility = visibility,
                ![k].shared = IF visibility = "tenant" THEN TenantOf(s) ELSE Nobody]
        BY <3>3 DEF SetVisibility
      <4> DEFINE tenant == IF rows[k].tenant = Nobody THEN TenantOf(s) ELSE rows[k].tenant
                 shared == IF visibility = "tenant" THEN TenantOf(s) ELSE Nobody
                 r == [rows[k] EXCEPT !.tenant = tenant, !.visibility = visibility, !.shared = shared]
      <4>2. rows' = [rows EXCEPT ![k] = r]
        BY <1>1, <2>3, <4>1 DEF AnyRow
      <4>3. tenant \in tenants' \cup {rows[k].tenant}
        BY <2>2, <3>3
      <4> HIDE DEF tenant, shared
      <4>4. r.id = rows[k].id /\ r.origin = rows[k].origin /\ r.tenant = tenant
        BY <2>3 DEF AnyRow
      <4> HIDE DEF r
      <4> QED
        BY <1>1, <2>2, <4>2, <4>3, <4>4, NumberedOne
    <3> QED
      BY <1>5, <3>1, <3>2, <3>3
  <2>5. Len(rows') >= Len(rows)
    BY <1>5, UpdateRows, SetVisibilityRows, DeactivateRows
  <2> QED
    BY <1>0, <1>1, <2>1, <2>2, <2>4, <2>5, SocketsLeft DEF Typed, Practice, Counted
<1>6. ASSUME NEW s \in Subjects, NEW c \in Conns, Connect(c, s) PROVE Typed'
  <2> DEFINE new == [phase |-> "admitted", subject |-> s, tenant |-> TenantOf(s), row |-> None]
  <2>1. /\ conns' = [conns EXCEPT ![c] = new]
        /\ UNCHANGED <<tokens, tenants, rows, profile, catalogue, drafts, calls>>
    BY <1>6 DEF Connect
  <2>2. new.row \in 0 .. Len(rows) /\ new.tenant \in Tenants
    BY <1>1, TenantOfIsTenant DEF None
  <2> HIDE DEF new
  <2>3. Sockets'
    BY <1>1, <2>1, <2>2, SocketsChanged
  <2> QED
    BY <1>0, <1>1, <2>1, <2>3 DEF Typed, Numbered, Companies, Practice, Counted
<1>7. ASSUME NEW c \in Conns,
             RefuseSelection(c) \/ TooManyCalls(c) \/ LoadSelection(c) \/ Claim(c)
      PROVE  Typed'
  <2>1. UNCHANGED <<tokens, rows, profile, catalogue, drafts, calls>>
    BY <1>7 DEF RefuseSelection, TooManyCalls, LoadSelection, Claim
  <2>2. conns[c].tenant \in Tenants /\ conns[c].row \in 0 .. Len(rows)
    BY <1>1, <1>7 DEF Sockets, RefuseSelection, TooManyCalls, LoadSelection, Claim
  <2>3. conns[c] \in [phase: Phases, subject: Subjects \cup {Nobody},
                      tenant: Tenants \cup {Nobody}, row: Nat]
    BY DEF IInv, Core, ConnsKnown
  <2>4. Companies' /\ tenants \subseteq tenants'
    BY <1>1, <1>7, <2>2 DEF Companies, RefuseSelection, TooManyCalls, LoadSelection, Claim
  <2>5. Sockets'
    <3>1. CASE RefuseSelection(c) \/ TooManyCalls(c)
      <4>1. conns' = [conns EXCEPT ![c] = Closed]
        BY <3>1 DEF RefuseSelection, TooManyCalls
      <4>2. Closed.row \in 0 .. Len(rows) /\ Closed.phase = "closed"
        BY <1>1 DEF Closed, None
      <4> QED
        BY <1>1, <2>1, <4>1, <4>2, SocketsChanged
    <3>2. CASE LoadSelection(c)
      <4>1. PICK k \in 1 .. Len(rows) : conns' = [conns EXCEPT ![c].phase = "chosen", ![c].row = k]
        BY <3>2 DEF LoadSelection, ReadableBy
      <4> DEFINE new == [conns[c] EXCEPT !.phase = "chosen", !.row = k]
      <4>2. conns' = [conns EXCEPT ![c] = new] /\ new.row = k /\ new.tenant = conns[c].tenant
        BY <2>3, <4>1 DEF IInv, Core, ConnsKnown
      <4>3. k \in 0 .. Len(rows)
        BY <1>1
      <4> HIDE DEF new
      <4> QED
        BY <1>1, <2>1, <2>2, <4>2, <4>3, SocketsChanged
    <3>3. CASE Claim(c)
      <4> DEFINE new == [conns[c] EXCEPT !.phase = "serving"]
      <4>1. conns' = [conns EXCEPT ![c] = new] /\ new.row = conns[c].row
            /\ new.tenant = conns[c].tenant
        BY <2>3, <3>3 DEF IInv, Core, ConnsKnown, Claim
      <4> HIDE DEF new
      <4> QED
        BY <1>1, <2>1, <2>2, <4>1, SocketsChanged
    <3> QED
      BY <1>7, <3>1, <3>2, <3>3
  <2>6. Numbered'
    BY <1>1, <2>1, <2>4, NumberedLeft
  <2> QED
    BY <1>0, <1>1, <2>1, <2>4, <2>5, <2>6 DEF Typed, Practice, Counted
<1>8. ASSUME NEW c \in Conns, EndCall(c) PROVE Typed'
  <2>1. /\ conns' = [conns EXCEPT ![c] = Closed]
        /\ UNCHANGED <<tokens, tenants, rows, profile, catalogue, drafts>>
    BY <1>8 DEF EndCall
  <2>2. Closed.row \in 0 .. Len(rows) /\ Closed.phase = "closed"
    BY <1>1 DEF Closed, None
  <2>3. Sockets'
    BY <1>1, <2>1, <2>2, SocketsChanged
  <2>4. Len(calls') <= MaxCalls
    <3>1. CASE calls' = calls
      BY <1>1, <3>1 DEF Counted
    <3>2. CASE calls' # calls
      <4>1. Len(calls) < MaxCalls /\ \E call : calls' = Append(calls, call)
        BY <1>8, <3>2 DEF EndCall
      <4>2. Len(calls') = Len(calls) + 1
        BY <4>1, AppendProperties DEF IInv, Core, CallsRecorded
      <4> QED
        BY <1>1, <4>1, <4>2
    <3> QED
      BY <3>1, <3>2
  <2> QED
    BY <1>0, <1>1, <2>1, <2>3, <2>4 DEF Typed, Numbered, Companies, Practice, Counted
<1>9. ASSUME NEW c \in 1 .. Len(calls), WrapUp(c) PROVE Typed'
  <2>1. UNCHANGED <<tokens, tenants, rows, profile, catalogue, conns, drafts>>
    BY <1>9 DEF WrapUp
  <2>2. Len(calls') = Len(calls)
    <3>1. calls \in [1 .. Len(calls) -> AnyCall]
      BY LenProperties DEF IInv, Core, CallsRecorded
    <3>2. DOMAIN calls' = 1 .. Len(calls)
      BY <1>9, <3>1 DEF WrapUp
    <3>3. calls' \in Seq(AnyCall)
      BY DEF IInv, Core, CallsRecorded
    <3> QED
      BY <1>1, <3>2, <3>3, LenProperties
  <2> QED
    BY <1>0, <1>1, <2>1, <2>2 DEF Typed, Numbered, Companies, Practice, Sockets, Counted
<1>10. CASE DeleteCall
  <2>1. PICK gone \in leaving :
          /\ UNCHANGED <<tokens, tenants, profile, catalogue, conns, drafts>> /\ rows' = Untied(gone)
          /\ calls' = [calls EXCEPT ![gone.call].live = FALSE, ![gone.call].wrapup = NoWrapup]
    BY <1>10 DEF DeleteCall
  <2>2. Len(calls') = Len(calls)
    <3>1. calls \in [1 .. Len(calls) -> AnyCall]
      BY LenProperties DEF IInv, Core, CallsRecorded
    <3>2. DOMAIN calls' = 1 .. Len(calls)
      BY <2>1, <3>1
    <3>3. calls' \in Seq(AnyCall)
      BY DEF IInv, Core, CallsRecorded
    <3> QED
      BY <1>1, <3>2, <3>3, LenProperties
  <2>3. Len(rows') = Len(rows) /\ \A k \in 1 .. Len(rows) : rows'[k] = Untied(gone)[k]
    BY <2>1, DeleteCallRows
  <2>4. ASSUME NEW k \in 1 .. Len(rows)
        PROVE  /\ rows'[k].id = rows[k].id /\ rows'[k].origin \in {rows[k].origin, None}
               /\ rows'[k].tenant = rows[k].tenant
    <3>1. rows[k] \in AnyRow
      BY <1>1
    <3> DEFINE active == rows[k].active /\ k \notin gone.retired
               missed == rows[k].missed \/ k \notin gone.retired
               r == [rows[k] EXCEPT !.origin = None, !.derived = FALSE, !.active = active,
                                    !.missed = missed]
    <3>2. Untied(gone)[k] = rows[k] \/ Untied(gone)[k] = r
      BY <3>1 DEF Untied, AnyRow
    <3> HIDE DEF active, missed
    <3>3. r.id = rows[k].id /\ r.origin = None /\ r.tenant = rows[k].tenant
      BY <3>1 DEF AnyRow
    <3> HIDE DEF r
    <3> QED
      BY <2>3, <3>2, <3>3
  <2>5. Numbered'
    BY <1>1, <2>1, <2>3, <2>4, NumberedChanged
  <2>6. Sockets'
    BY <1>1, <2>1, <2>3 DEF Sockets
  <2> QED
    BY <1>0, <1>1, <2>1, <2>2, <2>5, <2>6 DEF Typed, Companies, Practice, Counted
<1>11. ASSUME NEW s \in Subjects, NEW c \in 1 .. Len(calls), NEW reverse \in BOOLEAN,
              Restore(s, c, reverse) \/ Make(s, c, reverse) \/ StartDelete(s, c)
       PROVE  Typed'
  <2>1. UNCHANGED <<tokens, rows, profile, catalogue, conns, calls>>
    BY <1>11 DEF Restore, Make, StartDelete
  <2>2. Companies' /\ tenants \subseteq tenants'
    BY <1>1, <1>11, InCompanyGrows DEF Restore, Make, StartDelete, Companies
  <2>3. Counted'
    <3>1. CASE Make(s, c, reverse)
      <4>1. drafts' = [drafts EXCEPT ![s] = @ + 1] /\ drafts[s] < MaxDrafts
        BY <3>1 DEF Make
      <4>2. drafts[s] \in 0 .. MaxDrafts /\ MaxDrafts \in Nat
        BY <1>1, LibraryAssumption DEF Counted
      <4>3. drafts[s] + 1 \in 0 .. MaxDrafts
        BY <4>1, <4>2
      <4> QED
        BY <1>1, <2>1, <4>1, <4>3 DEF Counted
    <3>2. CASE ~Make(s, c, reverse)
      BY <1>1, <1>11, <2>1, <3>2 DEF Counted, Restore, StartDelete
    <3> QED
      BY <3>1, <3>2
  <2>4. Numbered' /\ Sockets'
    BY <1>1, <2>1, <2>2, NumberedLeft DEF Sockets
  <2> QED
    BY <1>0, <1>1, <2>1, <2>2, <2>3, <2>4 DEF Typed, Practice
<1>12. ASSUME NEW s \in Subjects, Wake(s) PROVE Typed'
  <2> DEFINE k == press[s].row
  <2>1. /\ UNCHANGED <<tokens, tenants, profile, catalogue, conns, drafts, calls>>
        /\ rows' = [rows EXCEPT ![k].active = TRUE, ![k].missed = @ \/ rows[k].origin = None]
    BY <1>12 DEF Wake
  <2>2. k \in 1 .. Len(rows)
    BY <1>12 DEF IInv, PressKnown, Wake
  <2>3. rows[k] \in AnyRow
    BY <1>1, <2>2
  <2> DEFINE missed == rows[k].missed \/ rows[k].origin = None
             r == [rows[k] EXCEPT !.active = TRUE, !.missed = missed]
  <2>4. rows' = [rows EXCEPT ![k] = r]
    BY <1>1, <2>1, <2>2, <2>3 DEF AnyRow
  <2> HIDE DEF missed, k
  <2>5. r.id = rows[k].id /\ r.origin = rows[k].origin /\ r.tenant = rows[k].tenant
    BY <2>3 DEF AnyRow
  <2> HIDE DEF r
  <2>6. Numbered'
    BY <1>1, <2>1, <2>2, <2>4, <2>5, NumberedOne
  <2>7. Len(rows') >= Len(rows)
    BY <1>12, WakeRows
  <2> QED
    BY <1>0, <1>1, <2>1, <2>6, <2>7, SocketsLeft DEF Typed, Companies, Practice, Counted
<1>14. ASSUME NEW s \in Subjects, Insert(s) PROVE Typed'
  <2> DEFINE r == DraftedRow(s, press[s])
  <2>1. /\ UNCHANGED <<tokens, tenants, profile, catalogue, conns, drafts, calls>>
        /\ rows' = Append(rows, r) /\ Len(rows) < MaxRows /\ press[s].phase = "drafting"
    BY <1>14 DEF Insert
  <2>2. /\ r \in AnyRow /\ r.id = Len(rows) + 1
        /\ r.origin = press[s].call /\ r.tenant = press[s].tenant
    BY <2>1, DraftedRowType
  <2>3. press[s].call \in 0 .. MaxCalls
    <3>1. press[s].call \in 1 .. Len(calls)
      BY <2>1 DEF IInv, PressKnown
    <3> QED
      BY <1>1, <3>1 DEF Counted
  <2>4. press[s].tenant \in tenants' \cup {Nobody} /\ tenants \subseteq tenants'
    BY <2>1 DEF Typed, Pressing
  <2>5. Len(rows) + 1 <= MaxRows
    BY <1>1, <2>1, LibraryAssumption
  <2> HIDE DEF r
  <2>6. Numbered'
    BY <1>1, <2>1, <2>2, <2>3, <2>4, <2>5, NumberedAdded
  <2>7. Len(rows') >= Len(rows)
    BY <1>14, InsertRows
  <2> QED
    BY <1>0, <1>1, <2>1, <2>6, <2>7, SocketsLeft DEF Typed, Companies, Practice, Counted
<1>13. CASE UNCHANGED vars
  BY <1>0, <1>1, <1>13 DEF vars, Typed, Numbered, Companies, Practice, Sockets, Counted
<1> QED
  BY <1>2, <1>3, <1>4, <1>5, <1>6, <1>7, <1>8, <1>9, <1>10, <1>11, <1>12, <1>13, <1>14 DEF Next

\* Well formed and typed, throughout.
LEMMA TypedInvariance == Spec => [](IInv /\ Typed)
<1> QED
  BY InvInit, InvNext, TypedInit, TypedNext, PTL DEF Spec

-----------------------------------------------------------------------------
(* The theorems *)

\* The sections of the prompts about a call.
PromptNames ==
    {"role", "material", "facts", "building_a_point", "test_of_a_point", "shape_of_a_point",
     "phase_language", "phase_language_rules", "pressure_turns", "never", "output",
     "shape", "check", "opening_phase", "core_phase", "closing_phase", "worked_example",
     "situation", "statistics", "loudness_course", "who_rang", "turn", "call", "case",
     "case_facts", "call_goal", "outcome", "improvements", "register", "use",
     "caller_rules", "trainee_rules", "field_rules", "fields", "goal_rules", "goals",
     "end_of_the_call", "tone_fit", "wanted"}

\* Each name for itself: a leaf is not shown the whole set.
LEMMA NamedPrompts ==
    /\ "role" \in PromptNames /\ "material" \in PromptNames
    /\ "facts" \in PromptNames /\ "building_a_point" \in PromptNames
    /\ "test_of_a_point" \in PromptNames /\ "shape_of_a_point" \in PromptNames
    /\ "phase_language" \in PromptNames /\ "phase_language_rules" \in PromptNames
    /\ "pressure_turns" \in PromptNames /\ "never" \in PromptNames
    /\ "output" \in PromptNames /\ "shape" \in PromptNames
    /\ "check" \in PromptNames /\ "opening_phase" \in PromptNames
    /\ "core_phase" \in PromptNames /\ "closing_phase" \in PromptNames
    /\ "worked_example" \in PromptNames /\ "situation" \in PromptNames
    /\ "statistics" \in PromptNames /\ "loudness_course" \in PromptNames
    /\ "who_rang" \in PromptNames /\ "turn" \in PromptNames
    /\ "call" \in PromptNames /\ "case" \in PromptNames
    /\ "case_facts" \in PromptNames /\ "call_goal" \in PromptNames
    /\ "outcome" \in PromptNames /\ "improvements" \in PromptNames
    /\ "register" \in PromptNames /\ "use" \in PromptNames
    /\ "caller_rules" \in PromptNames /\ "trainee_rules" \in PromptNames
    /\ "field_rules" \in PromptNames /\ "fields" \in PromptNames
    /\ "goal_rules" \in PromptNames /\ "goals" \in PromptNames
    /\ "end_of_the_call" \in PromptNames /\ "tone_fit" \in PromptNames
    /\ "wanted" \in PromptNames
BY DEF PromptNames

\* Sections that speak of nobody, of the partner, or, being one of the four, of the caller.
Speaking(partner, names) ==
    [name : PromptNames, side : {"any", partner}] \cup {Section(name, "caller") : name \in names}
Text(partner, names) == Seq(Speaking(partner, names))

\* Prompts are put together of sections, each there or not.
LEMMA PutTogether ==
    ASSUME NEW partner, NEW names
    PROVE  /\ \A name \in PromptNames, side \in {"any", partner} :
                 Section(name, side) \in Speaking(partner, names)
           /\ \A name \in names : Section(name, "caller") \in Speaking(partner, names)
           /\ \A e \in Speaking(partner, names) : <<e>> \in Text(partner, names)
           /\ \A a, b \in Text(partner, names) : a \o b \in Text(partner, names)
           /\ \A condition \in BOOLEAN, a \in Text(partner, names) :
                 If(condition, a) \in Text(partner, names)
<1>1. /\ \A name \in PromptNames, side \in {"any", partner} :
            Section(name, side) \in [name : PromptNames, side : {"any", partner}]
  BY DEF Section
<1> DEFINE S == Speaking(partner, names)
<1>2. /\ \A name \in PromptNames, side \in {"any", partner} : Section(name, side) \in S
      /\ \A name \in names : Section(name, "caller") \in S
  BY <1>1 DEF Speaking
<1> HIDE DEF S
<1>3. /\ \A e \in S : <<e>> \in Seq(S)
      /\ \A a, b \in Seq(S) : a \o b \in Seq(S)
      /\ <<>> \in Seq(S)
  OBVIOUS
<1> QED
  BY <1>2, <1>3 DEF If, Text, S

\* The coach's prompt names the partner, but for the four sections.
LEMMA CoachOfTheCall ==
    ASSUME NEW reverse \in BOOLEAN
    PROVE  WrapupRules(reverse) \o Dossier(reverse, TRUE, FALSE, 1) \in Text(Partner(reverse), SaidOfTheCaller)
<1> DEFINE p == Partner(reverse)
           S == Speaking(p, SaidOfTheCaller)
           T == Text(p, SaidOfTheCaller)
<1>1. \A name \in PromptNames : Section(name, "any") \in S /\ Section(name, p) \in S
  BY PutTogether
<1>2. /\ Section("wanted", "caller") \in S /\ Section("goals", "caller") \in S
      /\ Section("end_of_the_call", "caller") \in S /\ Section("tone_fit", "caller") \in S
  BY PutTogether DEF SaidOfTheCaller
<1>3. \A a, b \in T : a \o b \in T
  BY PutTogether
<1>4. \A e \in S : <<e>> \in T
  BY PutTogether
<1>5. \A condition \in BOOLEAN, a \in T : If(condition, a) \in T
  BY PutTogether
<1>6. T = Seq(S)
  BY DEF Text
<1>7. \A name \in PromptNames : Reworded(name, reverse) \in S
  BY <1>1 DEF Reworded, Partner
<1>8. reverse => p = "agent"
  BY DEF Partner
<1> HIDE DEF p, S, T
<1>9. PhaseRules(reverse) \in T
  BY <1>1, NamedPrompts, <1>6, <1>7 DEF PhaseRules, p
<1>10. WorkedExample(reverse) \in T
  BY <1>4, <1>7, NamedPrompts DEF WorkedExample
<1>11. WrapupRules(reverse) \in T
  <2>1. <<Section("role", "any"), Section("material", p), Section("facts", p),
          Section("building_a_point", p), Section("test_of_a_point", "any"),
          Section("shape_of_a_point", "any")>> \in T
    BY <1>1, NamedPrompts, <1>6
  <2>2. <<Section("goals", "caller"), Section("phase_language", "any")>> \in T
    BY <1>1, NamedPrompts, <1>2, <1>6
  <2>3. <<Section("end_of_the_call", "caller"), Section("phase_language_rules", p),
          Section("tone_fit", "caller"), Section("pressure_turns", p), Section("never", "any"),
          Section("output", "any"), Section("shape", p), Section("check", p)>> \in T
    BY <1>1, NamedPrompts, <1>2, <1>6
  <2> QED
    BY <1>3, <1>9, <1>10, <2>1, <2>2, <2>3 DEF WrapupRules, p
<1>12. Dossier(reverse, TRUE, FALSE, 1) \in T
  <2>1. Occasion(TRUE) \in T
    <3>1. <<Section("situation", "any")>> \in T /\ <<Section("wanted", "caller")>> \in T
      BY <1>1, NamedPrompts, <1>2, <1>4
    <3> QED
      BY <1>3, <1>5, <3>1 DEF Occasion
  <2>2. /\ <<Section("statistics", "any")>> \in T /\ <<Section("loudness_course", "any")>> \in T
    BY <1>1, NamedPrompts, <1>4
  <2>3. If(reverse, <<Section("who_rang", "agent")>>) \in T
    <3>1. CASE reverse
      BY <1>1, NamedPrompts, <1>4, <1>5, <1>8, <3>1
    <3>2. CASE ~reverse
      BY <1>6, <3>2 DEF If
    <3> QED
      BY <3>1, <3>2
  <2>4. [k \in 1 .. 1 |-> Section("turn", p)] \in T
    <3>1. \A k \in 1 .. 1 : Section("turn", p) \in S
      BY <1>1, NamedPrompts
    <3> QED
      BY <1>6, <3>1
  <2> QED
    BY <1>3, <1>5, <2>1, <2>2, <2>3, <2>4 DEF Dossier, p
<1> QED
  BY <1>3, <1>11, <1>12 DEF T, p

\* A draft is written from the case the caller had.
LEMMA DraftOfTheCaller ==
    ASSUME NEW outcome \in BOOLEAN, NEW improvements \in BOOLEAN
    PROVE  /\ BriefRules \o BriefMaterial(improvements) \in Text("caller", {})
           /\ FollowUpRules \o FollowUpMaterial({"facts", "goal"}, outcome, FALSE) \in Text("caller", {})
<1> DEFINE S == Speaking("caller", {})
           T == Text("caller", {})
<1>1. \A name \in PromptNames : Section(name, "any") \in S /\ Section(name, "caller") \in S
  BY PutTogether
<1>2. \A a, b \in T : a \o b \in T
  BY PutTogether
<1>3. \A e \in S : <<e>> \in T
  BY PutTogether
<1>4. \A condition \in BOOLEAN, a \in T : If(condition, a) \in T
  BY PutTogether
<1>5. T = Seq(S)
  BY DEF Text
<1> HIDE DEF S, T
<1>6. BriefRules \in T
  BY <1>1, NamedPrompts, <1>5 DEF BriefRules
<1>7. BriefMaterial(improvements) \in T
  <2>1. <<Section("case", "caller"), Section("situation", "any"), Section("case_facts", "any"),
          Section("call_goal", "caller")>> \in T
    BY <1>1, NamedPrompts, <1>5
  <2>2. If(improvements, <<Section("improvements", "any")>>) \in T
    BY <1>1, NamedPrompts, <1>3, <1>4
  <2> QED
    BY <1>2, <2>1, <2>2 DEF BriefMaterial
<1>8. FollowUpRules \in T
  BY <1>1, NamedPrompts, <1>5 DEF FollowUpRules
<1>9. FollowUpMaterial({"facts", "goal"}, outcome, FALSE) \in T
  <2>1. <<Section("call", "any"), Section("case", "caller")>> \in T
    BY <1>1, NamedPrompts, <1>5
  <2>2. \A condition \in BOOLEAN, name \in PromptNames :
          /\ If(condition, <<Section(name, "any")>>) \in T
          /\ If(condition, <<Section(name, "caller")>>) \in T
    BY <1>1, NamedPrompts, <1>3, <1>4
  <2>3. <<Section("improvements", "any")>> \in T
    BY <1>1, NamedPrompts, <1>3
  <2>4. \A field : (field \in {"facts", "goal"}) \in BOOLEAN
    OBVIOUS
  <2>5. /\ If("situation" \in {"facts", "goal"}, <<Section("situation", "any")>>) \in T
        /\ If("facts" \in {"facts", "goal"}, <<Section("case_facts", "any")>>) \in T
        /\ If("goal" \in {"facts", "goal"}, <<Section("call_goal", "caller")>>) \in T
    <3> DEFINE case == {"facts", "goal"}
    <3>1. \A field : (field \in case) \in BOOLEAN
      BY <2>4
    <3> HIDE DEF case
    <3>2. /\ If("situation" \in case, <<Section("situation", "any")>>) \in T
          /\ If("facts" \in case, <<Section("case_facts", "any")>>) \in T
          /\ If("goal" \in case, <<Section("call_goal", "caller")>>) \in T
      BY <2>2, <3>1, NamedPrompts
    <3> QED
      BY <3>2 DEF case
  <2>6. /\ If(outcome, <<Section("outcome", "any")>>) \in T
        /\ If(FALSE, <<Section("register", "any")>>) \in T
    BY <2>2, NamedPrompts
  <2> QED
    BY <1>2, <2>1, <2>3, <2>5, <2>6 DEF FollowUpMaterial
<1> QED
  BY <1>2, <1>6, <1>7, <1>8, <1>9 DEF T

\* Whom the prompts about a call speak of.
LEMMA PromptsSpeakOf ==
    ASSUME NEW c, rows[calls[c].row].reverse \in BOOLEAN PROVE SpeaksOf(c)
<1>1. ASSUME NEW i \in 1 .. Len(CoachReads(c))
      PROVE  \/ CoachReads(c)[i].side \in {"any", Partner(rows[calls[c].row].reverse)}
             \/ CoachReads(c)[i] \in {Section(name, "caller") : name \in SaidOfTheCaller}
  <2> DEFINE p == Partner(rows[calls[c].row].reverse)
  <2>1. CoachReads(c) \in Seq(Speaking(p, SaidOfTheCaller))
    BY CoachOfTheCall DEF CoachReads, Text
  <2>2. CoachReads(c)[i] \in Speaking(p, SaidOfTheCaller)
    BY <2>1, ElementOfSeq
  <2> QED
    BY <2>2 DEF Speaking
<1>2. ASSUME NEW reverse \in BOOLEAN PROVE SidesOf(DraftReads(c, reverse)) \subseteq {"caller"}
  <2>1. (Improvements(c) # {}) \in BOOLEAN /\ (calls[c].wrapup # NoWrapup) \in BOOLEAN
    OBVIOUS
  <2>2. DraftReads(c, reverse) \in Seq(Speaking("caller", {}))
    BY <2>1, DraftOfTheCaller DEF DraftReads, Text
  <2>3. \A k \in 1 .. Len(DraftReads(c, reverse)) : DraftReads(c, reverse)[k] \in Speaking("caller", {})
    BY <2>2, ElementOfSeq
  <2>4. \A section \in Speaking("caller", {}) : section.side \in {"any", "caller"}
    BY DEF Speaking
  <2> QED
    BY <2>3, <2>4 DEF SidesOf
<1> QED
  BY <1>1, <1>2 DEF SpeaksOf

\* All types together.
LEMMA AllTypes == IInv /\ Typed => TypeOK
<1> SUFFICES ASSUME IInv, Typed PROVE TypeOK
  OBVIOUS
<1>1. /\ Numbered /\ Companies /\ Practice /\ Sockets /\ Counted
      /\ RowsSound /\ CallsRecorded /\ SlotsCounted /\ Len(rows) \in Nat
  BY LenProperties DEF Typed, IInv, Core, RowsSound
<1>2. ASSUME NEW k \in 1 .. Len(rows) PROVE rows[k] \in Rows /\ rows[k].id = k
  <2>1. rows[k] \in AnyRow /\ rows[k].id = k /\ rows[k].origin \in 0 .. MaxCalls
    BY <1>1, RowOf DEF Numbered
  <2>2. k \in 1 .. MaxRows
    BY <1>1, LibraryAssumption DEF Numbered
  <2> QED
    BY <2>1, <2>2 DEF AnyRow, Rows
<1>3. ASSUME NEW c \in 1 .. Len(calls)
      PROVE  calls[c].row \in 1 .. Len(rows) /\ calls[c].wrapup.points \subseteq Points
  <2>1. calls[c] \in AnyCall /\ calls[c].row \in 1 .. Len(rows)
    BY <1>1, ElementOfSeq DEF CallsRecorded
  <2> QED
    BY <2>1 DEF AnyCall
<1>5. press \in [Subjects -> Presses]
  <2>1. Len(rows) <= MaxRows /\ Len(calls) <= MaxCalls /\ Len(calls) \in Nat
    BY <1>1, LenProperties DEF Numbered, Counted, CallsRecorded
  <2>2. AnyPress(Len(rows), Len(calls)) \subseteq Presses
    BY <1>1, <2>1, LibraryAssumption DEF AnyPress, Presses
  <2> QED
    BY <2>2 DEF IInv, PressKnown
<1>4. \A k \in 1 .. Len(rows) : rows[k].tenant \in tenants \cup {Nobody}
  BY <1>1 DEF Numbered
<1>6. \A c \in 1 .. Len(calls) : SpeaksOf(c)
  BY <1>2, <1>3, PromptsSpeakOf DEF Rows
<1> QED
  BY <1>1, <1>2, <1>3, <1>4, <1>5, <1>6
     DEF TypeOK, Companies, Practice, Sockets, Counted, SlotsCounted, IInv, LeavingKnown

\* For any realm, seed and library, whatever runs beside a deletion: somebody else's row
\* is read only where it was written, once its author shared it from a company, and it
\* was written by hand or missed by the deletion of its call (backend/library.py:94,
\* backend/api/scenarios.py:330).
THEOREM ReadWhereWrittenOnly == Spec => []ReadWhereWritten
<1>1. IInv => ReadWhereWritten
  <2> SUFFICES ASSUME IInv, NEW s \in Subjects, NEW k \in Listed(s)
               PROVE  \/ rows[k].by = s
                      \/ rows[k].by = Nobody /\ rows[k].text = "seed"
                      \/ /\ rows[k].text = "written" \/ (rows[k].text = "follow_up" /\ rows[k].missed)
                         /\ rows[k].written = TenantOf(s)
                         /\ rows[k].shared # Nobody /\ rows[k].shared # Default
    BY DEF ReadWhereWritten
  <2>1. /\ rows[k] \in AnyRow /\ Sound(rows[k]) /\ rows[k].active
        /\ VisibleTo(rows[k], s, TenantOf(s))
    BY RowOf DEF IInv, Core, Listed, ReadableBy
  <2>2. rows[k].text \in {"seed", "written", "follow_up", "reverse"}
    BY <2>1 DEF AnyRow
  <2>3. CASE rows[k].by = s
    BY <2>3
  <2>4. CASE rows[k].text = "seed"
    BY <2>1, <2>4 DEF Sound
  <2>5. CASE rows[k].text \in {"written", "follow_up"} /\ rows[k].by # s
    BY <2>1, <2>5, NobodyIsNoTenant DEF Sound, VisibleTo
  <2>6. CASE rows[k].text = "reverse" /\ rows[k].by # s
    BY <2>1, <2>6 DEF Sound, VisibleTo
  <2> QED BY <2>2, <2>3, <2>4, <2>5, <2>6
<1> QED BY <1>1, Invariance, PTL

\* For any number of subjects and connections: the slots taken are the calls being
\* served, however connections end, and stay within the cap (backend/limits.py:33).
THEOREM SlotsAreCallsServed == Spec => []SlotsMatchCalls
<1>1. IInv => SlotsMatchCalls
  BY DEF IInv, Core, SlotsCounted
<1> QED BY <1>1, Invariance, PTL

\* No point of a stored wrap-up cites a Turn of another call or a goal there is not.
WrapupsCiteWhatThereIs == \A c \in 1 .. Len(calls) : calls[c].wrapup.points \subseteq Points

\* Whatever the model answers, and whichever goals a release retires: a stored wrap-up
\* cites Turns of its own call and goals that exist (worker/generator.py, _store).
THEOREM WrapupsAreGrounded == Spec => []WrapupsCiteWhatThereIs
<1>1. IInv => WrapupsCiteWhatThereIs
  <2> SUFFICES ASSUME IInv, NEW c \in 1 .. Len(calls)
               PROVE  calls[c].wrapup.points \subseteq Points
    BY DEF WrapupsCiteWhatThereIs
  <2>1. calls[c] \in AnyCall
    BY ElementOfSeq DEF IInv, Core, CallsRecorded
  <2> QED BY <2>1 DEF AnyCall
<1> QED BY <1>1, Invariance, PTL

\* Every variable keeps its type, whatever is read or written: a row keeps the id of
\* its place and a registered company, a deletion knows its call (backend/library.py).
THEOREM LibraryTyped == Spec => []TypeOK
<1> QED BY TypedInvariance, AllTypes, PTL

\* For any catalogue, profile and history: the suggestions are as many as fit, all
\* readable, none a reverse, none worse than one left out, and give no reason the
\* profile does not show; the offer after a call is another Scenario, the best of the
\* fresh ones while one is left (backend/recommendations.py:33 and :98).
THEOREM SuggestedIsTheBest == Spec => []BestSuggestions
<1>1. IInv /\ Typed => Suggestible
  BY DEF IInv, Core, Typed, Numbered, Practice, Suggestible
<1> QED BY <1>1, TypedInvariance, SuggestedIsBest, PTL
=============================================================================
