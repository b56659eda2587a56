---------------------------- MODULE StorageProofs ----------------------------
(***************************************************************************)
(* Proofs about Storage, for any subjects, calls, presses and draft cap:    *)
(* consent and storage agree, the abstract promise is implemented, no       *)
(* withdrawal and no single deletion is refused, and no press is told that  *)
(* an existing call is gone.                                                *)
(***************************************************************************)
EXTENDS Storage, TLAPS

-----------------------------------------------------------------------------
(* The inductive invariant *)

\* A press under way is for a call that has ended, and of a known kind.
PressKnown ==
    \A p \in Presses :
        press[p].at \notin {"idle", "done"} =>
            /\ press[p].kind \in Kinds
            /\ press[p].call \in Calls
            /\ call[press[p].call].at = "closed"

\* A derived row belongs to the subject of its call, shares its id with it, and
\* is linked to it or to nothing; a reverse stays private.
RowShape ==
    \A kind \in Kinds, c \in Calls :
        LET r == row[<<kind, c>>] IN
        Exists(<<kind, c>>) =>
            /\ call[c].at = "closed"
            /\ r.by = call[c].subject
            /\ r.reverse <=> kind = "reverse"
            /\ r.reverse => r.visibility = "private" /\ r.derived = Null /\ r.origin \in {c, Null}
            /\ ~r.reverse => r.origin = Null /\ r.derived \in {c, Null}

\* The built-in is nobody's, and no reverse.
BaseIsBuiltIn ==
    Exists(Base) => row[Base].by = Null /\ ~row[Base].reverse /\ row[Base].origin = Null

\* Who plays a reverse is the subject of the call it was made from.
PlayedByOwner ==
    \A d, c \in Calls :
        call[d].at # "idle" /\ call[d].scenario = <<"reverse", c>> =>
            call[c].at = "closed" /\ call[c].subject = call[d].subject

\* A deletion found the reverses of the Sessions it takes.
ReversesFound ==
    \A k \in Jobs : \A i \in job[k].reverses : \E c \in job[k].sessions : i = <<"reverse", c>>

\* A withdrawal under way has all Sessions of its subject, and no others, and
\* nothing is being written meanwhile.
WithdrawalHoldsAll ==
    LET j == job["withdrawal"] IN
    j.on => /\ j.subject \in Subjects
            /\ OwnedBy(j.subject) \subseteq j.sessions
            /\ \A c \in j.sessions : call[c].at = "closed" /\ call[c].subject = j.subject
            /\ LockFreeOfCalls(j.subject)

\* A reverse that lost its link has lost its Session for good, and so has one that
\* the sweep has looked up, unless the sweep takes the Session as well.
UntiedIsGone ==
    \A c \in Calls : LET i == <<"reverse", c>> IN
        i \in Ids /\ Exists(i) /\ row[i].origin = Null => c \notin stored
DoomedAreLoose ==
    \A i \in job["sweep"].doomed :
        \E c \in Calls : /\ i = <<"reverse", c>>
                        /\ \/ c \in job["sweep"].sessions
                           \/ c \notin stored /\ call[c].at = "closed"

\* What is stored is agreed to, what is about to be under the notice in force.
StoredIsAgreed ==
    \A c \in Calls :
        /\ c \in stored => Agreed(call[c].subject)
        /\ call[c].at = "writing" => AllowsStorage(call[c].subject)
ReverseIsAgreed ==
    \A i \in Ids : Exists(i) /\ row[i].reverse => Agreed(row[i].by)

\* A press that lost its race finds the winner's row while the call is there.
WinnerIsThere ==
    \A p \in Presses :
        press[p].at = "reread" /\ press[p].call \in stored => Stored(Target(p))

Typed == TypeOK /\ PressKnown /\ BaseIsBuiltIn
IInv == /\ Typed
        /\ RowShape
        /\ PlayedByOwner
        /\ ReversesFound
        /\ WithdrawalHoldsAll
        /\ UntiedIsGone
        /\ DoomedAreLoose
        /\ StoredIsAgreed
        /\ ReverseIsAgreed
        /\ WinnerIsThere
        /\ MissingMeansGone

-----------------------------------------------------------------------------
(* Rows *)

\* A row is told from an absent one by its fields.
LEMMA RowIsPresent == \A r \in Row : r # Absent
BY DEF Row, Absent

\* The rows that are written are rows.
LEMMA NewRowType ==
    ASSUME NEW u \in Subjects, NEW kind, NEW c \in Calls
    PROVE  /\ NewRow(u, kind, c) \in Row
           /\ NewRow(u, kind, c).by = u
           /\ NewRow(u, kind, c).visibility = "private"
           /\ NewRow(u, kind, c).reverse <=> kind = "reverse"
           /\ kind = "reverse" => /\ NewRow(u, kind, c).derived = Null
                                  /\ NewRow(u, kind, c).origin = c
           /\ kind # "reverse" => /\ NewRow(u, kind, c).derived = c
                                  /\ NewRow(u, kind, c).origin = Null
<1>1. CASE kind = "reverse"
  BY <1>1 DEF NewRow, Private, BuiltIn, Row
<1>2. CASE kind # "reverse"
  BY <1>2 DEF NewRow, Private, BuiltIn, Row
<1> QED BY <1>1, <1>2

\* Taking rows away and clearing links leaves rows, and only those there were.
LEMMA AfterRemoveType ==
    ASSUME Typed, NEW k \in Jobs, NEW gone
    PROVE  /\ Without(AfterRemove(k), gone) \in [Ids -> {Absent} \cup Row]
           /\ \A i \in Ids :
                LET r == Without(AfterRemove(k), gone)[i] IN
                IF Exists(i) /\ i \notin gone
                THEN /\ r # Absent
                     /\ r.by = row[i].by /\ r.reverse = row[i].reverse
                     /\ r.visibility = row[i].visibility
                     /\ r.derived = IF row[i].derived \in job[k].sessions THEN Null
                                    ELSE row[i].derived
                     /\ r.origin = IF row[i].origin \in job[k].sessions THEN Null
                                   ELSE row[i].origin
                ELSE r = Absent
<1>1. ASSUME NEW i \in Ids, Exists(i), i \notin gone
      PROVE  LET r == Without(AfterRemove(k), gone)[i] IN
             /\ r \in Row
             /\ r.by = row[i].by /\ r.reverse = row[i].reverse
             /\ r.visibility = row[i].visibility
             /\ r.derived = IF row[i].derived \in job[k].sessions THEN Null
                            ELSE row[i].derived
             /\ r.origin = IF row[i].origin \in job[k].sessions THEN Null
                           ELSE row[i].origin
  <2>1. row[i] \in Row
    BY <1>1 DEF Typed, TypeOK, Exists
  <2> DEFINE retired == [row[i] EXCEPT !.active = @ /\ i \notin job[k].retired]
             r == Unlinked(retired, job[k].sessions)
  <2>2. /\ retired \in Row /\ retired.by = row[i].by /\ retired.reverse = row[i].reverse
        /\ retired.visibility = row[i].visibility
        /\ retired.derived = row[i].derived /\ retired.origin = row[i].origin
    BY <2>1 DEF Row
  <2> HIDE DEF retired
  <2>3. /\ r \in Row /\ r.by = row[i].by /\ r.reverse = row[i].reverse
        /\ r.visibility = row[i].visibility
        /\ r.derived = IF row[i].derived \in job[k].sessions THEN Null ELSE row[i].derived
        /\ r.origin = IF row[i].origin \in job[k].sessions THEN Null ELSE row[i].origin
    BY <2>2 DEF Row, Unlinked
  <2>4. Without(AfterRemove(k), gone)[i] = r
    BY <1>1 DEF Without, AfterRemove, retired
  <2> QED BY <2>3, <2>4
<1>2. ASSUME NEW i \in Ids, ~Exists(i) \/ i \in gone
      PROVE  Without(AfterRemove(k), gone)[i] = Absent
  BY <1>2 DEF Without, AfterRemove
<1>3. \A i \in Ids : Exists(i) /\ i \notin gone =>
        /\ Without(AfterRemove(k), gone)[i] \in Row
        /\ Without(AfterRemove(k), gone)[i] # Absent
  BY <1>1, RowIsPresent
<1>4. Without(AfterRemove(k), gone) \in [Ids -> {Absent} \cup Row]
  BY <1>2, <1>3 DEF Without
<1> QED BY <1>1, <1>2, <1>3, <1>4

-----------------------------------------------------------------------------
(* Types *)

LEMMA TypesInit == Init => Typed
<1> SUFFICES ASSUME Init PROVE Typed
  OBVIOUS
<1>1. BuiltIn \in Row
  BY DEF BuiltIn, Row
<1>2. row \in [Ids -> {Absent} \cup Row]
  BY <1>1 DEF Init
<1>3. job \in [Jobs -> [on : BOOLEAN, sessions : SUBSET Calls, retired : SUBSET Ids,
                        reverses : SUBSET Ids, subject : Subjects \cup {Null},
                looked : BOOLEAN, doomed : SUBSET Ids]]
  BY DEF Init, NoJob
<1>4. call \in [Calls -> {NoCall}] /\ stored = {} /\ old = {}
  BY DEF Init
<1>5. press \in [Presses -> {NoPress}]
  BY DEF Init
<1>6. press \in [Presses ->
          [at : {"idle", "restore", "update", "draft", "insert", "reread",
                 "done", "missing"},
           kind : Kinds \cup {Null}, call : Calls \cup {Null}, dirty : BOOLEAN]]
  <2>1. NoPress \in [at : {"idle", "restore", "update", "draft", "insert", "reread",
                          "done", "missing"},
                    kind : Kinds \cup {Null}, call : Calls \cup {Null}, dirty : BOOLEAN]
    BY DEF NoPress
  <2> QED BY <1>5, <2>1
<1>7. PressKnown
  BY <1>5 DEF PressKnown, NoPress
<1>8. /\ consent \in [Subjects -> {"none", "stale", "granted", "withdrawn"}]
      /\ autoDelete \in [Subjects -> BOOLEAN]
      /\ drafts \in [Subjects -> 0 .. DraftCap]
  BY DEF Init
<1>9. BaseIsBuiltIn
  BY DEF Init, BaseIsBuiltIn, BuiltIn, Ids
<1> QED BY <1>2, <1>3, <1>4, <1>6, <1>7, <1>8, <1>9 DEF Typed, TypeOK

\* The ids of derived rows are not the one of the built-in.
LEMMA BaseIsNotDerived == Base \notin Derived
BY BoundsAssumption DEF Base, Derived

LEMMA DecidingTypes == Typed /\ Deciding => Typed'
<1> SUFFICES ASSUME Typed, Deciding PROVE Typed'
  OBVIOUS
<1> USE DEF Typed, TypeOK, PressKnown, BaseIsBuiltIn, Exists
<1>1. ASSUME NEW u \in Subjects, Grant(u) PROVE Typed'
  BY <1>1 DEF Grant
<1>2. ASSUME NEW u \in Subjects, StartWithdrawal(u) PROVE Typed'
  BY <1>2 DEF StartWithdrawal, StartJob, Collected, OwnedBy, FollowUpsOf, ReversesOf, Jobs
<1>3. ASSUME NEW u \in Subjects, HourPasses(u) PROVE Typed'
  BY <1>3, BoundsAssumption DEF HourPasses
<1>4. ASSUME NEW u \in Subjects, NEW enabled \in BOOLEAN, SetAutoDelete(u, enabled) PROVE Typed'
  BY <1>4 DEF SetAutoDelete
<1> QED BY <1>1, <1>2, <1>3, <1>4 DEF Deciding

LEMMA CallingTypes == Typed /\ Calling => Typed'
<1> SUFFICES ASSUME Typed, Calling PROVE Typed'
  OBVIOUS
<1> USE DEF Typed, TypeOK, PressKnown, BaseIsBuiltIn, Exists
<1>1. ASSUME NEW c \in Calls, CheckConsent(c) PROVE Typed'
  <2>1. call[c] \in [at : {"live", "writing", "closed"}, subject : Subjects, scenario : Ids]
    BY <1>1 DEF CheckConsent, NoCall
  <2>2. call' \in [Calls -> {NoCall} \cup [at : {"live", "writing", "closed"},
                                          subject : Subjects, scenario : Ids]]
    BY <1>1, <2>1 DEF CheckConsent
  <2> QED BY <1>1, <2>2 DEF CheckConsent
<1>2. ASSUME NEW c \in Calls, Write(c) PROVE Typed'
  <2>1. call[c] \in [at : {"live", "writing", "closed"}, subject : Subjects, scenario : Ids]
    BY <1>2 DEF Write, NoCall
  <2>2. call' \in [Calls -> {NoCall} \cup [at : {"live", "writing", "closed"},
                                          subject : Subjects, scenario : Ids]]
    BY <1>2, <2>1 DEF Write
  <2> QED BY <1>2, <2>2 DEF Write
<1>3. ASSUME NEW c \in Calls, StartDelete(c) PROVE Typed'
  <2>1. call[c].subject \in Subjects
    BY <1>3 DEF StartDelete, NoCall
  <2> QED BY <1>3, <2>1 DEF StartDelete, StartJob, Collected, FollowUpsOf, ReversesOf, Jobs
<1>4. ASSUME NEW c \in Calls, NEW u \in Subjects, NEW i \in Ids, StartCall(u, c, i) PROVE Typed'
  BY <1>4 DEF StartCall
<1> QED BY <1>1, <1>2, <1>3, <1>4 DEF Calling

LEMMA EditingTypes == Typed /\ Editing => Typed'
<1> SUFFICES ASSUME Typed, Editing PROVE Typed'
  OBVIOUS
<1> USE DEF Typed, TypeOK, PressKnown, BaseIsBuiltIn, Exists
<1>1. ASSUME NEW u \in Subjects, NEW i \in Ids, row[i].by = u,
             NEW active \in BOOLEAN, NEW visibility \in {"private", "tenant"},
             \/ row' = [row EXCEPT ![i].active = active]
             \/ row' = [row EXCEPT ![i].visibility = visibility],
             UNCHANGED <<consent, autoDelete, call, stored, old, press, drafts, job>>
      PROVE  Typed'
  <2>1. row[i] \in Row /\ i # Base
    BY <1>1, NullAssumption, RowIsPresent DEF Absent
  <2>2. /\ [row[i] EXCEPT !.active = active] \in Row
        /\ [row[i] EXCEPT !.visibility = visibility] \in Row
    BY <2>1 DEF Row
  <2>3. \E r \in Row : row' = [row EXCEPT ![i] = r]
    BY <1>1, <2>2
  <2>4. row' \in [Ids -> {Absent} \cup Row] /\ row'[Base] = row[Base]
    BY <2>1, <2>3
  <2> QED BY <1>1, <2>4
<1>2. ASSUME NEW u \in Subjects, NEW i \in Ids, Deactivate(u, i) PROVE Typed'
  BY <1>1, <1>2 DEF Deactivate
<1>3. ASSUME NEW u \in Subjects, NEW i \in Ids, NEW v \in {"private", "tenant"},
             SetVisibility(u, i, v)
      PROVE  Typed'
  BY <1>1, <1>3 DEF SetVisibility
<1> QED BY <1>2, <1>3 DEF Editing

PressType == [at : {"idle", "restore", "update", "draft", "insert", "reread",
                    "done", "missing"},
              kind : Kinds \cup {Null}, call : Calls \cup {Null}, dirty : BOOLEAN]

\* A press that moves on, or is answered, keeps its type and its call.
LEMMA PressMoves ==
    ASSUME Typed, NEW p \in Presses, NEW q \in PressType,
           press' = [press EXCEPT ![p] = q],
           \/ q.at \in {"idle", "done"}
           \/ q.kind = press[p].kind /\ q.call = press[p].call
              /\ press[p].at \notin {"idle", "done"},
           UNCHANGED call
    PROVE  press' \in [Presses -> PressType] /\ PressKnown'
BY DEF Typed, TypeOK, PressKnown, PressType

LEMMA PressEdits ==
    ASSUME NEW q \in PressType, NEW at \in {"update", "draft", "insert", "reread", "missing"}
    PROVE  /\ [q EXCEPT !.at = at] \in PressType
           /\ [q EXCEPT !.at = at].call = q.call /\ [q EXCEPT !.at = at].kind = q.kind
BY DEF PressType

LEMMA AnsweredType == LET q == [NoPress EXCEPT !.at = "done"] IN
                      q \in PressType /\ q.at = "done"
BY DEF NoPress, PressType

LEMMA PressingTypes == Typed /\ Pressing => Typed'
<1> SUFFICES ASSUME Typed, Pressing PROVE Typed'
  OBVIOUS
<1>1. ASSUME NEW p \in Presses, press[p].at \notin {"idle", "done"}
      PROVE  /\ Presser(p) \in Subjects /\ Target(p) \in Ids /\ Target(p) # Base
             /\ press[p].call \in Calls
  BY <1>1, BaseIsNotDerived DEF Presser, Target, Ids, Derived, NoCall, Typed, TypeOK, PressKnown
<1>2. ASSUME NEW p \in Presses, press[p].at \notin {"idle", "done"},
             \/ \E at \in {"update", "draft", "insert", "reread", "missing"} : Goto(p, at)
             \/ \E at \in {"update", "draft", "insert", "reread", "missing"}, d \in BOOLEAN :
                    press' = [press EXCEPT ![p].at = at, ![p].dirty = d]
             \/ Respond(p),
             UNCHANGED call
      PROVE  press' \in [Presses -> PressType] /\ PressKnown'
  <2>1. press[p] \in PressType
    BY DEF Typed, TypeOK, PressType
  <2> DEFINE Moved == \E q \in PressType :
                        /\ press' = [press EXCEPT ![p] = q]
                        /\ \/ q.at \in {"idle", "done"}
                           \/ q.kind = press[p].kind /\ q.call = press[p].call
  <2>2. Moved
    <3>1. ASSUME NEW at \in {"update", "draft", "insert", "reread", "missing"}, Goto(p, at)
          PROVE  Moved
      <4> DEFINE q == [press[p] EXCEPT !.at = at]
      <4>1. press' = [press EXCEPT ![p] = q]
        BY <3>1 DEF Goto
      <4> QED BY <2>1, <4>1, PressEdits
    <3>2. ASSUME NEW at \in {"update", "draft", "insert", "reread", "missing"},
                 NEW d \in BOOLEAN, press' = [press EXCEPT ![p].at = at, ![p].dirty = d]
          PROVE  Moved
      <4> DEFINE q == [press[p] EXCEPT !.at = at, !.dirty = d]
      <4>1. press' = [press EXCEPT ![p] = q]
        BY <3>2 DEF Typed, TypeOK
      <4>2. q \in PressType /\ q.kind = press[p].kind /\ q.call = press[p].call
        BY <2>1 DEF PressType
      <4> HIDE DEF q
      <4> QED BY <4>1, <4>2
    <3>3. CASE Respond(p)
      BY <3>3, AnsweredType DEF Respond
    <3> QED BY <1>2, <3>1, <3>2, <3>3
  <2> QED BY <1>2, <2>2, PressMoves
<1>3. ASSUME NEW i \in Ids, i # Base, NEW r \in Row,
             row' = [row EXCEPT ![i] = r] \/ row' = row
      PROVE  row' \in [Ids -> {Absent} \cup Row] /\ BaseIsBuiltIn'
  BY <1>3 DEF Typed, TypeOK, BaseIsBuiltIn, Exists, Ids
<1>4. ASSUME press' \in [Presses -> PressType], PressKnown',
             row' \in [Ids -> {Absent} \cup Row], BaseIsBuiltIn',
             drafts' \in [Subjects -> 0 .. DraftCap],
             UNCHANGED <<consent, autoDelete, call, stored, old, job>>
      PROVE  Typed'
  BY <1>4 DEF Typed, TypeOK, PressType
<1>5. BaseIsBuiltIn' \/ row' # row
  BY DEF Typed, BaseIsBuiltIn, Exists
<1>6. /\ row \in [Ids -> {Absent} \cup Row] /\ drafts \in [Subjects -> 0 .. DraftCap]
      /\ \A p \in Presses : press[p].dirty \in BOOLEAN
  BY DEF Typed, TypeOK
<1>7. ASSUME NEW p \in Presses, Restore(p) PROVE Typed'
  <2>1. press[p].at = "restore"
    BY <1>7 DEF Restore
  <2>2. drafts' \in [Subjects -> 0 .. DraftCap]
    BY <1>1, <1>6, <1>7, <2>1, BoundsAssumption DEF Restore, MayDraft
  <2>3. (~row[Target(p)].active) \in BOOLEAN
    OBVIOUS
  <2>4. press' \in [Presses -> PressType] /\ PressKnown'
    BY <1>2, <1>7, <2>1, <2>3 DEF Restore
  <2> QED BY <1>4, <1>5, <1>6, <1>7, <2>2, <2>4 DEF Restore
<1>8. ASSUME NEW p \in Presses, Reactivate(p) PROVE Typed'
  <2>1. press[p].at = "update"
    BY <1>8 DEF Reactivate
  <2>2. press' \in [Presses -> PressType] /\ PressKnown'
    BY <1>2, <1>8, <2>1 DEF Reactivate
  <2>3. row' \in [Ids -> {Absent} \cup Row] /\ BaseIsBuiltIn'
    <3>1. CASE press[p].dirty /\ Exists(Target(p))
      <4>1. row[Target(p)] \in Row
        BY <1>1, <1>6, <2>1, <3>1 DEF Exists
      <4>2. [row[Target(p)] EXCEPT !.active = TRUE] \in Row
        BY <4>1 DEF Row
      <4> QED BY <1>1, <1>3, <1>8, <2>1, <3>1, <4>2 DEF Reactivate
    <3>2. CASE ~(press[p].dirty /\ Exists(Target(p)))
      BY <1>5, <1>6, <1>8, <3>2 DEF Reactivate
    <3> QED BY <3>1, <3>2
  <2> QED BY <1>4, <1>6, <1>8, <2>2, <2>3 DEF Reactivate
<1>9. ASSUME NEW p \in Presses, Drafted(p) PROVE Typed'
  BY <1>2, <1>4, <1>5, <1>6, <1>9 DEF Drafted
<1>10. ASSUME NEW p \in Presses, Insert(p) PROVE Typed'
  <2>1. press[p].at = "insert"
    BY <1>10 DEF Insert
  <2>2. NewRow(Presser(p), press[p].kind, press[p].call) \in Row
    BY <1>1, <2>1, NewRowType
  <2>3. row' \in [Ids -> {Absent} \cup Row] /\ BaseIsBuiltIn'
    BY <1>1, <1>3, <1>10, <2>1, <2>2 DEF Insert
  <2>4. press' \in [Presses -> PressType] /\ PressKnown'
    BY <1>2, <1>10, <2>1 DEF Insert
  <2> QED BY <1>4, <1>6, <1>10, <2>3, <2>4 DEF Insert
<1>11. ASSUME NEW p \in Presses, Reread(p) PROVE Typed'
  <2>1. press[p].at = "reread"
    BY <1>11 DEF Reread
  <2>2. press' \in [Presses -> PressType] /\ PressKnown'
    <3>1. CASE Stored(Target(p))
      <4>1. (~row[Target(p)].active) \in BOOLEAN
        OBVIOUS
      <4> QED BY <1>2, <1>11, <2>1, <3>1, <4>1 DEF Reread
    <3>2. CASE ~Stored(Target(p))
      BY <1>2, <1>11, <2>1, <3>2 DEF Reread, Goto
    <3> QED BY <3>1, <3>2
  <2> QED BY <1>4, <1>5, <1>6, <1>11, <2>2 DEF Reread
<1>12. ASSUME NEW p \in Presses, NEW kind \in Kinds, NEW c \in Calls, Press(p, kind, c)
       PROVE  Typed'
  <2>1. CASE Respond(p)
    <3>1. press' \in [Presses -> PressType] /\ PressKnown'
      BY <1>12, <2>1, AnsweredType, PressMoves DEF Press, Respond
    <3> QED BY <1>4, <1>5, <1>6, <1>12, <3>1 DEF Press
  <2>2. CASE press' = [press EXCEPT ![p] =
                         [at |-> "restore", kind |-> kind, call |-> c, dirty |-> FALSE]]
    <3>1. call[c].at = "closed"
      BY <1>12 DEF Press, Typed, TypeOK
    <3>2. [at |-> "restore", kind |-> kind, call |-> c, dirty |-> FALSE] \in PressType
      BY DEF PressType
    <3>3. press' \in [Presses -> PressType] /\ PressKnown'
      BY <1>12, <2>2, <3>1, <3>2 DEF Press, Typed, TypeOK, PressType, PressKnown
    <3> QED BY <1>4, <1>5, <1>6, <1>12, <3>3 DEF Press
  <2> QED BY <1>12, <2>1, <2>2 DEF Press
<1>13. ASSUME NEW kind \in Kinds, NEW c \in Calls, InsertElsewhere(kind, c) PROVE Typed'
  <2>1. call[c].subject \in Subjects
    BY <1>13 DEF InsertElsewhere, Typed, TypeOK, NoCall
  <2>2. NewRow(call[c].subject, kind, c) \in Row
    BY <2>1, NewRowType
  <2>3. <<kind, c>> \in Ids /\ <<kind, c>> # Base
    BY BaseIsNotDerived DEF Ids, Derived
  <2>4. row' \in [Ids -> {Absent} \cup Row] /\ BaseIsBuiltIn'
    BY <1>3, <1>13, <2>2, <2>3 DEF InsertElsewhere
  <2>5. press' \in [Presses -> PressType] /\ PressKnown'
    BY <1>13 DEF InsertElsewhere, Typed, TypeOK, PressType, PressKnown
  <2> QED BY <1>4, <1>6, <1>13, <2>4, <2>5 DEF InsertElsewhere
<1> QED BY <1>7, <1>8, <1>9, <1>10, <1>11, <1>12, <1>13 DEF Pressing

LEMMA CommitTypes == ASSUME Typed, NEW k \in Jobs, NEW gone, Commit(k, gone) PROVE Typed'
<1> USE DEF Typed, TypeOK, PressKnown, BaseIsBuiltIn
<1>1. row' \in [Ids -> {Absent} \cup Row] /\ BaseIsBuiltIn'
  BY AfterRemoveType DEF Commit, Exists, Ids
<1>2. job' \in [Jobs -> [on : BOOLEAN, sessions : SUBSET Calls, retired : SUBSET Ids,
                         reverses : SUBSET Ids, subject : Subjects \cup {Null},
                looked : BOOLEAN, doomed : SUBSET Ids]]
  BY DEF Commit, NoJob
<1>3. consent' \in [Subjects -> {"none", "stale", "granted", "withdrawn"}]
  BY DEF Commit
<1> QED BY <1>1, <1>2, <1>3 DEF Commit

LEMMA TypesStep == Typed /\ [Next]_vars => Typed'
<1> SUFFICES ASSUME Typed, [Next]_vars PROVE Typed'
  OBVIOUS
<1>1. CASE UNCHANGED vars
  BY <1>1 DEF vars, Typed, TypeOK, PressKnown, BaseIsBuiltIn, Exists
<1>2. CASE StartSweep
  BY <1>2 DEF StartSweep, StartJob, Collected, Expired, FollowUpsOf, ReversesOf, Jobs,
              Typed, TypeOK, PressKnown, BaseIsBuiltIn, Exists
<1>3. CASE FinishSweep \/ FinishDelete \/ FinishWithdrawal
  BY <1>3, CommitTypes DEF FinishSweep, FinishDelete, FinishWithdrawal, Jobs, Typed, TypeOK
<1>4. ASSUME NEW x \in Calls \cup Ids, Age(x) PROVE Typed'
  BY <1>4 DEF Age, Ids, Typed, TypeOK, PressKnown, BaseIsBuiltIn, Exists
<1>5. CASE LookSweep
  <2>1. /\ job["sweep"].reverses \subseteq Ids
        /\ OrphanedReverses(job["sweep"].sessions) \subseteq Ids
    BY DEF Typed, TypeOK, Jobs, OrphanedReverses
  <2>2. job' \in [Jobs -> [on : BOOLEAN, sessions : SUBSET Calls, retired : SUBSET Ids,
                           reverses : SUBSET Ids, subject : Subjects \cup {Null},
                           looked : BOOLEAN, doomed : SUBSET Ids]]
    <3> DEFINE d == Unreferenced(job["sweep"].reverses \cup OrphanedReverses(job["sweep"].sessions),
                                 stored \ job["sweep"].sessions)
    <3>1. d \subseteq Ids
      BY <2>1 DEF Unreferenced
    <3>2. job' = [job EXCEPT !["sweep"].looked = TRUE, !["sweep"].doomed = d]
      BY <1>5 DEF LookSweep
    <3> HIDE DEF d
    <3>3. /\ job' = [job EXCEPT !["sweep"] = [job["sweep"] EXCEPT !.looked = TRUE, !.doomed = d]]
          /\ job["sweep"] \in [on : BOOLEAN, sessions : SUBSET Calls, retired : SUBSET Ids,
                               reverses : SUBSET Ids, subject : Subjects \cup {Null},
                               looked : BOOLEAN, doomed : SUBSET Ids]
      BY <3>2 DEF Typed, TypeOK, Jobs
    <3>4. [job["sweep"] EXCEPT !.looked = TRUE, !.doomed = d] \in
             [on : BOOLEAN, sessions : SUBSET Calls, retired : SUBSET Ids,
              reverses : SUBSET Ids, subject : Subjects \cup {Null},
              looked : BOOLEAN, doomed : SUBSET Ids]
      BY <3>1, <3>3
    <3> QED BY <3>3, <3>4 DEF Typed, TypeOK
  <2> QED BY <1>5, <2>2 DEF LookSweep, Typed, TypeOK, PressKnown, BaseIsBuiltIn, Exists
<1>6. CASE NewNotice
  <2>1. consent' \in [Subjects -> {"none", "stale", "granted", "withdrawn"}]
    BY <1>6 DEF NewNotice, Typed, TypeOK
  <2>2. /\ call' \in [Calls -> {NoCall} \cup [at : {"live", "writing", "closed"},
                                           subject : Subjects, scenario : Ids]]
        /\ \A c \in Calls : call[c].at = "closed" => call'[c] = call[c]
    <3>1. ASSUME NEW c \in Calls
          PROVE  /\ call'[c] \in {NoCall} \cup [at : {"live", "writing", "closed"},
                                             subject : Subjects, scenario : Ids]
                 /\ call[c].at = "closed" => call'[c] = call[c]
      <4>1. /\ call'[c] = IF call[c].at = "idle" THEN NoCall ELSE [call[c] EXCEPT !.at = "closed"]
            /\ call[c] \in {NoCall} \cup [at : {"live", "writing", "closed"},
                                        subject : Subjects, scenario : Ids]
        BY <1>6 DEF NewNotice, Typed, TypeOK
      <4>2. CASE call[c] = NoCall
        BY <4>1, <4>2 DEF NoCall
      <4>3. CASE call[c] \in [at : {"live", "writing", "closed"}, subject : Subjects, scenario : Ids]
        BY <4>1, <4>3
      <4> QED BY <4>1, <4>2, <4>3
    <3>2. call' = [c \in Calls |-> call'[c]]
      BY <1>6 DEF NewNotice
    <3> QED BY <3>1, <3>2
  <2>3. press' \in [Presses -> PressType] /\ \A p \in Presses : press'[p].at \in {"idle", "done"}
    BY <1>6, AnsweredType DEF NewNotice, NoPress, PressType
  <2>4. job' \in [Jobs -> [on : BOOLEAN, sessions : SUBSET Calls, retired : SUBSET Ids,
                           reverses : SUBSET Ids, subject : Subjects \cup {Null},
                           looked : BOOLEAN, doomed : SUBSET Ids]]
    BY <1>6 DEF NewNotice, NoJob, Typed, TypeOK
  <2>5. drafts' \in [Subjects -> 0 .. DraftCap]
    BY <1>6, BoundsAssumption DEF NewNotice
  <2>6. stored' \subseteq {c \in Calls : call'[c].at = "closed"}
    BY <1>6, <2>2 DEF NewNotice, Typed, TypeOK
  <2>7. UNCHANGED <<autoDelete, old, row>>
    BY <1>6 DEF NewNotice
  <2>8. PressKnown'
    BY <2>3 DEF PressKnown
  <2>9. BaseIsBuiltIn'
    BY <2>7 DEF Typed, BaseIsBuiltIn, Exists
  <2>10. press' \in [Presses ->
          [at : {"idle", "restore", "update", "draft", "insert", "reread",
                 "done", "missing"},
           kind : Kinds \cup {Null}, call : Calls \cup {Null}, dirty : BOOLEAN]]
    BY <2>3 DEF PressType
  <2> QED BY <2>1, <2>2, <2>4, <2>5, <2>6, <2>7, <2>8, <2>9, <2>10 DEF Typed, TypeOK
<1> QED
  BY <1>1, <1>2, <1>3, <1>4, <1>5, <1>6, DecidingTypes, CallingTypes, EditingTypes, PressingTypes
     DEF Next, Sweeping

-----------------------------------------------------------------------------
(* What a step does to the calls, the rows and the decisions *)

\* A sweep that has looked up an orphan which is played by now comes to nothing.
Refused == job["sweep"].doomed \cap Played(stored \ job["sweep"].sessions) # {}
Aside == LookSweep \/ (FinishSweep /\ Refused)

\* Every step but the end of a deletion that is carried out.
Growing == \/ UNCHANGED vars
           \/ Deciding \/ Calling \/ Editing \/ Pressing \/ StartSweep
           \/ \E x \in Calls \cup Ids : Age(x)
           \/ Aside \/ NewNotice
Removing == (FinishSweep /\ ~Refused) \/ FinishDelete \/ FinishWithdrawal

LEMMA StepKinds == [Next]_vars => Growing \/ Removing
BY DEF Next, Growing, Removing, Sweeping, Aside

\* A sweep's look and its refusal touch the sweep only.
LEMMA AsideStep ==
    ASSUME Typed, Aside
    PROVE  /\ UNCHANGED <<consent, autoDelete, call, stored, old, row, press, drafts>>
           /\ \A k \in Jobs \ {"sweep"} : job'[k] = job[k]
           /\ \/ job'["sweep"] = NoJob
              \/ /\ job'["sweep"].sessions = job["sweep"].sessions
                 /\ job'["sweep"].reverses = job["sweep"].reverses
                 /\ job'["sweep"].doomed \subseteq
                       job["sweep"].reverses \cup OrphanedReverses(job["sweep"].sessions)
<1>1. job \in [Jobs -> [on : BOOLEAN, sessions : SUBSET Calls, retired : SUBSET Ids,
                        reverses : SUBSET Ids, subject : Subjects \cup {Null},
                        looked : BOOLEAN, doomed : SUBSET Ids]]
  BY DEF Typed, TypeOK
<1>2. CASE LookSweep
  <2> DEFINE seen == job["sweep"].reverses \cup OrphanedReverses(job["sweep"].sessions)
             d == Unreferenced(seen, stored \ job["sweep"].sessions)
  <2>1. d \subseteq seen
    BY DEF Unreferenced
  <2>2. /\ job' = [job EXCEPT !["sweep"].looked = TRUE, !["sweep"].doomed = d]
        /\ UNCHANGED <<consent, autoDelete, call, stored, old, row, press, drafts>>
    BY <1>2 DEF LookSweep
  <2> HIDE DEF d, seen
  <2>3. /\ job'["sweep"].sessions = job["sweep"].sessions
        /\ job'["sweep"].reverses = job["sweep"].reverses
        /\ job'["sweep"].doomed = d
        /\ \A k \in Jobs \ {"sweep"} : job'[k] = job[k]
    BY <1>1, <2>2 DEF Jobs
  <2> QED BY <2>1, <2>2, <2>3 DEF seen
<1>3. CASE FinishSweep /\ Refused
  BY <1>1, <1>3 DEF FinishSweep, Refused, Commit, Jobs
<1> QED BY <1>2, <1>3 DEF Aside

\* A call keeps its subject and its scenario, and a closed one is closed for good.
CallsGoOn ==
    /\ \A c \in Calls :
        /\ call[c].at = "closed" => call'[c] = call[c]
        /\ call[c].at # "idle" => /\ call'[c].at # "idle"
                                 /\ call'[c].subject = call[c].subject
                                 /\ call'[c].scenario = call[c].scenario
    /\ \A c \in stored' : c \in stored \/ (c \in Calls /\ call[c].at = "writing")

\* One call's record before and after.
CallGoesOn(x, y) ==
    /\ x.at = "closed" => y = x
    /\ y.at # "idle"
    /\ y.subject = x.subject
    /\ y.scenario = x.scenario

LEMMA ClosingACall ==
    ASSUME NEW x \in [at : {"live", "writing", "closed"}, subject : Subjects, scenario : Ids]
    PROVE  CallGoesOn(x, [x EXCEPT !.at = "closed"])
<1> DEFINE y == [x EXCEPT !.at = "closed"]
<1>1. y.at = "closed" /\ y.subject = x.subject /\ y.scenario = x.scenario
  OBVIOUS
<1>2. ASSUME x.at = "closed" PROVE y = x
  BY <1>2
<1> QED BY <1>1, <1>2 DEF CallGoesOn

LEMMA GrowingCalls == Typed /\ Growing => CallsGoOn
<1> SUFFICES ASSUME Typed, Growing PROVE CallsGoOn
  OBVIOUS
<1>1. /\ call \in [Calls -> {NoCall} \cup [at : {"live", "writing", "closed"},
                                          subject : Subjects, scenario : Ids]]
      /\ stored \subseteq Calls
  BY DEF Typed, TypeOK
<1>2. ASSUME UNCHANGED <<call, stored>> PROVE CallsGoOn
  BY <1>2 DEF CallsGoOn
<1>3. ASSUME NEW c \in Calls, CheckConsent(c) PROVE CallsGoOn
  BY <1>1, <1>3 DEF CheckConsent, CallsGoOn
<1>4. ASSUME NEW c \in Calls, Write(c) PROVE CallsGoOn
  BY <1>1, <1>4 DEF Write, CallsGoOn
<1>5. ASSUME NEW c \in Calls, NEW u \in Subjects, NEW i \in Ids, StartCall(u, c, i)
      PROVE  CallsGoOn
  BY <1>1, <1>5 DEF StartCall, CallsGoOn
<1>6. CASE UNCHANGED vars \/ Deciding \/ Editing \/ StartSweep \/ \E x \in Calls \cup Ids : Age(x)
  BY <1>2, <1>6 DEF vars, Deciding, Grant, StartWithdrawal, StartJob, HourPasses, SetAutoDelete,
                    Editing, Deactivate, SetVisibility, StartSweep, Age
<1>7. CASE Pressing
  BY <1>2, <1>7 DEF Pressing, Restore, Reactivate, Drafted, Insert, Reread, Press, InsertElsewhere
<1>8. ASSUME NEW c \in Calls, StartDelete(c) PROVE CallsGoOn
  BY <1>2, <1>8 DEF StartDelete, StartJob
<1>9. CASE Aside
  BY <1>2, <1>9, AsideStep
<1>10. CASE NewNotice
  <2>1. UNCHANGED stored
    BY <1>10 DEF NewNotice
  <2>2. ASSUME NEW c \in Calls, call[c].at # "idle", CallGoesOn(call[c], call'[c])
        PROVE  /\ call[c].at = "closed" => call'[c] = call[c]
               /\ call'[c].at # "idle"
               /\ call'[c].subject = call[c].subject /\ call'[c].scenario = call[c].scenario
    BY <2>2 DEF CallGoesOn
  <2>3. ASSUME NEW c \in Calls, call[c].at # "idle" PROVE CallGoesOn(call[c], call'[c])
    <3>1. call'[c] = [call[c] EXCEPT !.at = "closed"]
      BY <1>10, <2>3 DEF NewNotice
    <3>2. call[c] \in [at : {"live", "writing", "closed"}, subject : Subjects, scenario : Ids]
      BY <1>1, <2>3 DEF NoCall
    <3> QED BY <3>1, <3>2, ClosingACall
  <2>4. \A c \in Calls : call[c].at = "closed" => call[c].at # "idle"
    OBVIOUS
  <2>5. \A c \in stored' : c \in stored
    BY <2>1
  <2> QED BY <2>2, <2>3, <2>4, <2>5 DEF CallsGoOn
<1> QED BY <1>3, <1>4, <1>5, <1>6, <1>7, <1>8, <1>9, <1>10 DEF Growing, Calling

\* Who is writing was so before, or has just been allowed to.
LEMMA WritingBegins ==
    ASSUME Typed, Growing, NEW c \in Calls, call'[c].at = "writing"
    PROVE  call'[c] = call[c] \/ CheckConsent(c)
<1> DEFINE Goal == call'[c] = call[c] \/ CheckConsent(c)
<1>1. call \in [Calls -> {NoCall} \cup [at : {"live", "writing", "closed"},
                                       subject : Subjects, scenario : Ids]]
  BY DEF Typed, TypeOK
<1>2. CASE UNCHANGED call
  BY <1>2
<1>3. ASSUME NEW d \in Calls \ {c},
             \/ CheckConsent(d) \/ Write(d)
             \/ \E u \in Subjects, i \in Ids : StartCall(u, d, i)
      PROVE  Goal
  BY <1>1, <1>3 DEF CheckConsent, Write, StartCall
<1>4. ~Write(c) /\ \A u \in Subjects, i \in Ids : ~StartCall(u, c, i)
  <2>1. ASSUME Write(c) PROVE FALSE
    <3>1. call' = [call EXCEPT ![c].at = "closed"]
      BY <2>1 DEF Write
    <3> QED BY <1>1, <3>1
  <2>2. ASSUME NEW u \in Subjects, NEW i \in Ids, StartCall(u, c, i) PROVE FALSE
    BY <1>1, <2>2 DEF StartCall
  <2> QED BY <2>1, <2>2
<1>5. CASE UNCHANGED vars \/ Deciding \/ Editing \/ StartSweep \/ \E x \in Calls \cup Ids : Age(x)
  BY <1>2, <1>5 DEF vars, Deciding, Grant, StartWithdrawal, StartJob, HourPasses, SetAutoDelete,
                    Editing, Deactivate, SetVisibility, StartSweep, Age
<1>6. CASE Pressing
  BY <1>2, <1>6 DEF Pressing, Restore, Reactivate, Drafted, Insert, Reread, Press, InsertElsewhere
<1>7. CASE \E d \in Calls : StartDelete(d)
  BY <1>2, <1>7 DEF StartDelete, StartJob
<1>8. CASE Calling
  BY <1>3, <1>4, <1>7, <1>8 DEF Calling
<1>9. CASE Aside
  BY <1>2, <1>9, AsideStep
<1>10. CASE NewNotice
  BY <1>1, <1>10 DEF NewNotice, NoCall
<1> QED BY <1>5, <1>6, <1>8, <1>9, <1>10 DEF Growing

\* A row is as it was, but for being offered; or it is the row of a press.
RowSame(i) ==
    /\ Exists(i)' <=> Exists(i)
    /\ Exists(i) => /\ row'[i].by = row[i].by
                    /\ row'[i].reverse = row[i].reverse
                    /\ row'[i].derived = row[i].derived
                    /\ row'[i].origin = row[i].origin
                    /\ row[i].reverse => row'[i].visibility = row[i].visibility
RowMade(i) ==
    \E kind \in Kinds, c \in stored :
        /\ i = <<kind, c>>
        /\ row'[i] = NewRow(call[c].subject, kind, c)
        /\ UNCHANGED <<consent, call, stored, job>>

LEMMA GrowingRows == Typed /\ Growing => \A i \in Ids : RowSame(i) \/ RowMade(i)
<1> SUFFICES ASSUME Typed, Growing PROVE \A i \in Ids : RowSame(i) \/ RowMade(i)
  OBVIOUS
<1>1. row \in [Ids -> {Absent} \cup Row]
  BY DEF Typed, TypeOK
<1>2. ASSUME UNCHANGED row PROVE \A i \in Ids : RowSame(i)
  BY <1>2 DEF RowSame, Exists
<1>3. ASSUME NEW i \in Ids, row[i] \in Row,
             NEW active \in BOOLEAN, row' = [row EXCEPT ![i].active = active]
      PROVE  \A j \in Ids : RowSame(j)
  <2>1. row' = [row EXCEPT ![i] = [row[i] EXCEPT !.active = active]]
    BY <1>1, <1>3
  <2>2. [row[i] EXCEPT !.active = active] \in Row
    BY <1>3 DEF Row
  <2>3. row'[i] # Absent /\ row[i] # Absent
    BY <1>1, <1>3, <2>1, <2>2, RowIsPresent
  <2>4. RowSame(i)
    BY <1>1, <1>3, <2>1, <2>3 DEF RowSame, Exists, Row
  <2> QED BY <1>1, <2>1, <2>4 DEF RowSame, Exists
<1>4. ASSUME NEW i \in Ids, NEW c \in stored, NEW kind \in Kinds, i = <<kind, c>>,
             row' = [row EXCEPT ![i] = NewRow(call[c].subject, kind, c)],
             UNCHANGED <<consent, call, stored, job>>
      PROVE  \A j \in Ids : RowSame(j) \/ RowMade(j)
  <2>1. RowMade(i)
    BY <1>1, <1>4 DEF RowMade
  <2>2. \A j \in Ids \ {i} : RowSame(j)
    BY <1>1, <1>4 DEF RowSame, Exists
  <2> QED BY <2>1, <2>2
<1>5. CASE UNCHANGED vars \/ Deciding \/ StartSweep \/ \E x \in Calls \cup Ids : Age(x)
  BY <1>2, <1>5 DEF vars, Deciding, Grant, StartWithdrawal, StartJob, HourPasses, SetAutoDelete,
                    StartSweep, Age
<1>6. CASE Calling
  BY <1>2, <1>6 DEF Calling, CheckConsent, Write, StartDelete, StartJob, StartCall
<1>7. ASSUME NEW u \in Subjects, NEW i \in Ids, Deactivate(u, i)
      PROVE  \A j \in Ids : RowSame(j)
  <2>1. row[i] \in Row
    BY <1>1, <1>7, NullAssumption DEF Deactivate, Absent
  <2> QED BY <1>3, <1>7, <2>1 DEF Deactivate
<1>8. ASSUME NEW u \in Subjects, NEW i \in Ids, NEW v \in {"private", "tenant"},
             SetVisibility(u, i, v)
      PROVE  \A j \in Ids : RowSame(j)
  <2>1. row[i] \in Row /\ ~row[i].reverse
    BY <1>1, <1>8, NullAssumption DEF SetVisibility, AuthoredOnly, Absent
  <2>2. row' = [row EXCEPT ![i] = [row[i] EXCEPT !.visibility = v]]
    BY <1>1, <1>8 DEF SetVisibility
  <2>3. [row[i] EXCEPT !.visibility = v] \in Row
    BY <2>1 DEF Row
  <2>4. row'[i] # Absent /\ row[i] # Absent
    BY <1>1, <2>1, <2>2, <2>3, RowIsPresent
  <2>5. RowSame(i)
    BY <1>1, <2>1, <2>2, <2>4 DEF RowSame, Exists, Row
  <2> QED BY <1>1, <2>2, <2>5 DEF RowSame, Exists
<1>9. ASSUME NEW p \in Presses, press[p].at \notin {"idle", "done"}
      PROVE  press[p].kind \in Kinds /\ press[p].call \in Calls /\ Target(p) \in Ids
  BY <1>9 DEF Target, Ids, Derived, Typed, PressKnown
<1>10. ASSUME NEW p \in Presses, Reactivate(p) PROVE \A j \in Ids : RowSame(j)
  <2>1. CASE press[p].dirty /\ Exists(Target(p))
    <3>1. Target(p) \in Ids
      BY <1>9, <1>10 DEF Reactivate
    <3>2. row[Target(p)] \in Row
      BY <1>1, <2>1, <3>1 DEF Exists
    <3> QED BY <1>3, <1>10, <2>1, <3>1, <3>2 DEF Reactivate
  <2>2. CASE ~(press[p].dirty /\ Exists(Target(p)))
    BY <1>2, <1>10, <2>2 DEF Reactivate
  <2> QED BY <2>1, <2>2
<1>11. ASSUME NEW p \in Presses, Insert(p) PROVE \A j \in Ids : RowSame(j) \/ RowMade(j)
  <2>1. CASE press[p].call \in stored /\ ~Stored(Target(p))
    <3>1. /\ press[p].kind \in Kinds /\ Target(p) \in Ids
          /\ Target(p) = <<press[p].kind, press[p].call>>
          /\ Presser(p) = call[press[p].call].subject
      BY <1>9, <1>11 DEF Insert, Target, Presser
    <3> QED BY <1>4, <1>11, <2>1, <3>1 DEF Insert
  <2>2. CASE ~(press[p].call \in stored /\ ~Stored(Target(p)))
    BY <1>2, <1>11, <2>2 DEF Insert
  <2> QED BY <2>1, <2>2
<1>12. ASSUME NEW kind \in Kinds, NEW c \in Calls, InsertElsewhere(kind, c)
       PROVE  \A j \in Ids : RowSame(j) \/ RowMade(j)
  <2>1. <<kind, c>> \in Ids
    BY DEF Ids, Derived
  <2> QED BY <1>4, <1>12, <2>1 DEF InsertElsewhere
<1>13. CASE Pressing
  BY <1>2, <1>10, <1>11, <1>12, <1>13 DEF Pressing, Restore, Drafted, Reread, Press
<1>14. CASE Editing
  BY <1>7, <1>8, <1>14 DEF Editing
<1>15. CASE Aside \/ NewNotice
  BY <1>2, <1>15, AsideStep DEF NewNotice
<1> QED BY <1>5, <1>6, <1>13, <1>14, <1>15 DEF Growing

\* Only the end of a withdrawal takes an agreement back, and only a new notice makes
\* it stale, when nothing is being written.
LEMMA GrowingConsent ==
    ASSUME Typed, Growing
    PROVE  /\ \A u \in Subjects : Agreed(u) => Agreed(u)'
           /\ \/ \A u \in Subjects : AllowsStorage(u) => AllowsStorage(u)'
              \/ \A c \in Calls : call'[c].at # "writing"
<1> DEFINE Goal == /\ \A u \in Subjects : Agreed(u) => Agreed(u)'
                   /\ \/ \A u \in Subjects : AllowsStorage(u) => AllowsStorage(u)'
                      \/ \A c \in Calls : call'[c].at # "writing"
<1>0. consent \in [Subjects -> {"none", "stale", "granted", "withdrawn"}]
  BY DEF Typed, TypeOK
<1>1. ASSUME NEW u \in Subjects, Grant(u) PROVE Goal
  BY <1>0, <1>1 DEF Grant, AllowsStorage, Agreed
<1>2. ASSUME UNCHANGED consent PROVE Goal
  BY <1>2 DEF AllowsStorage, Agreed
<1>3. CASE UNCHANGED vars \/ StartSweep \/ (\E x \in Calls \cup Ids : Age(x)) \/ Editing \/ Calling
  BY <1>2, <1>3 DEF vars, StartSweep, StartJob, Age, Editing, Deactivate, SetVisibility,
                    Calling, CheckConsent, Write, StartDelete, StartCall
<1>4. CASE Pressing
  BY <1>2, <1>4 DEF Pressing, Restore, Reactivate, Drafted, Insert, Reread, Press, InsertElsewhere
<1>5. CASE Deciding
  BY <1>1, <1>2, <1>5 DEF Deciding, StartWithdrawal, StartJob, HourPasses, SetAutoDelete
<1>6. CASE Aside
  BY <1>2, <1>6, AsideStep
<1>7. CASE NewNotice
  <2>1. \A c \in Calls : call'[c].at # "writing"
    BY <1>7 DEF NewNotice, NoCall, Typed, TypeOK
  <2>2. \A u \in Subjects : Agreed(u) => Agreed(u)'
    BY <1>0, <1>7 DEF NewNotice, Agreed, AllowsStorage
  <2> QED BY <2>1, <2>2
<1> QED BY <1>3, <1>4, <1>5, <1>6, <1>7 DEF Growing

\* The end of a deletion: what it takes, and that nothing else moves.
Gone(k) ==
    LET j == job[k]  kept == stored \ j.sessions IN
    CASE k = "single" -> {}
      [] k = "withdrawal" -> Unreferenced(j.reverses, kept) \cup ReversesBy(j.subject)
      [] k = "sweep" -> j.doomed

Allowed(k) == (k = "sweep" \/ job[k].on) /\ (k # "sweep" \/ ~Refused)

LEMMA RemovingCommits ==
    Removing => \E k \in Jobs : Allowed(k) /\ Commit(k, Gone(k))
<1>1. ASSUME FinishSweep PROVE Commit("sweep", Gone("sweep"))
  BY <1>1 DEF FinishSweep, Gone
<1>2. ASSUME FinishDelete PROVE job["single"].on /\ Commit("single", Gone("single"))
  BY <1>2 DEF FinishDelete, Gone
<1>3. ASSUME FinishWithdrawal PROVE job["withdrawal"].on /\ Commit("withdrawal", Gone("withdrawal"))
  BY <1>3 DEF FinishWithdrawal, Gone
<1>4. ASSUME ~Refused PROVE Allowed("sweep")
  BY <1>4 DEF Allowed
<1>5. Allowed("single") \/ ~job["single"].on
  BY DEF Allowed
<1>6. Allowed("withdrawal") \/ ~job["withdrawal"].on
  BY DEF Allowed
<1> QED BY <1>1, <1>2, <1>3, <1>4, <1>5, <1>6 DEF Removing, Jobs

\* A subject's reverses are played by that subject only, who is locked out meanwhile:
\* nothing that a withdrawal deletes is still played.
LEMMA GoneIsUnplayed ==
    ASSUME IInv, NEW k \in Jobs, Allowed(k)
    PROVE  Gone(k) \cap Played(stored \ job[k].sessions) = {}
<1>1. CASE k = "single"
  BY <1>1 DEF Gone
<1>3. CASE k = "sweep"
  BY <1>3 DEF Gone, Refused, Allowed
<1>2. CASE k = "withdrawal"
  <2> DEFINE j == job["withdrawal"]
  <2> SUFFICES ASSUME NEW d \in stored \ j.sessions, call[d].scenario \in ReversesBy(j.subject)
               PROVE  FALSE
    BY <1>2 DEF Gone, Unreferenced, Played
  <2>1. j.subject \in Subjects /\ OwnedBy(j.subject) \subseteq j.sessions
    BY <1>2 DEF IInv, WithdrawalHoldsAll, Allowed
  <2>2. d \in Calls /\ call[d].at = "closed" /\ call[d].subject # j.subject
    BY <2>1 DEF IInv, Typed, TypeOK, OwnedBy
  <2> DEFINE i == call[d].scenario
  <2>3. i \in Ids /\ Exists(i) /\ row[i].by = j.subject /\ row[i].reverse
    BY DEF ReversesBy
  <2>4. i # Base
    BY <2>3 DEF IInv, Typed, BaseIsBuiltIn
  <2>5. PICK kind \in Kinds, c \in Calls : i = <<kind, c>>
    BY <2>3, <2>4 DEF Ids, Derived
  <2>6. kind = "reverse" /\ row[i].by = call[c].subject
    BY <2>3, <2>5 DEF IInv, RowShape
  <2>7. call[c].subject = call[d].subject
    BY <2>2, <2>5, <2>6 DEF IInv, PlayedByOwner
  <2> QED BY <2>2, <2>3, <2>6, <2>7
<1> QED BY <1>1, <1>2, <1>3 DEF Jobs

\* What is left after a deletion: the other calls, and rows that lost at most a link.
RowLeft(k, i) ==
    /\ Exists(i)' => Exists(i) /\ i \notin Gone(k)
    /\ Exists(i)' =>
        /\ row'[i].by = row[i].by
        /\ row'[i].reverse = row[i].reverse
        /\ row'[i].visibility = row[i].visibility
        /\ row'[i].derived = IF row[i].derived \in job[k].sessions THEN Null ELSE row[i].derived
        /\ row'[i].origin = IF row[i].origin \in job[k].sessions THEN Null ELSE row[i].origin
    /\ Exists(i) /\ i \notin Gone(k) => Exists(i)'

LEMMA RemovingStep ==
    ASSUME IInv, Removing
    PROVE  \E k \in Jobs :
             /\ k = "sweep" \/ job[k].on
             /\ stored' = stored \ job[k].sessions
             /\ consent' = IF k = "withdrawal"
                           THEN [consent EXCEPT ![job[k].subject] = "withdrawn"] ELSE consent
             /\ job' = [job EXCEPT ![k] = NoJob]
             /\ UNCHANGED <<call, press>>
             /\ \A i \in Ids : RowLeft(k, i)
<1>1. PICK k \in Jobs : Allowed(k) /\ Commit(k, Gone(k))
  BY RemovingCommits
<1>2. Gone(k) \cap Played(stored \ job[k].sessions) = {}
  BY <1>1, GoneIsUnplayed
<1>3. /\ stored' = stored \ job[k].sessions
      /\ row' = Without(AfterRemove(k), Gone(k))
      /\ consent' = IF k = "withdrawal"
                    THEN [consent EXCEPT ![job[k].subject] = "withdrawn"] ELSE consent
      /\ job' = [job EXCEPT ![k] = NoJob]
      /\ UNCHANGED <<call, press>>
  BY <1>1, <1>2 DEF Commit
<1>4. \A i \in Ids : RowLeft(k, i)
  <2> TAKE i \in Ids
  <2>1. Typed
    BY DEF IInv
  <2>2. CASE Exists(i) /\ i \notin Gone(k)
    BY <1>3, <2>1, <2>2, AfterRemoveType DEF RowLeft, Exists
  <2>3. CASE ~(Exists(i) /\ i \notin Gone(k))
    BY <1>3, <2>1, <2>3, AfterRemoveType DEF RowLeft, Exists
  <2> QED BY <2>2, <2>3
<1>5. k = "sweep" \/ job[k].on
  BY <1>1 DEF Allowed
<1> QED BY <1>3, <1>4, <1>5

-----------------------------------------------------------------------------
(* The invariant is inductive *)

LEMMA InvInit == Init => IInv
<1> SUFFICES ASSUME Init PROVE IInv
  OBVIOUS
<1>1. Typed
  BY TypesInit
<1>2. /\ \A c \in Calls : call[c].at = "idle"
      /\ stored = {}
      /\ \A i \in Ids : Exists(i) => i = Base /\ ~row[i].reverse
      /\ \A k \in Jobs : ~job[k].on /\ job[k].reverses = {} /\ job[k].doomed = {}
      /\ \A p \in Presses : press[p].at = "idle"
  BY DEF Init, NoCall, NoJob, NoPress, Exists, BuiltIn, Ids
<1>3. RowShape
  BY <1>2, BaseIsNotDerived DEF RowShape, Ids, Derived
<1>4. /\ PlayedByOwner /\ ReversesFound /\ WithdrawalHoldsAll
      /\ UntiedIsGone /\ DoomedAreLoose
  BY <1>2 DEF PlayedByOwner, ReversesFound, WithdrawalHoldsAll, UntiedIsGone, DoomedAreLoose, Jobs
<1>5. StoredIsAgreed /\ ReverseIsAgreed /\ WinnerIsThere /\ MissingMeansGone
  BY <1>2 DEF StoredIsAgreed, ReverseIsAgreed, WinnerIsThere, MissingMeansGone
<1> QED BY <1>1, <1>3, <1>4, <1>5 DEF IInv

LEMMA RowShapeStep == IInv /\ [Next]_vars => RowShape'
<1> SUFFICES ASSUME IInv, [Next]_vars, NEW kind \in Kinds, NEW c \in Calls,
                    Exists(<<kind, c>>)'
             PROVE  LET r == row'[<<kind, c>>] IN
                    /\ call'[c].at = "closed"
                    /\ r.by = call'[c].subject
                    /\ r.reverse <=> kind = "reverse"
                    /\ r.reverse => r.visibility = "private" /\ r.derived = Null /\ r.origin \in {c, Null}
                    /\ ~r.reverse => r.origin = Null /\ r.derived \in {c, Null}
  BY DEF RowShape
<1> DEFINE i == <<kind, c>>
<1>1. i \in Ids
  BY DEF Ids, Derived
<1>2. Typed /\ RowShape
  BY DEF IInv
<1>3. CASE Growing
  <2>1. CASE RowSame(i)
    BY <1>2, <1>3, <2>1, GrowingCalls DEF RowSame, RowShape, CallsGoOn
  <2>2. CASE RowMade(i)
    <3>1. PICK kind1 \in Kinds, c1 \in stored :
            /\ i = <<kind1, c1>>
            /\ row'[i] = NewRow(call[c1].subject, kind1, c1)
            /\ UNCHANGED <<consent, call, stored, job>>
      BY <2>2 DEF RowMade
    <3>2. kind1 = kind /\ c1 = c
      BY <3>1
    <3>3. call[c].at = "closed" /\ call[c].subject \in Subjects
      BY <1>2, <3>1, <3>2 DEF Typed, TypeOK, NoCall
    <3> QED BY <3>1, <3>2, <3>3, NewRowType
  <2> QED BY <1>1, <1>2, <1>3, <2>1, <2>2, GrowingRows
<1>4. CASE Removing
  <2>1. PICK k \in Jobs : UNCHANGED call /\ RowLeft(k, i)
    BY <1>1, <1>4, RemovingStep
  <2> QED BY <1>2, <2>1 DEF RowLeft, RowShape
<1> QED BY <1>3, <1>4, StepKinds

LEMMA PlayedByOwnerStep == IInv /\ [Next]_vars => PlayedByOwner'
<1> SUFFICES ASSUME IInv, [Next]_vars, NEW d \in Calls, NEW c \in Calls,
                    call'[d].at # "idle", call'[d].scenario = <<"reverse", c>>
             PROVE  call'[c].at = "closed" /\ call'[c].subject = call'[d].subject
  BY DEF PlayedByOwner
<1>1. Typed /\ PlayedByOwner
  BY DEF IInv
<1>2. ASSUME call[d].at # "idle", CallsGoOn
      PROVE  call'[c].at = "closed" /\ call'[c].subject = call'[d].subject
  BY <1>1, <1>2 DEF CallsGoOn, PlayedByOwner
<1>3. ASSUME NEW u \in Subjects, NEW i \in Ids, StartCall(u, d, i)
      PROVE  call'[c].at = "closed" /\ call'[c].subject = call'[d].subject
  <2>1. /\ i \in Playable(u) /\ call[d].at = "idle"
        /\ call' = [call EXCEPT ![d] = [at |-> "live", subject |-> u, scenario |-> i]]
        /\ call'[d].scenario = i /\ call'[d].subject = u
    BY <1>1, <1>3 DEF StartCall, Typed, TypeOK
  <2>2. i = <<"reverse", c>> /\ Exists(i) /\ VisibleTo(u, i)
    BY <2>1 DEF Playable
  <2>3. i # Base
    BY <2>2 DEF Base
  <2>4. "reverse" \in Kinds
    BY <2>2, <2>3 DEF Ids, Derived
  <2>5. /\ call[c].at = "closed" /\ row[i].by = call[c].subject
        /\ row[i].visibility = "private"
    BY <2>2, <2>4 DEF IInv, RowShape
  <2>6. row[i].by = u
    BY <2>2, <2>5 DEF VisibleTo
  <2>7. c # d
    BY <2>1, <2>5
  <2>8. call'[c] = call[c]
    BY <1>1, <2>1, <2>7 DEF Typed, TypeOK
  <2> QED BY <2>1, <2>5, <2>6, <2>8
<1>4. ASSUME call[d].at = "idle", \A u \in Subjects, i \in Ids : ~StartCall(u, d, i)
      PROVE  call'[d] = call[d]
  <2>1. CASE UNCHANGED call
    BY <2>1
  <2>2. ASSUME NEW e \in Calls,
               \/ CheckConsent(e) \/ Write(e)
               \/ \E u \in Subjects, i \in Ids : StartCall(u, e, i)
        PROVE  call'[d] = call[d]
    <3>1. e # d
      BY <1>4, <2>2 DEF CheckConsent, Write
    <3> QED BY <1>1, <2>2, <3>1 DEF CheckConsent, Write, StartCall, Typed, TypeOK
  <2>3. CASE Calling
    BY <2>1, <2>2, <2>3 DEF Calling, StartDelete, StartJob
  <2>4. CASE UNCHANGED vars \/ Deciding \/ Editing \/ StartSweep \/ \E x \in Calls \cup Ids : Age(x)
    BY <2>1, <2>4 DEF vars, Deciding, Grant, StartWithdrawal, StartJob, HourPasses, SetAutoDelete,
                      Editing, Deactivate, SetVisibility, StartSweep, Age
  <2>5. CASE Pressing
    BY <2>1, <2>5 DEF Pressing, Restore, Reactivate, Drafted, Insert, Reread, Press, InsertElsewhere
  <2>6. CASE Removing
    BY <2>6, RemovingStep
  <2>7. CASE Aside
    BY <1>1, <2>1, <2>7, AsideStep
  <2>8. CASE NewNotice
    BY <1>1, <1>4, <2>8 DEF NewNotice, NoCall, Typed, TypeOK
  <2> QED BY <2>3, <2>4, <2>5, <2>6, <2>7, <2>8, StepKinds DEF Growing
<1>5. CASE Growing
  <2>1. CallsGoOn
    BY <1>1, <1>5, GrowingCalls
  <2> QED BY <1>2, <1>3, <1>4, <2>1
<1>6. CASE Removing
  BY <1>1, <1>6, RemovingStep DEF PlayedByOwner
<1> QED BY <1>5, <1>6, StepKinds

\* What a deletion finds before it starts.
LEMMA ReversesOfSessions ==
    ASSUME IInv, NEW sessions \in SUBSET Calls, NEW i \in ReversesOf(sessions)
    PROVE  \E c \in sessions : i = <<"reverse", c>>
<1>1. i \in Ids /\ Exists(i) /\ row[i].origin \in sessions /\ row[i].origin # Null
  BY NullAssumption DEF ReversesOf
<1>2. i # Base
  BY <1>1 DEF IInv, Typed, BaseIsBuiltIn
<1>3. PICK kind \in Kinds, c \in Calls : i = <<kind, c>>
  BY <1>1, <1>2 DEF Ids, Derived
<1>4. kind = "reverse" /\ row[i].origin = c
  BY <1>1, <1>3 DEF IInv, RowShape
<1> QED BY <1>1, <1>3, <1>4

LEMMA ReversesFoundStep == IInv /\ [Next]_vars => ReversesFound'
<1> SUFFICES ASSUME IInv, [Next]_vars PROVE ReversesFound'
  OBVIOUS
<1>1. job \in [Jobs -> [on : BOOLEAN, sessions : SUBSET Calls, retired : SUBSET Ids,
                        reverses : SUBSET Ids, subject : Subjects \cup {Null},
                looked : BOOLEAN, doomed : SUBSET Ids]]
  BY DEF IInv, Typed, TypeOK
<1>2. ASSUME UNCHANGED job PROVE ReversesFound'
  BY <1>2 DEF IInv, ReversesFound
<1>3. ASSUME NEW k \in Jobs, NEW sessions \in SUBSET Calls, NEW u, StartJob(k, sessions, u)
      PROVE  ReversesFound'
  BY <1>1, <1>3, ReversesOfSessions DEF StartJob, Collected, IInv, ReversesFound
<1>4. CASE Deciding
  <2>1. ASSUME NEW u \in Subjects, StartWithdrawal(u) PROVE ReversesFound'
    BY <1>3, <2>1 DEF StartWithdrawal, OwnedBy, Jobs, IInv, Typed, TypeOK
  <2> QED BY <1>2, <1>4, <2>1 DEF Deciding, Grant, HourPasses, SetAutoDelete
<1>5. CASE Calling
  <2>1. ASSUME NEW c \in Calls, StartDelete(c) PROVE ReversesFound'
    BY <1>3, <2>1 DEF StartDelete, Jobs
  <2> QED BY <1>2, <1>5, <2>1 DEF Calling, CheckConsent, Write, StartCall
<1>6. CASE StartSweep
  BY <1>3, <1>6 DEF StartSweep, Expired, Jobs, IInv, Typed, TypeOK
<1>7. CASE UNCHANGED vars \/ Editing \/ (\E x \in Calls \cup Ids : Age(x))
  BY <1>2, <1>7 DEF vars, Editing, Deactivate, SetVisibility, Age
<1>8. CASE Pressing
  BY <1>2, <1>8 DEF Pressing, Restore, Reactivate, Drafted, Insert, Reread, Press, InsertElsewhere
<1>9. CASE Removing
  <2>1. PICK k \in Jobs : job' = [job EXCEPT ![k] = NoJob]
    BY <1>9, RemovingStep
  <2> QED BY <1>1, <2>1 DEF IInv, ReversesFound, NoJob
<1>10. CASE Aside
  <2>1. \A k \in Jobs : \/ job'[k] = NoJob
                        \/ /\ job'[k].reverses = job[k].reverses
                           /\ job'[k].sessions = job[k].sessions
    BY <1>10, AsideStep DEF IInv
  <2> QED BY <2>1 DEF IInv, ReversesFound, NoJob
<1>11. CASE NewNotice
  BY <1>1, <1>11 DEF NewNotice, IInv, ReversesFound, NoJob
<1> QED BY <1>4, <1>5, <1>6, <1>7, <1>8, <1>9, <1>10, <1>11, StepKinds DEF Growing

LEMMA WithdrawalStep == IInv /\ [Next]_vars => WithdrawalHoldsAll'
<1> SUFFICES ASSUME IInv, [Next]_vars, job'["withdrawal"].on,
                    NEW u, NEW sessions,
                    u = job'["withdrawal"].subject, sessions = job'["withdrawal"].sessions
             PROVE  /\ u \in Subjects
                    /\ \A c \in stored' : call'[c].subject = u => c \in sessions
                    /\ \A c \in sessions : call'[c].at = "closed" /\ call'[c].subject = u
                    /\ \A c \in Calls : call'[c].at = "writing" => call'[c].subject # u
  BY DEF WithdrawalHoldsAll, LockFreeOfCalls, OwnedBy
<1> DEFINE Held == /\ u \in Subjects
                   /\ \A c \in stored' : call'[c].subject = u => c \in sessions
                   /\ \A c \in sessions : call'[c].at = "closed" /\ call'[c].subject = u
                   /\ \A c \in Calls : call'[c].at = "writing" => call'[c].subject # u
<1>1. /\ Typed /\ "withdrawal" \in Jobs
      /\ call \in [Calls -> {NoCall} \cup [at : {"live", "writing", "closed"},
                                          subject : Subjects, scenario : Ids]]
      /\ stored \subseteq {c \in Calls : call[c].at = "closed"}
      /\ job \in [Jobs -> [on : BOOLEAN, sessions : SUBSET Calls, retired : SUBSET Ids,
                           reverses : SUBSET Ids, subject : Subjects \cup {Null},
                looked : BOOLEAN, doomed : SUBSET Ids]]
  BY DEF IInv, Typed, TypeOK, Jobs
<1>2. ASSUME job'["withdrawal"] = job["withdrawal"]
      PROVE  /\ u \in Subjects /\ sessions \subseteq Calls
             /\ \A c \in stored : call[c].subject = u => c \in sessions
             /\ \A c \in sessions : call[c].at = "closed" /\ call[c].subject = u
             /\ \A c \in Calls : call[c].at = "writing" => call[c].subject # u
  BY <1>1, <1>2 DEF IInv, WithdrawalHoldsAll, LockFreeOfCalls, OwnedBy
<1>3. CASE Growing /\ job'["withdrawal"] = job["withdrawal"]
  <2>1. CallsGoOn
    BY <1>1, <1>3, GrowingCalls
  <2>2. \A c \in stored' : call'[c].subject = u => c \in sessions
    BY <1>1, <1>2, <1>3, <2>1 DEF CallsGoOn
  <2>3. ASSUME NEW c \in Calls, call'[c].at = "writing" PROVE call'[c].subject # u
    <3>1. CASE call'[c] = call[c]
      BY <1>2, <1>3, <2>3, <3>1
    <3>2. CASE CheckConsent(c)
      BY <1>1, <1>3, <3>2 DEF CheckConsent, LockFree
    <3> QED BY <1>1, <1>3, <2>3, <3>1, <3>2, WritingBegins
  <2>4. \A c \in sessions : call'[c].at = "closed" /\ call'[c].subject = u
    BY <1>1, <1>2, <1>3, <2>1 DEF CallsGoOn
  <2> QED BY <1>2, <1>3, <2>2, <2>3, <2>4
<1>4. ASSUME NEW v \in Subjects, StartWithdrawal(v) PROVE Held
  <2>1. /\ job'["withdrawal"] = Collected(OwnedBy(v), v)
        /\ UNCHANGED <<call, stored>> /\ LockFree(v)
    BY <1>1, <1>4 DEF StartWithdrawal, StartJob
  <2>2. u = v /\ sessions = OwnedBy(v)
    BY <2>1 DEF Collected
  <2> QED BY <1>1, <2>1, <2>2 DEF OwnedBy, LockFree
<1>5. ASSUME Growing, \A v \in Subjects : ~StartWithdrawal(v)
      PROVE  job'["withdrawal"] = job["withdrawal"]
  <2>1. CASE UNCHANGED job
    BY <2>1
  <2>2. CASE StartSweep
    BY <1>1, <2>2 DEF StartSweep, StartJob, Jobs
  <2>3. ASSUME NEW c \in Calls, StartDelete(c) PROVE job'["withdrawal"] = job["withdrawal"]
    BY <1>1, <2>3 DEF StartDelete, StartJob, Jobs
  <2>4. CASE Calling
    BY <2>1, <2>3, <2>4 DEF Calling, CheckConsent, Write, StartCall
  <2>5. CASE Pressing
    BY <2>1, <2>5 DEF Pressing, Restore, Reactivate, Drafted, Insert, Reread, Press, InsertElsewhere
  <2>6. CASE UNCHANGED vars \/ Deciding \/ Editing \/ \E x \in Calls \cup Ids : Age(x)
    BY <1>5, <2>1, <2>6 DEF vars, Deciding, Grant, HourPasses, SetAutoDelete,
                            Editing, Deactivate, SetVisibility, Age
  <2>7. CASE Aside
    BY <1>1, <2>7, AsideStep
  <2>8. ~NewNotice
    BY <1>1 DEF NewNotice, NoJob
  <2> QED BY <1>5, <2>2, <2>4, <2>5, <2>6, <2>7, <2>8 DEF Growing
<1>6. CASE Removing
  <2>1. PICK k \in Jobs : /\ stored' = stored \ job[k].sessions
                          /\ job' = [job EXCEPT ![k] = NoJob]
                          /\ UNCHANGED call
    BY <1>6, RemovingStep
  <2>2. job'["withdrawal"] = job["withdrawal"]
    BY <1>1, <2>1 DEF NoJob
  <2> QED BY <1>2, <2>1, <2>2
<1> QED BY <1>3, <1>4, <1>5, <1>6, StepKinds

LEMMA StoredIsAgreedStep == IInv /\ [Next]_vars => StoredIsAgreed'
<1> SUFFICES ASSUME IInv, [Next]_vars, NEW c \in Calls
             PROVE  /\ c \in stored' => consent'[call'[c].subject] \in {"granted", "stale"}
                    /\ call'[c].at = "writing" => consent'[call'[c].subject] = "granted"
  BY DEF StoredIsAgreed, AllowsStorage, Agreed
<1>1. /\ Typed
      /\ call \in [Calls -> {NoCall} \cup [at : {"live", "writing", "closed"},
                                          subject : Subjects, scenario : Ids]]
      /\ stored \subseteq {d \in Calls : call[d].at = "closed"}
      /\ consent \in [Subjects -> {"none", "stale", "granted", "withdrawn"}]
  BY DEF IInv, Typed, TypeOK
<1>2. /\ c \in stored \/ call[c].at = "writing" => call[c].subject \in Subjects
      /\ c \in stored => consent[call[c].subject] \in {"granted", "stale"}
      /\ call[c].at = "writing" => consent[call[c].subject] = "granted"
  BY <1>1 DEF IInv, StoredIsAgreed, AllowsStorage, Agreed, NoCall
<1>3. CASE Growing
  <2>1. /\ CallsGoOn
        /\ \A u \in Subjects :
             consent[u] \in {"granted", "stale"} => consent'[u] \in {"granted", "stale"}
        /\ \/ \A u \in Subjects : consent[u] = "granted" => consent'[u] = "granted"
           \/ \A d \in Calls : call'[d].at # "writing"
    BY <1>1, <1>3, GrowingCalls, GrowingConsent DEF AllowsStorage, Agreed
  <2>2. ASSUME c \in stored' PROVE consent'[call'[c].subject] \in {"granted", "stale"}
    <3>1. c \in stored \/ call[c].at = "writing"
      BY <2>1, <2>2 DEF CallsGoOn
    <3>2. call'[c].subject = call[c].subject
      BY <1>1, <2>1, <3>1 DEF CallsGoOn
    <3> QED BY <1>2, <2>1, <3>1, <3>2
  <2>3. ASSUME call'[c].at = "writing" PROVE consent'[call'[c].subject] = "granted"
    <3>1. CASE call'[c] = call[c]
      BY <1>2, <2>1, <2>3, <3>1
    <3>2. CASE CheckConsent(c)
      BY <1>1, <2>3, <3>2 DEF CheckConsent, AllowsStorage
    <3> QED BY <1>1, <1>3, <2>3, <3>1, <3>2, WritingBegins
  <2> QED BY <2>2, <2>3
<1>4. CASE Removing
  <2>1. PICK k \in Jobs :
          /\ k = "sweep" \/ job[k].on
          /\ stored' = stored \ job[k].sessions
          /\ consent' = IF k = "withdrawal"
                        THEN [consent EXCEPT ![job[k].subject] = "withdrawn"] ELSE consent
          /\ UNCHANGED call
    BY <1>4, RemovingStep
  <2>2. CASE k = "withdrawal"
    <3>1. /\ OwnedBy(job[k].subject) \subseteq job[k].sessions
          /\ LockFreeOfCalls(job[k].subject)
      BY <2>1, <2>2 DEF IInv, WithdrawalHoldsAll
    <3>2. c \in stored' \/ call[c].at = "writing" => call[c].subject # job[k].subject
      BY <1>1, <2>1, <3>1 DEF OwnedBy, LockFreeOfCalls
    <3> QED BY <1>1, <1>2, <2>1, <2>2, <3>2
  <2>3. CASE k # "withdrawal"
    BY <1>2, <2>1, <2>3
  <2> QED BY <2>2, <2>3
<1> QED BY <1>3, <1>4, StepKinds

LEMMA ReverseIsAgreedStep == IInv /\ [Next]_vars => ReverseIsAgreed'
<1> SUFFICES ASSUME IInv, [Next]_vars, NEW i \in Ids, Exists(i)', row'[i].reverse
             PROVE  consent'[row'[i].by] \in {"granted", "stale"}
  BY DEF ReverseIsAgreed, Agreed
<1>1. /\ Typed /\ RowShape
      /\ call \in [Calls -> {NoCall} \cup [at : {"live", "writing", "closed"},
                                          subject : Subjects, scenario : Ids]]
      /\ stored \subseteq {d \in Calls : call[d].at = "closed"}
      /\ consent \in [Subjects -> {"none", "stale", "granted", "withdrawn"}]
  BY DEF IInv, Typed, TypeOK
<1>2. ASSUME Exists(i), row[i].reverse
      PROVE  row[i].by \in Subjects /\ consent[row[i].by] \in {"granted", "stale"}
  <2>1. i # Base
    BY <1>1, <1>2 DEF Typed, BaseIsBuiltIn
  <2>2. PICK kind \in Kinds, c \in Calls : i = <<kind, c>>
    BY <2>1 DEF Ids, Derived
  <2>3. row[i].by = call[c].subject /\ call[c].at = "closed"
    BY <1>1, <1>2, <2>2 DEF RowShape
  <2>4. call[c].subject \in Subjects
    BY <1>1, <2>3 DEF NoCall
  <2> QED BY <1>2, <2>3, <2>4 DEF IInv, ReverseIsAgreed, Agreed
<1>3. CASE Growing
  <2>1. \A u \in Subjects :
          consent[u] \in {"granted", "stale"} => consent'[u] \in {"granted", "stale"}
    BY <1>1, <1>3, GrowingConsent DEF Agreed
  <2>2. CASE RowSame(i)
    BY <1>2, <2>1, <2>2 DEF RowSame
  <2>3. CASE RowMade(i)
    <3>1. PICK kind \in Kinds, c \in stored :
            /\ row'[i] = NewRow(call[c].subject, kind, c)
            /\ UNCHANGED consent
      BY <2>3 DEF RowMade
    <3>2. call[c].subject \in Subjects /\ c \in Calls
      BY <1>1, <3>1 DEF NoCall
    <3>3. row'[i].by = call[c].subject
      BY <3>1, <3>2, NewRowType
    <3> QED BY <3>1, <3>2, <3>3 DEF IInv, StoredIsAgreed, Agreed
  <2> QED BY <1>1, <1>3, <2>2, <2>3, GrowingRows
<1>4. CASE Removing
  <2>1. PICK k \in Jobs :
          /\ consent' = IF k = "withdrawal"
                        THEN [consent EXCEPT ![job[k].subject] = "withdrawn"] ELSE consent
          /\ RowLeft(k, i)
    BY <1>4, RemovingStep
  <2>2. Exists(i) /\ row[i].reverse /\ row'[i].by = row[i].by /\ i \notin Gone(k)
    BY <2>1 DEF RowLeft
  <2>3. CASE k = "withdrawal"
    <3>1. row[i].by # job[k].subject
      BY <2>2, <2>3 DEF Gone, ReversesBy
    <3> QED BY <1>1, <1>2, <2>1, <2>2, <3>1
  <2>4. CASE k # "withdrawal"
    BY <1>2, <2>1, <2>2, <2>4
  <2> QED BY <2>3, <2>4
<1> QED BY <1>3, <1>4, StepKinds

\* What the sweep has looked up lost its link before, or loses it with the sweep.
LEMMA LooseStep ==
    ASSUME IInv, [Next]_vars
    PROVE  UntiedIsGone' /\ DoomedAreLoose'
<1>1. /\ Typed /\ RowShape /\ UntiedIsGone /\ DoomedAreLoose /\ ReversesFound
      /\ stored \subseteq {c \in Calls : call[c].at = "closed"}
      /\ job \in [Jobs -> [on : BOOLEAN, sessions : SUBSET Calls, retired : SUBSET Ids,
                           reverses : SUBSET Ids, subject : Subjects \cup {Null},
                           looked : BOOLEAN, doomed : SUBSET Ids]]
  BY DEF IInv, Typed, TypeOK
<1>2. \A c \in Calls : call[c].at = "closed" /\ c \notin stored =>
                         c \notin stored' /\ call'[c].at = "closed"
  <2>1. CASE Growing
    BY <1>1, <2>1, GrowingCalls DEF CallsGoOn
  <2>2. CASE Removing
    BY <2>2, RemovingStep
  <2> QED BY <2>1, <2>2, StepKinds
<1>3. UntiedIsGone'
  <2> SUFFICES ASSUME NEW c \in Calls, <<"reverse", c>> \in Ids, Exists(<<"reverse", c>>)',
                      row'[<<"reverse", c>>].origin = Null
               PROVE  c \notin stored'
    BY DEF UntiedIsGone, Ids
  <2> DEFINE i == <<"reverse", c>>
  <2>0. "reverse" \in Kinds
    BY DEF Ids, Derived, Base
  <2>1. ASSUME RowSame(i) PROVE c \notin stored'
    <3>1. Exists(i) /\ row[i].origin = Null
      BY <2>1 DEF RowSame
    <3> QED BY <1>1, <1>2, <2>0, <3>1 DEF UntiedIsGone, RowShape
  <2>2. ~RowMade(i)
    <3> SUFFICES ASSUME NEW kind \in Kinds, NEW d \in stored, i = <<kind, d>>,
                        row'[i] = NewRow(call[d].subject, kind, d)
                 PROVE  FALSE
      BY DEF RowMade
    <3>1. call[d].subject \in Subjects /\ d \in Calls
      BY <1>1 DEF Typed, TypeOK, NoCall
    <3> QED BY <3>1, NewRowType, NullAssumption
  <2>3. CASE Growing
    BY <1>1, <2>1, <2>2, <2>3, GrowingRows
  <2>4. CASE Removing
    <3>1. PICK k \in Jobs : stored' = stored \ job[k].sessions /\ RowLeft(k, i)
      BY <2>4, RemovingStep
    <3>2. Exists(i) /\ call[c].at = "closed" /\ row[i].origin \in {c, Null}
      BY <1>1, <2>0, <3>1 DEF RowLeft, RowShape
    <3>3. CASE row[i].origin = Null
      BY <1>1, <3>1, <3>2, <3>3 DEF UntiedIsGone
    <3>4. CASE row[i].origin = c
      BY <3>1, <3>4, NullAssumption DEF RowLeft
    <3> QED BY <3>2, <3>3, <3>4
  <2> QED BY <2>3, <2>4, StepKinds
<1> SUFFICES DoomedAreLoose'
  BY <1>3
<1>4. ASSUME job'["sweep"].doomed \subseteq job["sweep"].doomed,
             job'["sweep"].sessions = job["sweep"].sessions \/ job'["sweep"].doomed = {}
      PROVE  DoomedAreLoose'
  BY <1>1, <1>2, <1>4 DEF DoomedAreLoose
<1>5. CASE Aside
  <2>1. CASE job'["sweep"] = NoJob
    BY <2>1 DEF DoomedAreLoose, NoJob
  <2>2. ASSUME NEW i \in job'["sweep"].doomed, job'["sweep"].sessions = job["sweep"].sessions,
               i \in job["sweep"].reverses \cup OrphanedReverses(job["sweep"].sessions)
        PROVE  \E c \in Calls : /\ i = <<"reverse", c>>
                                /\ \/ c \in job'["sweep"].sessions
                                   \/ c \notin stored' /\ call'[c].at = "closed"
    <3>1. CASE i \in job["sweep"].reverses
      BY <1>1, <2>2, <3>1 DEF ReversesFound, Jobs
    <3>2. CASE i \in OrphanedReverses(job["sweep"].sessions)
      <4>1. /\ i \in Ids /\ Exists(i) /\ row[i].reverse
            /\ row[i].origin \in job["sweep"].sessions \cup {Null}
        BY <3>2 DEF OrphanedReverses
      <4>2. i # Base
        BY <1>1, <4>1 DEF Typed, BaseIsBuiltIn
      <4>3. PICK kind \in Kinds, c \in Calls : i = <<kind, c>>
        BY <4>1, <4>2 DEF Ids, Derived
      <4>4. kind = "reverse" /\ row[i].origin \in {c, Null}
        BY <1>1, <4>1, <4>3 DEF RowShape
      <4>5. UNCHANGED <<stored, call>> /\ call[c].at = "closed"
        BY <1>1, <1>5, <4>1, <4>3, AsideStep DEF RowShape
      <4> QED BY <1>1, <2>2, <4>1, <4>3, <4>4, <4>5, NullAssumption DEF UntiedIsGone
    <3> QED BY <2>2, <3>1, <3>2
  <2> QED BY <1>1, <1>5, <2>1, <2>2, AsideStep DEF DoomedAreLoose
<1>6. CASE Removing
  <2>1. PICK k \in Jobs : job' = [job EXCEPT ![k] = NoJob]
    BY <1>6, RemovingStep
  <2> QED BY <1>1, <1>4, <2>1 DEF NoJob, Jobs
<1>7. CASE UNCHANGED job
  BY <1>4, <1>7
<1>8. ASSUME NEW k \in Jobs, NEW sessions, NEW u, StartJob(k, sessions, u)
      PROVE  DoomedAreLoose'
  <2>1. job' = [job EXCEPT ![k] = Collected(sessions, u)] /\ Collected(sessions, u).doomed = {}
    BY <1>8 DEF StartJob, Collected
  <2>2. CASE k = "sweep"
    BY <1>1, <2>1, <2>2 DEF DoomedAreLoose
  <2>3. CASE k # "sweep"
    BY <1>1, <1>4, <2>1, <2>3 DEF Jobs
  <2> QED BY <2>2, <2>3
<1>9. CASE UNCHANGED vars \/ Deciding \/ StartSweep \/ Calling
  BY <1>7, <1>8, <1>9 DEF vars, Deciding, Grant, StartWithdrawal, HourPasses, SetAutoDelete,
                          StartSweep, Calling, CheckConsent, Write, StartDelete, StartCall, Jobs
<1>10. CASE Editing \/ Pressing \/ \E x \in Calls \cup Ids : Age(x)
  BY <1>7, <1>10 DEF Editing, Deactivate, SetVisibility, Age, Pressing, Restore, Reactivate,
                     Drafted, Insert, Reread, Press, InsertElsewhere
<1>11. CASE NewNotice
  BY <1>4, <1>11 DEF NewNotice, Jobs
<1> QED BY <1>3, <1>5, <1>6, <1>9, <1>10, <1>11, StepKinds DEF Growing

\* A row that can be found stays so as long as its call does.
LEMMA StoredStays ==
    ASSUME IInv, [Next]_vars, NEW kind \in Kinds, NEW c \in Calls, c \in stored', c \in stored,
           Stored(<<kind, c>>)
    PROVE  Stored(<<kind, c>>)'
<1> DEFINE i == <<kind, c>>
<1>1. /\ Typed /\ RowShape /\ i \in Ids /\ Exists(i)
      /\ IF kind = "reverse" THEN row[i].reverse /\ row[i].origin = c
                             ELSE ~row[i].reverse /\ row[i].derived = c
  BY DEF IInv, Ids, Derived, Stored, RowShape, Link
<1>2. CASE Growing
  <2>1. CASE RowSame(i)
    BY <1>1, <2>1, NullAssumption DEF RowSame, Stored, Link
  <2>2. CASE RowMade(i)
    <3>1. PICK kind1 \in Kinds, c1 \in stored :
            i = <<kind1, c1>> /\ row'[i] = NewRow(call[c1].subject, kind1, c1)
      BY <2>2 DEF RowMade
    <3>2. kind1 = kind /\ c1 = c
      BY <3>1
    <3>3. call[c].subject \in Subjects
      BY <1>1, <3>1, <3>2 DEF Typed, TypeOK, NoCall
    <3>4. /\ row'[i] \in Row
          /\ row'[i].reverse <=> kind = "reverse"
          /\ kind = "reverse" => row'[i].origin = c
          /\ kind # "reverse" => row'[i].derived = c
      BY <3>1, <3>2, <3>3, NewRowType
    <3>5. row'[i] # Absent
      BY <3>4, RowIsPresent
    <3> QED BY <3>4, <3>5, NullAssumption DEF Stored, Exists, Link
  <2> QED BY <1>1, <1>2, <2>1, <2>2, GrowingRows
<1>3. CASE Removing
  <2>1. PICK k \in Jobs : /\ k = "sweep" \/ job[k].on
                          /\ stored' = stored \ job[k].sessions
                          /\ RowLeft(k, i)
    BY <1>1, <1>3, RemovingStep
  <2>2. c \notin job[k].sessions
    BY <2>1
  <2>3. i \notin job[k].reverses
    BY <2>2 DEF IInv, ReversesFound
  <2>4. i \notin Gone(k)
    <3>1. CASE k = "single"
      BY <3>1 DEF Gone
    <3>2. CASE k = "sweep"
      BY <2>2, <3>2 DEF Gone, IInv, DoomedAreLoose
    <3>3. CASE k = "withdrawal"
      <4>1. OwnedBy(job[k].subject) \subseteq job[k].sessions
        BY <2>1, <3>3 DEF IInv, WithdrawalHoldsAll
      <4>2. call[c].subject # job[k].subject
        BY <2>2, <4>1 DEF OwnedBy
      <4>3. row[i].by = call[c].subject
        BY <1>1 DEF RowShape
      <4> QED BY <2>3, <3>3, <4>2, <4>3 DEF Gone, Unreferenced, ReversesBy
    <3> QED BY <3>1, <3>2, <3>3 DEF Jobs
  <2> QED BY <1>1, <2>1, <2>2, <2>4, NullAssumption DEF RowLeft, Stored, Link
<1> QED BY <1>2, <1>3, StepKinds

\* How a press comes to lose its race, and to be told that its call is gone.
LEMMA LosingPress ==
    ASSUME Typed, Growing, NEW p \in Presses, press'[p].at \in {"reread", "missing"},
           press'[p] # press[p]
    PROVE  /\ press[p].at \in {"insert", "reread"}
           /\ press'[p].kind = press[p].kind /\ press'[p].call = press[p].call
           /\ UNCHANGED <<stored, row>>
           /\ press'[p].at = "reread" => press[p].call \notin stored \/ Stored(Target(p))
           /\ press'[p].at = "missing" =>
                \/ press[p].call \notin stored
                \/ press[p].at = "reread" /\ ~Stored(Target(p))
<1>1. press \in [Presses ->
          [at : {"idle", "restore", "update", "draft", "insert", "reread",
                 "done", "missing"},
           kind : Kinds \cup {Null}, call : Calls \cup {Null}, dirty : BOOLEAN]]
  BY DEF Typed, TypeOK
<1>2. CASE Insert(p)
  <2>1. ~(press[p].call \in stored /\ ~Stored(Target(p)))
    BY <1>1, <1>2 DEF Insert, Respond, NoPress
  <2> QED BY <1>1, <1>2, <2>1 DEF Insert, Goto
<1>3. CASE Reread(p)
  <2>1. ~Stored(Target(p))
    BY <1>1, <1>3 DEF Reread
  <2> QED BY <1>1, <1>3, <2>1 DEF Reread
<1>4. ~Restore(p)
  BY <1>1 DEF Restore, Goto, Respond, NoPress
<1>5. ~Drafted(p) /\ ~Reactivate(p)
  BY <1>1 DEF Drafted, Reactivate, Goto, Respond, NoPress
<1>6. ASSUME NEW kind \in Kinds, NEW c \in Calls PROVE ~Press(p, kind, c)
  BY <1>1 DEF Press, Respond, NoPress
<1>7. ASSUME NEW q \in Presses \ {p},
             \/ Restore(q) \/ Reactivate(q) \/ Drafted(q) \/ Insert(q) \/ Reread(q)
             \/ \E kind \in Kinds, c \in Calls : Press(q, kind, c)
      PROVE  FALSE
  BY <1>1, <1>7 DEF Restore, Reactivate, Drafted, Insert, Reread, Press, Goto, Respond
<1>8. ~UNCHANGED press
  OBVIOUS
<1>14. ~Aside /\ ~NewNotice
  BY <1>1, <1>8, AsideStep DEF NewNotice, NoPress
<1>9. ~Editing /\ ~Calling /\ ~StartSweep /\ ~UNCHANGED vars /\ ~Deciding
      /\ \A x \in Calls \cup Ids : ~Age(x)
  BY <1>8 DEF vars, Deciding, Grant, StartWithdrawal, StartJob, HourPasses, SetAutoDelete,
              Editing, Deactivate, SetVisibility, StartSweep, Age,
              Calling, CheckConsent, Write, StartDelete, StartCall
<1>10. Pressing
  BY <1>9, <1>14 DEF Growing
<1>11. ASSUME NEW kind \in Kinds, NEW c \in Calls PROVE ~InsertElsewhere(kind, c)
  BY <1>8 DEF InsertElsewhere
<1>12. PICK q \in Presses :
          \/ Restore(q) \/ Reactivate(q) \/ Drafted(q) \/ Insert(q) \/ Reread(q)
          \/ \E kind \in Kinds, c \in Calls : Press(q, kind, c)
  BY <1>10, <1>11 DEF Pressing
<1>13. q = p
  BY <1>7, <1>12
<1> QED BY <1>2, <1>3, <1>4, <1>5, <1>6, <1>12, <1>13

LEMMA PressesStep == IInv /\ [Next]_vars => WinnerIsThere' /\ MissingMeansGone'
<1> SUFFICES ASSUME IInv, [Next]_vars, NEW p \in Presses
             PROVE  /\ press'[p].at = "reread" /\ press'[p].call \in stored' =>
                        Stored(Target(p))'
                    /\ press'[p].at = "missing" => press'[p].call \notin stored'
  BY DEF WinnerIsThere, MissingMeansGone, Target
<1>1. /\ Typed /\ PressKnown /\ WinnerIsThere /\ MissingMeansGone
      /\ call \in [Calls -> {NoCall} \cup [at : {"live", "writing", "closed"},
                                          subject : Subjects, scenario : Ids]]
  BY DEF IInv, Typed, TypeOK
<1>2. \A c \in Calls : call[c].at = "closed" /\ c \notin stored => c \notin stored'
  <2>1. CASE Growing
    BY <1>1, <2>1, GrowingCalls DEF CallsGoOn
  <2>2. CASE Removing
    BY <2>2, RemovingStep
  <2> QED BY <2>1, <2>2, StepKinds
<1>3. CASE press'[p] = press[p]
  <2>1. CASE press[p].at = "reread" /\ press[p].call \in stored'
    <3>1. press[p].kind \in Kinds /\ press[p].call \in Calls /\ press[p].call \in stored
      BY <1>1, <1>2, <2>1 DEF PressKnown
    <3>2. Stored(<<press[p].kind, press[p].call>>)
      BY <1>1, <2>1, <3>1 DEF WinnerIsThere, Target
    <3>3. PICK kind \in Kinds, c \in Calls : kind = press[p].kind /\ c = press[p].call
      BY <3>1
    <3>4. Stored(<<kind, c>>)'
      BY <2>1, <3>1, <3>2, <3>3, StoredStays
    <3>5. Stored(Target(p))' <=> Stored(<<kind, c>>)'
      BY <1>3, <3>3 DEF Target
    <3> QED BY <1>3, <2>1, <3>4, <3>5
  <2>2. CASE press[p].at = "missing"
    BY <1>1, <1>2, <1>3, <2>2 DEF PressKnown, MissingMeansGone
  <2> QED BY <1>3, <2>1, <2>2
<1>4. CASE press'[p] # press[p] /\ press'[p].at \in {"reread", "missing"}
  <2>1. Growing
    BY <1>4, RemovingStep, StepKinds
  <2>2. /\ press[p].at \in {"insert", "reread"}
        /\ press'[p].kind = press[p].kind /\ press'[p].call = press[p].call
        /\ UNCHANGED <<stored, row>>
        /\ press'[p].at = "reread" => press[p].call \notin stored \/ Stored(Target(p))
        /\ press'[p].at = "missing" =>
             \/ press[p].call \notin stored
             \/ press[p].at = "reread" /\ ~Stored(Target(p))
    BY <1>1, <1>4, <2>1, LosingPress
  <2>3. press[p].at = "reread" /\ press[p].call \in stored => Stored(Target(p))
    BY <1>1 DEF WinnerIsThere
  <2> QED BY <2>2, <2>3 DEF Stored, Exists, Link, Target
<1> QED BY <1>3, <1>4

LEMMA InvStep == IInv /\ [Next]_vars => IInv'
BY TypesStep, RowShapeStep, PlayedByOwnerStep, ReversesFoundStep, WithdrawalStep, LooseStep,
   StoredIsAgreedStep, ReverseIsAgreedStep, PressesStep DEF IInv

LEMMA Invariance == Spec => []IInv
<1>1. Init => IInv
  BY InvInit
<1>2. IInv /\ [Next]_vars => IInv'
  BY InvStep
<1> QED BY <1>1, <1>2, PTL DEF Spec

-----------------------------------------------------------------------------
(* What holds of every instance *)

\* Every variable keeps its type, whatever is decided, played, pressed for, swept or
\* deleted in between (backend/session/persistence.py, backend/library.py,
\* backend/deletion.py, backend/retention.py).
THEOREM TypeCorrect == Spec => []TypeOK
<1>1. IInv => TypeOK
  BY DEF IInv, Typed
<1> QED BY <1>1, Invariance, PTL

\* Nothing spoken outlives the agreement to keep it: neither a Session nor a reverse
\* briefing of a subject who never agreed or took the agreement back, however often the
\* notice changes meanwhile.  The per-subject lock is what makes it so
\* (backend/consent.py, persistence.py).
THEOREM ConsentCovers == Spec => []NothingKeptWithoutConsent
<1>1. IInv => NothingKeptWithoutConsent
  <2> SUFFICES ASSUME IInv, NEW u \in Subjects, ~Agreed(u)
               PROVE  /\ Export(u).sessions = {}
                      /\ \A i \in Export(u).scenarios : ScenarioKind(i) # "reverse"
    BY DEF NothingKeptWithoutConsent
  <2>1. OwnedBy(u) = {}
    BY DEF IInv, Typed, TypeOK, StoredIsAgreed, OwnedBy
  <2>2. \A i \in Ids : Exists(i) /\ row[i].by = u => ~row[i].reverse
    BY DEF IInv, ReverseIsAgreed
  <2> QED BY <2>1, <2>2 DEF Export, ScenarioKind
<1> QED BY <1>1, Invariance, PTL

\* A press is told that its call is unknown only once it is: the loser of the race
\* for the UNIQUE link finds the winner's row (backend/library.py:310).
THEOREM MissingIsTrue == Spec => []MissingMeansGone
<1>1. IInv => MissingMeansGone
  BY DEF IInv
<1> QED BY <1>1, Invariance, PTL

\* No withdrawal and no single deletion is taken back by a row that is still played
\* (backend/deletion.py:94, :105): only its author plays a reverse, and the author's calls
\* wait for the lock.  A sweep may be: an orphan is found unplayed and
\* then deleted, and a call that plays it may be stored in between.
THEOREM DeletionsGoThrough == Spec => DeletionIsNeverRefused
<1>1. IInv /\ [Next]_vars =>
        [/\ FinishDelete => job["single"].sessions \cap stored' = {}
         /\ FinishWithdrawal => consent'[job["withdrawal"].subject] = "withdrawn"]_vars
  <2> SUFFICES ASSUME IInv
               PROVE  /\ FinishDelete => job["single"].sessions \cap stored' = {}
                      /\ FinishWithdrawal => consent'[job["withdrawal"].subject] = "withdrawn"
    OBVIOUS
  <2>1. FinishDelete => job["single"].sessions \cap stored' = {}
    BY DEF FinishDelete, Commit
  <2>2. ASSUME FinishWithdrawal PROVE consent'[job["withdrawal"].subject] = "withdrawn"
    <3>1. job["withdrawal"].on /\ Commit("withdrawal", Gone("withdrawal"))
      BY <2>2 DEF FinishWithdrawal, Gone
    <3>2. Gone("withdrawal") \cap Played(stored \ job["withdrawal"].sessions) = {}
      BY <3>1, GoneIsUnplayed DEF Jobs, Allowed
    <3>3. job["withdrawal"].subject \in Subjects /\ consent \in [Subjects -> {"none", "stale", "granted", "withdrawn"}]
      BY <3>1 DEF IInv, WithdrawalHoldsAll, Typed, TypeOK
    <3> QED BY <3>1, <3>2, <3>3 DEF Commit
  <2> QED BY <2>1, <2>2
<1> QED BY <1>1, Invariance, PTL DEF Spec, DeletionIsNeverRefused

-----------------------------------------------------------------------------
(* Storage implements ConsentedStorage *)

Agreeing == {u \in Subjects : Agreed(u)}
Informed == {u \in Subjects : AllowsStorage(u)}
Kept == {<<call[c].subject, c>> : c \in stored}

LEMMA PromiseInit == Init => Promise!Init
BY DEF Init, Promise!Init, AllowsStorage, Agreed

\* While calls are made, decisions taken and scenarios pressed for, something is agreed
\* to, something is kept, the notice changes, or nothing happens.
LEMMA GrowingKeepsPromise ==
    ASSUME IInv, Growing
    PROVE  \/ /\ Kept' = Kept
              /\ \/ Agreeing' = Agreeing /\ Informed' \in {Informed, {}}
                 \/ \E u \in Subjects : /\ Agreeing' = Agreeing \cup {u}
                                        /\ Informed' = Informed \cup {u}
           \/ /\ Agreeing' = Agreeing /\ Informed' = Informed
              /\ \E u \in Informed, c \in Calls : Kept' = Kept \cup {<<u, c>>}
<1>1. /\ Typed
      /\ call \in [Calls -> {NoCall} \cup [at : {"live", "writing", "closed"},
                                          subject : Subjects, scenario : Ids]]
      /\ stored \subseteq {d \in Calls : call[d].at = "closed"}
      /\ consent \in [Subjects -> {"none", "stale", "granted", "withdrawn"}]
  BY DEF IInv, Typed, TypeOK
<1>2. CallsGoOn
  BY <1>1, GrowingCalls
<1>3. ASSUME stored' = stored PROVE Kept' = Kept
  BY <1>1, <1>2, <1>3 DEF Kept, CallsGoOn
<1>4. ASSUME UNCHANGED consent PROVE Agreeing' = Agreeing /\ Informed' = Informed
  BY <1>4 DEF Agreeing, Informed, AllowsStorage, Agreed
<1>5. ASSUME NEW u \in Subjects, Grant(u)
      PROVE  /\ Kept' = Kept
             /\ Agreeing' = Agreeing \cup {u} /\ Informed' = Informed \cup {u}
  BY <1>1, <1>3, <1>5 DEF Grant, Agreeing, Informed, AllowsStorage, Agreed
<1>6. ASSUME NEW c \in Calls, Write(c)
      PROVE  /\ Agreeing' = Agreeing /\ Informed' = Informed
             /\ Kept' = Kept \/ \E u \in Informed : Kept' = Kept \cup {<<u, c>>}
  <2>1. Agreeing' = Agreeing /\ Informed' = Informed
    BY <1>4, <1>6 DEF Write
  <2>2. CASE stored' = stored
    BY <1>3, <2>1, <2>2
  <2>3. CASE stored' = stored \cup {c}
    <3>1. call[c].subject \in Informed
      BY <1>1, <1>6 DEF Write, IInv, StoredIsAgreed, Informed, NoCall
    <3>2. \A d \in stored \cup {c} : call'[d].subject = call[d].subject
      BY <1>1, <1>2, <1>6 DEF Write, CallsGoOn
    <3>3. Kept' = Kept \cup {<<call[c].subject, c>>}
      BY <2>3, <3>2 DEF Kept
    <3> QED BY <2>1, <3>1, <3>3
  <2> QED BY <1>6, <2>2, <2>3 DEF Write
<1>7. CASE UNCHANGED vars \/ Editing \/ StartSweep \/ \E x \in Calls \cup Ids : Age(x)
  BY <1>3, <1>4, <1>7 DEF vars, Editing, Deactivate, SetVisibility, StartSweep, StartJob, Age
<1>8. CASE Pressing
  BY <1>3, <1>4, <1>8 DEF Pressing, Restore, Reactivate, Drafted, Insert, Reread, Press, InsertElsewhere
<1>9. CASE Deciding
  BY <1>3, <1>4, <1>5, <1>9 DEF Deciding, StartWithdrawal, StartJob, HourPasses, SetAutoDelete
<1>10. CASE Calling
  BY <1>3, <1>4, <1>6, <1>10 DEF Calling, CheckConsent, StartDelete, StartJob, StartCall
<1>11. CASE Aside
  BY <1>1, <1>3, <1>4, <1>11, AsideStep
<1>12. CASE NewNotice
  <2>1. stored' = stored
    BY <1>12 DEF NewNotice
  <2>2. Agreeing' = Agreeing /\ Informed' = {}
    BY <1>1, <1>12 DEF NewNotice, Agreeing, Informed, AllowsStorage, Agreed
  <2> QED BY <1>3, <2>1, <2>2
<1> QED BY <1>7, <1>8, <1>9, <1>10, <1>11, <1>12 DEF Growing

\* The end of a deletion forgets something; that of a withdrawal all of one subject.
LEMMA RemovingKeepsPromise ==
    ASSUME IInv, Removing
    PROVE  \/ Agreeing' = Agreeing /\ Informed' = Informed /\ Kept' \subseteq Kept
           \/ \E u \in Subjects : /\ Agreeing' = Agreeing \ {u}
                                  /\ Informed' = Informed \ {u}
                                  /\ Kept' = Kept \ ({u} \X Calls)
<1>1. /\ stored \subseteq Calls
      /\ consent \in [Subjects -> {"none", "stale", "granted", "withdrawn"}]
  BY DEF IInv, Typed, TypeOK
<1>2. PICK k \in Jobs :
        /\ k = "sweep" \/ job[k].on
        /\ stored' = stored \ job[k].sessions
        /\ consent' = IF k = "withdrawal"
                      THEN [consent EXCEPT ![job[k].subject] = "withdrawn"] ELSE consent
        /\ UNCHANGED call
  BY RemovingStep
<1>3. Kept' = {<<call[c].subject, c>> : c \in stored \ job[k].sessions}
  BY <1>2 DEF Kept
<1>4. CASE k # "withdrawal"
  BY <1>2, <1>3, <1>4 DEF Kept, Agreeing, Informed, AllowsStorage, Agreed
<1>5. CASE k = "withdrawal"
  <2> DEFINE u == job[k].subject
  <2>1. /\ u \in Subjects /\ OwnedBy(u) \subseteq job[k].sessions
        /\ \A c \in job[k].sessions : call[c].subject = u
    BY <1>2, <1>5 DEF IInv, WithdrawalHoldsAll
  <2>2. Agreeing' = Agreeing \ {u} /\ Informed' = Informed \ {u}
    BY <1>1, <1>2, <1>5, <2>1 DEF Agreeing, Informed, AllowsStorage, Agreed
  <2>3. Kept' = Kept \ ({u} \X Calls)
    BY <1>1, <1>3, <2>1 DEF Kept, OwnedBy
  <2> QED BY <2>1, <2>2, <2>3
<1> QED BY <1>4, <1>5

LEMMA PromiseStep == IInv /\ [Next]_vars => [Promise!Next]_(Promise!vars)
<1> SUFFICES ASSUME IInv, [Next]_vars PROVE [Promise!Next]_(Promise!vars)
  OBVIOUS
<1> USE DEF Promise!Next, Promise!vars, Promise!Agree, Promise!Keep, Promise!Forget,
            Promise!Withdraw, Promise!Of, Promise!NewNotice
<1>1. CASE Growing
  BY <1>1, GrowingKeepsPromise DEF Agreeing, Informed, Kept
<1>2. CASE Removing
  BY <1>2, RemovingKeepsPromise DEF Agreeing, Informed, Kept
<1> QED BY <1>1, <1>2, StepKinds

\* Every behaviour of the tables, locks and transactions is one of the abstract
\* promise: a training is taken in only under the notice in force, kept only while its
\* subject agrees, and taking the agreement back forgets everything of its subject at
\* once (ADR 0066, 0067).
THEOREM Implementation == Spec => ImplementsPromise
<1>1. Init => Promise!Init
  BY PromiseInit
<1>2. IInv /\ [Next]_vars => [Promise!Next]_(Promise!vars)
  BY PromiseStep
<1> QED BY <1>1, <1>2, Invariance, PTL DEF Spec, Promise!Spec, ImplementsPromise
=============================================================================
