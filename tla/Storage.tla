------------------------------- MODULE Storage -------------------------------
(* What outlives a call: the consent log, the stored Sessions, the scenario *)
(* rows built from them, and everything that removes them again.  Postgres  *)
(* runs at READ COMMITTED: every statement sees what is committed when it   *)
(* starts, so the transactions that more than one actor can hit half-way    *)
(* take several steps here and hold their row and advisory locks between.  *)
EXTENDS Naturals, FiniteSets

CONSTANTS
    Subjects,   \* verified token subjects
    Company,    \* those whose token names an Organization; one company
    Calls,      \* calls, by the id the client got before the row exists
    Long,       \* those with at least MIN_USER_UTTERANCES utterances
    Kinds,      \* what is asked for: "reverse", "follow_up" or both
    Presses,    \* the requests for it
    DraftCap    \* SCENARIO_DRAFTS_PER_HOUR

ASSUME BoundsAssumption == /\ DraftCap \in Nat
                           /\ Long \subseteq Calls
                           /\ Company \subseteq Subjects
                           /\ Kinds \subseteq {"follow_up", "reverse"}

Null == "null"

ASSUME NullAssumption == Null \notin Subjects \cup Calls

Base == <<"built_in", Null>>
Derived == Kinds \X Calls          \* at most one row per kind and call (UNIQUE)
Ids == {Base} \cup Derived
Jobs == {"withdrawal", "single", "sweep"}

VARIABLES
    consent,    \* the newest row of the log, per subject
    autoDelete, \* the retention preference
    call,       \* each call: its stage, its subject and the scenario played
    stored,     \* the calls that have a Session row
    old,        \* the calls and rows created before the retention boundary
    row,        \* the scenario table
    press,      \* each request for a derived scenario
    drafts,     \* drafts counted in the last hour, earlier presses included
    job         \* the deleting transactions under way

vars == <<consent, autoDelete, call, stored, old, row, press, drafts, job>>

Absent == [by |-> Null]
Row == [by : Subjects \cup {Null}, visibility : {"private", "tenant", "public"},
        active : BOOLEAN, derived : Calls \cup {Null}, reverse : BOOLEAN,
        origin : Calls \cup {Null}]
BuiltIn == [by |-> Null, visibility |-> "public", active |-> TRUE,
            derived |-> Null, reverse |-> FALSE, origin |-> Null]
Private(u) == [BuiltIn EXCEPT !.by = u, !.visibility = "private"]

NoCall == [at |-> "idle", subject |-> Null, scenario |-> Null]
NoPress == [at |-> "idle", kind |-> Null, call |-> Null, dirty |-> FALSE]
NoJob == [on |-> FALSE, sessions |-> {}, retired |-> {}, reverses |-> {}, subject |-> Null,
          looked |-> FALSE, doomed |-> {}]

Exists(i) == row[i] # Absent
OwnedBy(u) == {c \in stored : call[c].subject = u}
Link(i) == IF row[i].reverse THEN row[i].origin ELSE row[i].derived

TypeOK ==
    /\ consent \in [Subjects -> {"none", "stale", "granted", "withdrawn"}]
    /\ autoDelete \in [Subjects -> BOOLEAN]
    /\ call \in [Calls -> {NoCall} \cup [at : {"live", "writing", "closed"},
                                         subject : Subjects, scenario : Ids]]
    /\ stored \subseteq {c \in Calls : call[c].at = "closed"}
    /\ old \subseteq Calls \cup Derived
    /\ row \in [Ids -> {Absent} \cup Row]
    /\ press \in [Presses ->
          [at : {"idle", "restore", "update", "draft", "insert", "reread",
                 "done", "missing"},
           kind : Kinds \cup {Null}, call : Calls \cup {Null}, dirty : BOOLEAN]]
    /\ drafts \in [Subjects -> 0 .. DraftCap]
    /\ job \in [Jobs -> [on : BOOLEAN, sessions : SUBSET Calls, retired : SUBSET Ids,
                         reverses : SUBSET Ids, subject : Subjects \cup {Null},
                         looked : BOOLEAN, doomed : SUBSET Ids]]

-----------------------------------------------------------------------------
(* Locks.                                                                   *)

AllowsStorage(u) == consent[u] = "granted"

(* The per-subject advisory lock, held to the end of its transaction.       *)
\* Mutant of LockFree: a withdrawal takes no lock, or a call does not wait for it.
LockFreeOfCalls(u) == \A c \in Calls : call[c].at = "writing" => call[c].subject # u
LockFree(u) == /\ ~ (job["withdrawal"].on /\ job["withdrawal"].subject = u)
               /\ \A c \in Calls : call[c].at = "writing" => call[c].subject # u

(* A Session that a sweep has deleted and not committed is locked, and with *)
(* it the rows whose UNIQUE link to it the database has cleared: not even a *)
(* foreign key may point at either until the sweep is over.                 *)
SessionFree(c) == ~ (job["sweep"].looked /\ c \in job["sweep"].sessions)
KeyFree(i) ==
    Exists(i) => \A c \in Calls : SessionFree(c) \/ c \notin {row[i].derived, row[i].origin}

(* A follow-up that an open transaction has retired stays locked, too.      *)
RowFree(i) == KeyFree(i) /\ \A k \in Jobs : i \notin job[k].retired

-----------------------------------------------------------------------------
(* Decisions.                                                               *)

Grant(u) == /\ LockFree(u)
            /\ consent' = [consent EXCEPT ![u] = "granted"]
            /\ UNCHANGED <<autoDelete, call, stored, old, row, press, drafts, job>>

SetAutoDelete(u, enabled) ==
    /\ autoDelete' = [autoDelete EXCEPT ![u] = enabled]
    /\ UNCHANGED <<consent, call, stored, old, row, press, drafts, job>>

-----------------------------------------------------------------------------
(* A call and its row.                                                      *)

VisibleTo(u, i) ==
    \/ row[i].visibility = "public"
    \/ row[i].visibility = "tenant" /\ {u, row[i].by} \subseteq Company
    \/ row[i].by = u

Playable(u) == {i \in Ids : Exists(i) /\ row[i].active /\ VisibleTo(u, i)}

StartCall(u, c, i) ==
    /\ call[c].at = "idle"
    /\ i \in Playable(u)
    /\ call' = [call EXCEPT ![c] = [at |-> "live", subject |-> u, scenario |-> i]]
    /\ UNCHANGED <<consent, autoDelete, stored, old, row, press, drafts, job>>

(* persist_session takes the lock, then reads the decision in force.        *)
CheckConsent(c) ==
    LET u == call[c].subject IN
    /\ call[c].at = "live"
    /\ LockFree(u)
    /\ call' = [call EXCEPT ![c].at = IF AllowsStorage(u) THEN "writing" ELSE "closed"]
    /\ UNCHANGED <<consent, autoDelete, stored, old, row, press, drafts, job>>

(* The insert, refused when the scenario is gone; or the process dies.      *)
Write(c) ==
    /\ call[c].at = "writing"
    /\ KeyFree(call[c].scenario)
    /\ call' = [call EXCEPT ![c].at = "closed"]
    /\ \/ Exists(call[c].scenario) /\ stored' = stored \cup {c}
       \/ UNCHANGED stored
    /\ UNCHANGED <<consent, autoDelete, old, row, press, drafts, job>>

-----------------------------------------------------------------------------
(* The library: what a user may do to a row (hand-written ones: Library).   *)

AuthoredOnly(i) == ~ row[i].reverse /\ row[i].derived = Null

SetVisibility(u, i, visibility) ==
    /\ visibility = "tenant" => u \in Company
    /\ row[i].by = u /\ AuthoredOnly(i) /\ RowFree(i)
    /\ row' = [row EXCEPT ![i].visibility = visibility]
    /\ UNCHANGED <<consent, autoDelete, call, stored, old, press, drafts, job>>

Deactivate(u, i) ==
    /\ row[i].by = u /\ RowFree(i)
    /\ row' = [row EXCEPT ![i].active = FALSE]
    /\ UNCHANGED <<consent, autoDelete, call, stored, old, press, drafts, job>>

-----------------------------------------------------------------------------
(* A reverse or a follow-up on request: library calls in threads, a model   *)
(* call between them, nothing locked from one to the next.                  *)

Target(p) == <<press[p].kind, press[p].call>>
\* Mutant of Stored: a retired row is not found again.
StoredActive(i) == Exists(i) /\ Link(i) # Null /\ row[i].active
Stored(i) == Exists(i) /\ Link(i) # Null
Presser(p) == call[press[p].call].subject
Goto(p, at) == press' = [press EXCEPT ![p].at = at]
Respond(p) == press' = [press EXCEPT ![p] = [NoPress EXCEPT !.at = "done"]]

(* The material: only the caller's own Session; not a reverse of a reverse; *)
(* not too short, and for a follow-up not without improvement points.       *)
Press(p, kind, c) ==
    /\ press[p].at = "idle"
    /\ c \in stored
    /\ \/ /\ c \in Long
          /\ ~ (kind = "reverse" /\ row[call[c].scenario].reverse)
          /\ press' = [press EXCEPT ![p] =
                         [at |-> "restore", kind |-> kind, call |-> c, dirty |-> FALSE]]
       \/ Respond(p)
    /\ UNCHANGED <<consent, autoDelete, call, stored, old, row, drafts, job>>

\* Mutant of MayDraft: the cap is off by one.
MayDraftOnceMore(u) == drafts[u] <= DraftCap
MayDraft(u) == drafts[u] < DraftCap

(* The row this Session already produced; without one the hourly cap is     *)
(* charged and a draft is asked for.                                        *)
Restore(p) ==
    LET u == Presser(p) IN
    /\ press[p].at = "restore"
    /\ IF Stored(Target(p))
       THEN /\ press' = [press EXCEPT ![p].at = "update", ![p].dirty = ~ row[Target(p)].active]
            /\ UNCHANGED drafts
       ELSE IF MayDraft(u)
            THEN Goto(p, "draft") /\ drafts' = [drafts EXCEPT ![u] = @ + 1]
            ELSE Respond(p) /\ UNCHANGED drafts
    /\ UNCHANGED <<consent, autoDelete, call, stored, old, row, job>>

(* The flush of `active = True`, by primary key: it waits for a lock, it    *)
(* does not look at the link again, and a row deleted meanwhile is an error.*)
Reactivate(p) ==
    LET i == Target(p) IN
    /\ press[p].at = "update"
    /\ press[p].dirty => RowFree(i)
    /\ row' = IF press[p].dirty /\ Exists(i) THEN [row EXCEPT ![i].active = TRUE] ELSE row
    /\ Respond(p)
    /\ UNCHANGED <<consent, autoDelete, call, stored, old, drafts, job>>

Drafted(p) == /\ press[p].at = "draft"
              /\ Goto(p, "insert") \/ Respond(p)
              /\ UNCHANGED <<consent, autoDelete, call, stored, old, row, drafts, job>>

NewRow(u, kind, c) == IF kind = "reverse"
                      THEN [Private(u) EXCEPT !.reverse = TRUE, !.origin = c]
                      ELSE [Private(u) EXCEPT !.derived = c]

(* The insert: a foreign key or the UNIQUE link refuses it.  A reverse      *)
(* looks for its origin first and answers 404 by itself.                    *)
Insert(p) ==
    LET i == Target(p)  c == press[p].call  kind == press[p].kind IN
    /\ press[p].at = "insert" /\ SessionFree(c)
    /\ IF c \in stored /\ ~ Stored(i)
       THEN /\ row' = [row EXCEPT ![i] = NewRow(Presser(p), kind, c)]
            /\ Respond(p)
       ELSE /\ Goto(p, IF kind = "reverse" /\ c \notin stored THEN "missing" ELSE "reread")
            /\ UNCHANGED row
    /\ UNCHANGED <<consent, autoDelete, call, stored, old, drafts, job>>

(* The same button in another tab while the first waits for its draft; of   *)
(* that request only the insert is followed.                                *)
InsertElsewhere(kind, c) ==
    /\ c \in stored /\ ~ Stored(<<kind, c>>) /\ SessionFree(c)
    /\ \E p \in Presses : press[p] = [NoPress EXCEPT !.at = "insert", !.kind = kind, !.call = c]
    /\ row' = [row EXCEPT ![<<kind, c>>] = NewRow(call[c].subject, kind, c)]
    /\ UNCHANGED <<consent, autoDelete, call, stored, old, press, drafts, job>>

(* After the IntegrityError: the winner's row, or None.                     *)
Reread(p) ==
    /\ press[p].at = "reread"
    /\ press' = IF Stored(Target(p))
                THEN [press EXCEPT ![p].at = "update", ![p].dirty = ~ row[Target(p)].active]
                ELSE [press EXCEPT ![p].at = "missing"]
    /\ UNCHANGED <<consent, autoDelete, call, stored, old, row, drafts, job>>

HourPasses(u) == /\ drafts[u] > 0
                 /\ drafts' = [drafts EXCEPT ![u] = @ - 1]
                 /\ UNCHANGED <<consent, autoDelete, call, stored, old, row, press, job>>

-----------------------------------------------------------------------------
(* Removing: first the reads and the retiring UPDATE, then the DELETEs and  *)
(* the commit.  What a withdrawal or a single deletion decides on from its  *)
(* DELETE of the Sessions on is locked to its commit: one step.             *)

FollowUpsOf(sessions) == {i \in Ids : Exists(i) /\ row[i].derived \in sessions}
ReversesOf(sessions) == {i \in Ids : Exists(i) /\ row[i].origin \in sessions}
Collected(sessions, u) == [on |-> TRUE, sessions |-> sessions, subject |-> u,
                           retired |-> FollowUpsOf(sessions),
                           reverses |-> ReversesOf(sessions),
                           looked |-> FALSE, doomed |-> {}]

StartJob(k, sessions, u) ==
    /\ ~ job[k].on
    /\ \A i \in FollowUpsOf(sessions) : RowFree(i)
    /\ job' = [job EXCEPT ![k] = Collected(sessions, u)]
    /\ UNCHANGED <<consent, autoDelete, call, stored, old, row, press, drafts>>

StartWithdrawal(u) == /\ LockFree(u)
                      /\ StartJob("withdrawal", OwnedBy(u), u)

StartDelete(c) == /\ c \in stored
                  /\ StartJob("single", {c}, call[c].subject)

Expired == {c \in stored \cap old : autoDelete[call[c].subject]}
StartSweep == StartJob("sweep", Expired, Null)

(* The Sessions go and the database clears the links to them.               *)
Unlinked(r, gone) == [r EXCEPT !.derived = IF @ \in gone THEN Null ELSE @,
                               !.origin = IF @ \in gone THEN Null ELSE @]
AfterRemove(k) ==
    [i \in Ids |->
        IF ~ Exists(i) THEN Absent
        ELSE Unlinked([row[i] EXCEPT !.active = @ /\ i \notin job[k].retired],
                      job[k].sessions)]
Played(kept) == {call[c].scenario : c \in kept}
Without(table, gone) == [i \in Ids |-> IF i \in gone THEN Absent ELSE table[i]]

(* A row that is still played refuses its deletion, and the exception takes *)
(* the whole transaction back.                                              *)
Commit(k, gone) ==
    LET kept == stored \ job[k].sessions IN
    /\ k # "sweep" => \A c \in job[k].sessions : SessionFree(c)
    /\ IF gone \cap Played(kept) = {}
       THEN /\ stored' = kept
            /\ row' = Without(AfterRemove(k), gone)
            /\ old' = old \ (job[k].sessions \cup gone)
            /\ consent' = IF k = "withdrawal"
                          THEN [consent EXCEPT ![job[k].subject] = "withdrawn"]
                          ELSE consent
       ELSE UNCHANGED <<stored, row, old, consent>>
    /\ job' = [job EXCEPT ![k] = NoJob]
    /\ UNCHANGED <<autoDelete, call, press, drafts>>

Unreferenced(ids, kept) == ids \ Played(kept)

FinishDelete == job["single"].on /\ Commit("single", {})

(* Withdrawal also takes the reverses an earlier single deletion untied.    *)
\* Mutant of ReversesBy: reverses whose origin is already gone are missed.
ReversesStillLinked(u) == {i \in Ids : Exists(i) /\ row[i].by = u /\ row[i].origin # Null}
ReversesBy(u) == {i \in Ids : Exists(i) /\ row[i].by = u /\ row[i].reverse}
FinishWithdrawal ==
    LET j == job["withdrawal"] IN
    /\ j.on
    /\ Commit("withdrawal", Unreferenced(j.reverses, stored \ j.sessions)
                               \cup ReversesBy(j.subject))

(* Orphans are found by age once the link is gone, those just untied too.   *)
\* Mutant of OrphanedReverses: orphans of earlier runs are never looked for.
OrphanedReversesOfThisRun(gone) ==
    {i \in Ids \cap old : Exists(i) /\ row[i].reverse /\ row[i].origin \in gone}
OrphanedReverses(gone) ==
    {i \in Ids \cap old : Exists(i) /\ row[i].reverse /\ row[i].origin \in gone \cup {Null}}

(* The Sessions are deleted and the unplayed reverses looked up; those of   *)
(* its own Sessions are locked by then, earlier orphans are not.            *)
LookSweep ==
    LET j == job["sweep"]  kept == stored \ j.sessions IN
    /\ j.on /\ ~ j.looked
    /\ job' = [job EXCEPT !["sweep"].looked = TRUE,
                          !["sweep"].doomed =
                             Unreferenced(j.reverses \cup OrphanedReverses(j.sessions), kept)]
    /\ UNCHANGED <<consent, autoDelete, call, stored, old, row, press, drafts>>

FinishSweep == job["sweep"].looked /\ Commit("sweep", job["sweep"].doomed)

(* Six months pass; a reverse is younger than the Session it was made from. *)
Age(x) == /\ x \notin old
          /\ x \in stored \cup {i \in Ids : Exists(i) /\ row[i].reverse}
          /\ \A c \in stored : x = <<"reverse", c>> => c \in old
          /\ old' = old \cup {x}
          /\ UNCHANGED <<consent, autoDelete, call, stored, row, press, drafts, job>>

-----------------------------------------------------------------------------
(* A release with a new notice: CURRENT_VERSION is raised and every earlier *)
(* grant goes stale, what was stored under it stays.  The backend starts    *)
(* anew, so calls, presses and transactions under way are cut off; a sweep  *)
(* may be the script's, and one cut off is as one not begun.                *)
NewNotice ==
    /\ consent' = [u \in Subjects |-> IF AllowsStorage(u) THEN "stale" ELSE consent[u]]
    /\ call' = [c \in Calls |-> IF call[c].at = "idle" THEN NoCall
                                 ELSE [call[c] EXCEPT !.at = "closed"]]
    /\ press' = [p \in Presses |-> IF press[p].at = "idle" THEN NoPress
                                   ELSE [NoPress EXCEPT !.at = "done"]]
    /\ drafts' = [u \in Subjects |-> 0]
    /\ job' = [k \in Jobs |-> IF k = "sweep" THEN job[k] ELSE NoJob]
    /\ UNCHANGED <<autoDelete, stored, old, row>>

-----------------------------------------------------------------------------
(* What the account page lets a subject take away.                          *)

ScenarioKind(i) == IF row[i].reverse THEN "reverse"
                   ELSE IF row[i].derived # Null THEN "follow_up" ELSE "authored"
Export(u) == [sessions |-> OwnedBy(u),
              scenarios |-> {i \in Ids : Exists(i) /\ row[i].by = u},
              consent |-> consent[u], retention |-> autoDelete[u]]

-----------------------------------------------------------------------------

Init == /\ consent \in [Subjects -> {"none", "stale"}]
        /\ autoDelete = [u \in Subjects |-> TRUE]
        /\ call = [c \in Calls |-> NoCall]
        /\ stored = {} /\ old = {}
        /\ row = [i \in Ids |-> IF i = Base THEN BuiltIn ELSE Absent]
        /\ press = [p \in Presses |-> NoPress]
        /\ drafts \in [Subjects -> 0 .. DraftCap]
        /\ job = [k \in Jobs |-> NoJob]

Deciding == \E u \in Subjects : \/ Grant(u) \/ StartWithdrawal(u) \/ HourPasses(u)
                                \/ \E enabled \in BOOLEAN : SetAutoDelete(u, enabled)
Calling == \E c \in Calls : \/ CheckConsent(c) \/ Write(c) \/ StartDelete(c)
                            \/ \E u \in Subjects, i \in Ids : StartCall(u, c, i)
Editing == \E u \in Subjects, i \in Ids :
              \/ Deactivate(u, i)
              \/ \E v \in {"private", "tenant"} : SetVisibility(u, i, v)
Pressing == \E p \in Presses :
              \/ Restore(p) \/ Reactivate(p) \/ Drafted(p) \/ Insert(p) \/ Reread(p)
              \/ \E kind \in Kinds, c \in Calls : Press(p, kind, c) \/ InsertElsewhere(kind, c)
Sweeping == StartSweep \/ LookSweep \/ FinishSweep

Next == \/ Deciding \/ Calling \/ Editing \/ Pressing \/ Sweeping
        \/ FinishDelete \/ FinishWithdrawal \/ NewNotice
        \/ \E x \in Calls \cup Ids : Age(x)

Spec == Init /\ [][Next]_vars

(* The sweep runs daily, and a transaction once begun ends.                 *)
Fairness == WF_vars(Sweeping) /\ WF_vars(FinishDelete) /\ WF_vars(FinishWithdrawal)
FairSpec == Spec /\ Fairness

-----------------------------------------------------------------------------
(* Properties.                                                              *)

Agreed(u) == consent[u] \in {"granted", "stale"}

(* Nothing spoken outlives the agreement: the export of a subject who never *)
(* agreed, or who took the agreement back, shows no Session and no reverse  *)
(* briefing, whatever was being written, pressed for or swept while they    *)
(* withdrew.  A grant of an earlier notice lets stored trainings stay (ADR  *)
(* 0066): only a withdrawal removes them.                                   *)
NothingKeptWithoutConsent ==
    \A u \in Subjects :
        ~ Agreed(u) => /\ Export(u).sessions = {}
                       /\ \A i \in Export(u).scenarios : ScenarioKind(i) # "reverse"

(* Storage implements the abstract promise: what is added is added under a  *)
(* grant of the notice in force, and withdrawing forgets all at once.       *)
Promise == INSTANCE ConsentedStorage
              WITH agreed <- {u \in Subjects : Agreed(u)},
                   informed <- {u \in Subjects : AllowsStorage(u)},
                   kept <- {<<call[c].subject, c>> : c \in stored}
ImplementsPromise == Promise!Spec

(* A press that lost its race is answered with the row the winner stored:   *)
(* "unknown session" is told only of a call that is really gone.            *)
MissingMeansGone ==
    \A p \in Presses : press[p].at = "missing" => press[p].call \notin stored

(* A row that is still played would refuse its deletion and take the whole  *)
(* transaction back.  No withdrawal and no deletion of one training ends    *)
(* that way: only its author ever plays a reverse, and the author's calls   *)
(* wait for the lock.  (The sweep may: an orphan it found unplayed may be   *)
(* played by a call that is stored before the DELETE.)                      *)
DeletionIsNeverRefused ==
    [][/\ FinishDelete => job["single"].sessions \cap stored' = {}
       /\ FinishWithdrawal => consent'[job["withdrawal"].subject] = "withdrawn"]_vars

(* A reverse that lost its origin is collected once it is old and unplayed. *)
OrphanIsCollected ==
    \A c \in Long :
        LET i == <<"reverse", c>> IN
        (Exists(i) /\ row[i].origin = Null /\ i \in old)
            ~> (~ Exists(i) \/ i \in Played(stored))
=============================================================================
