-------------------------------- MODULE Library --------------------------------
(***************************************************************************)
(* The training around the calls: accounts that change company, the rows of *)
(* the scenario table they write, share, retire and read                    *)
(* (backend/library.py), what they want to practise (backend/focus.py), the *)
(* connections they open and the slots these hold (backend/limits.py,       *)
(* api/session_ws.py), the stored calls, their wrap-ups and the Scenarios   *)
(* made of them (api/sessions.py), and the deployment that re-seeds it all  *)
(* (backend/db/provision.py).                                               *)
(*                                                                          *)
(* A request is one step here, but for the two that another can come        *)
(* between: what is made of a call is drafted and then inserted, or found   *)
(* and then woken, and a call's follow-ups are retired before the call is   *)
(* deleted, in one transaction that others see the end of.  Consent, the    *)
(* sweep and two presses at once are in Storage, the wrap-up's row in       *)
(* WrapupJob.                                                               *)
(***************************************************************************)
EXTENDS Access, Suggestions, ModelAnswers, CoachPrompts, Sequences

CONSTANTS
    Subjects, Conns,
    Accounts,           \* the tokens a subject may come to hold
    Releases,           \* [goals, scenarios]: what a version of the seed holds
    Answers,            \* what the model may answer
    BuiltIns,           \* the categories of the built-ins, their ids in front
    MaxGoals, MaxOpenCalls, MaxDrafts,
    MaxRows, MaxCalls, MaxSteps     \* bounds of the model

ASSUME LibraryAssumption ==
    /\ Nobody \notin Subjects /\ IsFiniteSet(Conns)
    /\ Accounts \subseteq Tokens
    /\ BuiltIns \in Seq(Categories) /\ Len(BuiltIns) <= MaxRows
    /\ Releases \subseteq [goals: SUBSET Goals, scenarios: SUBSET (1 .. Len(BuiltIns))]
    /\ Answers \subseteq [kind: {"object", "partial", "bare", "broken", "prose", "blank", "outage"},
                          points: SUBSET [kind: PointKinds, turn: {"own", "foreign", "none"},
                                          goal: Goals \cup {NoGoal, "invented"}]]
    /\ MaxGoals \in Nat /\ MaxOpenCalls \in Nat \ {0} /\ MaxDrafts \in Nat
    /\ MaxRows \in Nat /\ MaxCalls \in Nat /\ MaxSteps \in Nat

VARIABLES
    tokens,     \* what each subject's token says
    tenants,    \* the registered companies
    rows,       \* the scenario table, in the order of creation
    profile,    \* the focus selections
    catalogue,  \* the active goals
    conns,      \* the sockets
    open,       \* CallSlots._open
    drafts,     \* drafts of the last hour, per subject
    calls,      \* the session table
    press,      \* the button a subject pressed last, until it is answered
    leaving,    \* deletions not yet committed: the call, and the rows they retired
    steps       \* of users and deployments, a bound of the model

vars == <<tokens, tenants, rows, profile, catalogue, conns, open, drafts, calls, press, leaving, steps>>

None == 0
Undecided == [decided |-> FALSE, goals |-> {}, kinds |-> {}]
Closed == [phase |-> "closed", subject |-> Nobody, tenant |-> Nobody, row |-> None]
NoWrapup == [summary |-> "missing", points |-> {}]
Said == {"nothing", "enough"}     \* no utterance, or MIN_USER_UTTERANCES of them

Idle == [phase |-> "idle", row |-> None, call |-> None, reverse |-> FALSE, tenant |-> Nobody]
Waking(k) ==
    [phase |-> "waking", row |-> k, call |-> None, reverse |-> FALSE, tenant |-> Nobody]

\* text and written are what a row is and where its author was then; shared is
\* where the author was when sharing it; missed, that the deletion of its call went
\* by without retiring it.  No step of the code reads these four.
Row(id, by, tenant, visibility, category, text, reverse, origin) ==
    [id |-> id, by |-> by, tenant |-> tenant, visibility |-> visibility, active |-> TRUE,
     category |-> category, reverse |-> reverse, origin |-> origin,
     derived |-> text = "follow_up",
     text |-> text, written |-> tenant, shared |-> Nobody, missed |-> FALSE]
BuiltIn(id) == Row(id, Nobody, Nobody, "public", BuiltIns[id], "seed", FALSE, None)

Admitted(s) == Verdict(tokens[s]) = "admitted"
TenantOf(s) == TenantRef(tokens[s])
ReadableBy(s, tenant) == {k \in 1 .. Len(rows) : rows[k].active /\ VisibleTo(rows[k], s, tenant)}
Listed(s) == ReadableBy(s, TenantOf(s))
Candidates(s) == {Candidate(rows[k], s) : k \in Listed(s)}
Stored(c) == calls[c].live
Played(s) == {calls[c].row : c \in {d \in 1 .. Len(calls) : Stored(d) /\ calls[d].by = s}}

\* A request of s: counted, and its company registered where the route asks for it.
Request(s) == Admitted(s) /\ steps < MaxSteps /\ steps' = steps + 1
InCompany(s) == tenants' = Registered(tenants, tokens[s])

Init ==
    /\ tokens \in [Subjects -> Accounts]
    /\ \E r \in Releases :
        /\ catalogue = r.goals
        /\ rows = [k \in 1 .. Len(BuiltIns) |-> [BuiltIn(k) EXCEPT !.active = k \in r.scenarios]]
    /\ tenants = {Default}
    /\ profile = [s \in Subjects |-> Undecided]
    /\ conns = [c \in Conns |-> Closed]
    /\ open = [s \in Subjects |-> 0]
    /\ drafts = [s \in Subjects |-> 0]
    /\ calls = <<>>
    /\ press = [s \in Subjects |-> Idle]
    /\ leaving = {}
    /\ steps = 0

-----------------------------------------------------------------------------
(* The account, and the routes of the library.                              *)

\* The realm gives the subject another company or role, or fails.
ChangeAccount(s) ==
    /\ steps < MaxSteps /\ steps' = steps + 1
    /\ \E token \in Accounts \ {tokens[s]} : tokens' = [tokens EXCEPT ![s] = token]
    /\ UNCHANGED <<tenants, rows, profile, catalogue, conns, open, drafts, calls, press, leaving>>

\* Every reading route that asks for the company: a listing, a detail, /tenant.
Visit(s) ==
    /\ Request(s) /\ InCompany(s)
    /\ TenantOf(s) \notin tenants
    /\ UNCHANGED <<tokens, rows, profile, catalogue, conns, open, drafts, calls, press, leaving>>

Create(s) ==
    /\ Request(s) /\ InCompany(s)
    /\ Len(rows) < MaxRows
    /\ \E category \in Categories \cup {NoCategory} :
        rows' = Append(rows, Row(Len(rows) + 1, s, TenantOf(s), "private", category,
                                 "written", FALSE, None))
    /\ UNCHANGED <<tokens, profile, catalogue, conns, open, drafts, calls, press, leaving>>

\* _AUTHORED_ONLY, with the author; whether the row is active is not asked.
Editable(k, s) == rows[k].by = s /\ ~rows[k].reverse /\ ~rows[k].derived

\* This route, Deactivate and SetFocus resolve no company.
Update(s, k) ==
    /\ Request(s)
    /\ Editable(k, s)
    /\ \E category \in (Categories \cup {NoCategory}) \ {rows[k].category} :
        rows' = [rows EXCEPT ![k].category = category]
    /\ UNCHANGED <<tokens, tenants, profile, catalogue, conns, open, drafts, calls, press, leaving>>

\* The row keeps the company it was written in: only an unstamped one is stamped.
SetVisibility(s, k) ==
    /\ Request(s) /\ InCompany(s)
    /\ Editable(k, s)
    /\ \E visibility \in {"private", "tenant"} \ {rows[k].visibility} :
        /\ visibility = "tenant" => TenantOf(s) # Default
        /\ rows' = [rows EXCEPT
                ![k].tenant = IF @ = Nobody THEN TenantOf(s) ELSE @,
                ![k].visibility = visibility,
                ![k].shared = IF visibility = "tenant" THEN TenantOf(s) ELSE Nobody]
    /\ UNCHANGED <<tokens, profile, catalogue, conns, open, drafts, calls, press, leaving>>

\* A retired row stays locked until the deletion it is part of commits.
Locked(k) == \E gone \in leaving : k \in gone.retired

\* Any row of one's own, derived ones too; nothing is deleted.
Deactivate(s, k) ==
    /\ Request(s)
    /\ rows[k].by = s /\ rows[k].active /\ ~Locked(k)
    /\ rows' = [rows EXCEPT ![k].active = FALSE]
    /\ UNCHANGED <<tokens, tenants, profile, catalogue, conns, open, drafts, calls, press, leaving>>

\* The whole selection is replaced; too many, unknown or retired goals are refused.
SetFocus(s) ==
    /\ Request(s)
    /\ \E goals \in SUBSET catalogue, kinds \in SUBSET Categories :
        /\ Cardinality(goals) <= MaxGoals
        /\ profile' = [profile EXCEPT ![s] =
                [decided |-> TRUE, goals |-> goals, kinds |-> kinds]]
    /\ UNCHANGED <<tokens, tenants, rows, catalogue, conns, open, drafts, calls, press, leaving>>

\* A retired goal stays stored but is not served.
Served(s) == profile[s].goals \cap catalogue

\* A built-in is as active as the release says; authored rows are left alone.
Reseeded(release) ==
    [k \in 1 .. Len(rows) |->
        IF rows[k].by = Nobody THEN [rows[k] EXCEPT !.active = k \in release.scenarios]
        ELSE rows[k]]

\* A deployment: the seed is applied, the sockets, the counters, the requests under
\* way and the transactions not committed are gone.
Restart ==
    /\ steps < MaxSteps /\ steps' = steps + 1
    /\ \E release \in Releases :
        /\ catalogue' = release.goals
        /\ rows' = Reseeded(release)
    /\ conns' = [c \in Conns |-> Closed]
    /\ open' = [s \in Subjects |-> 0]
    /\ drafts' = [s \in Subjects |-> 0]
    /\ press' = [s \in Subjects |-> Idle]
    /\ leaving' = {}
    /\ UNCHANGED <<tokens, tenants, profile, calls>>

-----------------------------------------------------------------------------
(* A connection: accepted and admitted, its selection loaded, its slot      *)
(* claimed, the call served and stored, the slot released.                  *)

Connect(c, s) ==
    /\ conns[c].phase = "closed"
    /\ Request(s)
    /\ conns' = [conns EXCEPT ![c] =
            [phase |-> "admitted", subject |-> s, tenant |-> TenantOf(s), row |-> None]]
    /\ UNCHANGED <<tokens, tenants, rows, profile, catalogue, open, drafts, calls, press, leaving>>

\* The company is the one of the token the handshake brought.
LoadSelection(c) ==
    /\ conns[c].phase = "admitted"
    /\ tenants' = tenants \cup {conns[c].tenant}
    /\ \E k \in ReadableBy(conns[c].subject, conns[c].tenant) :
        conns' = [conns EXCEPT ![c].phase = "chosen", ![c].row = k]
    /\ UNCHANGED <<tokens, rows, profile, catalogue, open, drafts, calls, press, leaving, steps>>

\* Unknown or hidden ids, or a library that cannot be read: nothing is claimed yet.
RefuseSelection(c) ==
    /\ conns[c].phase = "admitted"
    /\ conns' = [conns EXCEPT ![c] = Closed]
    /\ UNCHANGED <<tokens, tenants, rows, profile, catalogue, open, drafts, calls, press, leaving, steps>>

\* Claimed under the lock: the check and the count are one step.
Claim(c) ==
    LET s == conns[c].subject IN
    /\ conns[c].phase = "chosen"
    /\ open[s] < MaxOpenCalls
    /\ open' = [open EXCEPT ![s] = @ + 1]
    /\ conns' = [conns EXCEPT ![c].phase = "serving"]
    /\ UNCHANGED <<tokens, tenants, rows, profile, catalogue, drafts, calls, press, leaving, steps>>

TooManyCalls(c) ==
    /\ conns[c].phase = "chosen"
    /\ open[conns[c].subject] >= MaxOpenCalls
    /\ conns' = [conns EXCEPT ![c] = Closed]
    /\ UNCHANGED <<tokens, tenants, rows, profile, catalogue, open, drafts, calls, press, leaving, steps>>

\* Mutant of Released: only a call that was stored gives its slot back.
ReleasedWhenStored(s, stored) == [open EXCEPT ![s] = @ - (IF stored THEN 1 ELSE 0)]
Released(s, stored) == [open EXCEPT ![s] = @ - 1]

\* However the call ended: kept or not, for want of consent or of a database.
EndCall(c) ==
    LET s == conns[c].subject IN
    /\ conns[c].phase = "serving"
    /\ \E stored \in BOOLEAN, said \in Said :
        /\ stored => Len(calls) < MaxCalls
        /\ calls' = IF ~stored THEN calls
                    ELSE Append(calls, [by |-> s, row |-> conns[c].row, said |-> said,
                                        wrapup |-> NoWrapup, live |-> TRUE])
        /\ open' = Released(s, stored)
    /\ conns' = [conns EXCEPT ![c] = Closed]
    /\ UNCHANGED <<tokens, tenants, rows, profile, catalogue, drafts, press, leaving, steps>>

-----------------------------------------------------------------------------
(* A stored call: its wrap-up, what is made of it, and its deletion.        *)

\* What a job may come to, if its model answers at all.
Wrapups(c) ==
    IF calls[c].said = "nothing" THEN {NoFeedback("nothing_said")}
    ELSE {Asked(answers) : answers \in {a \in Answers \X Answers : ~Raises(a, HasSummary)}}

\* A failed job writes nothing; a later one replaces the wrap-up.
WrapUp(c) ==
    /\ Stored(c)
    /\ \E wrapup \in Wrapups(c) :
        calls' = [calls EXCEPT ![c].wrapup =
            [summary |-> wrapup.summary,
             points |-> {Kept(p, Goals, catalogue) : p \in wrapup.points}]]
    /\ calls' # calls
    /\ UNCHANGED <<tokens, tenants, rows, profile, catalogue, conns, open, drafts, press, leaving, steps>>

Improvements(c) == {p \in calls[c].wrapup.points : p.kind = "improvement"}
MadeOf(c, reverse) ==
    {k \in 1 .. Len(rows) : rows[k].origin = c /\ rows[k].reverse = reverse}

\* What the call must hold before anything is made of it.
MayMake(c, reverse) ==
    /\ calls[c].said = "enough"
    /\ IF reverse THEN ~rows[calls[c].row].reverse ELSE Improvements(c) # {}

Drafted(answers, reverse) ==
    IF reverse THEN BriefDrafted(answers) ELSE FollowUpDrafted(answers)

\* A press asks for what was made of the call.  The row it already has is served at
\* no cost; one switched off is read here and switched on by Wake.
Restore(s, c, reverse) ==
    /\ Request(s) /\ InCompany(s)
    /\ press[s] = Idle
    /\ Stored(c) /\ calls[c].by = s /\ MayMake(c, reverse)
    /\ \E k \in MadeOf(c, reverse) :
        press' = IF rows[k].active THEN press
                 ELSE [press EXCEPT ![s] = Waking(k)]
    /\ UNCHANGED <<tokens, rows, profile, catalogue, conns, open, drafts, calls, leaving>>

\* The UPDATE goes by the row's key: that its call has gone since does not stop it.
Wake(s) ==
    LET k == press[s].row IN
    /\ press[s].phase = "waking" /\ ~Locked(k)
    /\ rows' = [rows EXCEPT ![k].active = TRUE, ![k].missed = @ \/ rows[k].origin = None]
    /\ press' = [press EXCEPT ![s] = Idle]
    /\ UNCHANGED <<tokens, tenants, profile, catalogue, conns, open, drafts, calls, leaving, steps>>

\* Where there is none, the model is asked for one, within the hourly cap.
Make(s, c, reverse) ==
    /\ Request(s) /\ InCompany(s)
    /\ press[s] = Idle
    /\ Stored(c) /\ calls[c].by = s /\ MayMake(c, reverse)
    /\ MadeOf(c, reverse) = {}
    /\ drafts[s] < MaxDrafts
    /\ drafts' = [drafts EXCEPT ![s] = @ + 1]
    /\ press' = [press EXCEPT ![s] = [phase |-> "drafting", row |-> None, call |-> c,
                                      reverse |-> reverse, tenant |-> TenantOf(s)]]
    /\ UNCHANGED <<tokens, rows, profile, catalogue, conns, open, calls, leaving>>

\* The row of a draft, in the company of the request.  The category of a reverse is its
\* Scenario's; a follow-up has none.
DraftedRow(s, p) ==
    Row(Len(rows) + 1, s, p.tenant, "private",
        IF p.reverse THEN rows[calls[p.call].row].category ELSE NoCategory,
        IF p.reverse THEN "reverse" ELSE "follow_up", p.reverse, p.call)

\* The answer is there: inserted, unless the call has been deleted meanwhile.  A
\* deletion not yet committed keeps nothing from being inserted.
Insert(s) ==
    LET p == press[s] IN
    /\ p.phase = "drafting" /\ Stored(p.call)
    /\ \E answers \in Answers \X Answers : Drafted(answers, p.reverse)
    /\ Len(rows) < MaxRows
    /\ rows' = Append(rows, DraftedRow(s, p))
    /\ press' = [press EXCEPT ![s] = Idle]
    /\ UNCHANGED <<tokens, tenants, profile, catalogue, conns, open, drafts, calls, leaving, steps>>

NothingMade(s) ==
    LET p == press[s] IN
    /\ p.phase = "drafting"
    /\ ~Stored(p.call) \/ \E answers \in Answers \X Answers : ~Drafted(answers, p.reverse)
    /\ press' = [press EXCEPT ![s] = Idle]
    /\ UNCHANGED <<tokens, tenants, rows, profile, catalogue, conns, open, drafts, calls, leaving, steps>>

\* RateLimit: the oldest draft that counts is an hour old.
HourPasses(s) ==
    /\ drafts[s] > 0
    /\ drafts' = [drafts EXCEPT ![s] = @ - 1]
    /\ UNCHANGED <<tokens, tenants, rows, profile, catalogue, conns, open, calls, press, leaving, steps>>

\* retire_follow_ups: the follow-ups there are now, which nobody else sees yet.
StartDelete(s, c) ==
    /\ Request(s)
    /\ Stored(c) /\ calls[c].by = s
    /\ \A gone \in leaving : gone.call # c
    /\ leaving' = leaving \cup {[call |-> c, retired |-> MadeOf(c, FALSE)]}
    /\ UNCHANGED <<tokens, tenants, rows, profile, catalogue, conns, open, drafts, calls, press>>

\* Mutant of Untied: the follow-ups are not retired first.
UntiedOnly(gone) ==
    [k \in 1 .. Len(rows) |->
        IF rows[k].origin # gone.call THEN rows[k]
        ELSE [rows[k] EXCEPT !.origin = None, !.derived = FALSE]]
\* SET NULL unties whatever was made of the call, the reverses, which stay, and every
\* follow-up, retired or not.
Untied(gone) ==
    [k \in 1 .. Len(rows) |->
        IF rows[k].origin # gone.call THEN rows[k]
        ELSE [rows[k] EXCEPT !.origin = None, !.derived = FALSE,
                             !.active = @ /\ k \notin gone.retired,
                             !.missed = @ \/ k \notin gone.retired]]

DeleteCall ==
    \E gone \in leaving :
        /\ leaving' = leaving \ {gone}
        /\ rows' = Untied(gone)
        /\ calls' = [calls EXCEPT ![gone.call].live = FALSE, ![gone.call].wrapup = NoWrapup]
        /\ UNCHANGED <<tokens, tenants, profile, catalogue, conns, open, drafts, press, steps>>

-----------------------------------------------------------------------------
Next ==
    \/ Restart \/ DeleteCall
    \/ \E s \in Subjects :
        \/ ChangeAccount(s) \/ Visit(s) \/ Create(s) \/ SetFocus(s) \/ HourPasses(s)
        \/ Wake(s) \/ Insert(s) \/ NothingMade(s)
        \/ \E k \in 1 .. Len(rows) : Update(s, k) \/ SetVisibility(s, k) \/ Deactivate(s, k)
        \/ \E c \in Conns : Connect(c, s)
        \/ \E c \in 1 .. Len(calls) :
            \/ StartDelete(s, c)
            \/ \E reverse \in BOOLEAN : Restore(s, c, reverse) \/ Make(s, c, reverse)
    \/ \E c \in Conns :
        LoadSelection(c) \/ RefuseSelection(c) \/ Claim(c) \/ TooManyCalls(c) \/ EndCall(c)
    \/ \E c \in 1 .. Len(calls) : WrapUp(c)

Spec == Init /\ [][Next]_vars

-----------------------------------------------------------------------------
(* What is promised.                                                        *)

Points == [kind: PointKinds, turn: {"own", "none"}, goal: Goals \cup {NoGoal}]
Rows ==
    [id: 1 .. MaxRows, by: Subjects \cup {Nobody}, tenant: Tenants \cup {Nobody},
     visibility: {"public", "private", "tenant"}, active: BOOLEAN,
     category: Categories \cup {NoCategory}, reverse: BOOLEAN, origin: 0 .. MaxCalls,
     derived: BOOLEAN, text: {"seed", "written", "follow_up", "reverse"},
     written: Tenants \cup {Nobody}, shared: Tenants \cup {Nobody}, missed: BOOLEAN]
Presses ==
    [phase: {"idle", "waking", "drafting"}, row: 0 .. MaxRows, call: 0 .. MaxCalls,
     reverse: BOOLEAN, tenant: Tenants \cup {Nobody}]

\* What the coach is told about a call, whose Scenario has a goal, and what a draft
\* is written from.
CoachReads(c) ==
    WrapupRules(rows[calls[c].row].reverse) \o Dossier(rows[calls[c].row].reverse, TRUE, FALSE, 1)
DraftReads(c, reverse) ==
    IF reverse THEN BriefRules \o BriefMaterial(Improvements(c) # {})
    ELSE FollowUpRules \o FollowUpMaterial({"facts", "goal"}, calls[c].wrapup # NoWrapup, FALSE)

\* Whom the prompts about a call speak of: the coach's of the other side as its transcript
\* labels it, but for four sections that say the caller also where the trainee is one; the
\* drafts', which start from the case the caller had, of the caller.
SaidOfTheCaller == {"wanted", "goals", "end_of_the_call", "tone_fit"}
SpeaksOf(c) ==
    /\ \A i \in 1 .. Len(CoachReads(c)) :
        \/ CoachReads(c)[i].side \in {"any", Partner(rows[calls[c].row].reverse)}
        \/ CoachReads(c)[i] \in {Section(name, "caller") : name \in SaidOfTheCaller}
    /\ \A reverse \in BOOLEAN : SidesOf(DraftReads(c, reverse)) \subseteq {"caller"}

\* The types: a company in use is a registered one, a stored wrap-up cites only the
\* Turns of its call and goals that exist, an hour holds no more drafts than allowed, and
\* the prompts speak of whom they should, but for the sections named above.
TypeOK ==
    /\ tokens \in [Subjects -> Accounts]
    /\ tenants \subseteq Tenants /\ Default \in tenants
    /\ \A k \in 1 .. Len(rows) : rows[k] \in Rows /\ rows[k].id = k
    /\ \A k \in 1 .. Len(rows) : rows[k].tenant \in tenants \cup {Nobody}
    /\ profile \in [Subjects -> [decided: BOOLEAN, goals: SUBSET Goals, kinds: SUBSET Categories]]
    /\ catalogue \subseteq Goals
    /\ \A c \in Conns : conns[c].row \in 0 .. Len(rows)
    /\ open \in [Subjects -> Nat]
    /\ drafts \in [Subjects -> 0 .. MaxDrafts]
    /\ \A c \in 1 .. Len(calls) :
        calls[c].row \in 1 .. Len(rows) /\ calls[c].wrapup.points \subseteq Points
    /\ \A c \in 1 .. Len(calls) : SpeaksOf(c)
    /\ press \in [Subjects -> Presses]
    /\ leaving \subseteq [call: 1 .. Len(calls), retired: SUBSET (1 .. Len(rows))]

\* Whatever order accounts change company, rows are shared, drafts arrive, calls are
\* deleted and releases come in: somebody else's row is read only where it was written,
\* and only once its author, then in a company, shared it; and it is a hand-written
\* one, or a follow-up that the deletion of its call missed (backend/library.py:94,
\* api/scenarios.py:330).
ReadWhereWritten ==
    \A s \in Subjects : \A k \in Listed(s) :
        LET row == rows[k] IN
        \/ row.by = s
        \/ row.by = Nobody /\ row.text = "seed"
        \/ /\ row.text = "written" \/ (row.text = "follow_up" /\ row.missed)
           /\ row.written = TenantOf(s)
           /\ row.shared # Nobody /\ row.shared # Default

\* A subject's slots are its calls being served, whichever way earlier connections
\* ended, and never more than the cap (backend/limits.py:33).
SlotsMatchCalls ==
    \A s \in Subjects :
        /\ open[s] = Cardinality({c \in Conns : /\ conns[c].phase = "serving"
                                                /\ conns[c].subject = s})
        /\ open[s] <= MaxOpenCalls

\* How much a Scenario would train: what the rules add up, said over again.
Gain(candidate, s) ==
    (IF candidate.category \in profile[s].kinds THEN 2 ELSE 0)
    + Cardinality({g \in Served(s) : candidate.category \in PractisedIn[g]})

\* The suggestions are the best there is: as many as fit, all readable, none a
\* reverse, no better or equally good and fresher one left out, no reason the
\* profile does not show; and after a call something else is offered, a fresh pick
\* if one is left (backend/recommendations.py:33 and :98).
BestSuggestions ==
    \A s \in Subjects :
        LET all == Candidates(s)
            suits == {c \in all : ~c.reverse /\ c.category # NoCategory /\ Gain(c, s) > 0}
            picks == Picks(all, profile[s], catalogue, Played(s))
            played == Played(s)
            Fresh(c) == c.id \notin played IN
        /\ picks \subseteq suits
        /\ Cardinality(picks) <= MaxRecommendations
        /\ Cardinality(picks) = MaxRecommendations \/ picks = suits
        /\ \A p \in picks, q \in suits \ picks :
            Gain(p, s) > Gain(q, s) \/ (Gain(p, s) = Gain(q, s) /\ (Fresh(q) => Fresh(p)))
        /\ \A p \in picks : Reason(p, profile[s], catalogue).goals \subseteq Served(s)
        /\ \A just \in all :
            LET offer == LibraryChoice(just, all, profile[s], catalogue, played) IN
            /\ Cardinality(offer) <= 1
            /\ \A o \in offer : o \in all /\ o.id # just.id /\ ~o.reverse
            /\ (\E p \in picks : Fresh(p) /\ p # just) => \A o \in offer : Fresh(o)
            /\ (\E p \in picks : p # just) => offer # {}
================================================================================
