------------------------------ MODULE Suggestions ------------------------------
(***************************************************************************)
(* Which Scenarios a user is offered (backend/recommendations.py) and in    *)
(* which order the library lists them (backend/api/scenarios.py).  A        *)
(* listing is a sequence of candidates; a candidate keeps of its card what  *)
(* the rules look at.  Ids are numbers in the order of creation.            *)
(***************************************************************************)
EXTENDS Naturals, FiniteSets

CONSTANTS
    Goals,              \* every goal the seed ever held
    PractisedIn,        \* [Goals -> SUBSET Categories]
    Categories, NoCategory,
    MaxRecommendations

ASSUME SuggestionsAssumption ==
    /\ NoCategory \notin Categories /\ IsFiniteSet(Goals)
    /\ PractisedIn \in [Goals -> SUBSET Categories]
    /\ MaxRecommendations \in Nat \ {0}

\* The catalogue of this process: a goal that left the seed matches nothing.
GoalCategories(catalogue, goal) ==
    IF goal \in catalogue THEN PractisedIn[goal] ELSE {}

\* _origin_group; a follow-up or a reverse is the viewer's own on the card.
OriginGroup(row, subject) ==
    CASE row.reverse -> 4
      [] ~row.reverse /\ row.derived -> 3
      [] ~row.reverse /\ ~row.derived /\ row.by = subject -> 2
      [] ~row.reverse /\ ~row.derived /\ row.by # subject /\ row.visibility = "tenant" -> 5
      [] OTHER -> 1

Candidate(row, subject) ==
    [id |-> row.id, category |-> row.category, reverse |-> row.reverse,
     group |-> OriginGroup(row, subject)]

\* The stable sort by group keeps the order of creation inside one.
ListedBefore(a, b) == a.group < b.group \/ (a.group = b.group /\ a.id < b.id)

Reason(candidate, profile, catalogue) ==
    [callType |-> candidate.category \in profile.kinds,
     goals |-> {g \in profile.goals :
                    candidate.category \in GoalCategories(catalogue, g)}]

Score(candidate, profile, catalogue) ==
    LET why == Reason(candidate, profile, catalogue) IN
    Cardinality(why.goals) + (IF why.callType THEN 2 ELSE 0)

Scored(candidates, profile, catalogue) ==
    {c \in candidates : /\ ~c.reverse
                        /\ c.category # NoCategory
                        /\ Score(c, profile, catalogue) > 0}

\* Mutant of Ahead: what was played already is not looked at.
AheadWhatever(a, b, profile, catalogue, played) ==
    LET s == Score(a, profile, catalogue)
        t == Score(b, profile, catalogue) IN
    s > t \/ (s = t /\ ListedBefore(a, b))
\* The order of the suggestions: score, then unplayed, then the listing.
Ahead(a, b, profile, catalogue, played) ==
    LET s == Score(a, profile, catalogue)
        t == Score(b, profile, catalogue) IN
    \/ s > t
    \/ /\ s = t
       /\ \/ a.id \notin played /\ b.id \in played
          \/ (a.id \in played <=> b.id \in played) /\ ListedBefore(a, b)

\* recommend: the first MaxRecommendations of that order.
Picks(candidates, profile, catalogue, played) ==
    LET scored == Scored(candidates, profile, catalogue) IN
    {c \in scored :
        Cardinality({d \in scored : Ahead(d, c, profile, catalogue, played)})
            < MaxRecommendations}

\* The offer after a call: the best pick not just played, a fresh one first,
\* else an unplayed Scenario of the same category.
LibraryChoice(just, candidates, profile, catalogue, played) ==
    LET others == {p \in Picks(candidates, profile, catalogue, played) : p.id # just.id}
        fresh == {p \in others : p.id \notin played}
        same == {c \in candidates : /\ just.category # NoCategory
                                    /\ c.id # just.id /\ ~c.reverse
                                    /\ c.category = just.category
                                    /\ c.id \notin played}
        First(S) == {a \in S : \A b \in S \ {a} : Ahead(a, b, profile, catalogue, played)} IN
    IF fresh # {} THEN First(fresh)
    ELSE IF others # {} THEN First(others)
    ELSE {a \in same : \A b \in same \ {a} : ListedBefore(a, b)}
================================================================================
