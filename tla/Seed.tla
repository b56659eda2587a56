---------------------------------- MODULE Seed ----------------------------------
(***************************************************************************)
(* The reference data every start applies (shared/db/seed_data.py), as far  *)
(* as a rule looks at it: which goals there are and where they are          *)
(* practised, what kind of call each built-in is, what a role preselects,   *)
(* and which partners speak which language.  The wording is left out.       *)
(***************************************************************************)
EXTENDS Naturals, Sequences, FiniteSets

SeedCategories == {"operations", "requirements", "pricing", "closing"}

Goal(id, group, practised) == [id |-> id, group |-> group, practised |-> practised]
FocusGoals == <<
    Goal("pace", "paraverbal", {}), Goal("intonation", "paraverbal", {}),
    Goal("conciseness", "paraverbal", {}), Goal("opening", "phases", {}),
    Goal("needs_analysis", "phases", {"requirements"}),
    Goal("objection_handling", "phases", {"closing"}),
    Goal("closing", "phases", {"closing"}),
    Goal("active_listening", "impact", {"requirements"}),
    Goal("empathy", "impact", {"operations"}),
    Goal("composure", "impact", {"operations", "pricing"}),
    Goal("talk_share", "impact", {}),
    Goal("training_regularity", "habit", {}), Goal("training_variety", "habit", {})>>

SeedGoals == {FocusGoals[k].id : k \in 1 .. Len(FocusGoals)}
SeedHabits ==
    {FocusGoals[k].id : k \in {j \in 1 .. Len(FocusGoals) : FocusGoals[j].group = "habit"}}
SeedPractisedIn ==
    [g \in SeedGoals |->
        FocusGoals[CHOOSE k \in 1 .. Len(FocusGoals) : FocusGoals[k].id = g].practised]

\* The built-ins in the order of the seed.
ScenarioCategories == <<
    "operations", "pricing", "operations", "closing", "closing", "operations",
    "requirements", "requirements", "pricing", "operations", "operations",
    "requirements", "closing", "pricing", "requirements", "requirements", "operations">>

RoleCategories ==
    [sales |-> {"pricing", "closing", "requirements"},
     service |-> {"operations", "requirements"},
     support |-> {"operations"},
     consulting |-> {"requirements", "pricing"},
     other |-> {}]

Language(persona) == IF persona \in {"phoebe-johnson-marketing", "floyd-jenkins-non-technical"}
                     THEN "en" ELSE "de"
Personas ==
    {"andreas-kastner-ceo", "phoebe-johnson-marketing", "patrick-lohberg-it-lead",
     "kerstin-kaser-clerk", "marcel-kropp-cost-critical", "floyd-jenkins-non-technical"}

\* What a suggestion rests on: goals and roles name kinds of call the library has,
\* and every partner has one in the other language.
ASSUME SeedAssumption ==
    /\ \A k \in 1 .. Len(ScenarioCategories) : ScenarioCategories[k] \in SeedCategories
    /\ \A k \in SeedCategories : \E j \in 1 .. Len(ScenarioCategories) : ScenarioCategories[j] = k
    /\ Cardinality(SeedGoals) = Len(FocusGoals)
    /\ \A g \in SeedGoals : SeedPractisedIn[g] \subseteq SeedCategories
    /\ \A r \in DOMAIN RoleCategories : RoleCategories[r] \subseteq SeedCategories
    /\ \A p \in Personas : \E q \in Personas : Language(q) # Language(p)
================================================================================
