------------------------------- MODULE MCLibrary -------------------------------
\* Library with two subjects and two connections, of which one call may be open at a
\* time; a company, several at once, and no role; two goals of the seed, one a habit,
\* and two releases that hold one each; the fourth built-in of the seed.
EXTENDS Library, Seed, TLC

CONSTANTS subject1, subject2, conn1, conn2

SubjectsDef == {subject1, subject2}
ConnsDef == {conn1, conn2}
Symmetric == Permutations(SubjectsDef) \cup Permutations(ConnsDef)

In(organization) == Token("valid", TRUE, organization)
AccountsDef == {In({"acme"}), In({"acme", "beta"}), Token("valid", FALSE, {"acme"})}

GoalsDef == {"closing", "training_regularity"}
PractisedInDef == [g \in GoalsDef |-> SeedPractisedIn[g]]
ReleasesDef == {[goals |-> {"closing"}, scenarios |-> {1}],
                [goals |-> {"training_regularity"}, scenarios |-> {}]}
BuiltInsDef == <<ScenarioCategories[4]>>

AnswersDef ==
    {Outage, Answer("broken", {}), Answer("bare", {}),
     Answer("object", {Point("improvement", "foreign", "training_regularity"),
                       Point("strength", "own", "invented")})}
================================================================================
