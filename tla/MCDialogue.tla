------------------------------- MODULE MCDialogue -------------------------------
\* Dialogue on small calls: an ordinary one and a reverse, two points of which one
\* presses, and the openings the guards look for.
EXTENDS Dialogue

CONSTANTS point, demand

PointsDef == {point, demand}
DemandsDef == {demand}

Case(reverse) ==
    [reverse |-> reverse, facts |-> TRUE, goal |-> ~reverse, authored |-> reverse,
     objections |-> TRUE, hard |-> FALSE]
ScenariosDef == {Case(TRUE), Case(FALSE)}

Asking(asks, closes) == [asks |-> asks, closes |-> closes]
QuestionsDef == {Asking(FALSE, FALSE), Asking(TRUE, FALSE), Asking(FALSE, TRUE)}

ChunksDef ==
    {<<Whole("greeting"), Whole(demand)>>, <<Whole("echo"), Whole("goodbye")>>,
     <<Whole("tail"), Whole(point)>>}
================================================================================
