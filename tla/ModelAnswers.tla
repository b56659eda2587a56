------------------------------ MODULE ModelAnswers ------------------------------
(***************************************************************************)
(* What becomes of a structured answer of the language model: its two       *)
(* attempts (shared/clients/llm.py), the three readers of one (the wrap-up  *)
(* of worker/generator.py, the drafts of backend/followups.py and           *)
(* backend/reversals.py), and what the wrap-up keeps of its points.         *)
(***************************************************************************)
EXTENDS Naturals

CONSTANTS
    Habits,         \* goals no single call can show
    NoGoal          \* a point that names none, or one nobody knows

PointKinds == {"strength", "improvement"}

\* A point as the model writes it: the Turn it cites is of this call or not.
Point(kind, turn, goal) == [kind |-> kind, turn |-> turn, goal |-> goal]

\* object: parses, every field filled; partial: parses, a required field is
\* empty after cleaning; bare: JSON without its summary; broken: JSON that does
\* not parse; prose: a text without JSON; blank: nothing.
Answer(kind, points) == [kind |-> kind, points |-> points]
Outage == Answer("outage", {})

\* The attempt that is taken, by the kinds of answer that will do: the first good one, unless an outage came before.
Taken(answers, good) ==
    {k \in 1 .. 2 : /\ answers[k].kind \in good
                    /\ \A j \in 1 .. k - 1 : answers[j].kind \notin good \cup {"outage"}}

\* The client raises: both callers of a draft answer 503, the job is failed.
Raises(answers, good) ==
    \E k \in 1 .. 2 : /\ answers[k] = Outage
                      /\ \A j \in 1 .. k - 1 : answers[j].kind \notin good \cup {"outage"}

Filled == {"object"}
Parses == {"object", "partial", "bare"}
HasSummary == {"object", "partial"}

\* draft_follow_up asks again for a required field, draft_brief does not; its
\* model has no field that must be there.
FollowUpDrafted(answers) == Taken(answers, Filled) # {}
BriefDrafted(answers) == Taken(answers, Parses) # {}

\* _unfenced_text: what still looks like JSON becomes the fixed sentence.
Narrative(answer) == IF answer.kind = "prose" THEN "prose" ELSE "no_wrapup"

NoFeedback(summary) == [summary |-> summary, points |-> {}]

\* _ask: the last answer is the fallback.
Asked(answers) ==
    IF Taken(answers, HasSummary) = {} THEN NoFeedback(Narrative(answers[2]))
    ELSE [summary |-> "answer",
          points |-> UNION {answers[k].points : k \in Taken(answers, HasSummary)}]

\* The goals a point may be filed under: retired ones in, habits out.
Assignable(goals, catalogue) == goals \ (Habits \cap catalogue)

\* Mutant of Kept: a point is stored as the model wrote it.
KeptAsWritten(point, goals, catalogue) == point
\* _store: a foreign Turn or an unknown goal is dropped, the point kept.
Kept(point, goals, catalogue) ==
    Point(point.kind,
          IF point.turn = "own" THEN "own" ELSE "none",
          IF point.goal \in Assignable(goals, catalogue) THEN point.goal ELSE NoGoal)
================================================================================
