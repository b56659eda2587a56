------------------------------- MODULE Prompting -------------------------------
(***************************************************************************)
(* What the model is told: the system prompt of a call, the prompt of the  *)
(* call notes (backend/session/prompting.py) and the one instruction of a  *)
(* Turn (backend/session/nudges.py).  The wording is left out: a section   *)
(* stands for its text, in the order the text has, and says whose side of  *)
(* the line that text is written from: "either" where the same text serves *)
(* an ordinary call and a reverse and speaks of neither side.              *)
(***************************************************************************)
EXTENDS Naturals, Sequences

\* What of a Scenario and a Persona decides which sections there are.
Scenario == [reverse: BOOLEAN, facts: BOOLEAN, goal: BOOLEAN, authored: BOOLEAN,
             objections: BOOLEAN, hard: BOOLEAN]

\* The Persona rang the user, or, reversed, answers the phone.
Side(scenario) == IF scenario.reverse THEN "callee" ELSE "caller"

Section(name, side) == [name |-> name, side |-> side]
If(condition, sections) == IF condition THEN sections ELSE <<>>

Casting(scenario) == <<Section("casting", Side(scenario))>>

\* A goal comes with the rule on how to use it, the facts with whose they are.
CaseBlock(scenario) ==
    If(scenario.facts, <<Section("facts", Side(scenario))>>) \o
    If(scenario.goal, <<Section("goal", Side(scenario)),
                        Section("goal_rule", Side(scenario))>>)

LanguageOfTheCase(scenario) ==
    If(scenario.facts \/ scenario.goal, <<Section("case_language", "either")>>)

\* Mutant of PersonaBlock: a reverse keeps the customer's role and objections.
PersonaBlockOfACustomer(scenario) ==
    <<Section("identity", "either"), Section("role", "caller"), Section("character", "either")>> \o
    If(scenario.objections, <<Section("objections", "caller")>>)

\* Role and objections are a customer's: a reverse drops both.
PersonaBlock(scenario) ==
    <<Section("identity", "either")>> \o
    If(~scenario.reverse, <<Section("role", "caller")>>) \o
    <<Section("character", "either")>> \o
    If(~scenario.reverse /\ scenario.objections, <<Section("objections", "caller")>>)

ImprovisationRule(scenario) ==
    <<Section(IF scenario.facts THEN "fill_gaps" ELSE "improvise", "either")>>

NoRestartRule(scenario) == <<Section("no_restart", Side(scenario))>>

ClosingRules(scenario) == <<Section("closing_rules", Side(scenario))>>

\* build_system_prompt.  A reverse copies the description of the Scenario it was made
\* of, which the casting announces as the caller's, and the example calls of the
\* language pack, whose "[Caller]" is the one the model plays in an ordinary call.
SystemPrompt(scenario) ==
    Casting(scenario) \o
    If(scenario.authored, <<Section("authored_note", "either")>>) \o
    <<Section("context", "caller")>> \o
    CaseBlock(scenario) \o
    LanguageOfTheCase(scenario) \o
    PersonaBlock(scenario) \o
    ImprovisationRule(scenario) \o
    <<Section("how_you_talk", "either")>> \o
    NoRestartRule(scenario) \o
    <<Section("example", "caller")>> \o
    ClosingRules(scenario) \o
    <<Section("reply_language", "either")>>

\* build_state_prompt: the notes of whoever the model plays, the goal where there
\* is one, the notes so far and the exchange.
StatePrompt(scenario, previousNotes, exchange) ==
    [sections |-> <<Section("note_keeper", Side(scenario))>> \o
                  If(scenario.goal, <<Section("goal", Side(scenario))>>),
     previous |-> previousNotes, exchange |-> exchange]

-----------------------------------------------------------------------------
(* nudges.py *)

SettlementCheckAfterReplies == 3

\* The kinds of instruction, the last ones those of a reply asked for again.
Instructions ==
    {"none", "opening", "closing", "interrupted", "clarify", "clarify_again",
     "anti_repeat", "anti_repeat_hard", "anti_repeat_reverse"}

\* opening_instruction: said once, and never with the interruption's place in the
\* context.
Opening == [kind |-> "opening", settle |-> FALSE, beforeLast |-> FALSE]
NoInstruction == [kind |-> "none", settle |-> FALSE, beforeLast |-> FALSE]
Instruction == [kind: Instructions, settle: BOOLEAN, beforeLast: BOOLEAN]

SettlementCheck(replies) == replies >= SettlementCheckAfterReplies

AntiRepeat(scenario) ==
    IF scenario.reverse THEN "anti_repeat_reverse"
    ELSE IF scenario.hard THEN "anti_repeat_hard" ELSE "anti_repeat"

\* for_turn: closing before interrupted before a request to repeat before the
\* reminder of the previous reply.
ForTurn(scenario, closing, interrupted, repeatRequests, replies) ==
    LET Say(kind) == [NoInstruction EXCEPT !.kind = kind]
    IN  CASE closing -> Say("closing")
          [] ~closing /\ interrupted -> [Say("interrupted") EXCEPT !.beforeLast = TRUE]
          [] ~closing /\ ~interrupted /\ repeatRequests >= 2 -> Say("clarify_again")
          [] ~closing /\ ~interrupted /\ repeatRequests = 1 -> Say("clarify")
          [] ~closing /\ ~interrupted /\ repeatRequests = 0 /\ replies > 0 ->
                [Say(AntiRepeat(scenario)) EXCEPT !.settle = SettlementCheck(replies)]
          [] OTHER -> NoInstruction
================================================================================
