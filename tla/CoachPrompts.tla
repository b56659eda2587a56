------------------------------ MODULE CoachPrompts ------------------------------
(***************************************************************************)
(* What the model is given for the answers of ModelAnswers: the wrap-up of  *)
(* worker/generator.py, the follow-up of backend/followups.py and the       *)
(* briefing of backend/reversals.py.  As in Prompting, a section stands for *)
(* its text.  Its side is the end of the line its words name: the caller,   *)
(* or the agent who is rung in a reverse; "any" where they name neither or  *)
(* both.                                                                    *)
(***************************************************************************)
EXTENDS Prompting

\* _casting: the label of the transcript, and what the rules built on it call the
\* other side.
Partner(reverse) == IF reverse THEN "agent" ELSE "caller"

\* Text a reverse has a wording of its own for, which names nobody.
Reworded(name, reverse) == Section(name, IF reverse THEN "any" ELSE "caller")

PhaseRules(reverse) ==
    <<Section("opening_phase", Partner(reverse)), Reworded("core_phase", reverse),
      Section("closing_phase", "any")>>

WorkedExample(reverse) == <<Reworded("worked_example", reverse)>>

\* The system prompt of the wrap-up, chapter by chapter.  A2 on the goals, H5 on how
\* a call ends and G5 on the tone say "the caller" whatever the casting.
WrapupRules(reverse) ==
    <<Section("role", "any"), Section("material", Partner(reverse)),
      Section("facts", Partner(reverse)), Section("building_a_point", Partner(reverse)),
      Section("test_of_a_point", "any"), Section("shape_of_a_point", "any")>>
    \o WorkedExample(reverse)
    \o <<Section("goals", "caller"), Section("phase_language", "any")>>
    \o PhaseRules(reverse)
    \o <<Section("end_of_the_call", "caller"),
         Section("phase_language_rules", Partner(reverse)), Section("tone_fit", "caller"),
         Section("pressure_turns", Partner(reverse)), Section("never", "any"),
         Section("output", "any"), Section("shape", Partner(reverse)),
         Section("check", Partner(reverse))>>

\* _occasion: what the caller wanted, without the sentence that says what settles it.
Occasion(goal) ==
    <<Section("situation", "any")>> \o If(goal, <<Section("wanted", "caller")>>)

\* _dossier: the established facts, and the Turns there are.
Dossier(reverse, goal, loudness, turns) ==
    Occasion(goal) \o <<Section("statistics", "any")>>
    \o If(loudness, <<Section("loudness_course", "any")>>)
    \o If(reverse, <<Section("who_rang", "agent")>>)
    \o [k \in 1 .. turns |-> Section("turn", Partner(reverse))]

\* The case "as the caller had it", whatever the call was; what is empty in it or
\* missing in the wrap-up is left out.
FollowUpMaterial(case, outcome, register) ==
    <<Section("call", "any"), Section("case", "caller")>>
    \o If("situation" \in case, <<Section("situation", "any")>>)
    \o If("facts" \in case, <<Section("case_facts", "any")>>)
    \o If("goal" \in case, <<Section("call_goal", "caller")>>)
    \o If(outcome, <<Section("outcome", "any")>>)
    \o <<Section("improvements", "any")>>
    \o If(register, <<Section("register", "any")>>)

FollowUpRules ==
    <<Section("role", "any"), Section("material", "caller"), Section("use", "caller"),
      Section("caller_rules", "caller"), Section("trainee_rules", "caller"),
      Section("never", "any"), Section("output", "caller"), Section("check", "caller")>>

\* An empty field is named as such.
BriefMaterial(improvements) ==
    <<Section("case", "caller"), Section("situation", "any"), Section("case_facts", "any"),
      Section("call_goal", "caller")>>
    \o If(improvements, <<Section("improvements", "any")>>)

\* The role names who rang and who answers now; R2 what the trainee is, and is not.
BriefRules ==
    <<Section("role", "any"), Section("material", "caller"), Section("field_rules", "any"),
      Section("fields", "any"), Section("goal_rules", "caller"), Section("never", "any"),
      Section("output", "any"), Section("check", "caller")>>

SidesOf(sections) == {sections[k].side : k \in 1 .. Len(sections)} \ {"any"}
================================================================================
