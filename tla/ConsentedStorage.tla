-------------------------- MODULE ConsentedStorage --------------------------
(* What the data-protection side of the trainer promises (ADR 0066, 0067),  *)
(* without tables, locks or transactions: a training is kept only while its *)
(* subject agrees to it, and taken in only under the notice in force;       *)
(* whatever is kept may be forgotten at any time, and taking the agreement  *)
(* back forgets everything of that subject at once.                         *)
CONSTANTS Subjects, Calls

VARIABLES
    agreed,   \* the subjects whose last decision was to agree
    informed, \* those of them who agreed to the notice now in force
    kept      \* the trainings kept, as <<subject, call>>

vars == <<agreed, informed, kept>>

Of(u) == {u} \X Calls

Init == /\ agreed \subseteq Subjects
        /\ informed = {}
        /\ kept = {}

Agree(u) == /\ agreed' = agreed \cup {u}
            /\ informed' = informed \cup {u}
            /\ UNCHANGED kept

Keep(u, c) == /\ u \in informed
              /\ kept' = kept \cup {<<u, c>>}
              /\ UNCHANGED <<agreed, informed>>

Forget == /\ kept' \subseteq kept
          /\ UNCHANGED <<agreed, informed>>

Withdraw(u) == /\ agreed' = agreed \ {u}
               /\ informed' = informed \ {u}
               /\ kept' = kept \ Of(u)

\* A new notice: everybody who agreed is to be asked again, nothing is forgotten.
NewNotice == /\ informed' = {}
             /\ UNCHANGED <<agreed, kept>>

Next == \/ \E u \in Subjects : Agree(u) \/ Withdraw(u)
        \/ \E u \in Subjects, c \in Calls : Keep(u, c)
        \/ Forget \/ NewNotice

Spec == Init /\ [][Next]_vars

(* Nothing is kept of a subject who does not agree to it.                   *)
KeptIsAgreed == \A k \in kept : k[1] \in agreed
=============================================================================
