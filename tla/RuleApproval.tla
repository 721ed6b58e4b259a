---------------------------- MODULE RuleApproval ----------------------------
(***************************************************************************)
(* What the governance of the rules promises, whatever the handlers do in  *)
(* between (rule_management_service.py: GR22-001, GR22-002):               *)
(*   a draft of the AI does not fire before a person has answered for it;  *)
(*   a rule imported from rules.yaml fires, and only a person changes that; *)
(*   only a rule a person has answered for raises SOS alerts;              *)
(*   no rule is ever deleted, nor an answer taken back.                    *)
(* ReviewWorkflow is shown to implement it.                                *)
(***************************************************************************)
CONSTANT Rules

VARIABLES
    standing,   \* standing[r]: who stands behind the rule r
    fires,      \* the rules the evaluator runs
    alarmed     \* the rules that have raised an SOS alert
vars == <<standing, fires, alarmed>>

Standings == {"absent", "draft", "imported", "answered"}

Init ==
    /\ standing = [r \in Rules |-> "absent"]
    /\ fires = {}
    /\ alarmed = {}

Becomes(r, s) == standing' = [standing EXCEPT ![r] = s]

Draft(r) ==
    /\ standing[r] = "absent"
    /\ Becomes(r, "draft")
    /\ UNCHANGED <<fires, alarmed>>

Import(r) ==
    /\ standing[r] = "absent"
    /\ Becomes(r, "imported")
    /\ fires' = fires \cup {r}
    /\ UNCHANGED alarmed

\* A person writes the rule, or decides on it or changes it for the first time.
Answer(r) ==
    /\ standing[r] # "answered"
    /\ Becomes(r, "answered")
    /\ fires' \in {fires, fires \cup {r}, fires \ {r}}
    /\ UNCHANGED alarmed

Switch(r) ==
    /\ standing[r] = "answered"
    /\ fires' \in {fires \cup {r}, fires \ {r}}
    /\ UNCHANGED <<standing, alarmed>>

Alarm(r) ==
    /\ standing[r] = "answered"
    /\ alarmed' = alarmed \cup {r}
    /\ UNCHANGED <<standing, fires>>

Next == \E r \in Rules : Draft(r) \/ Import(r) \/ Answer(r) \/ Switch(r) \/ Alarm(r)

Spec == Init /\ [][Next]_vars
=============================================================================
