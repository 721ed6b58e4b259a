-------------------------- MODULE ReviewInvariant --------------------------
(***************************************************************************)
(* The inductive invariant of ReviewWorkflow: what a handler's step says   *)
(* about its locals, and how those relate to the rows it wrote or read.    *)
(***************************************************************************)
EXTENDS ReviewWorkflow

AtEvent == {"normalize", "evaluate", "load", "route", "review", "llm", "insert",
            "save", "mark", "queue", "edit", "activate", "reject", "outcome"}
AtRule == {"insert", "edit", "activate", "reject", "create", "status", "enable",
           "import"}
BeforeReview == {"idle", "normalize", "evaluate", "load", "route", "review"}
Reviewing == {"llm", "insert", "save"}
Deciding == {"edit", "activate", "reject", "outcome", "close"}

\* The ids a step needs are there, and the rows they name.
LocalsAt(h) ==
    /\ pc[h] \in AtEvent => arg[h].ev \in Events
    /\ pc[h] \in AtRule => arg[h].rule \in RuleIds
    /\ pc[h] = "close" => arg[h].rv \in Handlers
    /\ pc[h] \in {"edit", "activate", "reject", "status", "enable"}
         => Present(rules[arg[h].rule])
    /\ pc[h] \in Deciding /\ arg[h].rv # None => reviews[arg[h].rv].status # "absent"
    /\ pc[h] = "create" => arg[h].data \in RuleData
    /\ pc[h] = "status" => arg[h].rule \in adminRules

\* A handler between Decide and its end still has the decision it stored.
DecidingAt(h) ==
    /\ pc[h] = "idle" => decisions[h] = NoDecision
    /\ pc[h] \in Deciding \ {"close"} =>
         /\ decisions[h].ev = arg[h].ev /\ decisions[h].kind = arg[h].kind
         /\ decisions[h].rule = arg[h].rule /\ decisions[h].rv = arg[h].rv
         /\ arg[h].kind \in Kinds
    /\ pc[h] = "edit" => arg[h].kind = "EDIT"
    /\ pc[h] = "activate" => arg[h].kind \in {"APPROVE", "EDIT"}
    /\ pc[h] = "close" => decisions[h].rv = arg[h].rv

\* A review that has not been saved has no draft yet; what it is about to
\* insert is a draft that passed the guard.
ReviewingAt(h) ==
    /\ pc[h] \in BeforeReview => reviews[h] = NoReview
    /\ pc[h] \in Reviewing => reviews[h].rule = None /\ reviews[h].ev = arg[h].ev
    /\ pc[h] = "llm" => arg[h].rule = None
    /\ pc[h] = "insert" => /\ arg[h].data \in RuleData /\ AiCanDraft
                           /\ arg[h].data.status = "AI_SUGGESTED"
                           /\ ~arg[h].data.enabled /\ ~arg[h].data.incident
    /\ pc[h] \in {"mark", "queue"} =>
         reviews[h].ev = arg[h].ev /\ reviews[h].status \in {"REVIEWED", "USER_REVIEWED"}

LocalsOK == \A h \in Handlers : LocalsAt(h)
DecidingOK == \A h \in Handlers : DecidingAt(h)
ReviewingOK == \A h \in Handlers : ReviewingAt(h)

\* The draft a review has, or has inserted and not saved yet.
Claim(h) == IF pc[h] = "save" THEN arg[h].rule ELSE reviews[h].rule

ClaimsOK ==
    \A h \in Handlers : Claim(h) # None =>
        /\ Claim(h) \in RuleIds
        /\ rules[Claim(h)].author = "ai_review"
        /\ \A w \in Handlers \ {h} : Claim(w) # Claim(h)

\* A person answers for the rule r being an incident rule.
Vetted(r) == \/ rules[r].author = "user"
             \/ r \in adminRules
             \/ Decided(r, {"EDIT"})

IncidentRulesVetted ==
    /\ \A r \in RuleIds : rules[r].incident => Vetted(r)
    /\ \A h \in Handlers : pc[h] = "route" => \A r \in arg[h].todo : Vetted(r)

\* The incident flag a decision carries was read before its own edit.
IncidentFlagOK ==
    \A h \in Handlers : pc[h] \in Deciding \ {"close"} /\ arg[h].incident => IncidentKnown(h)

\* PendingHasReview, with a review that no step will write any more.
PendingHasSavedReview ==
    /\ \A e \in Events : events[e] = "USER_REVIEW_PENDING" =>
         \E h \in Handlers : /\ reviews[h].ev = e
                             /\ pc[h] \notin Reviewing
                             /\ reviews[h].status \in {"REVIEWED", "USER_REVIEWED"}
    /\ \A h \in Handlers : reviews[h].status = "USER_REVIEWED" =>
         \E d \in Handlers : decisions[d].rv = h

Core == TypeOK /\ LocalsOK /\ DecidingOK /\ ReviewingOK /\ ClaimsOK

IInv ==
    /\ Core
    /\ AiRuleNeedsHuman
    /\ IncidentRulesVetted /\ SosNeedsHuman
    /\ IncidentFlagOK /\ IncidentNeedsHuman
    /\ OutcomeNeedsDecision
    /\ PendingHasSavedReview
    /\ RejectionHasReason
    /\ NoAiRulesWhenOff
=============================================================================
