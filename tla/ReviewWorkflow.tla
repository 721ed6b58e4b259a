--------------------------- MODULE ReviewWorkflow ---------------------------
(***************************************************************************)
(* The event review workflow: events, rules_db, ai_event_reviews,          *)
(* user_review_decisions and sos_alerts, and every handler that writes     *)
(* them, running concurrently over one SQLite file.                        *)
(*                                                                         *)
(* A handler is one execution of a request or job: a capture or API        *)
(* ingest, an evaluation, a level-1 AI review, a level-2 user decision, an *)
(* admin rule request, or the startup YAML sync.  Every statement the      *)
(* repositories execute is a transaction of its own (_exec commits), so a  *)
(* handler is a sequence of steps and any other handler may run between    *)
(* two of them; pc[h] is the step h takes next and arg[h] the locals it    *)
(* read or was given earlier.  review_async only starts the review thread  *)
(* as evaluate's last act, so the review runs on as the same handler.      *)
(*                                                                         *)
(* A handler runs once, so Handlers bounds the number of requests, and     *)
(* names the review row and the decision row the handler inserts.  Ops is  *)
(* the set of operations the environment may ask for.                      *)
(***************************************************************************)
EXTENDS RulesDb

CONSTANTS
    Handlers,        \* executions of a request or job
    Events,          \* events.id
    RuleIds,         \* rules_db.rule_id (UNIQUE; rows are never deleted)
    YamlRules,       \* the rule ids of config/rules.yaml
    Ops,             \* the operations that occur
    AutoReview,      \* ai_review.enabled and auto_review_on_no_match
    AiCanDraft,      \* rule_governance.ai_can_create_draft_rule
    None             \* "no such id"

Operations == {"ingest", "normalize", "evaluate", "review", "decide", "create",
               "put", "form", "enable", "disable", "sync", "crash"}

ASSUME NoneAssumption == None \notin Handlers \cup Events \cup RuleIds
ASSUME YamlAssumption == YamlRules \subseteq RuleIds
ASSUME OpsAssumption == Ops \subseteq Operations
ASSUME FlagAssumption == AutoReview \in BOOLEAN /\ AiCanDraft \in BOOLEAN

VARIABLES
    rules,       \* rules_db
    events,      \* events.status
    reviews,     \* ai_event_reviews, by the handler that inserted the row
    decisions,   \* user_review_decisions, by the handler that inserted it
    sos,         \* the (event, rule) pairs an SOS alert was created for
    adminRules,  \* history: the rules an admin route has written to
    pc,          \* the step a handler takes next
    arg          \* the locals of a handler

vars == <<rules, events, reviews, decisions, sos, adminRules, pc, arg>>

-----------------------------------------------------------------------------
(* Types *)

EventStatuses == {"absent", "NEW", "NORMALIZED", "EVALUATED", "MATCHED_RULE",
                  "AI_REVIEW_PENDING", "AI_REVIEWED", "USER_REVIEW_PENDING",
                  "CONFIRMED_ISSUE", "CONFIRMED_INCIDENT", "IGNORED"}

ReviewStatuses == {"absent", "PENDING", "REVIEWED", "USER_REVIEWED", "FAILED",
                   "RETRY_REQUIRED"}

Kinds == {"APPROVE", "EDIT", "REJECT", "IGNORE"}

Steps == {"idle", "done", "normalize", "evaluate", "load", "route", "review",
          "llm", "insert", "save", "mark", "queue", "edit", "activate",
          "reject", "outcome", "close", "create", "status", "enable",
          "sync", "import"}

Review == [status : ReviewStatuses, ev : Events \cup {None},
           rule : RuleIds \cup {None}]
NoReview == [status |-> "absent", ev |-> None, rule |-> None]

\* rule is a history field, not a column: the draft the decision was about.
Decision == [kind : Kinds \cup {"none"}, ev : Events \cup {None},
             rv : Handlers \cup {None}, rule : RuleIds \cup {None}]
NoDecision == [kind |-> "none", ev |-> None, rv |-> None, rule |-> None]

\* ev, rv, rule: the ids a handler works on.  kind: its decision.  data: the
\* rule columns it will write.  incident: rule_row["is_incident_rule"] as it
\* was read.  matched, todo: whether a rule matched, and the rules still to
\* raise an SOS for (or still to import).
Arg == [ev : Events \cup {None}, rv : Handlers \cup {None},
        rule : RuleIds \cup {None}, kind : Kinds \cup {"none"},
        data : [status : RawStatuses, enabled : BOOLEAN, incident : BOOLEAN],
        incident : BOOLEAN, matched : BOOLEAN, todo : SUBSET RuleIds]
NoData == [status |-> "DRAFT", enabled |-> FALSE, incident |-> FALSE]
NoArg == [ev |-> None, rv |-> None, rule |-> None, kind |-> "none",
          data |-> NoData, incident |-> FALSE, matched |-> FALSE, todo |-> {}]

TypeOK ==
    /\ rules \in [RuleIds -> Rule \cup {NoRule}]
    /\ events \in [Events -> EventStatuses]
    /\ reviews \in [Handlers -> Review]
    /\ decisions \in [Handlers -> Decision]
    /\ sos \subseteq [ev : Events, rule : RuleIds]
    /\ adminRules \subseteq RuleIds
    /\ pc \in [Handlers -> Steps]
    /\ arg \in [Handlers -> Arg]

-----------------------------------------------------------------------------
(* Control of a handler *)

Starts(h, op) == op \in Ops /\ pc[h] = "idle"

Goto(h, step, locals) ==
    /\ pc' = [pc EXCEPT ![h] = step]
    /\ arg' = [arg EXCEPT ![h] = locals]

Return(h) == Goto(h, "done", NoArg)

Known(e) == events[e] # "absent"

SetEvent(e, status) == events' = [events EXCEPT ![e] = status]
SetRule(r, row) == rules' = [rules EXCEPT ![r] = row]
SetReview(h, row) == reviews' = [reviews EXCEPT ![h] = row]

Init ==
    /\ rules = [r \in RuleIds |-> NoRule]
    /\ events = [e \in Events |-> "absent"]
    /\ reviews = [h \in Handlers |-> NoReview]
    /\ decisions = [h \in Handlers |-> NoDecision]
    /\ sos = {}
    /\ adminRules = {}
    /\ pc = [h \in Handlers |-> "idle"]
    /\ arg = [h \in Handlers |-> NoArg]

-----------------------------------------------------------------------------
(* EventService: ingest, normalize, evaluate *)

\* POST /api/events, or the capture path's create_event_from_screenshot.
\* Without auto_process the handler ends here.
Ingest(h) ==
    /\ Starts(h, "ingest")
    /\ \E e \in Events, auto \in BOOLEAN :
         /\ ~Known(e)
         /\ SetEvent(e, "NEW")
         /\ Goto(h, IF auto THEN "normalize" ELSE "done",
                    IF auto THEN [NoArg EXCEPT !.ev = e] ELSE NoArg)
    /\ UNCHANGED <<rules, reviews, decisions, sos, adminRules>>

\* POST /api/events/{id}/normalize: no check of the event's status.
NormalizeAgain(h) ==
    /\ Starts(h, "normalize")
    /\ \E e \in Events : Known(e) /\ SetEvent(e, "NORMALIZED")
    /\ Return(h)
    /\ UNCHANGED <<rules, reviews, decisions, sos, adminRules>>

Normalize(h) ==
    /\ pc[h] = "normalize"
    /\ SetEvent(arg[h].ev, "NORMALIZED")
    /\ Goto(h, "evaluate", arg[h])
    /\ UNCHANGED <<rules, reviews, decisions, sos, adminRules>>

\* evaluate marks the event before it looks at the rules; the API may ask for
\* it at any time, whatever the event's status.
BeginEvaluate(h) ==
    /\ \E e \in Events :
         /\ \/ pc[h] = "evaluate" /\ arg[h].ev = e
            \/ Starts(h, "evaluate") /\ Known(e)
         /\ SetEvent(e, "EVALUATED")
         /\ Goto(h, "load", [NoArg EXCEPT !.ev = e])
    /\ UNCHANGED <<rules, reviews, decisions, sos, adminRules>>

ActiveRules == {r \in RuleIds : Effective(rules[r])}

\* list_active, then the rule engine over that snapshot: any subset may match.
\* Of the matched rules, the incident rules are the ones that raise an SOS (the
\* others go to the notification path).  With no active rule at all the legacy
\* YAML rules are matched instead, with no effect but the match.
LoadRules(h) ==
    /\ pc[h] = "load"
    /\ \E hits \in SUBSET ActiveRules, fallback \in BOOLEAN :
         Goto(h, "route",
              [arg[h] EXCEPT !.matched = hits # {} \/ (ActiveRules = {} /\ fallback),
                             !.todo = {r \in hits : rules[r].incident}])
    /\ UNCHANGED <<rules, events, reviews, decisions, sos, adminRules>>

\* One insert per matched incident rule, from the row read in LoadRules.
RaiseSos(h) ==
    /\ pc[h] = "route"
    /\ \E r \in arg[h].todo :
         /\ sos' = sos \cup {[ev |-> arg[h].ev, rule |-> r]}
         /\ Goto(h, "route", [arg[h] EXCEPT !.todo = @ \ {r}])
    /\ UNCHANGED <<rules, events, reviews, decisions, adminRules>>

\* Variant: the loop over the matched rules ends at the first one.
RouteEventEarly(h) ==
    /\ pc[h] = "route"
    /\ arg[h].matched
    /\ SetEvent(arg[h].ev, "MATCHED_RULE")
    /\ Return(h)
    /\ UNCHANGED <<rules, reviews, decisions, sos, adminRules>>

RouteEvent(h) ==
    /\ pc[h] = "route"
    /\ arg[h].todo = {}
    /\ \/ /\ arg[h].matched
          /\ SetEvent(arg[h].ev, "MATCHED_RULE")
          /\ Return(h)
       \/ /\ ~arg[h].matched /\ AutoReview
          /\ SetEvent(arg[h].ev, "AI_REVIEW_PENDING")
          /\ Goto(h, "review", [NoArg EXCEPT !.ev = arg[h].ev])
       \/ /\ ~arg[h].matched /\ ~AutoReview
          /\ Return(h)
          /\ UNCHANGED events
    /\ UNCHANGED <<rules, reviews, decisions, sos, adminRules>>

-----------------------------------------------------------------------------
(* AiReviewService.review *)

\* Started by evaluate, or by POST /api/events/{id}/ai-review at any time.
BeginReview(h) ==
    /\ \E e \in Events :
         /\ \/ pc[h] = "review" /\ arg[h].ev = e
            \/ Starts(h, "review") /\ Known(e)
         /\ SetReview(h, [status |-> "PENDING", ev |-> e, rule |-> None])
         /\ Goto(h, "llm", [NoArg EXCEPT !.ev = e])
    /\ UNCHANGED <<rules, events, decisions, sos, adminRules>>

\* Variant: the failure branches do not return.
LlmFailureFallsThrough(h) ==
    /\ pc[h] = "llm"
    /\ \E outcome \in {"RETRY_REQUIRED", "FAILED"} :
         SetReview(h, [reviews[h] EXCEPT !.status = outcome])
    /\ Goto(h, "mark", arg[h])
    /\ UNCHANGED <<rules, events, decisions, sos, adminRules>>

\* A timeout, a provider error or a reply that does not validate.
LlmFails(h) ==
    /\ pc[h] = "llm"
    /\ \E outcome \in {"RETRY_REQUIRED", "FAILED"} :
         SetReview(h, [reviews[h] EXCEPT !.status = outcome])
    /\ Return(h)
    /\ UNCHANGED <<rules, events, decisions, sos, adminRules>>

\* A valid reply without a usable draft: none suggested, or create_rule
\* refuses it (governance, bad data, or the rule_id is already taken).
ReplyWithoutDraft(h) ==
    /\ pc[h] = "llm"
    /\ Goto(h, "save", arg[h])
    /\ UNCHANGED <<rules, events, reviews, decisions, sos, adminRules>>

\* A valid reply with a draft that passes _guard and finds its rule_id free.
ReplyWithDraft(h) ==
    /\ pc[h] = "llm"
    /\ \E r \in RuleIds, reply \in RuleData :
         /\ ~Present(rules[r])
         /\ GuardAdmitsAi(AiDraft(reply), AiCanDraft)
         /\ Goto(h, "insert", [arg[h] EXCEPT !.rule = r, !.data = AiDraft(reply)])
    /\ UNCHANGED <<rules, events, reviews, decisions, sos, adminRules>>

\* Variant: a taken rule_id is linked to the review.
InsertOrLinkDraft(h) ==
    /\ pc[h] = "insert"
    /\ IF Present(rules[arg[h].rule])
       THEN UNCHANGED rules
       ELSE SetRule(arg[h].rule, NewRow(arg[h].data, "ai_review"))
    /\ Goto(h, "save", arg[h])
    /\ UNCHANGED <<events, reviews, decisions, sos, adminRules>>

\* The INSERT of create_rule.  If another handler took the rule_id since the
\* check, sqlite3.IntegrityError is neither of the errors review() catches: the
\* thread dies and the review row stays PENDING.
InsertDraft(h) ==
    /\ pc[h] = "insert"
    /\ LET r == arg[h].rule IN
         IF Present(rules[r])
         THEN Return(h) /\ UNCHANGED rules
         ELSE /\ SetRule(r, NewRow(arg[h].data, "ai_review"))
              /\ Goto(h, "save", arg[h])
    /\ UNCHANGED <<events, reviews, decisions, sos, adminRules>>

SaveReview(h) ==
    /\ pc[h] = "save"
    /\ SetReview(h, [reviews[h] EXCEPT !.status = "REVIEWED", !.rule = arg[h].rule])
    /\ Goto(h, "mark", arg[h])
    /\ UNCHANGED <<rules, events, decisions, sos, adminRules>>

\* The two status writes that end a successful review.
MarkReviewed(h) ==
    /\ pc[h] = "mark"
    /\ SetEvent(arg[h].ev, "AI_REVIEWED")
    /\ Goto(h, "queue", arg[h])
    /\ UNCHANGED <<rules, reviews, decisions, sos, adminRules>>

QueueForUser(h) ==
    /\ pc[h] = "queue"
    /\ SetEvent(arg[h].ev, "USER_REVIEW_PENDING")
    /\ Return(h)
    /\ UNCHANGED <<rules, reviews, decisions, sos, adminRules>>

-----------------------------------------------------------------------------
(* RuleManagementService.apply_user_decision *)

\* Variant: everything but REJECT activates the draft.
AfterAnyButReject(kind, rule, withJson) ==
    IF rule = None THEN "outcome" ELSE IF kind = "REJECT" THEN "reject" ELSE "activate"

\* The step a decision goes to once its row is stored.
AfterDecision(kind, rule, withJson) ==
    CASE rule = None \/ kind = "IGNORE" -> "outcome"
      [] rule # None /\ kind = "REJECT" -> "reject"
      [] rule # None /\ kind = "EDIT" /\ withJson -> "edit"
      [] OTHER -> "activate"

\* Reads the review and its draft, then stores the decision row first.  Nothing
\* asks whether the event or the review still awaits a decision.  A REJECT
\* carries a reason (it is refused otherwise).
Decide(h) ==
    /\ Starts(h, "decide")
    /\ \E e \in Events, kind \in Kinds, withJson \in BOOLEAN,
         rv \in {None} \cup {w \in Handlers : reviews[w].status # "absent"} :
         LET rule == IF rv = None THEN None ELSE reviews[rv].rule IN
         /\ Known(e)
         /\ decisions' = [decisions EXCEPT ![h] =
                            [kind |-> kind, ev |-> e, rv |-> rv, rule |-> rule]]
         /\ Goto(h, AfterDecision(kind, rule, withJson),
                 [NoArg EXCEPT !.ev = e, !.rv = rv, !.rule = rule, !.kind = kind,
                               !.incident = rule # None /\ rules[rule].incident])
    /\ UNCHANGED <<rules, events, reviews, sos, adminRules>>

\* EDIT with edited_rule_json: text that is not JSON raises, with the decision
\* row already stored; otherwise update_rule writes any of the columns.
EditDraft(h) ==
    /\ pc[h] = "edit"
    /\ \/ Return(h) /\ UNCHANGED rules
       \/ \E status \in RawStatuses, enabled, incident, reason \in BOOLEAN :
            /\ SetRule(arg[h].rule,
                       [rules[arg[h].rule] EXCEPT !.status = status, !.enabled = enabled,
                                                  !.incident = incident, !.reason = reason])
            /\ Goto(h, "activate", arg[h])
    /\ UNCHANGED <<events, reviews, decisions, sos, adminRules>>

ActivateDraft(h) ==
    /\ pc[h] = "activate"
    /\ SetRule(arg[h].rule, WithStatus(rules[arg[h].rule], "ACTIVE"))
    /\ Goto(h, "outcome", arg[h])
    /\ UNCHANGED <<events, reviews, decisions, sos, adminRules>>

RejectDraft(h) ==
    /\ pc[h] = "reject"
    /\ SetRule(arg[h].rule, WithStatus(rules[arg[h].rule], "REJECTED"))
    /\ Goto(h, "outcome", arg[h])
    /\ UNCHANGED <<events, reviews, decisions, sos, adminRules>>

\* Variant: everything but REJECT confirms the event.
OutcomeUnlessReject(kind, incident) ==
    IF kind = "REJECT" THEN "IGNORED"
    ELSE IF incident THEN "CONFIRMED_INCIDENT" ELSE "CONFIRMED_ISSUE"

\* The incident flag is the one read in Decide, before any edit.
Outcome(kind, incident) ==
    IF kind \in {"APPROVE", "EDIT"}
    THEN IF incident THEN "CONFIRMED_INCIDENT" ELSE "CONFIRMED_ISSUE"
    ELSE "IGNORED"

\* Variant: the review is not closed.
SetOutcomeOnly(h) ==
    /\ pc[h] = "outcome"
    /\ SetEvent(arg[h].ev, Outcome(arg[h].kind, arg[h].incident))
    /\ Return(h)
    /\ UNCHANGED <<rules, reviews, decisions, sos, adminRules>>

SetOutcome(h) ==
    /\ pc[h] = "outcome"
    /\ SetEvent(arg[h].ev, Outcome(arg[h].kind, arg[h].incident))
    /\ IF arg[h].rv = None
       THEN Return(h)
       ELSE Goto(h, "close", [NoArg EXCEPT !.rv = arg[h].rv])
    /\ UNCHANGED <<rules, reviews, decisions, sos, adminRules>>

CloseReview(h) ==
    /\ pc[h] = "close"
    /\ SetReview(arg[h].rv, [reviews[arg[h].rv] EXCEPT !.status = "USER_REVIEWED"])
    /\ Return(h)
    /\ UNCHANGED <<rules, events, decisions, sos, adminRules>>

-----------------------------------------------------------------------------
(* The admin's rule routes *)

\* POST /api/rules, POST /admin/rules/new: create_rule's check, then its INSERT.
BeginCreate(h) ==
    /\ Starts(h, "create")
    /\ \E r \in RuleIds, data \in RuleData :
         /\ ~Present(rules[r])
         /\ Goto(h, "create", [NoArg EXCEPT !.rule = r, !.data = data])
    /\ UNCHANGED <<rules, events, reviews, decisions, sos, adminRules>>

InsertRule(h) ==
    /\ pc[h] = "create"
    /\ IF Present(rules[arg[h].rule])
       THEN UNCHANGED rules          \* the UNIQUE constraint refuses the row
       ELSE SetRule(arg[h].rule, NewRow(arg[h].data, "user"))
    /\ Return(h)
    /\ UNCHANGED <<events, reviews, decisions, sos, adminRules>>

\* PUT /api/rules/{id}: update_rule stores the body's fields as they are, the
\* status included; then, if there was a status, set_status is called on it.
\* data.status is the status as set_status reads it (upper case), raw the text
\* update_rule stores.
PutRule(h) ==
    /\ Starts(h, "put")
    /\ \E r \in RuleIds, incident \in BOOLEAN, status \in RawStatuses \cup {"none"} :
         /\ Present(rules[r])
         /\ adminRules' = adminRules \cup {r}
         /\ \/ /\ status = "none"
               /\ SetRule(r, [rules[r] EXCEPT !.incident = incident])
               /\ Return(h)
            \/ /\ status # "none"
               /\ \E raw \in {status, OtherStatus} :
                    SetRule(r, [rules[r] EXCEPT !.incident = incident, !.status = raw])
               /\ Goto(h, "status",
                       [NoArg EXCEPT !.rule = r, !.data = [NoData EXCEPT !.status = status]])
    /\ UNCHANGED <<events, reviews, decisions, sos>>

\* POST /admin/rules/{id}/edit: the status is taken out of the fields, and goes
\* to set_status alone, if it differs from the one read before the update.
FormEdit(h) ==
    /\ Starts(h, "form")
    /\ \E r \in RuleIds, incident, change \in BOOLEAN, status \in RawStatuses :
         /\ Present(rules[r])
         /\ adminRules' = adminRules \cup {r}
         /\ SetRule(r, [rules[r] EXCEPT !.incident = incident])
         /\ IF change
            THEN Goto(h, "status",
                      [NoArg EXCEPT !.rule = r, !.data = [NoData EXCEPT !.status = status]])
            ELSE Return(h)
    /\ UNCHANGED <<events, reviews, decisions, sos>>

\* set_status as both routes call it, with no reject_reason.
PutStatus(h) ==
    /\ pc[h] = "status"
    /\ LET status == arg[h].data.status
           r == arg[h].rule
       IN  IF StatusAccepted(status, FALSE)
           THEN SetRule(r, WithStatus(rules[r], status))
           ELSE UNCHANGED rules
    /\ Return(h)
    /\ UNCHANGED <<events, reviews, decisions, sos, adminRules>>

\* enable_rule reads the status and writes the flag in two statements.
BeginEnable(h) ==
    /\ Starts(h, "enable")
    /\ \E r \in RuleIds :
         /\ rules[r].status = "ACTIVE"
         /\ Goto(h, "enable", [NoArg EXCEPT !.rule = r])
    /\ UNCHANGED <<rules, events, reviews, decisions, sos, adminRules>>

EnableRule(h) ==
    /\ pc[h] = "enable"
    /\ SetRule(arg[h].rule, [rules[arg[h].rule] EXCEPT !.enabled = TRUE])
    /\ adminRules' = adminRules \cup {arg[h].rule}
    /\ Return(h)
    /\ UNCHANGED <<events, reviews, decisions, sos>>

DisableRule(h) ==
    /\ Starts(h, "disable")
    /\ \E r \in RuleIds :
         /\ Present(rules[r])
         /\ SetRule(r, [rules[r] EXCEPT !.status = "DISABLED", !.enabled = FALSE])
         /\ adminRules' = adminRules \cup {r}
    /\ Return(h)
    /\ UNCHANGED <<events, reviews, decisions, sos>>

-----------------------------------------------------------------------------
(* sync_yaml_to_db, run by every process that starts *)

BeginSync(h) ==
    /\ Starts(h, "sync")
    /\ Goto(h, "sync", [NoArg EXCEPT !.todo = YamlRules])
    /\ UNCHANGED <<rules, events, reviews, decisions, sos, adminRules>>

\* The loop's check: an existing rule_id is left alone.
CheckYamlRule(h) ==
    /\ pc[h] = "sync"
    /\ IF arg[h].todo = {}
       THEN Return(h)
       ELSE \E r \in arg[h].todo :
              LET rest == [arg[h] EXCEPT !.todo = @ \ {r}, !.rule = r]
              IN  Goto(h, IF Present(rules[r]) THEN "sync" ELSE "import", rest)
    /\ UNCHANGED <<rules, events, reviews, decisions, sos, adminRules>>

\* Variant: a row that is there is replaced.
ImportOverwriting(h) ==
    /\ pc[h] = "import"
    /\ SetRule(arg[h].rule, YamlRow)
    /\ Goto(h, "sync", arg[h])
    /\ UNCHANGED <<events, reviews, decisions, sos, adminRules>>

\* A rule_id taken since the check raises, and the import ends there
\* (build_prd22 logs the exception and continues).
ImportYamlRule(h) ==
    /\ pc[h] = "import"
    /\ IF Present(rules[arg[h].rule])
       THEN Return(h) /\ UNCHANGED rules
       ELSE SetRule(arg[h].rule, YamlRow) /\ Goto(h, "sync", arg[h])
    /\ UNCHANGED <<events, reviews, decisions, sos, adminRules>>

-----------------------------------------------------------------------------
\* The process exits, or an exception no one catches ends the handler.  What
\* it committed stays, and nothing at startup resumes what was under way.
Crash(h) ==
    /\ "crash" \in Ops
    /\ pc[h] \notin {"idle", "done"}
    /\ Return(h)
    /\ UNCHANGED <<rules, events, reviews, decisions, sos, adminRules>>

EventStep(h) == \/ Ingest(h) \/ NormalizeAgain(h) \/ Normalize(h)
                \/ BeginEvaluate(h) \/ LoadRules(h) \/ RaiseSos(h) \/ RouteEvent(h)

ReviewStep(h) == \/ BeginReview(h) \/ LlmFails(h) \/ ReplyWithoutDraft(h)
                 \/ ReplyWithDraft(h) \/ InsertDraft(h) \/ SaveReview(h)
                 \/ MarkReviewed(h) \/ QueueForUser(h)

DecisionStep(h) == \/ Decide(h) \/ EditDraft(h) \/ ActivateDraft(h)
                   \/ RejectDraft(h) \/ SetOutcome(h) \/ CloseReview(h)

AdminStep(h) == \/ BeginCreate(h) \/ InsertRule(h) \/ PutRule(h) \/ FormEdit(h)
                \/ PutStatus(h) \/ BeginEnable(h) \/ EnableRule(h) \/ DisableRule(h)

SyncStep(h) == BeginSync(h) \/ CheckYamlRule(h) \/ ImportYamlRule(h)

HandlerStep(h) ==
    EventStep(h) \/ ReviewStep(h) \/ DecisionStep(h) \/ AdminStep(h) \/ SyncStep(h)

Next == \E h \in Handlers : HandlerStep(h) \/ Crash(h)

Spec == Init /\ [][Next]_vars

\* A handler that has started and is not killed runs to its end; nobody has to
\* start one.
FairSpec ==
    /\ Spec
    /\ \A h \in Handlers : WF_vars(pc[h] # "idle" /\ HandlerStep(h))

-----------------------------------------------------------------------------
(* Properties *)

\* A decision of one of these kinds about the draft r is on record.
Decided(r, kinds) ==
    \E d \in Handlers : decisions[d].kind \in kinds /\ decisions[d].rule = r

\* A person answers for the rule r.
Answered(r) == \/ rules[r].author = "user"
               \/ r \in adminRules
               \/ Decided(r, {"APPROVE", "EDIT"})

\* GR22-001: a rule the AI wrote runs only after an operator's APPROVE or EDIT
\* of that very draft is on record, or an admin has written to the rule;
\* whatever reviews, decisions, rule requests and syncs ran in between.
AiRuleNeedsHuman ==
    \A r \in RuleIds :
        rules[r].author = "ai_review" /\ Effective(rules[r])
            => r \in adminRules \/ Decided(r, {"APPROVE", "EDIT"})

\* GR22-002: an SOS alert comes only from a rule an admin created or wrote to,
\* or a draft an operator edited: the AI's own is_incident_rule never counts,
\* and neither does a rule imported from YAML.  The evaluator raises the alert
\* from a snapshot, so this relates an alert to decisions made before it.
SosNeedsHuman ==
    \A s \in sos :
        \/ rules[s.rule].author = "user"
        \/ s.rule \in adminRules
        \/ Decided(s.rule, {"EDIT"})

\* A review's draft is the row that review inserted: it was written by the AI
\* and no other review claims it.  So a decision never changes a rule of a
\* user, or another review's draft, that happens to have the same rule_id.
DraftIsOwn ==
    \A h \in Handlers : reviews[h].rule # None =>
        /\ rules[reviews[h].rule].author = "ai_review"
        /\ \A w \in Handlers \ {h} : reviews[w].rule # reviews[h].rule

\* A final event status has a decision of the right kind on record: CONFIRMED
\* needs an APPROVE or EDIT of this event, IGNORED a REJECT or IGNORE.
OutcomeNeedsDecision ==
    \A e \in Events :
        LET decided(kinds) == \E d \in Handlers :
                decisions[d].ev = e /\ decisions[d].kind \in kinds
        IN  /\ events[e] \in {"CONFIRMED_ISSUE", "CONFIRMED_INCIDENT"}
                   => decided({"APPROVE", "EDIT"})
            /\ events[e] = "IGNORED" => decided({"REJECT", "IGNORE"})

\* The decision d is about a draft that a person had made an incident rule
\* before: an admin wrote to it, or another decision edited it.
IncidentKnown(d) ==
    /\ decisions[d].rule # None
    /\ \/ decisions[d].rule \in adminRules
       \/ \E x \in Handlers \ {d} :
            decisions[x].kind = "EDIT" /\ decisions[x].rule = decisions[d].rule

\* An event is confirmed as an incident only by an APPROVE or EDIT of a draft
\* that was an incident rule by a person's doing before; the decision's own
\* edit does not count, for the flag is read first.
IncidentNeedsHuman ==
    \A e \in Events : events[e] = "CONFIRMED_INCIDENT" =>
        \E d \in Handlers : decisions[d].ev = e /\ decisions[d].kind \in {"APPROVE", "EDIT"}
                            /\ IncidentKnown(d)

\* An event that waits for the level-2 decision has a completed review to
\* decide on, and a review that counts as decided has its decision on record.
PendingHasReview ==
    /\ \A e \in Events : events[e] = "USER_REVIEW_PENDING" =>
         \E h \in Handlers : reviews[h].ev = e
                             /\ reviews[h].status \in {"REVIEWED", "USER_REVIEWED"}
    /\ \A h \in Handlers : reviews[h].status = "USER_REVIEWED" =>
         \E d \in Handlers : decisions[d].rv = h

\* GR22-003, as far as it goes: a REJECTED rule without a reject_reason was not
\* rejected by a decision; an admin created it so, an admin route wrote to it,
\* or the JSON of an EDIT did.
RejectionHasReason ==
    \A r \in RuleIds : rules[r].status = "REJECTED" /\ ~rules[r].reason
        => rules[r].author = "user" \/ r \in adminRules \/ Decided(r, {"EDIT"})

\* With ai_can_create_draft_rule off the AI adds no row to rules_db, whatever
\* the model replies.
NoAiRulesWhenOff ==
    ~AiCanDraft => \A r \in RuleIds : rules[r].author # "ai_review"

\* A recorded decision is carried through to the last of its writes, the one
\* that closes the review it names, whatever the review and the other handlers
\* write meanwhile (under FairSpec, without crashes).  Only an EDIT whose JSON
\* does not parse stops short, and it never leaves the step "edit".
DecisionTakesEffect ==
    \A d \in Handlers :
        (pc[d] \in {"activate", "reject", "outcome", "close"} /\ decisions[d].rv # None)
            ~> \E w \in Handlers : decisions[d].rv = w /\ reviews[w].status = "USER_REVIEWED"

\* Every incident rule in the snapshot an evaluation matched raises its SOS
\* alert, though the rule may be disabled, rejected or edited meanwhile.
MatchedIncidentAlerts ==
    \A h \in Handlers, e \in Events, r \in RuleIds :
        (pc[h] = "route" /\ arg[h].ev = e /\ r \in arg[h].todo)
            ~> ([ev |-> e, rule |-> r] \in sos)

-----------------------------------------------------------------------------
(* The abstract specification *)

\* Who stands behind a rule: a person answers for it by creating it, by
\* writing to it, or by a decision that approves or edits it.
Standing ==
    [r \in RuleIds |->
        IF ~Present(rules[r]) THEN "absent"
        ELSE IF Answered(r) THEN "answered"
        ELSE IF rules[r].author = "ai_review" THEN "draft" ELSE "imported"]

Approval == INSTANCE RuleApproval WITH
    Rules    <- RuleIds,
    standing <- Standing,
    fires    <- ActiveRules,
    alarmed  <- {s.rule : s \in sos}

\* Under every interleaving of reviews, decisions, admin requests, imports and
\* evaluations, each step is one the governance allows, or changes nothing it
\* speaks of: drafts stay silent until they are answered for, imported rules
\* change by a person's hand only, and alerts need an answer.
Approves == Approval!Spec

-----------------------------------------------------------------------------
(* What the documents say and the code does not keep *)

\* "GR22-003: REJECTED rows are KEPT (+ reject_reason)", in every state.
RejectedHasReason ==
    \A r \in RuleIds : rules[r].status = "REJECTED" => rules[r].reason

\* The review queue lists the reviews that await the level-2 decision: once no
\* handler is at work, an event in USER_REVIEW_PENDING has a review listed.
WaitingIsListed ==
    (\A h \in Handlers : pc[h] \in {"idle", "done"}) =>
        \A e \in Events : events[e] = "USER_REVIEW_PENDING" =>
            \E h \in Handlers : reviews[h].ev = e /\ reviews[h].status = "REVIEWED"
=============================================================================
