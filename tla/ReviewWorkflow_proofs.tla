----------------------- MODULE ReviewWorkflow_proofs -----------------------
(***************************************************************************)
(* Proofs about ReviewWorkflow, for any sets of handlers, events and       *)
(* rules, any YAML file and either setting of the two switches; in the     *)
(* last part, that it implements RuleApproval.                             *)
(***************************************************************************)
EXTENDS ReviewInvariant, TLAPS

-----------------------------------------------------------------------------
(* Rows and locals *)

\* A new row, and a row after a status change, are rows, and keep the author.
LEMMA RowTypes ==
    /\ \A data \in RuleData, a \in Authors : NewRow(data, a) \in Rule
    /\ \A row \in Rule, s \in RuleStatuses :
         WithStatus(row, s) \in Rule /\ WithStatus(row, s).author = row.author
    /\ YamlRow \in Rule
    /\ \A row \in Rule : Present(row)
    /\ ~Present(NoRule)
<1>1. \A data \in RuleData, a \in Authors : NewRow(data, a) \in Rule
  BY DEF NewRow, Rule, RuleData, RawStatuses
<1>2. ASSUME NEW row \in Rule, NEW s \in RuleStatuses
      PROVE  WithStatus(row, s) \in Rule /\ WithStatus(row, s).author = row.author
  <2>1. (s = "ACTIVE" \/ (s \notin {"REJECTED", "DISABLED"} /\ row.enabled)) \in BOOLEAN
    OBVIOUS
  <2>2. (s = "REJECTED" \/ row.reason) \in BOOLEAN
    OBVIOUS
  <2> QED
    BY <2>1, <2>2 DEF WithStatus, Rule, RawStatuses
<1>3. YamlRow \in Rule
  BY DEF YamlRow, NewRow, Rule, RawStatuses, RuleStatuses, Authors
<1>4. (\A row \in Rule : Present(row)) /\ ~Present(NoRule)
  BY DEF Rule, Authors, Present, NoRule
<1> QED
  BY <1>1, <1>2, <1>3, <1>4

\* So is a row with some of its columns overwritten.
LEMMA RowUpdates ==
    ASSUME NEW row \in Rule, NEW status \in RawStatuses, NEW enabled \in BOOLEAN,
           NEW incident \in BOOLEAN, NEW reason \in BOOLEAN
    PROVE  /\ [row EXCEPT !.incident = incident] \in Rule
           /\ [row EXCEPT !.enabled = enabled] \in Rule
           /\ [row EXCEPT !.status = status, !.enabled = enabled] \in Rule
           /\ [row EXCEPT !.incident = incident, !.status = status] \in Rule
           /\ [row EXCEPT !.status = status, !.enabled = enabled,
                          !.incident = incident, !.reason = reason] \in Rule
BY DEF Rule

LEMMA NoArgType == NoArg \in Arg
BY DEF NoArg, Arg, NoData, RawStatuses, RuleStatuses

\* The locals the steps build are locals.
LEMMA LocalsTypes ==
    /\ \A a \in Arg, m \in BOOLEAN, t \in SUBSET RuleIds :
         [a EXCEPT !.matched = m, !.todo = t] \in Arg
    /\ \A a \in Arg, t \in SUBSET RuleIds, r \in RuleIds :
         [a EXCEPT !.todo = t, !.rule = r] \in Arg
    /\ \A a \in Arg, r \in RuleIds, data \in RuleData :
         [a EXCEPT !.rule = r, !.data = data] \in Arg
    /\ \A r \in RuleIds, s \in RawStatuses :
         [NoArg EXCEPT !.rule = r, !.data = [NoData EXCEPT !.status = s]] \in Arg
    /\ \A w \in Handlers : [NoArg EXCEPT !.rv = w] \in Arg
<1>1. \A a \in Arg, m \in BOOLEAN, t \in SUBSET RuleIds :
        [a EXCEPT !.matched = m, !.todo = t] \in Arg
  BY DEF Arg
<1>2. \A a \in Arg, t \in SUBSET RuleIds, r \in RuleIds :
        [a EXCEPT !.todo = t, !.rule = r] \in Arg
  BY DEF Arg
<1>3. \A a \in Arg, r \in RuleIds, data \in RuleData :
        [a EXCEPT !.rule = r, !.data = data] \in Arg
  BY DEF Arg, RuleData, RawStatuses
<1>4. \A s \in RawStatuses : [NoData EXCEPT !.status = s]
        \in [status : RawStatuses, enabled : BOOLEAN, incident : BOOLEAN]
  BY DEF NoData
<1>5. \A r \in RuleIds, s \in RawStatuses :
        [NoArg EXCEPT !.rule = r, !.data = [NoData EXCEPT !.status = s]] \in Arg
  BY <1>4, NoArgType DEF Arg
<1>6. \A w \in Handlers : [NoArg EXCEPT !.rv = w] \in Arg
  BY NoArgType DEF Arg
<1> QED
  BY <1>1, <1>2, <1>3, <1>5, <1>6

\* Writing a row into rules_db keeps its type.
LEMMA SetRuleType ==
    ASSUME TypeOK, NEW r, NEW row \in Rule, SetRule(r, row)
    PROVE  rules' \in [RuleIds -> Rule \cup {NoRule}]
BY DEF TypeOK, SetRule

\* The locals a handler goes on with are locals.
LEMMA GotoType ==
    ASSUME TypeOK, NEW h \in Handlers, NEW s \in Steps, NEW a \in Arg, Goto(h, s, a)
    PROVE  pc' \in [Handlers -> Steps] /\ arg' \in [Handlers -> Arg]
BY DEF TypeOK, Goto

LEMMA ReturnType ==
    ASSUME TypeOK, NEW h \in Handlers, Return(h)
    PROVE  pc' \in [Handlers -> Steps] /\ arg' \in [Handlers -> Arg]
BY NoArgType, GotoType DEF Return, Steps

LEMMA EventStepType ==
    ASSUME Core, NEW h \in Handlers, EventStep(h)
    PROVE  TypeOK'
<1> USE DEF Core, TypeOK
<1>1. CASE Ingest(h)
  BY <1>1, NoArgType DEF Ingest, Goto, SetEvent, Steps, EventStatuses, Arg
<1>2. CASE NormalizeAgain(h)
  BY <1>2, ReturnType DEF NormalizeAgain, SetEvent, EventStatuses
<1>3. CASE Normalize(h)
  BY <1>3 DEF Normalize, SetEvent, EventStatuses, Goto, Steps
<1>4. CASE BeginEvaluate(h)
  <2> PICK e \in Events : /\ SetEvent(e, "EVALUATED")
                          /\ Goto(h, "load", [NoArg EXCEPT !.ev = e])
    BY <1>4 DEF BeginEvaluate
  <2> QED
    BY <1>4, NoArgType DEF BeginEvaluate, Goto, SetEvent, Steps, EventStatuses, Arg
<1>5. CASE LoadRules(h)
  <2> PICK hits \in SUBSET ActiveRules, fallback \in BOOLEAN :
         Goto(h, "route",
              [arg[h] EXCEPT !.matched = hits # {} \/ (ActiveRules = {} /\ fallback),
                             !.todo = {r \in hits : rules[r].incident}])
    BY <1>5 DEF LoadRules
  <2>1. (hits # {} \/ (ActiveRules = {} /\ fallback)) \in BOOLEAN
    OBVIOUS
  <2>2. {r \in hits : rules[r].incident} \subseteq RuleIds
    BY DEF ActiveRules
  <2> QED
    BY <1>5, <2>1, <2>2, LocalsTypes, GotoType DEF LoadRules, Steps
<1>6. CASE RaiseSos(h)
  BY <1>6 DEF RaiseSos, Goto, Steps, Arg, LocalsOK, LocalsAt, AtEvent
<1>7. CASE RouteEvent(h)
  BY <1>7, NoArgType, ReturnType DEF RouteEvent, Goto, Steps, Arg, SetEvent, EventStatuses
<1> QED
  BY <1>1, <1>2, <1>3, <1>4, <1>5, <1>6, <1>7 DEF EventStep

LEMMA ReviewStepType ==
    ASSUME Core, NEW h \in Handlers, ReviewStep(h)
    PROVE  TypeOK'
<1> USE DEF Core, TypeOK
<1>1. CASE BeginReview(h)
  <2> PICK e \in Events :
         /\ SetReview(h, [status |-> "PENDING", ev |-> e, rule |-> None])
         /\ Goto(h, "llm", [NoArg EXCEPT !.ev = e])
    BY <1>1 DEF BeginReview
  <2> QED
    BY <1>1, NoArgType DEF BeginReview, Goto, SetReview, Steps, Review, ReviewStatuses, Arg
<1>2. CASE LlmFails(h)
  BY <1>2, ReturnType DEF LlmFails, SetReview, Review, ReviewStatuses
<1>3. CASE ReplyWithoutDraft(h)
  BY <1>3 DEF ReplyWithoutDraft, Goto, Steps
<1>4. CASE ReplyWithDraft(h)
  <2> PICK r \in RuleIds, reply \in RuleData :
         Goto(h, "insert", [arg[h] EXCEPT !.rule = r, !.data = AiDraft(reply)])
    BY <1>4 DEF ReplyWithDraft
  <2>1. AiDraft(reply) \in RuleData
    BY DEF AiDraft, RuleData, RuleStatuses
  <2> QED
    BY <1>4, <2>1, LocalsTypes, GotoType DEF ReplyWithDraft, Steps
<1>5. CASE InsertDraft(h)
  BY <1>5, ReturnType, RowTypes
     DEF InsertDraft, SetRule, Goto, Steps, LocalsOK, LocalsAt, AtRule, ReviewingOK, ReviewingAt, Authors
<1>6. CASE SaveReview(h)
  BY <1>6 DEF SaveReview, SetReview, Goto, Steps, Review, ReviewStatuses, Arg
<1>7. CASE MarkReviewed(h)
  BY <1>7 DEF MarkReviewed, SetEvent, EventStatuses, Goto, Steps
<1>8. CASE QueueForUser(h)
  BY <1>8, ReturnType DEF QueueForUser, SetEvent, EventStatuses
<1> QED
  BY <1>1, <1>2, <1>3, <1>4, <1>5, <1>6, <1>7, <1>8 DEF ReviewStep

\* What Decide does, with the draft as a bound variable.
DecideIs(h, e, kind, withJson, rv, rule, incident) ==
    /\ Starts(h, "decide") /\ Known(e)
    /\ rule = IF rv = None THEN None ELSE reviews[rv].rule
    /\ incident = (rule # None /\ rules[rule].incident)
    /\ decisions' = [decisions EXCEPT ![h] =
                       [kind |-> kind, ev |-> e, rv |-> rv, rule |-> rule]]
    /\ Goto(h, AfterDecision(kind, rule, withJson),
            [NoArg EXCEPT !.ev = e, !.rv = rv, !.rule = rule, !.kind = kind,
                          !.incident = incident])
    /\ UNCHANGED <<rules, events, reviews, sos, adminRules>>

LEMMA DecideCases ==
    ASSUME Core, NEW h \in Handlers, Decide(h)
    PROVE  \E e \in Events, kind \in Kinds, withJson \in BOOLEAN,
              rv \in {None} \cup {w \in Handlers : reviews[w].status # "absent"},
              rule \in RuleIds \cup {None}, incident \in BOOLEAN :
                DecideIs(h, e, kind, withJson, rv, rule, incident)
<1> PICK e \in Events, kind \in Kinds, withJson \in BOOLEAN,
         rv \in {None} \cup {w \in Handlers : reviews[w].status # "absent"},
         rule \in RuleIds \cup {None} :
       /\ Known(e)
       /\ rule = IF rv = None THEN None ELSE reviews[rv].rule
       /\ decisions' = [decisions EXCEPT ![h] =
                          [kind |-> kind, ev |-> e, rv |-> rv, rule |-> rule]]
       /\ Goto(h, AfterDecision(kind, rule, withJson),
               [NoArg EXCEPT !.ev = e, !.rv = rv, !.rule = rule, !.kind = kind,
                             !.incident = rule # None /\ rules[rule].incident])
  BY DEF Decide, Core, TypeOK, Review
<1> PICK incident \in BOOLEAN : incident = (rule # None /\ rules[rule].incident)
  OBVIOUS
<1>1. DecideIs(h, e, kind, withJson, rv, rule, incident)
  BY DEF DecideIs, Decide
<1> QED
  BY <1>1

LEMMA DecisionStepType ==
    ASSUME Core, NEW h \in Handlers, DecisionStep(h)
    PROVE  TypeOK'
<1> USE DEF Core, TypeOK
<1>1. CASE Decide(h)
  <2> PICK e \in Events, kind \in Kinds, withJson \in BOOLEAN,
           rv \in {None} \cup {w \in Handlers : reviews[w].status # "absent"},
           rule \in RuleIds \cup {None}, incident \in BOOLEAN :
             DecideIs(h, e, kind, withJson, rv, rule, incident)
    BY <1>1, DecideCases
  <2>1. AfterDecision(kind, rule, withJson) \in Steps
    BY DEF AfterDecision, Steps
  <2> QED
    BY <2>1, NoArgType DEF DecideIs, Goto, Decision, Arg
<1>2. CASE EditDraft(h)
  <2>1. rules[arg[h].rule] \in Rule /\ arg[h] \in Arg
    BY <1>2, RowTypes DEF EditDraft, LocalsOK, LocalsAt, AtRule
  <2> QED
    BY <1>2, <2>1, ReturnType, GotoType, SetRuleType, RowUpdates DEF EditDraft, Steps
<1>3. CASE ActivateDraft(h)
  BY <1>3, RowTypes
     DEF ActivateDraft, SetRule, Goto, Steps, LocalsOK, LocalsAt, AtRule, RuleStatuses
<1>4. CASE RejectDraft(h)
  BY <1>4, RowTypes
     DEF RejectDraft, SetRule, Goto, Steps, LocalsOK, LocalsAt, AtRule, RuleStatuses
<1>5. CASE SetOutcome(h)
  <2>1. Outcome(arg[h].kind, arg[h].incident) \in EventStatuses
    BY DEF Outcome, EventStatuses
  <2>2. CASE arg[h].rv = None
    BY <1>5, <2>1, <2>2, ReturnType DEF SetOutcome, SetEvent
  <2>3. CASE arg[h].rv # None
    <3>1. arg[h].rv \in Handlers
      BY <2>3 DEF Arg
    <3>2. pc' \in [Handlers -> Steps] /\ arg' \in [Handlers -> Arg]
      BY <1>5, <2>3, <3>1, GotoType, LocalsTypes DEF SetOutcome, Steps
    <3> QED
      BY <1>5, <2>1, <3>2 DEF SetOutcome, SetEvent
  <2> QED
    BY <2>2, <2>3
<1>6. CASE CloseReview(h)
  BY <1>6, ReturnType DEF CloseReview, SetReview, Review, ReviewStatuses
<1> QED
  BY <1>1, <1>2, <1>3, <1>4, <1>5, <1>6 DEF DecisionStep

LEMMA AdminStepType ==
    ASSUME Core, NEW h \in Handlers, AdminStep(h)
    PROVE  TypeOK'
<1> USE DEF Core, TypeOK
<1>1. CASE BeginCreate(h)
  BY <1>1, NoArgType, LocalsTypes, GotoType DEF BeginCreate, Steps
<1>2. CASE InsertRule(h)
  BY <1>2, ReturnType, RowTypes DEF InsertRule, SetRule, LocalsOK, LocalsAt, Authors
<1>3. CASE PutRule(h)
  <2> PICK r \in RuleIds, incident \in BOOLEAN, status \in RawStatuses \cup {"none"} :
         /\ Present(rules[r])
         /\ adminRules' = adminRules \cup {r}
         /\ \/ /\ SetRule(r, [rules[r] EXCEPT !.incident = incident])
               /\ Return(h)
            \/ /\ status # "none"
               /\ \E raw \in {status, OtherStatus} :
                    SetRule(r, [rules[r] EXCEPT !.incident = incident, !.status = raw])
               /\ Goto(h, "status",
                       [NoArg EXCEPT !.rule = r, !.data = [NoData EXCEPT !.status = status]])
    BY <1>3 DEF PutRule
  <2>1. rules[r] \in Rule
    BY RowTypes
  <2>2. OtherStatus \in RawStatuses
    BY DEF RawStatuses
  <2>3. rules' \in [RuleIds -> Rule \cup {NoRule}]
    BY <2>1, <2>2, SetRuleType, RowUpdates
  <2>4. pc' \in [Handlers -> Steps] /\ arg' \in [Handlers -> Arg]
    BY ReturnType, GotoType, LocalsTypes DEF Steps
  <2> QED
    BY <1>3, <2>3, <2>4 DEF PutRule
<1>4. CASE FormEdit(h)
  <2> PICK r \in RuleIds, incident, change \in BOOLEAN, status \in RawStatuses :
         /\ Present(rules[r])
         /\ adminRules' = adminRules \cup {r}
         /\ SetRule(r, [rules[r] EXCEPT !.incident = incident])
         /\ IF change
            THEN Goto(h, "status",
                      [NoArg EXCEPT !.rule = r, !.data = [NoData EXCEPT !.status = status]])
            ELSE Return(h)
    BY <1>4 DEF FormEdit
  <2>1. rules' \in [RuleIds -> Rule \cup {NoRule}]
    BY RowTypes, SetRuleType, RowUpdates
  <2>2. pc' \in [Handlers -> Steps] /\ arg' \in [Handlers -> Arg]
    BY ReturnType, GotoType, LocalsTypes DEF Steps
  <2> QED
    BY <1>4, <2>1, <2>2 DEF FormEdit
<1>5. CASE PutStatus(h)
  BY <1>5, ReturnType, RowTypes DEF PutStatus, SetRule, StatusAccepted, LocalsOK, LocalsAt, AtRule
<1>6. CASE BeginEnable(h)
  BY <1>6, NoArgType DEF BeginEnable, Goto, Steps, Arg
<1>7. CASE EnableRule(h)
  <2>1. arg[h].rule \in RuleIds /\ rules[arg[h].rule] \in Rule
    BY <1>7, RowTypes DEF EnableRule, LocalsOK, LocalsAt, AtRule
  <2> QED
    BY <1>7, <2>1, ReturnType DEF EnableRule, SetRule, Rule
<1>8. CASE DisableRule(h)
  <2>1. "DISABLED" \in RawStatuses
    BY DEF RawStatuses, RuleStatuses
  <2> QED
    BY <1>8, <2>1, ReturnType, RowTypes, SetRuleType, RowUpdates DEF DisableRule
<1> QED
  BY <1>1, <1>2, <1>3, <1>4, <1>5, <1>6, <1>7, <1>8 DEF AdminStep

LEMMA SyncStepType ==
    ASSUME Core, NEW h \in Handlers, SyncStep(h)
    PROVE  TypeOK'
<1> USE DEF Core, TypeOK
<1>1. CASE BeginSync(h)
  BY <1>1, NoArgType, YamlAssumption DEF BeginSync, Goto, Steps, Arg
<1>2. CASE CheckYamlRule(h)
  <2>1. CASE arg[h].todo = {}
    BY <1>2, <2>1, ReturnType DEF CheckYamlRule
  <2>2. CASE arg[h].todo # {}
    <3> PICK r \in arg[h].todo :
           Goto(h, IF Present(rules[r]) THEN "sync" ELSE "import",
                [arg[h] EXCEPT !.todo = @ \ {r}, !.rule = r])
      BY <1>2, <2>2 DEF CheckYamlRule
    <3>1. arg[h] \in Arg /\ r \in RuleIds /\ arg[h].todo \ {r} \in SUBSET RuleIds
      BY DEF Arg
    <3> QED
      BY <1>2, <3>1, GotoType, LocalsTypes DEF CheckYamlRule, Steps
  <2> QED
    BY <2>1, <2>2
<1>3. CASE ImportYamlRule(h)
  BY <1>3, ReturnType, RowTypes DEF ImportYamlRule, SetRule, Goto, Steps
<1> QED
  BY <1>1, <1>2, <1>3 DEF SyncStep

LEMMA TypeStep ==
    ASSUME Core, [Next]_vars
    PROVE  TypeOK'
<1>1. ASSUME NEW h \in Handlers, Crash(h)
      PROVE  TypeOK'
  BY <1>1, ReturnType DEF Crash, Core, TypeOK
<1>2. CASE UNCHANGED vars
  BY <1>2 DEF vars, Core, TypeOK
<1> QED
  BY <1>1, <1>2, EventStepType, ReviewStepType, DecisionStepType, AdminStepType,
     SyncStepType DEF Next, HandlerStep

-----------------------------------------------------------------------------
(* What a step of one handler leaves alone *)

\* A step changes the control, the locals and the decision of its own handler
\* only.
LEMMA OthersKept ==
    ASSUME Core, NEW h \in Handlers, HandlerStep(h) \/ Crash(h),
           NEW g \in Handlers, g # h
    PROVE  pc'[g] = pc[g] /\ arg'[g] = arg[g] /\ decisions'[g] = decisions[g]
<1> USE DEF Core, TypeOK, Goto, Return
<1>1. CASE EventStep(h)
  BY <1>1 DEF EventStep, Ingest, NormalizeAgain, Normalize, BeginEvaluate, LoadRules,
              RaiseSos, RouteEvent
<1>2. CASE ReviewStep(h)
  BY <1>2 DEF ReviewStep, BeginReview, LlmFails, ReplyWithoutDraft, ReplyWithDraft,
              InsertDraft, SaveReview, MarkReviewed, QueueForUser
<1>3. CASE DecisionStep(h)
  BY <1>3 DEF DecisionStep, Decide, EditDraft, ActivateDraft, RejectDraft, SetOutcome,
              CloseReview
<1>4. CASE AdminStep(h)
  BY <1>4 DEF AdminStep, BeginCreate, InsertRule, PutRule, FormEdit, PutStatus,
              BeginEnable, EnableRule, DisableRule
<1>5. CASE SyncStep(h)
  BY <1>5 DEF SyncStep, BeginSync, CheckYamlRule, ImportYamlRule
<1>6. CASE Crash(h)
  BY <1>6 DEF Crash
<1> QED
  BY <1>1, <1>2, <1>3, <1>4, <1>5, <1>6 DEF HandlerStep

\* A row of rules_db is never deleted and keeps its author, and the history of
\* admin writes only grows.
LEMMA RulesKept ==
    ASSUME Core, NEW h \in Handlers, HandlerStep(h) \/ Crash(h)
    PROVE  /\ adminRules \subseteq adminRules'
           /\ \A r \in RuleIds : Present(rules[r]) => rules'[r].author = rules[r].author
<1> USE DEF Core, TypeOK, SetRule
<1>1. CASE EventStep(h)
  BY <1>1 DEF EventStep, Ingest, NormalizeAgain, Normalize, BeginEvaluate, LoadRules,
              RaiseSos, RouteEvent
<1>2. CASE ReviewStep(h)
  BY <1>2 DEF ReviewStep, BeginReview, LlmFails, ReplyWithoutDraft, ReplyWithDraft,
              InsertDraft, SaveReview, MarkReviewed, QueueForUser
<1>3. CASE DecisionStep(h)
  <2>1. CASE EditDraft(h)
    <3>1. CASE UNCHANGED rules
      BY <1>3, <2>1, <3>1 DEF EditDraft
    <3>2. ASSUME NEW status \in RawStatuses, NEW enabled \in BOOLEAN,
                 NEW incident \in BOOLEAN, NEW reason \in BOOLEAN,
                 SetRule(arg[h].rule,
                         [rules[arg[h].rule] EXCEPT !.status = status, !.enabled = enabled,
                                                    !.incident = incident, !.reason = reason])
          PROVE  \A r \in RuleIds : rules'[r].author = rules[r].author
      BY <3>2 DEF Rule, NoRule
    <3> QED
      BY <2>1, <3>1, <3>2 DEF EditDraft
  <2>2. CASE ActivateDraft(h)
    BY <1>3, <2>2 DEF ActivateDraft, WithStatus, Rule, NoRule, Present
  <2>3. CASE RejectDraft(h)
    BY <1>3, <2>3 DEF RejectDraft, WithStatus, Rule, NoRule, Present
  <2> QED
    BY <1>3, <2>1, <2>2, <2>3 DEF DecisionStep, Decide, SetOutcome, CloseReview
<1>4. CASE AdminStep(h)
  <2>1. CASE PutRule(h)
    <3> PICK r \in RuleIds, incident \in BOOLEAN, status \in RawStatuses \cup {"none"} :
           /\ Present(rules[r])
           /\ adminRules' = adminRules \cup {r}
           /\ \/ SetRule(r, [rules[r] EXCEPT !.incident = incident])
              \/ \E raw \in {status, OtherStatus} :
                   SetRule(r, [rules[r] EXCEPT !.incident = incident, !.status = raw])
      BY <2>1 DEF PutRule
    <3>1. CASE SetRule(r, [rules[r] EXCEPT !.incident = incident])
      BY <3>1 DEF Rule, NoRule
    <3>2. ASSUME NEW raw,
                 SetRule(r, [rules[r] EXCEPT !.incident = incident, !.status = raw])
          PROVE  \A x \in RuleIds : rules'[x].author = rules[x].author
      BY <3>2 DEF Rule, NoRule
    <3> QED
      BY <3>1, <3>2
  <2>2. CASE FormEdit(h)
    BY <1>4, <2>2 DEF FormEdit, Rule, NoRule, Present
  <2>3. CASE PutStatus(h)
    <3>1. CASE UNCHANGED rules
      BY <1>4, <2>3, <3>1 DEF PutStatus
    <3>2. CASE SetRule(arg[h].rule, WithStatus(rules[arg[h].rule], arg[h].data.status))
      BY <2>3, <3>2 DEF PutStatus, WithStatus, Rule, NoRule
    <3> QED
      BY <2>3, <3>1, <3>2 DEF PutStatus
  <2>4. CASE EnableRule(h)
    BY <1>4, <2>4 DEF EnableRule, Rule, NoRule, Present
  <2>5. CASE DisableRule(h)
    BY <1>4, <2>5 DEF DisableRule, Rule, NoRule, Present
  <2> QED
    BY <1>4, <2>1, <2>2, <2>3, <2>4, <2>5
       DEF AdminStep, BeginCreate, InsertRule, BeginEnable
<1>5. CASE SyncStep(h)
  BY <1>5 DEF SyncStep, BeginSync, CheckYamlRule, ImportYamlRule
<1>6. CASE Crash(h)
  BY <1>6 DEF Crash
<1> QED
  BY <1>1, <1>2, <1>3, <1>4, <1>5, <1>6 DEF HandlerStep

\* Of another handler's review a step can change only the status, to
\* USER_REVIEWED, and only of a review that is there.
LEMMA ReviewsKept ==
    ASSUME Core, NEW h \in Handlers, HandlerStep(h) \/ Crash(h),
           NEW g \in Handlers
    PROVE  /\ reviews[g].status # "absent" => reviews'[g].status # "absent"
           /\ g # h => \/ reviews'[g] = reviews[g]
                       \/ /\ reviews[g].status # "absent"
                          /\ reviews'[g] = [reviews[g] EXCEPT !.status = "USER_REVIEWED"]
<1> USE DEF Core, TypeOK, SetReview
<1>1. CASE EventStep(h)
  BY <1>1 DEF EventStep, Ingest, NormalizeAgain, Normalize, BeginEvaluate, LoadRules,
              RaiseSos, RouteEvent
<1>2. CASE ReviewStep(h)
  <2>1. CASE BeginReview(h)
    BY <1>2, <2>1 DEF BeginReview
  <2>2. CASE LlmFails(h)
    BY <1>2, <2>2 DEF LlmFails, Review
  <2>3. CASE SaveReview(h)
    BY <1>2, <2>3 DEF SaveReview, Review
  <2> QED
    BY <1>2, <2>1, <2>2, <2>3 DEF ReviewStep, ReplyWithoutDraft, ReplyWithDraft,
       InsertDraft, MarkReviewed, QueueForUser
<1>3. CASE DecisionStep(h)
  <2>1. CASE CloseReview(h)
    <3>1. arg[h].rv \in Handlers /\ arg[h].rv # None
      BY <2>1, NoneAssumption DEF CloseReview, LocalsOK, LocalsAt
    <3>2. reviews[arg[h].rv].status # "absent"
      BY <2>1, <3>1 DEF CloseReview, LocalsOK, LocalsAt, Deciding
    <3> QED
      BY <1>3, <2>1, <3>1, <3>2 DEF CloseReview, Review
  <2> QED
    BY <1>3, <2>1 DEF DecisionStep, Decide, EditDraft, ActivateDraft, RejectDraft, SetOutcome
<1>4. CASE AdminStep(h)
  BY <1>4 DEF AdminStep, BeginCreate, InsertRule, PutRule, FormEdit, PutStatus,
              BeginEnable, EnableRule, DisableRule
<1>5. CASE SyncStep(h)
  BY <1>5 DEF SyncStep, BeginSync, CheckYamlRule, ImportYamlRule
<1>6. CASE Crash(h)
  BY <1>6 DEF Crash
<1> QED
  BY <1>1, <1>2, <1>3, <1>4, <1>5, <1>6 DEF HandlerStep

-----------------------------------------------------------------------------
(* The locals *)

HandlerOK(h) == LocalsAt(h) /\ DecidingAt(h) /\ ReviewingAt(h)

\* What the locals of a handler say stays true while another one moves.
LEMMA OthersOK ==
    ASSUME Core, TypeOK', NEW h \in Handlers, HandlerStep(h) \/ Crash(h),
           NEW g \in Handlers, g # h
    PROVE  HandlerOK(g)'
<1>1. pc'[g] = pc[g] /\ arg'[g] = arg[g] /\ decisions'[g] = decisions[g]
  BY OthersKept
<1>2. LocalsAt(g) /\ DecidingAt(g) /\ ReviewingAt(g)
  BY DEF Core, LocalsOK, DecidingOK, ReviewingOK
<1>3. LocalsAt(g)'
  <2>1. \A r \in RuleIds : Present(rules[r]) => Present(rules'[r])
    BY RulesKept DEF Present
  <2>2. \A w \in Handlers : reviews[w].status # "absent" => reviews'[w].status # "absent"
    BY ReviewsKept
  <2>3. arg[g].rv \in Handlers \cup {None}
    BY DEF Core, TypeOK, Arg
  <2>4. adminRules \subseteq adminRules'
    BY RulesKept
  <2> QED
    BY <1>1, <1>2, <2>1, <2>2, <2>3, <2>4 DEF LocalsAt, AtRule
<1>4. DecidingAt(g)'
  BY <1>1, <1>2 DEF DecidingAt
<1>5. ReviewingAt(g)'
  <2>1. \/ reviews'[g] = reviews[g]
        \/ /\ reviews[g].status # "absent"
           /\ reviews'[g] = [reviews[g] EXCEPT !.status = "USER_REVIEWED"]
    BY ReviewsKept
  <2>2. reviews[g] \in Review /\ NoReview.status = "absent"
    BY DEF Core, TypeOK, NoReview
  <2> QED
    BY <1>1, <1>2, <2>1, <2>2 DEF ReviewingAt, Review
<1> QED
  BY <1>3, <1>4, <1>5 DEF HandlerOK

\* A handler that has returned has nothing to keep.
LEMMA ReturnedOK ==
    ASSUME TypeOK, NEW h \in Handlers, Return(h)
    PROVE  HandlerOK(h)'
<1>1. pc'[h] = "done"
  BY DEF Return, Goto, TypeOK
<1> QED
  BY <1>1 DEF HandlerOK, LocalsAt, DecidingAt, ReviewingAt, AtEvent, AtRule, BeforeReview,
              Reviewing, Deciding

LEMMA EventStepOK ==
    ASSUME Core, NEW h \in Handlers, EventStep(h)
    PROVE  HandlerOK(h)'
<1> USE DEF Core, TypeOK, HandlerOK, Goto
<1> USE DEF LocalsAt, DecidingAt, ReviewingAt, AtEvent, AtRule, BeforeReview, Reviewing, Deciding
<1>0. LocalsAt(h) /\ DecidingAt(h) /\ ReviewingAt(h) /\ NoArg \in Arg
  BY NoArgType DEF LocalsOK, DecidingOK, ReviewingOK
<1>1. CASE Ingest(h)
  BY <1>0, <1>1 DEF Ingest, Starts, Arg
<1>2. CASE NormalizeAgain(h)
  BY <1>2, ReturnedOK DEF NormalizeAgain
<1>3. CASE Normalize(h)
  BY <1>0, <1>3 DEF Normalize
<1>4. CASE BeginEvaluate(h)
  BY <1>0, <1>4 DEF BeginEvaluate, Starts, Arg
<1>5. CASE LoadRules(h)
  BY <1>0, <1>5 DEF LoadRules, Arg
<1>6. CASE RaiseSos(h)
  BY <1>0, <1>6 DEF RaiseSos, Arg
<1>7. CASE RouteEvent(h)
  BY <1>0, <1>7, ReturnedOK DEF RouteEvent, Arg
<1> QED
  BY <1>1, <1>2, <1>3, <1>4, <1>5, <1>6, <1>7 DEF EventStep

LEMMA ReviewStepOK ==
    ASSUME Core, NEW h \in Handlers, ReviewStep(h)
    PROVE  HandlerOK(h)'
<1> USE DEF Core, TypeOK, HandlerOK, Goto
<1> USE DEF LocalsAt, DecidingAt, ReviewingAt, AtEvent, AtRule, BeforeReview, Reviewing, Deciding
<1>0. LocalsAt(h) /\ DecidingAt(h) /\ ReviewingAt(h) /\ NoArg \in Arg
  BY NoArgType DEF LocalsOK, DecidingOK, ReviewingOK
<1>1. CASE BeginReview(h)
  BY <1>0, <1>1 DEF BeginReview, SetReview, Arg, NoArg
<1>2. CASE LlmFails(h)
  BY <1>2, ReturnedOK DEF LlmFails
<1>3. CASE ReplyWithoutDraft(h)
  BY <1>0, <1>3 DEF ReplyWithoutDraft
<1>4. CASE ReplyWithDraft(h)
  <2> PICK r \in RuleIds, reply \in RuleData :
         /\ GuardAdmitsAi(AiDraft(reply), AiCanDraft)
         /\ Goto(h, "insert", [arg[h] EXCEPT !.rule = r, !.data = AiDraft(reply)])
    BY <1>4 DEF ReplyWithDraft
  <2>1. /\ AiDraft(reply) \in RuleData /\ AiDraft(reply).status = "AI_SUGGESTED"
        /\ ~AiDraft(reply).enabled /\ ~AiDraft(reply).incident /\ AiCanDraft
    BY DEF AiDraft, RuleData, RuleStatuses, GuardAdmitsAi
  <2>2. /\ pc[h] = "llm" /\ pc'[h] = "insert" /\ arg'[h].rule = r
        /\ arg'[h].data = AiDraft(reply) /\ arg'[h].ev = arg[h].ev
    BY <1>4 DEF ReplyWithDraft, Arg
  <2> QED
    BY <1>0, <1>4, <2>1, <2>2 DEF ReplyWithDraft
<1>5. CASE InsertDraft(h)
  BY <1>0, <1>5, ReturnedOK DEF InsertDraft
<1>6. CASE SaveReview(h)
  BY <1>0, <1>6 DEF SaveReview, SetReview, Review
<1>7. CASE MarkReviewed(h)
  BY <1>0, <1>7 DEF MarkReviewed
<1>8. CASE QueueForUser(h)
  BY <1>8, ReturnedOK DEF QueueForUser
<1> QED
  BY <1>1, <1>2, <1>3, <1>4, <1>5, <1>6, <1>7, <1>8 DEF ReviewStep

LEMMA DecisionStepOK ==
    ASSUME Core, NEW h \in Handlers, DecisionStep(h)
    PROVE  HandlerOK(h)'
<1> USE DEF Core, TypeOK, HandlerOK, Goto
<1> USE DEF LocalsAt, DecidingAt, ReviewingAt, AtEvent, AtRule, BeforeReview, Reviewing, Deciding
<1>0. LocalsAt(h) /\ DecidingAt(h) /\ ReviewingAt(h) /\ NoArg \in Arg
  BY NoArgType DEF LocalsOK, DecidingOK, ReviewingOK
<1>1. CASE Decide(h)
  <2> PICK e \in Events, kind \in Kinds, withJson \in BOOLEAN,
           rv \in {None} \cup {w \in Handlers : reviews[w].status # "absent"},
           rule \in RuleIds \cup {None}, incident \in BOOLEAN :
             DecideIs(h, e, kind, withJson, rv, rule, incident)
    BY <1>1, DecideCases
  <2> USE DEF DecideIs
  <2>1. /\ arg'[h].ev = e /\ arg'[h].rv = rv /\ arg'[h].rule = rule /\ arg'[h].kind = kind
        /\ pc'[h] = AfterDecision(kind, rule, withJson)
    BY <1>0 DEF Arg
  <2>2. decisions'[h] = [kind |-> kind, ev |-> e, rv |-> rv, rule |-> rule]
    BY DEF Decision
  <2>3. /\ pc'[h] \in {"outcome", "reject", "edit", "activate"}
        /\ pc'[h] # "outcome" => rule # None
        /\ pc'[h] = "edit" => kind = "EDIT"
        /\ pc'[h] = "activate" => kind \in {"APPROVE", "EDIT"}
    BY <2>1 DEF AfterDecision, Kinds
  <2>4. UNCHANGED <<rules, reviews, adminRules>>
    BY <1>1 DEF Decide
  <2>5. rule # None => Present(rules[rule])
    <3> SUFFICES ASSUME rule # None  PROVE rules[rule].author = "ai_review"
      BY DEF Present
    <3>1. rv \in Handlers /\ reviews[rv].rule = rule
      OBVIOUS
    <3>2. pc[rv] # "save"
      BY <3>1 DEF ReviewingOK
    <3> QED
      BY <3>1, <3>2 DEF ClaimsOK, Claim
  <2> QED
    BY <2>1, <2>2, <2>3, <2>4, <2>5
<1>2. CASE EditDraft(h)
  <2>1. CASE Return(h)
    BY <1>2, <2>1, ReturnedOK
  <2>2. CASE Goto(h, "activate", arg[h])
    <3>1. Present(rules'[arg[h].rule])
      BY <1>0, <1>2, RulesKept DEF EditDraft, HandlerStep, Present
    <3> QED
      BY <1>0, <1>2, <2>2, <3>1 DEF EditDraft
  <2> QED
    BY <1>2, <2>1, <2>2 DEF EditDraft
<1>3. CASE ActivateDraft(h)
  BY <1>0, <1>3 DEF ActivateDraft
<1>4. CASE RejectDraft(h)
  BY <1>0, <1>4 DEF RejectDraft
<1>5. CASE SetOutcome(h)
  BY <1>0, <1>5, ReturnedOK DEF SetOutcome, Arg
<1>6. CASE CloseReview(h)
  BY <1>6, ReturnedOK DEF CloseReview
<1> QED
  BY <1>1, <1>2, <1>3, <1>4, <1>5, <1>6 DEF DecisionStep

LEMMA AdminStepOK ==
    ASSUME Core, NEW h \in Handlers, AdminStep(h)
    PROVE  HandlerOK(h)'
<1> USE DEF Core, TypeOK, HandlerOK, Goto
<1> USE DEF LocalsAt, DecidingAt, ReviewingAt, AtEvent, AtRule, BeforeReview, Reviewing, Deciding
<1>0. LocalsAt(h) /\ DecidingAt(h) /\ ReviewingAt(h) /\ NoArg \in Arg
  BY NoArgType DEF LocalsOK, DecidingOK, ReviewingOK
<1>1. CASE BeginCreate(h)
  BY <1>0, <1>1 DEF BeginCreate, Arg
<1>2. CASE InsertRule(h)
  BY <1>2, ReturnedOK DEF InsertRule
<1>3. CASE PutRule(h)
  <2>1. CASE Return(h)
    BY <2>1, ReturnedOK
  <2>2. CASE ~Return(h)
    <3> PICK r \in RuleIds, status \in RawStatuses :
           /\ Present(rules[r]) /\ adminRules' = adminRules \cup {r}
           /\ Goto(h, "status",
                   [NoArg EXCEPT !.rule = r, !.data = [NoData EXCEPT !.status = status]])
      BY <1>3, <2>2 DEF PutRule
    <3>1. pc'[h] = "status" /\ arg'[h].rule = r
      BY <1>0 DEF Arg
    <3>2. Present(rules'[r])
      BY <1>3, RulesKept DEF HandlerStep, Present
    <3> QED
      BY <3>1, <3>2
  <2> QED
    BY <2>1, <2>2
<1>4. CASE FormEdit(h)
  <2>1. CASE Return(h)
    BY <2>1, ReturnedOK
  <2>2. CASE ~Return(h)
    <3> PICK r \in RuleIds, status \in RawStatuses :
           /\ Present(rules[r]) /\ adminRules' = adminRules \cup {r}
           /\ Goto(h, "status",
                   [NoArg EXCEPT !.rule = r, !.data = [NoData EXCEPT !.status = status]])
      BY <1>4, <2>2 DEF FormEdit
    <3>1. pc'[h] = "status" /\ arg'[h].rule = r
      BY <1>0 DEF Arg
    <3>2. Present(rules'[r])
      BY <1>4, RulesKept DEF HandlerStep, Present
    <3> QED
      BY <3>1, <3>2
  <2> QED
    BY <2>1, <2>2
<1>5. CASE PutStatus(h)
  BY <1>5, ReturnedOK DEF PutStatus
<1>6. CASE BeginEnable(h)
  <2> PICK r \in RuleIds : /\ rules[r].status = "ACTIVE"
                           /\ Goto(h, "enable", [NoArg EXCEPT !.rule = r])
    BY <1>6 DEF BeginEnable
  <2>1. pc'[h] = "enable" /\ arg'[h].rule = r
    BY <1>0 DEF Arg
  <2>2. Present(rules'[r])
    BY <1>6, RowTypes DEF BeginEnable, NoRule
  <2> QED
    BY <2>1, <2>2
<1>7. CASE EnableRule(h)
  BY <1>7, ReturnedOK DEF EnableRule
<1>8. CASE DisableRule(h)
  BY <1>8, ReturnedOK DEF DisableRule
<1> QED
  BY <1>1, <1>2, <1>3, <1>4, <1>5, <1>6, <1>7, <1>8 DEF AdminStep

LEMMA SyncStepOK ==
    ASSUME Core, NEW h \in Handlers, SyncStep(h)
    PROVE  HandlerOK(h)'
<1> USE DEF Core, TypeOK, HandlerOK, Goto
<1> USE DEF LocalsAt, DecidingAt, ReviewingAt, AtEvent, AtRule, BeforeReview, Reviewing, Deciding
<1>1. CASE BeginSync(h)
  BY <1>1 DEF BeginSync
<1>2. CASE CheckYamlRule(h)
  <2>1. CASE Return(h)
    BY <2>1, ReturnedOK
  <2>2. CASE ~Return(h)
    <3> PICK r \in arg[h].todo :
           Goto(h, IF Present(rules[r]) THEN "sync" ELSE "import",
                [arg[h] EXCEPT !.todo = @ \ {r}, !.rule = r])
      BY <1>2, <2>2 DEF CheckYamlRule
    <3>1. arg'[h].rule = r /\ r \in RuleIds /\ pc'[h] \in {"sync", "import"}
      BY DEF Arg
    <3> QED
      BY <3>1
  <2> QED
    BY <2>1, <2>2
<1>3. CASE ImportYamlRule(h)
  BY <1>3, ReturnedOK DEF ImportYamlRule
<1> QED
  BY <1>1, <1>2, <1>3 DEF SyncStep

LEMMA LocalsStep ==
    ASSUME Core, TypeOK', NEW h \in Handlers, HandlerStep(h) \/ Crash(h)
    PROVE  LocalsOK' /\ DecidingOK' /\ ReviewingOK'
<1>1. ASSUME Crash(h)  PROVE HandlerOK(h)'
  BY <1>1, ReturnedOK DEF Crash, Core
<1>2. HandlerOK(h)'
  BY <1>1, EventStepOK, ReviewStepOK, DecisionStepOK, AdminStepOK, SyncStepOK
     DEF HandlerStep
<1>3. \A g \in Handlers : HandlerOK(g)'
  BY <1>2, OthersOK
<1> QED
  BY <1>3 DEF HandlerOK, LocalsOK, DecidingOK, ReviewingOK

-----------------------------------------------------------------------------
(* Drafts and the reviews that claim them *)

\* A handler keeps its claim, drops it, or gains one by inserting a new row.
LEMMA OwnClaim ==
    ASSUME Core, NEW h \in Handlers, HandlerStep(h) \/ Crash(h)
    PROVE  \/ Claim(h)' \in {None, Claim(h)}
           \/ /\ Claim(h)' \in RuleIds /\ ~Present(rules[Claim(h)'])
              /\ rules'[Claim(h)'].author = "ai_review"
<1> USE DEF Core, TypeOK, Goto, Return, Claim
<1>0. ReviewingAt(h) /\ LocalsAt(h)
  BY DEF ReviewingOK, LocalsOK
<1>1. CASE EventStep(h)
  BY <1>1 DEF EventStep, Ingest, NormalizeAgain, Normalize, BeginEvaluate, LoadRules,
              RaiseSos, RouteEvent, Starts
<1>2. CASE ReviewStep(h)
  <2>1. CASE BeginReview(h)
    BY <2>1 DEF BeginReview, SetReview
  <2>2. CASE LlmFails(h)
    BY <2>2 DEF LlmFails, SetReview, Review
  <2>3. CASE ReplyWithoutDraft(h)
    BY <1>0, <2>3 DEF ReplyWithoutDraft, ReviewingAt
  <2>4. CASE ReplyWithDraft(h)
    BY <2>4 DEF ReplyWithDraft
  <2>5. CASE InsertDraft(h)
    BY <1>0, <2>5 DEF InsertDraft, SetRule, NewRow, LocalsAt, AtRule
  <2>6. CASE SaveReview(h)
    BY <2>6 DEF SaveReview, SetReview, Review
  <2> QED
    BY <1>2, <2>1, <2>2, <2>3, <2>4, <2>5, <2>6
       DEF ReviewStep, MarkReviewed, QueueForUser
<1>3. CASE DecisionStep(h)
  <2>1. CASE Decide(h)
    <3> PICK e \in Events, kind \in Kinds, withJson \in BOOLEAN,
             rv \in {None} \cup {w \in Handlers : reviews[w].status # "absent"},
             rule \in RuleIds \cup {None}, incident \in BOOLEAN :
               DecideIs(h, e, kind, withJson, rv, rule, incident)
      BY <2>1, DecideCases
    <3>1. pc[h] = "idle" /\ pc'[h] # "save" /\ UNCHANGED reviews
      BY DEF DecideIs, Starts, AfterDecision
    <3> QED
      BY <3>1
  <2>2. CASE CloseReview(h)
    BY <2>2 DEF CloseReview, SetReview, Review
  <2> QED
    BY <1>3, <2>1, <2>2 DEF DecisionStep, EditDraft, ActivateDraft, RejectDraft, SetOutcome
<1>4. CASE AdminStep(h)
  BY <1>4 DEF AdminStep, BeginCreate, InsertRule, PutRule, FormEdit, PutStatus,
              BeginEnable, EnableRule, DisableRule, Starts
<1>5. CASE SyncStep(h)
  BY <1>5 DEF SyncStep, BeginSync, CheckYamlRule, ImportYamlRule, Starts
<1>6. CASE Crash(h)
  BY <1>0, <1>6 DEF Crash, ReviewingAt, Reviewing
<1> QED
  BY <1>1, <1>2, <1>3, <1>4, <1>5, <1>6 DEF HandlerStep

LEMMA ClaimsStep ==
    ASSUME Core, TypeOK', NEW h \in Handlers, HandlerStep(h) \/ Crash(h)
    PROVE  ClaimsOK'
<1>1. \A g \in Handlers \ {h} : Claim(g)' = Claim(g)
  <2> SUFFICES ASSUME NEW g \in Handlers \ {h}  PROVE Claim(g)' = Claim(g)
    OBVIOUS
  <2>1. pc'[g] = pc[g] /\ arg'[g] = arg[g]
    BY OthersKept
  <2>2. reviews'[g].rule = reviews[g].rule
    BY ReviewsKept DEF Core, TypeOK, Review
  <2> QED
    BY <2>1, <2>2 DEF Claim
<1>2. \A g \in Handlers : Claim(g) # None =>
        /\ Claim(g) \in RuleIds /\ Present(rules[Claim(g)])
        /\ rules'[Claim(g)].author = "ai_review"
        /\ \A w \in Handlers \ {g} : Claim(w) # Claim(g)
  BY RulesKept DEF Core, ClaimsOK, Present
<1>3. CASE Claim(h)' \in {None, Claim(h)}
  BY <1>1, <1>2, <1>3 DEF ClaimsOK
<1>4. CASE /\ Claim(h)' \in RuleIds /\ ~Present(rules[Claim(h)'])
           /\ rules'[Claim(h)'].author = "ai_review"
  BY <1>1, <1>2, <1>4 DEF ClaimsOK
<1> QED
  BY <1>3, <1>4, OwnClaim

LEMMA CoreStep ==
    ASSUME Core, [Next]_vars
    PROVE  Core'
<1>1. TypeOK'
  BY TypeStep
<1>2. CASE UNCHANGED vars
  BY <1>2 DEF vars, Core, TypeOK, LocalsOK, LocalsAt, DecidingOK, DecidingAt, ReviewingOK,
              ReviewingAt, ClaimsOK, Claim
<1>3. ASSUME NEW h \in Handlers, HandlerStep(h) \/ Crash(h)
      PROVE  Core'
  BY <1>1, <1>3, LocalsStep, ClaimsStep DEF Core
<1> QED
  BY <1>2, <1>3 DEF Next

LEMMA CoreInit == Init => Core
<1> SUFFICES ASSUME Init  PROVE Core
  OBVIOUS
<1>1. TypeOK
  BY NoArgType DEF Init, TypeOK, EventStatuses, Review, ReviewStatuses, NoReview, Decision,
                   NoDecision, Steps
<1>2. LocalsOK /\ DecidingOK /\ ReviewingOK
  BY DEF Init, LocalsOK, LocalsAt, DecidingOK, DecidingAt, ReviewingOK, ReviewingAt, AtEvent,
         AtRule, Deciding, Reviewing, BeforeReview
<1>3. ClaimsOK
  BY DEF Init, ClaimsOK, Claim, NoReview
<1> QED
  BY <1>1, <1>2, <1>3 DEF Core

\* Every variable keeps its type: all columns hold values of their domain, and
\* rules_db never holds half a row, under every interleaving of the handlers.
THEOREM TypeCorrect == Spec => []TypeOK
<1>1. Spec => []Core
  BY CoreInit, CoreStep, PTL DEF Spec
<1>2. Core => TypeOK
  BY DEF Core
<1> QED
  BY <1>1, <1>2, PTL

\* A review's draft was inserted by that review and is claimed by no other.
THEOREM DraftsAreOwn == Spec => []DraftIsOwn
<1>1. Spec => []Core
  BY CoreInit, CoreStep, PTL DEF Spec
<1>2. Core => DraftIsOwn
  BY DEF Core, ClaimsOK, Claim, DraftIsOwn, ReviewingOK, ReviewingAt, Reviewing
<1> QED
  BY <1>1, <1>2, PTL

-----------------------------------------------------------------------------
(* Decisions on record, and what a step may do to a row of rules_db *)

\* A decision on record stays as it is.
LEMMA DecisionsKept ==
    ASSUME Core, NEW h \in Handlers, HandlerStep(h) \/ Crash(h), NEW d \in Handlers
    PROVE  decisions[d] # NoDecision => decisions'[d] = decisions[d]
<1>1. CASE d # h
  BY <1>1, OthersKept
<1>2. CASE Decide(h)
  BY <1>1, <1>2 DEF Decide, Starts, Core, DecidingOK, DecidingAt
<1>3. CASE ~Decide(h)
  <2>1. UNCHANGED decisions
    BY <1>3 DEF HandlerStep, EventStep, Ingest, NormalizeAgain, Normalize, BeginEvaluate,
       LoadRules, RaiseSos, RouteEvent, ReviewStep, BeginReview, LlmFails, ReplyWithoutDraft,
       ReplyWithDraft, InsertDraft, SaveReview, MarkReviewed, QueueForUser, DecisionStep,
       EditDraft, ActivateDraft, RejectDraft, SetOutcome, CloseReview, AdminStep, BeginCreate,
       InsertRule, PutRule, FormEdit, PutStatus, BeginEnable, EnableRule, DisableRule, SyncStep,
       BeginSync, CheckYamlRule, ImportYamlRule, Crash
  <2> QED
    BY <2>1
<1> QED
  BY <1>1, <1>2, <1>3

LEMMA DecidedKept ==
    ASSUME Core, NEW h \in Handlers, HandlerStep(h) \/ Crash(h),
           NEW r \in RuleIds, NEW kinds, Decided(r, kinds)
    PROVE  Decided(r, kinds)'
BY DecisionsKept, NoneAssumption DEF Decided, NoDecision

\* Every way a step can change a row: an AI draft, a user's rule or a YAML rule
\* is inserted, an admin writes to it, an EDIT does, an APPROVE or EDIT
\* activates it, or a REJECT rejects it.
LEMMA RuleChanges ==
    ASSUME Core, NEW h \in Handlers, HandlerStep(h) \/ Crash(h), NEW r \in RuleIds
    PROVE  \/ rules'[r] = rules[r]
           \/ /\ AiCanDraft
              /\ rules'[r] = [status |-> "AI_SUGGESTED", enabled |-> FALSE,
                              incident |-> FALSE, reason |-> FALSE, author |-> "ai_review"]
           \/ rules'[r].author = "user"
           \/ rules'[r] = YamlRow
           \/ Present(rules[r]) /\ r \in adminRules'
           \/ Present(rules[r]) /\ Decided(r, {"EDIT"})
           \/ /\ Decided(r, {"APPROVE", "EDIT"}) /\ rules[r] \in Rule
              /\ rules'[r] = WithStatus(rules[r], "ACTIVE")
           \/ rules[r] \in Rule /\ rules'[r] = WithStatus(rules[r], "REJECTED")
<1> USE DEF Core, TypeOK, SetRule
<1>0. LocalsAt(h) /\ DecidingAt(h) /\ ReviewingAt(h)
  BY DEF LocalsOK, DecidingOK, ReviewingOK
<1>1. CASE InsertDraft(h)
  <2>1. /\ AiCanDraft /\ arg[h].data.status = "AI_SUGGESTED"
        /\ arg[h].data.enabled = FALSE /\ arg[h].data.incident = FALSE
    BY <1>0, <1>1 DEF InsertDraft, ReviewingAt, RuleData
  <2> QED
    BY <1>1, <2>1 DEF InsertDraft, NewRow
<1>2. CASE InsertRule(h)
  BY <1>2 DEF InsertRule, NewRow
<1>3. CASE ImportYamlRule(h)
  BY <1>3 DEF ImportYamlRule
<1>4. CASE PutRule(h)
  BY <1>4 DEF PutRule
<1>5. CASE FormEdit(h)
  BY <1>5 DEF FormEdit
<1>6. CASE DisableRule(h)
  BY <1>6 DEF DisableRule
<1>7. CASE PutStatus(h) \/ EnableRule(h)
  <2>1. Present(rules[arg[h].rule])
    BY <1>0, <1>7 DEF PutStatus, EnableRule, LocalsAt
  <2>2. arg[h].rule \in adminRules'
    BY <1>0, <1>7 DEF PutStatus, EnableRule, LocalsAt
  <2>3. rules'[r] = rules[r] \/ r = arg[h].rule
    BY <1>7 DEF PutStatus, EnableRule
  <2> QED
    BY <2>1, <2>2, <2>3
<1>8. CASE EditDraft(h)
  <2>1. /\ Present(rules[arg[h].rule])
        /\ decisions[h].kind = "EDIT" /\ decisions[h].rule = arg[h].rule
    BY <1>0, <1>8 DEF EditDraft, LocalsAt, DecidingAt, Deciding
  <2>2. rules'[r] = rules[r] \/ r = arg[h].rule
    BY <1>8 DEF EditDraft
  <2> QED
    BY <2>1, <2>2 DEF Decided
<1>9. CASE ActivateDraft(h)
  BY <1>0, <1>9, RowTypes DEF ActivateDraft, LocalsAt, DecidingAt, Deciding, Decided
<1>10. CASE RejectDraft(h)
  BY <1>0, <1>10, RowTypes DEF RejectDraft, LocalsAt
<1>11. \/ UNCHANGED rules
      \/ InsertDraft(h) \/ InsertRule(h) \/ ImportYamlRule(h) \/ PutRule(h) \/ FormEdit(h)
      \/ DisableRule(h) \/ PutStatus(h) \/ EnableRule(h) \/ EditDraft(h)
      \/ ActivateDraft(h) \/ RejectDraft(h)
  BY DEF HandlerStep, EventStep, Ingest, NormalizeAgain, Normalize, BeginEvaluate,
         LoadRules, RaiseSos, RouteEvent, ReviewStep, BeginReview, LlmFails,
         ReplyWithoutDraft, ReplyWithDraft, SaveReview, MarkReviewed, QueueForUser,
         DecisionStep, Decide, SetOutcome, CloseReview, AdminStep, BeginCreate, BeginEnable,
         SyncStep, BeginSync, CheckYamlRule, Crash
<1> QED
  BY <1>1, <1>2, <1>3, <1>4, <1>5, <1>6, <1>7, <1>8, <1>9, <1>10, <1>11

-----------------------------------------------------------------------------
(* Governance *)

LEMMA ApprovalStep ==
    ASSUME Core, AiRuleNeedsHuman, [Next]_vars
    PROVE  AiRuleNeedsHuman'
<1>1. CASE UNCHANGED vars
  BY <1>1 DEF vars, AiRuleNeedsHuman, Decided
<1>2. ASSUME NEW h \in Handlers, HandlerStep(h) \/ Crash(h)
      PROVE  AiRuleNeedsHuman'
  <2> SUFFICES ASSUME NEW r \in RuleIds,
                      rules'[r].author = "ai_review", Effective(rules'[r]),
                      r \notin adminRules'
               PROVE  Decided(r, {"APPROVE", "EDIT"})'
    BY DEF AiRuleNeedsHuman
  <2>1. adminRules \subseteq adminRules'
    BY <1>2, RulesKept
  <2>2. CASE rules'[r] = rules[r]
    BY <1>2, <2>1, <2>2, DecidedKept DEF AiRuleNeedsHuman
  <2>3. CASE Decided(r, {"EDIT"}) \/ Decided(r, {"APPROVE", "EDIT"})
    <3>1. Decided(r, {"APPROVE", "EDIT"})
      BY <2>3 DEF Decided
    <3> QED
      BY <1>2, <3>1, DecidedKept
  <2>4. CASE rules[r] \in Rule /\ rules'[r] = WithStatus(rules[r], "REJECTED")
    BY <2>4 DEF WithStatus, Effective, Rule
  <2> QED
    BY <1>2, <2>2, <2>3, <2>4, RuleChanges DEF Effective, YamlRow, NewRow
<1> QED
  BY <1>1, <1>2 DEF Next

\* GR22-001: a rule the AI wrote is never evaluated unless an APPROVE or EDIT
\* of it is on record or an admin has written to it.
THEOREM AiRulesNeedHuman == Spec => []AiRuleNeedsHuman
<1>1. Init => Core /\ AiRuleNeedsHuman
  BY CoreInit DEF Init, AiRuleNeedsHuman, NoRule
<1>2. Core /\ AiRuleNeedsHuman /\ [Next]_vars => (Core /\ AiRuleNeedsHuman)'
  BY CoreStep, ApprovalStep
<1> QED
  BY <1>1, <1>2, PTL DEF Spec

LEMMA SwitchStep ==
    ASSUME Core, NoAiRulesWhenOff, [Next]_vars
    PROVE  NoAiRulesWhenOff'
<1>1. CASE UNCHANGED vars
  BY <1>1 DEF vars, NoAiRulesWhenOff
<1>2. ASSUME NEW h \in Handlers, HandlerStep(h) \/ Crash(h), ~AiCanDraft,
             NEW r \in RuleIds
      PROVE  rules'[r].author # "ai_review"
  <2>1. rules[r].author # "ai_review"
    BY <1>2 DEF NoAiRulesWhenOff
  <2>2. CASE Present(rules[r])
    BY <1>2, <2>1, <2>2, RulesKept
  <2>3. CASE ~Present(rules[r])
    <3>1. rules[r] \notin Rule
      BY <2>3, RowTypes
    <3> QED
      BY <1>2, <2>1, <2>3, <3>1, RuleChanges DEF YamlRow, NewRow
  <2> QED
    BY <2>2, <2>3
<1> QED
  BY <1>1, <1>2 DEF Next, NoAiRulesWhenOff

\* With ai_can_create_draft_rule off, no row of rules_db is the AI's.
THEOREM SwitchKeepsAiOut == Spec => []NoAiRulesWhenOff
<1>1. Init => Core /\ NoAiRulesWhenOff
  BY CoreInit DEF Init, NoAiRulesWhenOff, NoRule
<1>2. Core /\ NoAiRulesWhenOff /\ [Next]_vars => (Core /\ NoAiRulesWhenOff)'
  BY CoreStep, SwitchStep
<1> QED
  BY <1>1, <1>2, PTL DEF Spec

-----------------------------------------------------------------------------
(* SOS alerts *)

\* What a person once answered for stays answered for.
LEMMA VettedKept ==
    ASSUME Core, NEW h \in Handlers, HandlerStep(h) \/ Crash(h), NEW r \in RuleIds, Vetted(r)
    PROVE  Vetted(r)'
<1>1. CASE rules[r].author = "user"
  BY <1>1, RulesKept DEF Vetted, Present
<1>2. CASE r \in adminRules
  BY <1>2, RulesKept DEF Vetted
<1>3. CASE Decided(r, {"EDIT"})
  BY <1>3, DecidedKept DEF Vetted
<1> QED
  BY <1>1, <1>2, <1>3 DEF Vetted

LEMMA IncidentStep ==
    ASSUME Core, IncidentRulesVetted, NEW h \in Handlers, HandlerStep(h) \/ Crash(h)
    PROVE  IncidentRulesVetted'
<1>1. ASSUME NEW r \in RuleIds, rules'[r].incident
      PROVE  Vetted(r)'
  <2>1. CASE rules[r].incident
    BY <2>1, VettedKept DEF IncidentRulesVetted
  <2>2. CASE /\ rules[r] \in Rule
             /\ \/ rules'[r] = WithStatus(rules[r], "ACTIVE")
                \/ rules'[r] = WithStatus(rules[r], "REJECTED")
    <3>1. rules'[r].incident = rules[r].incident
      BY <2>2 DEF WithStatus, Rule
    <3> QED
      BY <1>1, <2>1, <3>1
  <2>3. CASE Decided(r, {"EDIT"})
    BY <2>3, DecidedKept DEF Vetted
  <2>4. CASE rules'[r].author = "user" \/ r \in adminRules'
    BY <2>4 DEF Vetted
  <2>5. CASE rules'[r] = YamlRow
    BY <1>1, <2>5 DEF YamlRow, NewRow
  <2> QED
    BY <1>1, <2>1, <2>2, <2>3, <2>4, <2>5, RuleChanges
<1>2. ASSUME NEW g \in Handlers, pc'[g] = "route", NEW r \in arg'[g].todo
      PROVE  Vetted(r)'
  <2>1. r \in RuleIds /\ Vetted(r)
    <3>1. CASE g # h
      BY <1>2, <3>1, OthersKept DEF IncidentRulesVetted, Core, TypeOK, Arg
    <3>2. CASE g = h /\ LoadRules(h)
      BY <1>2, <3>2 DEF LoadRules, Goto, ActiveRules, IncidentRulesVetted, Core, TypeOK, Arg
    <3>3. CASE g = h /\ RaiseSos(h)
      BY <1>2, <3>3 DEF RaiseSos, Goto, IncidentRulesVetted, Core, TypeOK, Arg
    <3>4. CASE g = h /\ ~LoadRules(h) /\ ~RaiseSos(h)
      <4>1. ~Decide(h)
        <5> SUFFICES ASSUME Decide(h)  PROVE FALSE
          OBVIOUS
        <5> PICK e \in Events, kind \in Kinds, withJson \in BOOLEAN,
                 rv \in {None} \cup {w \in Handlers : reviews[w].status # "absent"},
                 rule \in RuleIds \cup {None}, incident \in BOOLEAN :
                   DecideIs(h, e, kind, withJson, rv, rule, incident)
          BY DecideCases
        <5>1. pc'[h] # "route"
          BY DEF DecideIs, Goto, AfterDecision, Core, TypeOK
        <5> QED
          BY <1>2, <3>4, <5>1
      <4>2. pc'[h] # "route"
        BY <3>4, <4>1 DEF HandlerStep, EventStep, Ingest, NormalizeAgain, Normalize,
           BeginEvaluate, RouteEvent, ReviewStep, BeginReview, LlmFails, ReplyWithoutDraft,
           ReplyWithDraft, InsertDraft, SaveReview, MarkReviewed, QueueForUser, DecisionStep,
           EditDraft, ActivateDraft, RejectDraft, SetOutcome, CloseReview, AdminStep,
           BeginCreate, InsertRule, PutRule, FormEdit, PutStatus, BeginEnable, EnableRule,
           DisableRule, SyncStep, BeginSync, CheckYamlRule, ImportYamlRule, Crash, Goto,
           Return, Core, TypeOK
      <4> QED
        BY <1>2, <3>4, <4>2
    <3> QED
      BY <3>1, <3>2, <3>3, <3>4
  <2> QED
    BY <2>1, VettedKept
<1> QED
  BY <1>1, <1>2 DEF IncidentRulesVetted

LEMMA SosStep ==
    ASSUME Core, IncidentRulesVetted, SosNeedsHuman,
           NEW h \in Handlers, HandlerStep(h) \/ Crash(h)
    PROVE  SosNeedsHuman'
<1>1. SosNeedsHuman = \A s \in sos : Vetted(s.rule)
  BY DEF SosNeedsHuman, Vetted
<1>2. SosNeedsHuman' = \A s \in sos' : Vetted(s.rule)'
  BY DEF SosNeedsHuman, Vetted
<1>3. \A s \in sos : s.rule \in RuleIds
  BY DEF Core, TypeOK
<1>4. CASE UNCHANGED sos
  BY <1>1, <1>2, <1>3, <1>4, VettedKept
<1>5. CASE RaiseSos(h)
  <2> PICK r \in arg[h].todo : sos' = sos \cup {[ev |-> arg[h].ev, rule |-> r]}
    BY <1>5 DEF RaiseSos
  <2>1. r \in RuleIds /\ Vetted(r)
    BY <1>5 DEF RaiseSos, IncidentRulesVetted, Core, TypeOK, Arg
  <2>2. Vetted(r)' /\ \A s \in sos : Vetted(s.rule)'
    BY <1>1, <1>3, <2>1, VettedKept
  <2> QED
    BY <1>2, <2>2
<1>6. UNCHANGED sos \/ RaiseSos(h)
  BY DEF HandlerStep, EventStep, Ingest, NormalizeAgain, Normalize,
         BeginEvaluate, LoadRules, RouteEvent, ReviewStep, BeginReview, LlmFails,
         ReplyWithoutDraft, ReplyWithDraft, InsertDraft, SaveReview, MarkReviewed,
         QueueForUser, DecisionStep, Decide, EditDraft, ActivateDraft, RejectDraft, SetOutcome,
         CloseReview, AdminStep, BeginCreate, InsertRule, PutRule, FormEdit, PutStatus,
         BeginEnable, EnableRule, DisableRule, SyncStep, BeginSync, CheckYamlRule,
         ImportYamlRule, Crash
<1> QED
  BY <1>4, <1>5, <1>6

\* GR22-002: every SOS alert comes from a rule that a user created, an admin
\* wrote to or an operator edited.
THEOREM SosAlertsNeedHuman == Spec => []SosNeedsHuman
<1> DEFINE Inv == Core /\ IncidentRulesVetted /\ SosNeedsHuman
<1>1. Init => Inv
  BY CoreInit DEF Init, IncidentRulesVetted, SosNeedsHuman, NoRule
<1>2. Inv /\ [Next]_vars => Inv'
  <2>1. ASSUME Inv, UNCHANGED vars  PROVE Inv'
    BY <2>1, CoreStep DEF vars, IncidentRulesVetted, SosNeedsHuman, Vetted, Decided
  <2>2. ASSUME Inv, NEW h \in Handlers, HandlerStep(h) \/ Crash(h)  PROVE Inv'
    BY <2>2, CoreStep, IncidentStep, SosStep DEF Next
  <2> QED
    BY <2>1, <2>2 DEF Next
<1>3. Inv => SosNeedsHuman
  OBVIOUS
<1> QED
  BY <1>1, <1>2, <1>3, PTL DEF Spec

-----------------------------------------------------------------------------
(* Event statuses *)

\* Only SetOutcome writes a final status, only QueueForUser writes
\* USER_REVIEW_PENDING, and each writes its own event.
LEMMA EventChanges ==
    ASSUME Core, NEW h \in Handlers, HandlerStep(h) \/ Crash(h), NEW e \in Events
    PROVE  \/ events'[e] = events[e]
           \/ events'[e] \in {"NEW", "NORMALIZED", "EVALUATED", "MATCHED_RULE",
                              "AI_REVIEW_PENDING", "AI_REVIEWED"}
           \/ /\ QueueForUser(h) /\ e = arg[h].ev
              /\ events'[e] = "USER_REVIEW_PENDING"
           \/ /\ SetOutcome(h) /\ e = arg[h].ev
              /\ events'[e] = Outcome(arg[h].kind, arg[h].incident)
<1> USE DEF Core, TypeOK, SetEvent
<1>1. CASE EventStep(h)
  BY <1>1 DEF EventStep, Ingest, NormalizeAgain, Normalize, BeginEvaluate, LoadRules,
              RaiseSos, RouteEvent
<1>2. CASE MarkReviewed(h)
  BY <1>2 DEF MarkReviewed
<1>3. CASE QueueForUser(h)
  BY <1>3 DEF QueueForUser
<1>4. CASE SetOutcome(h)
  BY <1>4 DEF SetOutcome
<1>5. CASE UNCHANGED events
  BY <1>5
<1>6. \/ EventStep(h) \/ MarkReviewed(h) \/ QueueForUser(h) \/ SetOutcome(h)
      \/ UNCHANGED events
  BY DEF HandlerStep, ReviewStep, BeginReview, LlmFails, ReplyWithoutDraft, ReplyWithDraft,
         InsertDraft, SaveReview, DecisionStep, Decide, EditDraft, ActivateDraft, RejectDraft,
         CloseReview, AdminStep, BeginCreate, InsertRule, PutRule, FormEdit, PutStatus,
         BeginEnable, EnableRule, DisableRule, SyncStep, BeginSync, CheckYamlRule,
         ImportYamlRule, Crash
<1> QED
  BY <1>1, <1>2, <1>3, <1>4, <1>5, <1>6

\* A decision of one of these kinds about the event e is on record.
EventDecided(e, kinds) ==
    \E d \in Handlers : decisions[d].ev = e /\ decisions[d].kind \in kinds

LEMMA EventDecidedKept ==
    ASSUME Core, NEW h \in Handlers, HandlerStep(h) \/ Crash(h),
           NEW e \in Events, NEW kinds, EventDecided(e, kinds)
    PROVE  EventDecided(e, kinds)'
BY DecisionsKept, NoneAssumption DEF EventDecided, NoDecision

LEMMA OutcomeStep ==
    ASSUME Core, OutcomeNeedsDecision, [Next]_vars
    PROVE  OutcomeNeedsDecision'
<1>1. CASE UNCHANGED vars
  BY <1>1 DEF vars, OutcomeNeedsDecision
<1>2. ASSUME NEW h \in Handlers, HandlerStep(h) \/ Crash(h), NEW e \in Events
      PROVE  /\ events'[e] \in {"CONFIRMED_ISSUE", "CONFIRMED_INCIDENT"}
                  => EventDecided(e, {"APPROVE", "EDIT"})'
             /\ events'[e] = "IGNORED" => EventDecided(e, {"REJECT", "IGNORE"})'
  <2>1. CASE events'[e] = events[e]
    <3>1. /\ events[e] \in {"CONFIRMED_ISSUE", "CONFIRMED_INCIDENT"}
               => EventDecided(e, {"APPROVE", "EDIT"})
          /\ events[e] = "IGNORED" => EventDecided(e, {"REJECT", "IGNORE"})
      BY DEF OutcomeNeedsDecision, EventDecided
    <3> QED
      BY <1>2, <2>1, <3>1, EventDecidedKept
  <2>2. CASE SetOutcome(h) /\ e = arg[h].ev
             /\ events'[e] = Outcome(arg[h].kind, arg[h].incident)
    <3>1. decisions[h].ev = e /\ decisions[h].kind = arg[h].kind /\ arg[h].kind \in Kinds
      BY <2>2 DEF SetOutcome, Core, DecidingOK, DecidingAt, Deciding
    <3>2. decisions' = decisions
      BY <2>2 DEF SetOutcome
    <3> QED
      BY <2>2, <3>1, <3>2 DEF Outcome, Kinds, EventDecided
  <2> QED
    BY <1>2, <2>1, <2>2, EventChanges
<1> QED
  BY <1>1, <1>2 DEF Next, OutcomeNeedsDecision, EventDecided

\* CONFIRMED_* needs an APPROVE or EDIT of the event on record, IGNORED a REJECT
\* or IGNORE.
THEOREM OutcomesNeedDecision == Spec => []OutcomeNeedsDecision
<1>1. Init => Core /\ OutcomeNeedsDecision
  BY CoreInit DEF Init, OutcomeNeedsDecision
<1>2. Core /\ OutcomeNeedsDecision /\ [Next]_vars => (Core /\ OutcomeNeedsDecision)'
  BY CoreStep, OutcomeStep
<1> QED
  BY <1>1, <1>2, PTL DEF Spec

LEMMA RejectionStep ==
    ASSUME Core, RejectionHasReason, [Next]_vars
    PROVE  RejectionHasReason'
<1>1. CASE UNCHANGED vars
  BY <1>1 DEF vars, RejectionHasReason, Decided
<1>2. ASSUME NEW h \in Handlers, HandlerStep(h) \/ Crash(h)
      PROVE  RejectionHasReason'
  <2> SUFFICES ASSUME NEW r \in RuleIds, rules'[r].status = "REJECTED", ~rules'[r].reason,
                      rules'[r].author # "user", r \notin adminRules'
               PROVE  Decided(r, {"EDIT"})'
    BY DEF RejectionHasReason
  <2>1. CASE Decided(r, {"EDIT"})
    BY <1>2, <2>1, DecidedKept
  <2>2. CASE rules'[r] = rules[r]
    BY <1>2, <2>1, <2>2, RulesKept DEF RejectionHasReason
  <2>3. CASE /\ rules[r] \in Rule
             /\ \/ rules'[r] = WithStatus(rules[r], "ACTIVE")
                \/ rules'[r] = WithStatus(rules[r], "REJECTED")
    <3>1. rules'[r].status = "ACTIVE" \/ rules'[r].reason = TRUE
      BY <2>3 DEF WithStatus, Rule
    <3> QED
      BY <3>1
  <2> QED
    BY <1>2, <2>1, <2>2, <2>3, RuleChanges DEF YamlRow, NewRow
<1> QED
  BY <1>1, <1>2 DEF Next

\* GR22-003 for the decision path: a REJECTED row without a reason was not
\* rejected by a REJECT decision.
THEOREM RejectionsHaveReason == Spec => []RejectionHasReason
<1>1. Init => Core /\ RejectionHasReason
  BY CoreInit DEF Init, RejectionHasReason, NoRule
<1>2. Core /\ RejectionHasReason /\ [Next]_vars => (Core /\ RejectionHasReason)'
  BY CoreStep, RejectionStep
<1> QED
  BY <1>1, <1>2, PTL DEF Spec

-----------------------------------------------------------------------------
(* Reviews that wait for the user *)

\* Only CloseReview writes USER_REVIEWED, and of its own review.
LEMMA ReviewChanges ==
    ASSUME Core, NEW h \in Handlers, HandlerStep(h) \/ Crash(h), NEW g \in Handlers
    PROVE  \/ reviews'[g] = reviews[g]
           \/ g = h /\ pc[h] \in Reviewing \cup BeforeReview
                    /\ reviews'[g].status # "USER_REVIEWED"
           \/ /\ CloseReview(h) /\ g = arg[h].rv
              /\ reviews'[g] = [reviews[g] EXCEPT !.status = "USER_REVIEWED"]
<1> USE DEF Core, TypeOK, SetReview, Reviewing, BeforeReview
<1>1. CASE BeginReview(h)
  BY <1>1 DEF BeginReview, Starts
<1>2. CASE LlmFails(h)
  BY <1>2 DEF LlmFails, Review
<1>3. CASE SaveReview(h)
  BY <1>3 DEF SaveReview, Review
<1>4. CASE CloseReview(h)
  BY <1>4 DEF CloseReview
<1>5. BeginReview(h) \/ LlmFails(h) \/ SaveReview(h) \/ CloseReview(h) \/ UNCHANGED reviews
  BY DEF HandlerStep, EventStep, Ingest, NormalizeAgain, Normalize, BeginEvaluate, LoadRules,
         RaiseSos, RouteEvent, ReviewStep, ReplyWithoutDraft, ReplyWithDraft, InsertDraft,
         MarkReviewed, QueueForUser, DecisionStep, Decide, EditDraft, ActivateDraft,
         RejectDraft, SetOutcome, AdminStep, BeginCreate, InsertRule, PutRule, FormEdit,
         PutStatus, BeginEnable, EnableRule, DisableRule, SyncStep, BeginSync, CheckYamlRule,
         ImportYamlRule, Crash
<1> QED
  BY <1>1, <1>2, <1>3, <1>4, <1>5

\* A review that is complete stays so.
Saved(g, e) == /\ reviews[g].ev = e /\ pc[g] \notin Reviewing \cup BeforeReview
               /\ reviews[g].status \in {"REVIEWED", "USER_REVIEWED"}

LEMMA SavedKept ==
    ASSUME Core, NEW h \in Handlers, HandlerStep(h) \/ Crash(h),
           NEW g \in Handlers, NEW e \in Events, Saved(g, e)
    PROVE  Saved(g, e)'
<1>1. pc'[g] \notin Reviewing \cup BeforeReview
  <2>1. CASE g # h
    BY <2>1, OthersKept DEF Saved
  <2>2. CASE g = h
    BY <2>2 DEF Saved, HandlerStep, EventStep, Ingest, NormalizeAgain, Normalize,
       BeginEvaluate, LoadRules, RaiseSos, RouteEvent, ReviewStep, BeginReview, LlmFails,
       ReplyWithoutDraft, ReplyWithDraft, InsertDraft, SaveReview, MarkReviewed, QueueForUser,
       DecisionStep, Decide, EditDraft, ActivateDraft, RejectDraft, SetOutcome, CloseReview,
       AdminStep, BeginCreate, InsertRule, PutRule, FormEdit, PutStatus, BeginEnable,
       EnableRule, DisableRule, SyncStep, BeginSync, CheckYamlRule, ImportYamlRule, Crash,
       Goto, Return, Starts, Core, TypeOK, Reviewing, BeforeReview
  <2> QED
    BY <2>1, <2>2
<1>2. /\ reviews'[g].ev = reviews[g].ev
      /\ reviews'[g].status \in {reviews[g].status, "USER_REVIEWED"}
  <2>1. reviews[g] \in Review /\ ~(pc[g] \in Reviewing \cup BeforeReview)
    BY DEF Saved, Core, TypeOK
  <2>2. \/ reviews'[g] = reviews[g]
        \/ reviews'[g] = [reviews[g] EXCEPT !.status = "USER_REVIEWED"]
    BY <2>1, ReviewChanges
  <2> QED
    BY <2>1, <2>2 DEF Review
<1> QED
  BY <1>1, <1>2 DEF Saved

LEMMA PendingStep ==
    ASSUME Core, PendingHasSavedReview, NEW h \in Handlers, HandlerStep(h) \/ Crash(h)
    PROVE  PendingHasSavedReview'
<1>1. ASSUME NEW e \in Events, events'[e] = "USER_REVIEW_PENDING"
      PROVE  \E g \in Handlers : Saved(g, e)'
  <2>1. CASE events'[e] = events[e]
    <3>1. PICK g \in Handlers : /\ reviews[g].ev = e /\ pc[g] \notin Reviewing
                                /\ reviews[g].status \in {"REVIEWED", "USER_REVIEWED"}
      BY <1>1, <2>1 DEF PendingHasSavedReview
    <3>2. Saved(g, e)
      BY <3>1 DEF Saved, Core, ReviewingOK, ReviewingAt, NoReview
    <3> QED
      BY <3>2, SavedKept
  <2>2. CASE QueueForUser(h) /\ e = arg[h].ev
    <3>1. Saved(h, e)
      BY <2>2 DEF QueueForUser, Saved, Core, ReviewingOK, ReviewingAt, Reviewing, BeforeReview
    <3> QED
      BY <3>1, SavedKept
  <2> QED
    BY <1>1, <2>1, <2>2, EventChanges DEF Outcome
<1>2. ASSUME NEW g \in Handlers, reviews'[g].status = "USER_REVIEWED"
      PROVE  \E d \in Handlers : decisions'[d].rv = g
  <2>1. CASE reviews'[g] = reviews[g]
    BY <1>2, <2>1, DecisionsKept, NoneAssumption DEF PendingHasSavedReview, NoDecision
  <2>2. CASE CloseReview(h) /\ g = arg[h].rv
    BY <2>2 DEF CloseReview, Core, DecidingOK, DecidingAt
  <2> QED
    BY <1>2, <2>1, <2>2, ReviewChanges
<1> QED
  BY <1>1, <1>2 DEF PendingHasSavedReview, Saved

\* An event waiting for the user has a completed review, and a review counts as
\* decided only when a decision names it.
THEOREM PendingEventsHaveReview == Spec => []PendingHasReview
<1>1. Init => Core /\ PendingHasSavedReview
  BY CoreInit DEF Init, PendingHasSavedReview, NoReview
<1>2. Core /\ PendingHasSavedReview /\ [Next]_vars => (Core /\ PendingHasSavedReview)'
  <2>1. ASSUME Core, PendingHasSavedReview, UNCHANGED vars  PROVE PendingHasSavedReview'
    BY <2>1 DEF vars, PendingHasSavedReview
  <2> QED
    BY <2>1, CoreStep, PendingStep DEF Next
<1>3. PendingHasSavedReview => PendingHasReview
  BY DEF PendingHasSavedReview, PendingHasReview
<1> QED
  BY <1>1, <1>2, <1>3, PTL DEF Spec

-----------------------------------------------------------------------------
(* Incidents *)

LEMMA IncidentKnownKept ==
    ASSUME Core, NEW h \in Handlers, HandlerStep(h) \/ Crash(h),
           NEW d \in Handlers, IncidentKnown(d)
    PROVE  IncidentKnown(d)'
<1>1. decisions'[d] = decisions[d] /\ decisions[d].rule # None
  BY DecisionsKept, NoneAssumption DEF IncidentKnown, NoDecision
<1>2. adminRules \subseteq adminRules'
  BY RulesKept
<1>3. \A x \in Handlers : decisions[x].kind = "EDIT" => decisions'[x] = decisions[x]
  BY DecisionsKept DEF NoDecision
<1> QED
  BY <1>1, <1>2, <1>3 DEF IncidentKnown

\* The flag Decide reads is one a person is answerable for: the row is the
\* AI's, so no user created it, and the decision being made is not on record.
LEMMA FlagStep ==
    ASSUME Core, IncidentRulesVetted, IncidentFlagOK,
           NEW h \in Handlers, HandlerStep(h) \/ Crash(h)
    PROVE  IncidentFlagOK'
<1> SUFFICES ASSUME NEW g \in Handlers, pc'[g] \in Deciding \ {"close"}, arg'[g].incident
             PROVE  IncidentKnown(g)'
  BY DEF IncidentFlagOK
<1>1. CASE g # h
  BY <1>1, OthersKept, IncidentKnownKept DEF IncidentFlagOK
<1>2. CASE g = h /\ Decide(h)
  <2> PICK e \in Events, kind \in Kinds, withJson \in BOOLEAN,
           rv \in {None} \cup {w \in Handlers : reviews[w].status # "absent"},
           rule \in RuleIds \cup {None}, incident \in BOOLEAN :
             DecideIs(h, e, kind, withJson, rv, rule, incident)
    BY <1>2, DecideCases
  <2>1. incident /\ rule # None /\ rules[rule].incident
    <3>1. arg'[h].incident = incident
      BY NoArgType DEF DecideIs, Goto, Core, TypeOK, Arg
    <3> QED
      BY <1>2, <3>1 DEF DecideIs
  <2>2. rules[rule].author = "ai_review"
    <3>1. rv \in Handlers /\ reviews[rv].rule = rule
      BY <2>1 DEF DecideIs
    <3>2. pc[rv] # "save"
      BY <2>1, <3>1 DEF Core, ReviewingOK, ReviewingAt, Reviewing
    <3> QED
      BY <2>1, <3>1, <3>2 DEF Core, ClaimsOK, Claim
  <2>3. rule \in adminRules \/ Decided(rule, {"EDIT"})
    BY <2>1, <2>2 DEF IncidentRulesVetted, Vetted
  <2>4. decisions[h] = NoDecision
    BY DEF DecideIs, Starts, Core, DecidingOK, DecidingAt
  <2>5. /\ decisions' = [decisions EXCEPT ![h] =
                          [kind |-> kind, ev |-> e, rv |-> rv, rule |-> rule]]
        /\ adminRules' = adminRules
    BY DEF DecideIs
  <2>6. decisions'[h].rule = rule /\ \A x \in Handlers \ {h} : decisions'[x] = decisions[x]
    BY <2>5 DEF Core, TypeOK
  <2>7. CASE rule \in adminRules
    BY <1>2, <2>1, <2>5, <2>6, <2>7 DEF IncidentKnown
  <2>8. CASE Decided(rule, {"EDIT"})
    <3>1. PICK x \in Handlers : decisions[x].kind = "EDIT" /\ decisions[x].rule = rule
      BY <2>8 DEF Decided
    <3>2. x # h
      BY <2>4, <3>1 DEF NoDecision
    <3> QED
      BY <1>2, <2>1, <2>6, <3>1, <3>2 DEF IncidentKnown
  <2> QED
    BY <2>3, <2>7, <2>8
<1>3. CASE g = h /\ ~Decide(h)
  <2>1. pc[h] \in Deciding \ {"close"} /\ arg[h].incident
    BY <1>3 DEF HandlerStep, EventStep, Ingest, NormalizeAgain, Normalize,
       BeginEvaluate, LoadRules, RaiseSos, RouteEvent, ReviewStep, BeginReview, LlmFails,
       ReplyWithoutDraft, ReplyWithDraft, InsertDraft, SaveReview, MarkReviewed, QueueForUser,
       DecisionStep, EditDraft, ActivateDraft, RejectDraft, SetOutcome, CloseReview,
       AdminStep, BeginCreate, InsertRule, PutRule, FormEdit, PutStatus, BeginEnable,
       EnableRule, DisableRule, SyncStep, BeginSync, CheckYamlRule, ImportYamlRule, Crash,
       Goto, Return, Core, TypeOK, Deciding
  <2> QED
    BY <1>3, <2>1, IncidentKnownKept DEF IncidentFlagOK
<1> QED
  BY <1>1, <1>2, <1>3

LEMMA ConfirmStep ==
    ASSUME Core, IncidentFlagOK, IncidentNeedsHuman,
           NEW h \in Handlers, HandlerStep(h) \/ Crash(h)
    PROVE  IncidentNeedsHuman'
<1> SUFFICES ASSUME NEW e \in Events, events'[e] = "CONFIRMED_INCIDENT"
             PROVE  \E d \in Handlers :
                      /\ decisions'[d].ev = e /\ decisions'[d].kind \in {"APPROVE", "EDIT"}
                      /\ IncidentKnown(d)'
  BY DEF IncidentNeedsHuman
<1>1. CASE events'[e] = events[e]
  <2>1. PICK d \in Handlers : /\ decisions[d].ev = e
                              /\ decisions[d].kind \in {"APPROVE", "EDIT"} /\ IncidentKnown(d)
    BY <1>1 DEF IncidentNeedsHuman
  <2>2. decisions'[d] = decisions[d]
    BY <2>1, DecisionsKept, NoneAssumption DEF NoDecision
  <2> QED
    BY <2>1, <2>2, IncidentKnownKept
<1>2. CASE SetOutcome(h) /\ e = arg[h].ev
           /\ events'[e] = Outcome(arg[h].kind, arg[h].incident)
  <2>1. arg[h].kind \in {"APPROVE", "EDIT"} /\ arg[h].incident
    BY <1>2 DEF Outcome
  <2>2. decisions[h].ev = e /\ decisions[h].kind = arg[h].kind /\ IncidentKnown(h)
    BY <1>2, <2>1 DEF SetOutcome, IncidentFlagOK, Core, DecidingOK, DecidingAt, Deciding
  <2>3. decisions' = decisions
    BY <1>2 DEF SetOutcome
  <2> QED
    BY <2>1, <2>2, <2>3, IncidentKnownKept
<1> QED
  BY <1>1, <1>2, EventChanges

\* GR22-002 for events: CONFIRMED_INCIDENT is never the AI's doing.
THEOREM IncidentsNeedHuman == Spec => []IncidentNeedsHuman
<1> DEFINE Inv == Core /\ IncidentRulesVetted /\ IncidentFlagOK /\ IncidentNeedsHuman
<1>1. Init => Inv
  BY CoreInit DEF Init, IncidentRulesVetted, IncidentFlagOK, IncidentNeedsHuman, NoRule,
                  Deciding
<1>2. Inv /\ [Next]_vars => Inv'
  <2>1. ASSUME Inv, UNCHANGED vars  PROVE Inv'
    BY <2>1, CoreStep DEF vars, IncidentRulesVetted, IncidentFlagOK, IncidentNeedsHuman,
                          IncidentKnown, Vetted, Decided
  <2>2. ASSUME Inv, NEW h \in Handlers, HandlerStep(h) \/ Crash(h)  PROVE Inv'
    BY <2>2, CoreStep, IncidentStep, FlagStep, ConfirmStep DEF Next
  <2> QED
    BY <2>1, <2>2 DEF Next
<1>3. Inv => IncidentNeedsHuman
  OBVIOUS
<1> QED
  BY <1>1, <1>2, <1>3, PTL DEF Spec

-----------------------------------------------------------------------------
(* ReviewWorkflow implements RuleApproval.  Every step of a handler touches *)
(* one row at most; RowStep says what it then is in the abstract, and the   *)
(* other lemmas say which row and why.                                      *)


\* The row an admin wrote to is there, and so is the draft a decision is about.
RowsBehind ==
    /\ \A r \in adminRules : Present(rules[r])
    /\ \A d \in Handlers : decisions[d].rule # None =>
         rules[decisions[d].rule].author = "ai_review"

ApprovalInv == Core /\ AiRuleNeedsHuman /\ IncidentRulesVetted /\ RowsBehind

Alarmed == {s.rule : s \in sos}
AbstractVars == <<Standing, ActiveRules, Alarmed>>

-----------------------------------------------------------------------------
(* RowsBehind *)

LEMMA BehindStep ==
    ASSUME Core, RowsBehind, NEW h \in Handlers, HandlerStep(h) \/ Crash(h)
    PROVE  RowsBehind'
<1>1. ASSUME NEW r \in RuleIds, Present(rules[r])  PROVE Present(rules'[r])
  BY <1>1, RulesKept DEF Present
<1>2. ASSUME NEW r \in adminRules'  PROVE Present(rules'[r])
  <2>1. \/ UNCHANGED adminRules
        \/ \E q \in RuleIds : Present(rules[q]) /\ adminRules' = adminRules \cup {q}
    <3>1. CASE PutRule(h) \/ FormEdit(h) \/ DisableRule(h)
      BY <3>1 DEF PutRule, FormEdit, DisableRule
    <3>2. CASE EnableRule(h)
      BY <3>2 DEF EnableRule, Core, LocalsOK, LocalsAt, AtRule
    <3>3. CASE ~PutRule(h) /\ ~FormEdit(h) /\ ~DisableRule(h) /\ ~EnableRule(h)
      BY <3>3 DEF HandlerStep, EventStep, Ingest, NormalizeAgain, Normalize, BeginEvaluate,
         LoadRules, RaiseSos, RouteEvent, ReviewStep, BeginReview, LlmFails, ReplyWithoutDraft,
         ReplyWithDraft, InsertDraft, SaveReview, MarkReviewed, QueueForUser, DecisionStep,
         Decide, EditDraft, ActivateDraft, RejectDraft, SetOutcome, CloseReview, AdminStep,
         BeginCreate, InsertRule, PutStatus, BeginEnable, SyncStep, BeginSync, CheckYamlRule,
         ImportYamlRule, Crash
    <3> QED
      BY <3>1, <3>2, <3>3
  <2> QED
    BY <1>1, <2>1 DEF RowsBehind, Core, TypeOK
<1>3. ASSUME NEW d \in Handlers, decisions'[d].rule # None
      PROVE  rules'[decisions'[d].rule].author = "ai_review"
  <2>1. CASE decisions'[d] = decisions[d]
    BY <1>3, <2>1, RulesKept DEF RowsBehind, Core, TypeOK, Decision, Present
  <2>2. CASE Decide(h) /\ d = h
    <3> PICK e \in Events, kind \in Kinds, withJson \in BOOLEAN,
             rv \in {None} \cup {w \in Handlers : reviews[w].status # "absent"},
             rule \in RuleIds \cup {None}, incident \in BOOLEAN :
               DecideIs(h, e, kind, withJson, rv, rule, incident)
      BY <2>2, DecideCases
    <3>1. decisions'[d].rule = rule
      BY <2>2 DEF DecideIs, Core, TypeOK
    <3>2. rv \in Handlers /\ rule = reviews[rv].rule /\ rule # None
      BY <1>3, <3>1 DEF DecideIs
    <3>3. DraftIsOwn
      BY DEF Core, ClaimsOK, Claim, DraftIsOwn, ReviewingOK, ReviewingAt, Reviewing
    <3>4. rules[rule].author = "ai_review"
      BY <3>2, <3>3 DEF DraftIsOwn
    <3> QED
      BY <3>1, <3>2, <3>4, RulesKept DEF Present
  <2>3. CASE d # h
    BY <2>1, <2>3, OthersKept
  <2>4. CASE ~Decide(h)
    <3>1. UNCHANGED decisions
      BY <2>4 DEF HandlerStep, EventStep, Ingest, NormalizeAgain, Normalize, BeginEvaluate,
         LoadRules, RaiseSos, RouteEvent, ReviewStep, BeginReview, LlmFails, ReplyWithoutDraft,
         ReplyWithDraft, InsertDraft, SaveReview, MarkReviewed, QueueForUser, DecisionStep,
         EditDraft, ActivateDraft, RejectDraft, SetOutcome, CloseReview, AdminStep,
         BeginCreate, InsertRule, PutRule, FormEdit, PutStatus, BeginEnable, EnableRule,
         DisableRule, SyncStep, BeginSync, CheckYamlRule, ImportYamlRule, Crash
    <3> QED
      BY <2>1, <3>1
  <2> QED
    BY <2>2, <2>3, <2>4
<1> QED
  BY <1>2, <1>3 DEF RowsBehind

LEMMA ApprovalInvStep ==
    ASSUME ApprovalInv, [Next]_vars
    PROVE  ApprovalInv'
<1>1. CASE UNCHANGED vars
  BY <1>1, CoreStep, ApprovalStep
     DEF ApprovalInv, vars, IncidentRulesVetted, Vetted, Decided, RowsBehind
<1>2. ASSUME NEW h \in Handlers, HandlerStep(h) \/ Crash(h)  PROVE ApprovalInv'
  BY <1>2, CoreStep, ApprovalStep, IncidentStep, BehindStep DEF ApprovalInv, Next
<1> QED
  BY <1>1, <1>2 DEF Next

-----------------------------------------------------------------------------
(* One row *)

\* What a step that writes the row r alone is in the abstract.
RowStep(r) ==
    \/ ~Present(rules[r]) /\ Present(rules'[r]) /\ rules'[r].author # "user"
       /\ (rules'[r].author = "ai_review" <=> ~Effective(rules'[r]))
       /\ UNCHANGED adminRules
    \/ ~Present(rules[r]) /\ rules'[r].author = "user"
    \/ /\ Present(rules[r]) /\ rules'[r].author = rules[r].author
       /\ \/ Answered(r)'
          \/ UNCHANGED adminRules /\ Effective(rules'[r]) = Effective(rules[r])

LEMMA RowMaps ==
    ASSUME ApprovalInv, ApprovalInv', NEW r \in RuleIds, RowStep(r), UNCHANGED <<decisions, sos>>,
           adminRules \subseteq adminRules', adminRules' \subseteq adminRules \cup {r},
           \A q \in RuleIds \ {r} : rules'[q] = rules[q]
    PROVE  [Approval!Next]_AbstractVars
<1>1. ASSUME NEW q \in RuleIds, q # r
      PROVE  Standing'[q] = Standing[q] /\ (q \in ActiveRules' <=> q \in ActiveRules)
  <2>1. rules'[q] = rules[q] /\ (q \in adminRules' <=> q \in adminRules)
    BY <1>1
  <2>2. Answered(q)' <=> Answered(q)
    BY <2>1 DEF Answered, Decided
  <2> QED
    BY <2>1, <2>2 DEF Standing, ActiveRules
<1>2. Standing' = [Standing EXCEPT ![r] = Standing'[r]]
  BY <1>1 DEF Standing
<1>3. /\ r \in ActiveRules' => ActiveRules' = ActiveRules \cup {r}
      /\ r \notin ActiveRules' => ActiveRules' = ActiveRules \ {r}
      /\ (r \in ActiveRules' <=> r \in ActiveRules) => ActiveRules' = ActiveRules
  BY <1>1 DEF ActiveRules
<1>4. /\ r \in ActiveRules <=> Effective(rules[r])
      /\ r \in ActiveRules' <=> Effective(rules'[r])
  BY DEF ActiveRules
<1>5. UNCHANGED Alarmed
  BY DEF Alarmed
<1>6. CASE ~Present(rules[r])
  <2>1. ~Effective(rules[r]) /\ r \notin adminRules
    BY <1>6, RowTypes DEF Effective, Present, ApprovalInv, Core, TypeOK, NoRule, RowsBehind
  <2>2. Standing[r] = "absent"
    BY <1>6 DEF Standing
  <2>3. \A d \in Handlers : decisions[d].rule # r
    BY <1>6, NoneAssumption DEF ApprovalInv, RowsBehind, Core, TypeOK, Present, NoRule
  <2>4. CASE rules'[r].author = "user"
    <3>1. Standing'[r] = "answered"
      BY <2>4 DEF Standing, Answered, Present
    <3>2. Approval!Answer(r)
      BY <1>2, <1>3, <1>5, <2>2, <3>1 DEF Approval!Answer, Approval!Becomes, Alarmed
    <3> QED
      BY <3>2 DEF Approval!Next
  <2>5. CASE /\ Present(rules'[r]) /\ rules'[r].author # "user" /\ UNCHANGED adminRules
             /\ rules'[r].author = "ai_review" <=> ~Effective(rules'[r])
    <3>1. ~Answered(r)'
      BY <2>1, <2>3, <2>5 DEF Answered, Decided
    <3>2. CASE rules'[r].author = "ai_review"
      <4>1. Standing'[r] = "draft" /\ UNCHANGED ActiveRules
        BY <1>3, <1>4, <2>1, <2>5, <3>1, <3>2 DEF Standing
      <4>2. Approval!Draft(r)
        BY <1>2, <1>5, <2>2, <4>1 DEF Approval!Draft, Approval!Becomes, Alarmed
      <4> QED
        BY <4>2 DEF Approval!Next
    <3>3. CASE rules'[r].author # "ai_review"
      <4>1. Standing'[r] = "imported" /\ ActiveRules' = ActiveRules \cup {r}
        BY <1>3, <1>4, <2>5, <3>1, <3>3 DEF Standing
      <4>2. Approval!Import(r)
        BY <1>2, <1>5, <2>2, <4>1 DEF Approval!Import, Approval!Becomes, Alarmed
      <4> QED
        BY <4>2 DEF Approval!Next
    <3> QED
      BY <3>2, <3>3
  <2> QED
    BY <1>6, <2>4, <2>5 DEF RowStep
<1>7. CASE Present(rules[r]) /\ rules'[r].author = rules[r].author /\ Answered(r)'
  <2>1. Standing'[r] = "answered"
    BY <1>7 DEF Standing, Present
  <2>2. CASE Standing[r] = "answered"
    <3>1. UNCHANGED Standing
      BY <1>2, <2>1, <2>2 DEF Standing
    <3>2. Approval!Switch(r)
      BY <1>3, <1>5, <2>2, <3>1 DEF Approval!Switch, Alarmed
    <3> QED
      BY <3>2 DEF Approval!Next
  <2>3. CASE Standing[r] # "answered"
    <3>1. Approval!Answer(r)
      BY <1>2, <1>3, <1>5, <2>1, <2>3 DEF Approval!Answer, Approval!Becomes, Alarmed
    <3> QED
      BY <3>1 DEF Approval!Next
  <2> QED
    BY <2>2, <2>3
<1>8. CASE /\ Present(rules[r]) /\ rules'[r].author = rules[r].author /\ UNCHANGED adminRules
           /\ Effective(rules'[r]) = Effective(rules[r])
  <2>1. Answered(r)' <=> Answered(r)
    BY <1>8 DEF Answered, Decided
  <2>2. Standing'[r] = Standing[r]
    BY <1>8, <2>1 DEF Standing, Present
  <2>3. UNCHANGED Standing
    BY <1>2, <2>2 DEF Standing
  <2> QED
    BY <1>3, <1>4, <1>5, <1>8, <2>3 DEF AbstractVars
<1> QED
  BY <1>6, <1>7, <1>8 DEF RowStep

-----------------------------------------------------------------------------
(* The steps of a handler *)

\* The row a step writes, when it writes one.
LEMMA WrittenRow ==
    ASSUME ApprovalInv, NEW h \in Handlers, HandlerStep(h) \/ Crash(h)
    PROVE  \/ Decide(h) \/ RaiseSos(h)
           \/ UNCHANGED <<rules, decisions, sos, adminRules>>
           \/ /\ UNCHANGED <<decisions, sos>>
              /\ \E r \in RuleIds :
                   /\ RowStep(r)
                   /\ adminRules' \subseteq adminRules \cup {r}
                   /\ \A q \in RuleIds \ {r} : rules'[q] = rules[q]
<1> USE DEF ApprovalInv, Core, TypeOK, SetRule
<1>0. LocalsAt(h) /\ DecidingAt(h) /\ ReviewingAt(h)
  BY DEF LocalsOK, DecidingOK, ReviewingOK
<1>1. CASE InsertDraft(h)
  <2>1. arg[h].rule \in RuleIds /\ arg[h].data.status = "AI_SUGGESTED"
    BY <1>0, <1>1 DEF InsertDraft, ReviewingAt, LocalsAt, AtRule
  <2>2. CASE Present(rules[arg[h].rule])
    BY <1>1, <2>2 DEF InsertDraft
  <2>3. CASE ~Present(rules[arg[h].rule])
    <3>1. rules'[arg[h].rule] = NewRow(arg[h].data, "ai_review")
      BY <1>1, <2>1, <2>3 DEF InsertDraft
    <3>2. RowStep(arg[h].rule)
      BY <1>1, <2>1, <2>3, <3>1 DEF InsertDraft, RowStep, NewRow, Effective, Present
    <3> QED
      BY <1>1, <2>1, <2>3, <3>2 DEF InsertDraft
  <2> QED
    BY <2>2, <2>3
<1>2. CASE InsertRule(h)
  <2>1. arg[h].rule \in RuleIds
    BY <1>0, <1>2 DEF InsertRule, LocalsAt, AtRule
  <2> QED
    BY <1>2, <2>1 DEF InsertRule, RowStep, NewRow
<1>3. CASE ImportYamlRule(h)
  <2>1. arg[h].rule \in RuleIds
    BY <1>0, <1>3 DEF ImportYamlRule, LocalsAt, AtRule
  <2> QED
    BY <1>3, <2>1 DEF ImportYamlRule, RowStep, YamlRow, NewRow, Effective, Present
<1>4. CASE \/ PutRule(h) \/ FormEdit(h) \/ DisableRule(h) \/ PutStatus(h) \/ EnableRule(h)
  <2>1. \E r \in RuleIds : /\ Present(rules[r]) /\ r \in adminRules'
                           /\ adminRules' \subseteq adminRules \cup {r}
                           /\ \A q \in RuleIds \ {r} : rules'[q] = rules[q]
    <3>1. CASE PutRule(h) \/ FormEdit(h) \/ DisableRule(h)
      BY <3>1 DEF PutRule, FormEdit, DisableRule
    <3>2. CASE PutStatus(h) \/ EnableRule(h)
      BY <1>0, <3>2 DEF PutStatus, EnableRule, LocalsAt, AtRule
    <3> QED
      BY <1>4, <3>1, <3>2
  <2>2. UNCHANGED <<decisions, sos>>
    BY <1>4 DEF PutRule, FormEdit, DisableRule, PutStatus, EnableRule
  <2> QED
    BY <2>1, <2>2, RulesKept DEF RowStep, Answered
<1>5. CASE EditDraft(h) \/ ActivateDraft(h)
  <2> PICK r \in RuleIds : r = arg[h].rule /\ Present(rules[r])
    BY <1>0, <1>5 DEF EditDraft, ActivateDraft, LocalsAt, AtRule
  <2>1. decisions[h].kind \in {"APPROVE", "EDIT"} /\ decisions[h].rule = r
    BY <1>0, <1>5 DEF EditDraft, ActivateDraft, DecidingAt, Deciding
  <2>2. UNCHANGED <<decisions, sos, adminRules>>
    BY <1>5 DEF EditDraft, ActivateDraft
  <2>3. Answered(r)'
    BY <2>1, <2>2 DEF Answered, Decided
  <2>4. \A q \in RuleIds \ {r} : rules'[q] = rules[q]
    BY <1>5 DEF EditDraft, ActivateDraft
  <2>5. RowStep(r)
    BY <2>3, RulesKept DEF RowStep
  <2> QED
    BY <2>2, <2>4, <2>5
<1>6. CASE RejectDraft(h)
  <2> PICK r \in RuleIds : r = arg[h].rule /\ Present(rules[r])
    BY <1>0, <1>6 DEF RejectDraft, LocalsAt, AtRule
  <2>1. decisions[h].rule = r
    BY <1>0, <1>6 DEF RejectDraft, DecidingAt, Deciding
  <2>2. rules[r].author = "ai_review" /\ rules[r] \in Rule
    BY <2>1, RowTypes, NoneAssumption DEF RowsBehind
  <2>3. UNCHANGED <<decisions, sos, adminRules>> /\ rules'[r] = WithStatus(rules[r], "REJECTED")
    BY <1>6 DEF RejectDraft
  <2>4. ~Effective(rules'[r])
    BY <2>2, <2>3 DEF WithStatus, Effective, Rule
  <2>5. RowStep(r)
    <3>1. CASE Answered(r)
      <4>1. r \in adminRules \/ Decided(r, {"APPROVE", "EDIT"})
        BY <2>2, <3>1 DEF Answered
      <4>2. Answered(r)'
        BY <2>3, <4>1 DEF Answered, Decided
      <4> QED
        BY <4>2, RulesKept DEF RowStep
    <3>2. CASE ~Answered(r)
      <4>1. ~Effective(rules[r])
        BY <2>2, <3>2 DEF AiRuleNeedsHuman, Answered
      <4> QED
        BY <2>3, <2>4, <4>1, RulesKept DEF RowStep, Effective
    <3> QED
      BY <3>1, <3>2
  <2> QED
    BY <1>6, <2>3, <2>5 DEF RejectDraft
<1>7. \/ UNCHANGED <<rules, decisions, sos, adminRules>>
      \/ Decide(h) \/ RaiseSos(h) \/ InsertDraft(h) \/ InsertRule(h) \/ ImportYamlRule(h)
      \/ PutRule(h) \/ FormEdit(h) \/ DisableRule(h) \/ PutStatus(h) \/ EnableRule(h)
      \/ EditDraft(h) \/ ActivateDraft(h) \/ RejectDraft(h)
  BY DEF HandlerStep, EventStep, Ingest, NormalizeAgain, Normalize, BeginEvaluate,
         LoadRules, RouteEvent, ReviewStep, BeginReview, LlmFails, ReplyWithoutDraft,
         ReplyWithDraft, SaveReview, MarkReviewed, QueueForUser, DecisionStep, SetOutcome,
         CloseReview, AdminStep, BeginCreate, BeginEnable, SyncStep, BeginSync,
         CheckYamlRule, Crash
<1> QED
  BY <1>1, <1>2, <1>3, <1>4, <1>5, <1>6, <1>7

\* A decision is an answer for its draft, if it approves or edits the draft and
\* nobody has answered for it before; otherwise it changes nothing.
LEMMA DecideMaps ==
    ASSUME ApprovalInv, ApprovalInv', NEW h \in Handlers, Decide(h)
    PROVE  [Approval!Next]_AbstractVars
<1> PICK e \in Events, kind \in Kinds, withJson \in BOOLEAN,
         rv \in {None} \cup {w \in Handlers : reviews[w].status # "absent"},
         rule \in RuleIds \cup {None}, incident \in BOOLEAN :
           DecideIs(h, e, kind, withJson, rv, rule, incident)
  BY DecideCases DEF ApprovalInv, Core
<1>1. UNCHANGED <<rules, sos, adminRules, ActiveRules, Alarmed>>
  BY DEF Decide, ActiveRules, Alarmed
<1>2. decisions[h] = NoDecision
  BY DEF Decide, Starts, ApprovalInv, Core, DecidingOK, DecidingAt
<1>3. /\ decisions'[h].kind = kind /\ decisions'[h].rule = rule
      /\ \A d \in Handlers \ {h} : decisions'[d] = decisions[d]
  BY DEF DecideIs, ApprovalInv, Core, TypeOK
<1>4. \A q \in RuleIds : Answered(q)' <=> Answered(q) \/ (q = rule /\ kind \in {"APPROVE", "EDIT"})
  BY <1>1, <1>2, <1>3 DEF Answered, Decided, NoDecision
<1>5. CASE rule \in RuleIds /\ kind \in {"APPROVE", "EDIT"} /\ ~Answered(rule)
  <2>1. rules[rule].author = "ai_review"
    BY <1>1, <1>3, <1>5, NoneAssumption DEF ApprovalInv, RowsBehind
  <2>2. Standing[rule] # "answered" /\ Standing' = [Standing EXCEPT ![rule] = "answered"]
    BY <1>1, <1>4, <1>5, <2>1 DEF Standing, Present
  <2>3. Approval!Answer(rule)
    BY <1>1, <2>2 DEF Approval!Answer, Approval!Becomes, Alarmed
  <2> QED
    BY <1>5, <2>3 DEF Approval!Next
<1>6. CASE ~(rule \in RuleIds /\ kind \in {"APPROVE", "EDIT"} /\ ~Answered(rule))
  <2>1. \A q \in RuleIds : Answered(q)' <=> Answered(q)
    BY <1>4, <1>6
  <2>2. UNCHANGED Standing
    BY <1>1, <2>1 DEF Standing
  <2> QED
    BY <1>1, <2>2 DEF AbstractVars
<1> QED
  BY <1>5, <1>6

\* The alerts an evaluation raises come from rules a person has answered for.
LEMMA RaiseSosMaps ==
    ASSUME ApprovalInv, NEW h \in Handlers, RaiseSos(h)
    PROVE  [Approval!Next]_AbstractVars
<1> PICK r \in arg[h].todo : sos' = sos \cup {[ev |-> arg[h].ev, rule |-> r]}
  BY DEF RaiseSos
<1>1. UNCHANGED <<rules, decisions, adminRules>> /\ pc[h] = "route" /\ r \in RuleIds
  BY DEF RaiseSos, ApprovalInv, Core, TypeOK, Arg
<1>2. Answered(r) /\ Present(rules[r])
  <2>1. Vetted(r)
    BY <1>1 DEF ApprovalInv, IncidentRulesVetted
  <2>2. ASSUME NEW d \in Handlers, decisions[d].rule = r  PROVE Present(rules[r])
    BY <1>1, <2>2, NoneAssumption DEF ApprovalInv, RowsBehind, Present
  <2> QED
    BY <1>1, <2>1, <2>2 DEF Vetted, Answered, Decided, ApprovalInv, RowsBehind, Present
<1>3. Standing[r] = "answered"
  BY <1>1, <1>2 DEF Standing
<1>4. Alarmed' = Alarmed \cup {r}
  <2> DEFINE s == [ev |-> arg[h].ev, rule |-> r]
  <2>1. sos' = sos \cup {s} /\ s.rule = r
    OBVIOUS
  <2> HIDE DEF s
  <2>2. {x.rule : x \in sos \cup {s}} = Alarmed \cup {s.rule}
    BY DEF Alarmed
  <2> QED
    BY <2>1, <2>2 DEF Alarmed
<1>5. UNCHANGED <<Standing, ActiveRules>>
  BY <1>1 DEF Standing, Answered, Decided, ActiveRules
<1>6. Approval!Alarm(r)
  BY <1>3, <1>4, <1>5 DEF Approval!Alarm, Alarmed
<1> QED
  BY <1>1, <1>6 DEF Approval!Next

\* Every step maps to a step of the abstract specification, or a stutter.
LEMMA StepMaps ==
    ASSUME ApprovalInv, [Next]_vars
    PROVE  [Approval!Next]_AbstractVars
<1>1. ASSUME UNCHANGED <<rules, decisions, sos, adminRules>>
      PROVE  [Approval!Next]_AbstractVars
  BY <1>1 DEF AbstractVars, Standing, Answered, Decided, ActiveRules, Alarmed
<1>2. CASE UNCHANGED vars
  BY <1>1, <1>2 DEF vars
<1>3. ASSUME NEW h \in Handlers, HandlerStep(h) \/ Crash(h)
      PROVE  [Approval!Next]_AbstractVars
  <2>1. ApprovalInv'
    BY ApprovalInvStep
  <2>2. CASE \/ Decide(h) \/ RaiseSos(h) \/ UNCHANGED <<rules, decisions, sos, adminRules>>
    BY <1>1, <2>1, <2>2, DecideMaps, RaiseSosMaps
  <2>3. ASSUME UNCHANGED <<decisions, sos>>, NEW r \in RuleIds, RowStep(r),
               adminRules' \subseteq adminRules \cup {r},
               \A q \in RuleIds \ {r} : rules'[q] = rules[q]
        PROVE  [Approval!Next]_AbstractVars
    BY <1>3, <2>1, <2>3, RowMaps, RulesKept DEF ApprovalInv
  <2> QED
    BY <1>3, <2>2, <2>3, WrittenRow
<1> QED
  BY <1>2, <1>3 DEF Next

\* The governance of RuleApproval holds of every behaviour of the handlers, for
\* any number of them and whichever operations occur: a draft of the AI does
\* not fire before a person answers for it, an imported rule changes by a
\* person's hand only, and only rules answered for raise alerts
\* (rule_management_service.py, ai_review_service.py, event_service.py).
THEOREM ImplementsApproval == Spec => Approves
<1>1. Init => ApprovalInv /\ Approval!Init
  <2> SUFFICES ASSUME Init  PROVE ApprovalInv /\ Approval!Init
    OBVIOUS
  <2>1. ApprovalInv
    BY CoreInit, NoneAssumption DEF Init, ApprovalInv, AiRuleNeedsHuman, IncidentRulesVetted,
       RowsBehind, NoRule, NoDecision, Effective
  <2>2. Approval!Init
    BY DEF Init, Approval!Init, Standing, ActiveRules, Present, Effective, NoRule
  <2> QED
    BY <2>1, <2>2
<1>2. ApprovalInv /\ [Next]_vars => ApprovalInv' /\ [Approval!Next]_Approval!vars
  BY ApprovalInvStep, StepMaps DEF Approval!vars, AbstractVars, Alarmed
<1> QED
  BY <1>1, <1>2, PTL DEF Spec, Approves, Approval!Spec
=============================================================================
