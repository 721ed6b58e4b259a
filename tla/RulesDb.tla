------------------------------ MODULE RulesDb ------------------------------
(***************************************************************************)
(* Rows of the table rules_db and the pure half of RuleManagementService:  *)
(* what a status change writes, and what the governance guard lets the     *)
(* level-1 AI review do.  The operators are shared by the modules that     *)
(* model the handlers.                                                     *)
(*                                                                         *)
(* A row keeps the columns that decide whether a rule fires: status,       *)
(* enabled, is_incident_rule, whether a reject_reason is stored, and who   *)
(* inserted the row (created_by).  Names, conditions, severities and       *)
(* version counters are abstracted away.                                   *)
(***************************************************************************)

RuleStatuses == {"DRAFT", "AI_SUGGESTED", "USER_REVIEW_PENDING",
                 "ACTIVE", "REJECTED", "DISABLED"}

\* Any text outside RULE_STATUSES.  update_rule stores it unchecked.
OtherStatus == "OTHER"
RawStatuses == RuleStatuses \cup {OtherStatus}

Authors == {"ai_review", "user", "yaml_sync"}

Rule == [status : RawStatuses, enabled : BOOLEAN, incident : BOOLEAN,
         reason : BOOLEAN, author : Authors]

\* The columns a caller of create_rule supplies.
RuleData == [status : RuleStatuses, enabled : BOOLEAN, incident : BOOLEAN]

\* The absent row.
NoRule == [status |-> "none", enabled |-> FALSE, incident |-> FALSE,
           reason |-> FALSE, author |-> "none"]

Present(row) == row.author # "none"

\* RuleDbRepository.list_active: the rows the evaluator runs.
Effective(row) == row.status = "ACTIVE" /\ row.enabled

\* Variant: created_by is not passed on.
NewRowUnsigned(data, author) ==
    [status |-> data.status, enabled |-> data.enabled,
     incident |-> data.incident, reason |-> FALSE, author |-> "none"]

\* RuleDbRepository.create: a new row has no reject_reason.
NewRow(data, author) ==
    [status |-> data.status, enabled |-> data.enabled,
     incident |-> data.incident, reason |-> FALSE, author |-> author]

\* _guard for source = "ai"; every other source passes.
GuardAdmitsAi(data, canDraft) ==
    /\ canDraft
    /\ data.status \in {"DRAFT", "AI_SUGGESTED"}
    /\ ~data.enabled

\* Variant: the dict is merged without overwriting is_incident_rule.
AiDraftTrusting(reply) ==
    [reply EXCEPT !.status = "AI_SUGGESTED", !.enabled = FALSE]

\* The dict AiReviewService.review hands to create_rule: whatever the model
\* replied, with status, enabled and is_incident_rule overwritten.
AiDraft(reply) ==
    [reply EXCEPT !.status = "AI_SUGGESTED", !.enabled = FALSE, !.incident = FALSE]

\* The row sync_yaml_to_db inserts.
YamlRow == NewRow([status |-> "ACTIVE", enabled |-> TRUE, incident |-> FALSE],
                  "yaml_sync")

\* What set_status refuses: an unknown status, or REJECTED without a reason.
StatusAccepted(status, withReason) ==
    /\ status \in RuleStatuses
    /\ status = "REJECTED" => withReason

\* Variant: the reject_reason column is left out of the update.
WithStatusNoReason(row, status) ==
    [row EXCEPT !.status  = status,
                !.enabled = \/ status = "ACTIVE"
                            \/ status \notin {"REJECTED", "DISABLED"} /\ @]

\* What set_status writes once it has accepted the status.
WithStatus(row, status) ==
    [row EXCEPT !.status  = status,
                !.enabled = \/ status = "ACTIVE"
                            \/ status \notin {"REJECTED", "DISABLED"} /\ @,
                !.reason  = status = "REJECTED" \/ @]
=============================================================================
