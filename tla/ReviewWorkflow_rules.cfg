SPECIFICATION Spec
CONSTANTS
    h1 = h1
    h2 = h2
    h3 = h3
    h4 = h4
    Handlers = {h1, h2, h3}
    Events = {e1}
    RuleIds = {r1, r2}
    YamlRules = {r2}
    Ops = {"ingest", "evaluate", "normalize", "review", "decide", "create", "put", "form", "enable", "disable", "sync", "crash"}
    AutoReview = TRUE
    AiCanDraft = TRUE
    None = None
SYMMETRY HandlerSymmetry
INVARIANTS
    DraftIsOwn
    IncidentNeedsHuman
    RejectionHasReason
    SosNeedsHuman
    OutcomeNeedsDecision
    PendingHasReview
PROPERTIES
    Approves
CHECK_DEADLOCK FALSE
