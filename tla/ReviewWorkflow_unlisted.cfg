SPECIFICATION Spec
CONSTANTS
    h1 = h1
    h2 = h2
    h3 = h3
    h4 = h4
    Handlers = {h1, h2, h3}
    Events = {e1}
    RuleIds = {r1}
    YamlRules = {}
    Ops = {"ingest", "decide", "review"}
    AutoReview = TRUE
    AiCanDraft = TRUE
    None = None
SYMMETRY HandlerSymmetry
INVARIANTS
    WaitingIsListed
CHECK_DEADLOCK FALSE
