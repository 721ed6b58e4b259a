SPECIFICATION Spec
CONSTANTS
    j1 = j1
    j2 = j2
    j3 = j3
    Jobs = {j1, j2}
    YamlRules = {"r", "s"}
    DbRules = {"r"}
    NoOwner = {"s"}
    YamlWindow = 0
    DefaultWindow = 2
    DbWindow = 1
    DbDefault = 1
    CooldownOn = TRUE
    DryRun = FALSE
    Ops = {"capture", "evaluate", "resend", "raise", "exit"}
    MaxTime = 3
SYMMETRY JobSymmetry
INVARIANTS
    CooldownIsLatest
    SkipHasCause
    MailsApart
    TraceIsTrue
CHECK_DEADLOCK FALSE
