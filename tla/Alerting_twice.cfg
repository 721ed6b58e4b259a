SPECIFICATION Spec
CONSTANTS
    j1 = j1
    j2 = j2
    j3 = j3
    Jobs = {j1, j2}
    YamlRules = {"r"}
    DbRules = {}
    NoOwner = {}
    YamlWindow = 2
    DefaultWindow = 2
    DbWindow = 1
    DbDefault = 1
    CooldownOn = TRUE
    DryRun = TRUE
    Ops = {"capture"}
    MaxTime = 2
SYMMETRY JobSymmetry
INVARIANTS
    NotResentInCooldown
CHECK_DEADLOCK FALSE
