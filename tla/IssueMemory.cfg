SPECIFICATION Spec
CONSTANTS
    Words <- MCWords
    Fold <- MCFold
    Apps = {desk, server}
    Workers = {w1, w2}
    Rules <- MCRules
    Texts <- MCTexts
    Dims = 3
    Bucket <- MCBucket
    Threshold = 78
    MaxIssues = 3
    MaxEvents = 3
SYMMETRY Symmetry
INVARIANTS
    TypeOK
    EngineAgrees
    IndexBehindRecord
    DuplicateHasCause
CHECK_DEADLOCK FALSE
