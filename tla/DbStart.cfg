SPECIFICATION Spec
CONSTANTS
    Apps = {desk1, desk2, server}
    Desktops = {desk1, desk2}
    Tables <- MCTables
    SeedKeys <- MCSeedKeys
    MaxStarts = 3
    Demonstrations = 2
    DemoIds = {e1, e2, e3, e4}
SYMMETRY MCSymmetry
INVARIANTS
    IdsFit
    RowsKept
    StrandedHasCause
CHECK_DEADLOCK FALSE
