SPECIFICATION Spec
CONSTANTS
    Apps = {server}
    Desktops = {}
    Tables <- MCTables
    SeedKeys <- MCSeedKeys
    MaxStarts = 1
    Demonstrations = 2
    DemoIds = {}
INVARIANT
    AdminForced
CHECK_DEADLOCK FALSE
