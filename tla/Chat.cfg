SPECIFICATION Spec
CONSTANTS
    r1 = r1
    r2 = r2
    Servers = {r1, r2}
    Desk = Desk
    ann = ann
    root = root
    Users = {ann, root}
    Admins = {root}
    DeskUser = root
    a = a
    Given = {a}
    Asked = {a}
    MaxSteps = 2
    Batches = {2}
    MaxSends = 1
    SameMs = FALSE
    None = None
INVARIANTS
    TypeOK
    OwnTurns
    ProviderProtocol
    DeskTurnsWhereSent
    DeletedTurnsWereRunning
PROPERTIES
    TurnsEnd
CHECK_DEADLOCK FALSE
