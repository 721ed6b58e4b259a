SPECIFICATION Spec
CONSTANTS
    r1 = r1
    r2 = r2
    Servers = {r1, r2}
    Desk = Desk
    ann = ann
    root = root
    Users = {ann, root}
    Admins = {root}
    DeskUser = root
    a = a
    Given = {a}
    Asked = {a, None}
    MaxSteps = 2
    Batches = {1}
    MaxSends = 1
    SameMs = TRUE
    None = None
INVARIANT QuestionFirst
CHECK_DEADLOCK FALSE
