SPECIFICATION Spec
CONSTANTS
    h1 = h1
    h2 = h2
    d1 = d1
    u0 = u0
    u1 = u1
    u2 = u2
    Handlers = {h1, h2}
    Desktops = {d1}
    Ids = {u0, u1, u2}
    Admin0 = u0
    Names = {"n0", "n1"}
    Passwords = {"p0", "p1"}
    Name0 = "n0"
    Password0 = "p0"
    Roles = {"admin", "viewer"}
    SelfRegister = TRUE
    ConfiguredRole = "admin"
    Ops = {"login", "logout", "expire", "register", "create", "update", "change", "delete", "tab"}
    MaxRequests = 5
    None = None
    Gone = Gone
PROPERTIES
    ResetHolds
CHECK_DEADLOCK FALSE
