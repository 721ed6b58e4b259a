SPECIFICATION FairSpec
CONSTANTS
    p1 = p1
    p2 = p2
    Processes = {p1, p2}
    NAlerts = 1
    Cooldown = 1
    Banners = {"plain"}
    ShadowedStop = FALSE
    Ops = {"acknowledge"}
PROPERTIES
    OwnTerminalRings
CHECK_DEADLOCK FALSE
