SPECIFICATION FairSpec
CONSTANTS
    p1 = p1
    p2 = p2
    Processes = {p1}
    NAlerts = 2
    Cooldown = 1
    Banners = {"plain", "garbled"}
    ShadowedStop = FALSE
    Ops = {"acknowledge"}
PROPERTIES
    EveryDueAlertRings
CHECK_DEADLOCK FALSE
