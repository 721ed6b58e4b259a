SPECIFICATION FairSpec
CONSTANTS
    p1 = p1
    p2 = p2
    Processes = {p1, p2}
    NAlerts = 2
    Cooldown = 0
    Banners = {"plain", "garbled", "fatal"}
    ShadowedStop = TRUE
    Ops = {"acknowledge", "fault", "stop", "exit"}
PROPERTIES
    LateRingOnce
    OncePerWindow
    DueRings
    StopEndsLoop
CHECK_DEADLOCK FALSE
