SPECIFICATION Spec
CONSTANTS
    w1 = w1
    w2 = w2
    s1 = s1
    chrome = chrome
    edge = edge
    Workers = {w1, w2}
    Servers = {s1}
    Targets = {chrome, edge}
    Invalid = Invalid
    Requests <- MCRequests
    Other = Other
    Attempts = 1
    MaxRuns = 2
    Faults = {"focus", "close", "ocr", "disk"}
    None = None
INVARIANTS
    TypeOK
    ResultsAreStored
    EveryTargetStored
PROPERTIES
    RunEnds
CHECK_DEADLOCK FALSE
