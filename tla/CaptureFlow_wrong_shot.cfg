SPECIFICATION Spec
CONSTANTS
    w1 = w1
    s1 = s1
    chrome = chrome
    edge = edge
    Workers = {w1}
    Servers = {s1}
    Targets = {chrome, edge}
    Invalid = Invalid
    Requests <- MCRequests
    Other = Other
    Attempts = 1
    MaxRuns = 2
    Faults = {}
    None = None
INVARIANT NoWrongShot
CHECK_DEADLOCK FALSE
