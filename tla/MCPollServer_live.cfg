SPECIFICATION FairSpec
CONSTANTS
    Conn = {c1, c2}
    Cgi = {r1, r2}
    Fd = {1, 2, 3, 4, 5, 6}
    None = None
    Kinds = {"static", "cgi"}
    LeavePhases = {"idle", "receiving"}
    Signals = FALSE
    Extra = 0
    MaxRequests = 1
    ReqLen = 1
    RespLen = 1
    c1 = c1
    c2 = c2
    r1 = r1
    r2 = r2
PROPERTIES
    EveryRequestAnswered
    EveryScriptEnds
