SPECIFICATION Spec
CONSTANTS
    Conn = {c1}
    Cgi = {r1}
    Fd = {1, 2, 3, 4, 5, 6}
    None = None
    Kinds = {"cgi"}
    LeavePhases = {"idle", "receiving"}
    Signals = FALSE
    Extra = 0
    MaxRequests = 1
    ReqLen = 2
    RespLen = 2
    c1 = c1
    r1 = r1
INVARIANTS
    SurvivesCgi
