SPECIFICATION Spec
CONSTANTS
    Conn = {c1, c2}
    Cgi = {}
    Fd = {1}
    None = None
    Kinds = {"static"}
    LeavePhases = {"idle", "sending", "waiting", "receiving"}
    Signals = FALSE
    Extra = 0
    MaxRequests = 1
    ReqLen = 2
    RespLen = 2
    c1 = c1
    c2 = c2
INVARIANTS
    NothingLeftBehind
