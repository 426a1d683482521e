SPECIFICATION FairSpec
CONSTANTS
    Conn = {c1, c2}
    Cgi = {}
    Fd = {1}
    None = None
    Kinds = {"badHeader", "badBody", "static"}
    LeavePhases = {"idle", "sending", "waiting", "receiving"}
    Signals = FALSE
    Extra = 1
    MaxRequests = 1
    ReqLen = 2
    RespLen = 2
    c1 = c1
    c2 = c2
PROPERTIES
    NoInnocentClose
    DeadPeersAreClosed
