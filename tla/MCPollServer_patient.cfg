SPECIFICATION Spec
CONSTANTS
    Conn = {c1, c2}
    Cgi = {r1, r2}
    Fd = {1, 2, 3, 4, 5, 6, 7}
    None = None
    Kinds = {"static", "cgi"}
    LeavePhases = {"idle", "receiving"}
    Signals = TRUE
    Extra = 0
    MaxRequests = 2
    ReqLen = 2
    RespLen = 2
    c1 = c1
    c2 = c2
    r1 = r1
    r2 = r2
SYMMETRY Symmetry
INVARIANTS
    TypeOK
    OwnResponse
    MapsAgree
    WriterHasReply
    NothingLeftBehind
    CleanShutdown
    AbortsOnlyInterrupted
PROPERTIES
    HttpServed
