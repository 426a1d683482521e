SPECIFICATION Spec
CONSTANTS
    Conn = {c1, c2, c3}
    Cgi = {r1, r2}
    Fd = {1, 2, 3, 4, 5, 6}
    None = None
    Kinds = {"post"}
    LeavePhases = {"waiting"}
    Signals = FALSE
    Extra = 0
    MaxRequests = 1
    ReqLen = 1
    RespLen = 1
    c1 = c1
    c2 = c2
    c3 = c3
    r1 = r1
    r2 = r2
SYMMETRY Symmetry
VIEW UpToEnding
INVARIANTS
    NoLostSocket
    NoLeakedPipe
