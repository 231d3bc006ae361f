\* The answer to a request may come late, one packet is lost or damaged, and one
\* process is killed or one call fails: two children serve one rcopy.
CONSTANTS
    NoData = NoData
    Uninit = Uninit
    WindowSize = 2
    BufferSize = 2
    NumChunks = 2
    MaxAttempts = 2
    MaxRequests = 2
    MaxChildren = 2
    QueueCap = 8
    MaxFaults = 1
    ServerErrors = {"drop", "flip"}
    ClientErrors = {"drop", "flip"}
    MaxCrashes = 1
SPECIFICATION SlowAnswerSpec
INVARIANTS
    ChildrenAcked
    NoEarlyExit
    SessionInv
