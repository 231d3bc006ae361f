\* The answer to the first request comes after more than a second; no packet is
\* lost or damaged.
CONSTANTS
    NoData = NoData
    Uninit = Uninit
    WindowSize = 2
    BufferSize = 2
    NumChunks = 3
    MaxAttempts = 3
    MaxRequests = 3
    MaxChildren = 2
    QueueCap = 8
    MaxFaults = 0
    ServerErrors = {}
    ClientErrors = {}
    MaxCrashes = 0
SPECIFICATION SlowAnswerSpec
INVARIANTS
    KeepsListening
