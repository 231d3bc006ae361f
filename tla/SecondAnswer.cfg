\* The answer to the first request is damaged.
CONSTANTS
    NoData = NoData
    Uninit = Uninit
    WindowSize = 2
    BufferSize = 2
    NumChunks = 3
    MaxAttempts = 3
    MaxRequests = 3
    MaxChildren = 2
    QueueCap = 8
    MaxFaults = 1
    ServerErrors = {"flip"}
    ClientErrors = {}
    MaxCrashes = 0
SPECIFICATION PromptSpec
INVARIANTS
    SessionIntegrity
