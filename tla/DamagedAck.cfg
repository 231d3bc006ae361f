\* Acknowledgments with a byte changed.
CONSTANTS
    NoData = NoData
    Uninit = Uninit
    WindowSize = 2
    BufferSize = 2
    NumChunks = 3
    MaxAttempts = 3
    QueueCap = 8
    MaxFaults = 3
    ServerErrors = {}
    ClientErrors = {"flip"}
    NetFaults = {}
SPECIFICATION Spec
INVARIANTS
    Integrity
