\* A first window twice as long as the ring, two packets lost or damaged.
CONSTANTS
    NoData = NoData
    Uninit = Uninit
    WindowSize = 3
    BufferSize = 6
    NumChunks = 5
    MaxAttempts = 2
    QueueCap = 7
    MaxFaults = 2
    ServerErrors = {"drop", "flip"}
    ClientErrors = {"drop"}
    NetFaults = {}
SPECIFICATION PacedSpec
INVARIANTS
    PacedInv
    PacedIntegrity
    PacedWindow
