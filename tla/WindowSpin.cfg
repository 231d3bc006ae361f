\* A perfect network, and an initial window of BufferSize beyond what an RR opens.
CONSTANTS
    NoData = NoData
    Uninit = Uninit
    WindowSize = 2
    BufferSize = 4
    NumChunks = 4
    MaxAttempts = 2
    QueueCap = 8
    MaxFaults = 0
    ServerErrors = {}
    ClientErrors = {}
    NetFaults = {}
SPECIFICATION FairSpec
PROPERTIES
    AcksAreRead
