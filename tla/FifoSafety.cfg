\* The sheltered setting: two rounds of both rings, three packets lost or damaged.
CONSTANTS
    NoData = NoData
    Uninit = Uninit
    WindowSize = 3
    BufferSize = 3
    NumChunks = 5
    MaxAttempts = 2
    QueueCap = 7
    MaxFaults = 3
    ServerErrors = {"drop", "flip"}
    ClientErrors = {"drop"}
    NetFaults = {}
SPECIFICATION FairSpec
INVARIANTS
    ShelteredInv
    Integrity
    CompleteOnExit
    RetainedForResend
    NeverOverrun
    BufferedIsAhead
PROPERTIES
    WindowMovesForward
    ImplementsFileCopy
    Termination
    AcksAreRead
