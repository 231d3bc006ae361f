\* A network that loses, damages, repeats and exchanges packets; five chunks
\* reuse the three slots.
CONSTANTS
    NoData = NoData
    Uninit = Uninit
    WindowSize = 3
    BufferSize = 3
    NumChunks = 5
    MaxAttempts = 2
    QueueCap = 4
    MaxFaults = 2
    ServerErrors = {"drop", "flip"}
    ClientErrors = {"drop", "flip"}
    NetFaults = {"duplicate", "reorder"}
SPECIFICATION Spec
INVARIANTS
    TypeOK
    AckedWasReceived
    NoEarlyExit
    KeptForRcopy
