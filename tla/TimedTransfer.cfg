\* The child's ten times one second and rcopy's once ten, as four and four; more
\* packets lost or damaged than the child has attempts.
CONSTANTS
    NoData = NoData
    Uninit = Uninit
    WindowSize = 3
    BufferSize = 3
    NumChunks = 5
    MaxAttempts = 4
    QueueCap = 8
    MaxFaults = 5
    ServerErrors = {"drop", "flip"}
    ClientErrors = {"drop"}
    NetFaults = {}
    Second = 2
    ClientSeconds = 4
    MaxLag = 1
SPECIFICATION TimedSpec
INVARIANTS
    ChildLeavesInTime
PROPERTIES
    CompleteAfterOneFault
    GivesUpAfterChild
    GivesUpOnlyInGap
    LossCostsASecond
