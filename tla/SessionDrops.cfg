\* Time-outs only when nothing is coming; as many packets lost as the window is
\* long, requests, answers or chunks; two kills or failed calls.
CONSTANTS
    NoData = NoData
    Uninit = Uninit
    WindowSize = 3
    BufferSize = 3
    NumChunks = 5
    MaxAttempts = 3
    MaxRequests = 3
    MaxChildren = 2
    QueueCap = 8
    MaxFaults = 3
    ServerErrors = {"drop"}
    ClientErrors = {"drop"}
    MaxCrashes = 2
SPECIFICATION PromptSpec
INVARIANTS
    TypeOK
    AnswerIsTrue
    SessionIntegrity
    OneChild
    ServedAfterOneLoss
    KeepsListening
    GivesUpForTheDead
PROPERTIES
    SessionEnds
