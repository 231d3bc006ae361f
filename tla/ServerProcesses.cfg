SPECIFICATION Spec
CONSTANTS
    PollSetSize = 3
    DropList = {2, 3}
    Children = {A, B}
    MaxDescriptors = 6
    InheritedCounts = {0, 3}
    MaxRounds = 3
    MaxMessages = 3
    MaxTime = 1
INVARIANTS
    TypeOK
    ChildFindsItsPackets
    OverridesWin
    MixIsKept
SYMMETRY Symmetry
