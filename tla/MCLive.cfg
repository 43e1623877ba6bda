SPECIFICATION LiveSpec
CONSTANTS
    p1 = p1
    p2 = p2
    b1 = b1
    b2 = b2
    Proc <- TwoProcs
    Block <- TwoBlocks
    Val = {0}
    NoBuf = NoBuf
    NoProc = NoProc
    MAXOPBLOCKS = 1
    LOGBLOCKS = 2
    OpBlocks = 1
    OpCalls = 1
    MaxCrash = 1
    None = None
    Sector = {0}
    NUM = 4
    UINT16 = 8
PROPERTIES SleepersWoken CommitEnds DiskRequestsFinish
INVARIANT NoPanic
