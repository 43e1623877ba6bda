SPECIFICATION Spec
CONSTANTS
    p1 = p1
    p2 = p2
    b1 = b1
    b2 = b2
    Proc <- TwoProcs
    Block <- TwoBlocks
    Val = {0, 1}
    NoBuf = NoBuf
    NoProc = NoProc
    MAXOPBLOCKS = 2
    LOGBLOCKS = 4
    OpBlocks = 2
    OpCalls = 3
    MaxCrash = 2
INVARIANT IInv
PROPERTY CrashAtomic
SYMMETRY Symmetry
