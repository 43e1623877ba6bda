SPECIFICATION MixSpec
CONSTANTS
    p1 = p1
    p2 = p2
    q1 = q1
    q2 = q2
    a = a
    b = b
    Mixes = {"race"}
    NINODES = 3
    NINODE = 10
    Name = {"a", "b"}
    DirFull = {FALSE, TRUE}
    None = None
    MaxCrash = 0
    Proc <- TwoProcs
    initproc = q1
    NFILE = 3
    NOFILE = 2
    NPIPE = 1
    Path <- TwoPaths
    Mask = {{"open"}}
VIEW LiveState
SYMMETRY Symmetry
INVARIANT LinkCounts
