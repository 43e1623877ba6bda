SPECIFICATION MCSpec
CONSTANTS
    p1 = p1
    p2 = p2
    c1 = c1
    c2 = c2
    None = None
    Proc <- TwoProcs
    CPU <- TwoCpus
    Reader = {p1}
    Writer = {p2}
    Char = {"a", "D", "U", "H", "P"}
    INPUT_BUF_SIZE = 2
    UINT = 4
    MaxRead = 2
    MaxWrite = 1
INVARIANTS InputKept SleepersWoken LocksNest
VIEW LiveConsole
SYMMETRY Symmetry
