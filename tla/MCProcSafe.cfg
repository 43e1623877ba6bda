SPECIFICATION Spec
CONSTANTS
    c1 = c1
    c2 = c2
    NPROC = 3
    CPU <- TwoCpus
    MaxPid = 5
    KillPid <- OtherPids
INVARIANTS IInv OneStack NoLostExit NoOrphan
SYMMETRY Symmetry
