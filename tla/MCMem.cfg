SPECIFICATION Spec
CONSTANTS
    p0 = p0
    p1 = p1
    p2 = p2
    Proc <- ThreeProcs
    initproc = p0
    NPAGE = 13
    PGSIZE = 2
    FANOUT = 2
    MaxSz = 14
    USERSTACK = 1
    Segment = {2}
    Step = {7}
SYMMETRY Symmetry
INVARIANT NoVmPanic
