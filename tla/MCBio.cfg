SPECIFICATION Spec
CONSTANTS
    p1 = p1
    p2 = p2
    p3 = p3
    k1 = k1
    k2 = k2
    k3 = k3
    Proc <- ThreeProcs
    Block <- ThreeBlocks
    Val = {0, 1}
    NBUF = 2
    None = None
    MaxPin = 1
INVARIANT IInv
PROPERTIES BuffersSuffice CacheTransparent
SYMMETRY Symmetry
CHECK_DEADLOCK FALSE
