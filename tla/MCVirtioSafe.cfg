SPECIFICATION Spec
CONSTANTS
    p1 = p1
    p2 = p2
    p3 = p3
    k1 = k1
    Proc <- ThreeProcs
    Block <- OneBlock
    Val = {0, 1}
    None = None
    NUM = 8
    UINT16 = 16
INVARIANTS DescriptorsAccounted CompletionPending
PROPERTY TransferOnce
VIEW LiveState
SYMMETRY Symmetry
