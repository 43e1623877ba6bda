SPECIFICATION Spec
CONSTANTS
    r1 = r1
    r2 = r2
    w1 = w1
    w2 = w2
    None = None
    Reader <- TwoReaders
    Writer <- TwoWriters
    Byte = {0, 1}
    PIPESIZE = 2
    UINT = 4
    Count = {2}
    Killable <- Everyone
INVARIANT NoLostWakeup
PROPERTY PipeFifo
SYMMETRY Symmetry
CHECK_DEADLOCK FALSE
