SPECIFICATION FairSpec
CONSTANTS
    c1 = c1
    c2 = c2
    NPROC = 3
    CPU <- TwoCpus
    MaxPid = 3
    KillPid = {}
PROPERTY InitReaps
