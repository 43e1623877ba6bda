SPECIFICATION MixSpec
CONSTANTS
    p0 = p0
    p1 = p1
    p2 = p2
    f1 = f1
    f2 = f2
    Proc <- TwoProcs
    File <- TwoFiles
    NBLOCK = 4
    BPB = 1
    BSIZE = 2
    NDIRECT = 1
    MAXOPBLOCKS = 6
    Count = {3}
    None = None
    FSSIZE = 14
    nmeta = 2
    MaxFiles = 3
    DIRENT = 1
    MKFS_BPB = 16
    FileSizes = {0, 1, 2, 3, 5, 6, 7}
    NPAGE = 16
    PGSIZE = 2
    FANOUT = 2
    MaxSz = 8
    USERSTACK = 1
    Segment = {2}
    Step = {3}
    NPROC = 8
    SH_NPIPE = 2
    NOFILE = 6
    MaxTyped = 2
    Token = {"a", "(", ")", "|", "&", ";", ">"}
    MAXARGS = 3
    MaxLine = 5
    HEAP = 11
    MORE = 4
    Units = {2, 3, 5}
INVARIANTS DiskOwned DiskReads ChunksFit ImageSound PagesOwned TableMatchesSize
INVARIANTS HeapSound EOFComes PromptClean LineParsed
VIEW LiveState
SYMMETRY Symmetry
