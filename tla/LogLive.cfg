SPECIFICATION FairSpec
CONSTANTS
    Procs = {p1, p2, p3}
    Blocks = {b1, b2}
    Data = {d0}
    InitData = d0
    NotCached = NotCached
    None = None
    MAXOPBLOCKS = 2
    LOGSIZE = 4
    LogBlocks = 4
    OpBlocks = 1
PROPERTIES WaitersWake CommitEnds
