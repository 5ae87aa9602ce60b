SPECIFICATION Spec
CONSTANTS
    Procs = {p1, p2}
    Blocks = {b1, b2, b3, b4}
    Data = {d0}
    InitData = d0
    NotCached = NotCached
    None = None
    MAXOPBLOCKS = 2
    LOGSIZE = 4
    LogBlocks = 4
    OpBlocks = 2
INVARIANT LogNeverPanics
