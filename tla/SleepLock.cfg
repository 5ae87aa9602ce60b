CONSTANTS
    NPROC = 3
    CPUs = {c1, c2}
    None = None
SPECIFICATION Spec
SYMMETRY Symmetry
INVARIANTS
    TypeOK
    MutualExclusion
    NoLostWakeup
    OneCpuPerStack
    LocksNeverPanic
    IntenaFollowsThread
