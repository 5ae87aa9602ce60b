CONSTANTS
    NPROC = 2
    CPUs = {c1, c2}
    None = None
SPECIFICATION FairSpec
PROPERTIES
    SleepersWake
    RunnableRuns
