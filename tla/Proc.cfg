CONSTANTS
    Slots = {s1, s2, s3, s4}
    initproc = s1
    None = None
    MaxPid = 4
    Victims = {3, 4}
    Faulty = {1, 3}
    Masks = {1}
SPECIFICATION Spec
SYMMETRY Symmetry
INVARIANTS
    TypeOK
    ParentAlive
    SleepingParentHasWork
    FreedSlotsHaveNoThread
    ForkOwnsSlot
    KilledOnRequest
