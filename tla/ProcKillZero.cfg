CONSTANTS
    Slots = {s1, s2}
    initproc = s1
    None = None
    MaxPid = 2
    Victims = {0}
    Faulty = {}
    Masks = {}
SPECIFICATION Spec
INVARIANT KilledOnRequest
