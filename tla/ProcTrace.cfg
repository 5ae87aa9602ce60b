CONSTANTS
    Slots = {s1, s2}
    initproc = s1
    None = None
    MaxPid = 2
    Victims = {}
    Faulty = {}
    Masks = {1}
SPECIFICATION Spec
INVARIANT ChildInheritsMask
