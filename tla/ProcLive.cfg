CONSTANTS
    Slots = {s1, s2, s3, s4}
    initproc = s1
    None = None
    MaxPid = 4
    Victims = {}
    Faulty = {2}
    Masks = {}
SPECIFICATION FairSpec
PROPERTY OrphansReaped
