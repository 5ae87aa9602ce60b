CONSTANTS
    Readers = {r1}
    Writers = {w1, w2}
    None = None
    Bytes = {0}
    PIPESIZE = 2
    WRAP = 4
    Lengths = {3}
SPECIFICATION FairSpec
PROPERTY CloseEndsCalls
