CONSTANTS
    Readers = {r1}
    Writers = {w1}
    None = None
    Bytes = {0}
    PIPESIZE = 2
    WRAP = 4
    Lengths = {2}
SPECIFICATION Spec
INVARIANT ReaderNeverSleepsOnData
