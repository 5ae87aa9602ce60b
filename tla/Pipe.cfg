CONSTANTS
    Readers = {r1, r2}
    Writers = {w1, w2}
    None = None
    Bytes = {0, 1}
    PIPESIZE = 2
    WRAP = 4
    Lengths = {0, 3}
SPECIFICATION Spec
SYMMETRY Symmetry
INVARIANTS
    TypeOK
    WriterSleepsOnFull
    ReaderSleepsOnEmpty
    NoMutualWait
PROPERTY IsFifo
