SPECIFICATION Spec
CONSTANTS
    Writers = {w1, w2}
    Readers = {r1, r2}
    Killable = {r1, r2}
    Byte = {b1, b2}
    PIPESIZE = 2
    WRAP = 4
    MAXN = 2
    None = None
SYMMETRY Symmetry
INVARIANTS
    ReaderSleepsOnEmpty
    WriterSleepsOnFull
    ZeroIsEndOfFile
    FreedIsUnused
PROPERTIES
    ImplementsFifo
