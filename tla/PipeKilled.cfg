SPECIFICATION Spec
CONSTANTS
    Writers = {w1, w2}
    Readers = {r1}
    Killable = {w1}
    Byte = {0}
    PIPESIZE = 2
    WRAP = 4
    MAXN = 2
    None = None
INVARIANT
    ReaderSleepsOnEmpty
