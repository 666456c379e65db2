SPECIFICATION Spec
CONSTANTS
    Procs = {p1, p2}
    Blocks = {b1, b2}
    DataBlocks = {b1}
    Val = {zero, v1}
    Zero = zero
    NoVal = NoVal
    NoBlock = NoBlock
    MAXOPBLOCKS = 2
    LOGSIZE = 6
    NLOG = 6
SYMMETRY Symmetry
INVARIANTS
    LogInv
    NoPanic
PROPERTY ImplementsAtomicStore
