SPECIFICATION Spec
CONSTANTS
    Procs = {p1, p2}
    Blocks = {b1, b2, b3}
    DataBlocks = {}
    Val = {zero, v1}
    Zero = zero
    NoVal = NoVal
    NoBlock = NoBlock
    MAXOPBLOCKS = 1
    LOGSIZE = 3
    NLOG = 3
SYMMETRY Symmetry
INVARIANT ReservationSuffices
