SPECIFICATION FairSpec
CONSTANTS
    Procs = {p1, p2, p3}
    Blocks = {b1}
    DataBlocks = {b1}
    Val = {zero, v1}
    Zero = zero
    NoVal = NoVal
    NoBlock = NoBlock
    MAXOPBLOCKS = 1
    LOGSIZE = 3
    NLOG = 3
INVARIANT SleeperHasWaker
PROPERTIES
    CommitEnds
    SleeperWakes
