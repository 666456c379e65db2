SPECIFICATION Spec
CONSTANTS
    Procs = {p1, p2}
    Blocks = {b1, b2, b3}
    Val = {0, 1}
    Zero = 0
    NBUF = 2
    NUM = 6
    WRAP = 6
    NoBlock = NoBlock
SYMMETRY Symmetry
INVARIANTS
    CacheCoherent
    SleeperHasInterrupt
