SPECIFICATION MCSpec
CONSTANTS
    NPROC = 2
    Cpus = {c0, c1}
    Cpu0 = c0
    NoCpu = NoCpu
    N = 2
    Crowd = {p1, p2, p3}
    Blocks = {b1, b2, b3}
    NoBlock = NoBlock
SYMMETRY Symmetry
INVARIANTS
    NoPanic
    OneStack
    NobodySleepsForEver
    InterruptsFollowThread
