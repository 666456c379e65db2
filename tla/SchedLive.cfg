SPECIFICATION FairSpec
CONSTANTS
    NPROC = 2
    Cpus = {c0}
    Cpu0 = c0
    NoCpu = NoCpu
    N = 1
PROPERTIES
    EveryoneRuns
    SleepEnds
