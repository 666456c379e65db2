SPECIFICATION FairSpec
CONSTANTS
    NPROC = 3
    MAXPID = 4
    KillPids = {2, 3}
INVARIANTS
    ProcessTree
    FreedOffStack
    NoMissedExit
PROPERTIES
    OrphanReaped
    KilledSleeperExits
