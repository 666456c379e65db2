SPECIFICATION Spec
CONSTANTS
    NPROC = 3
    MAXPID = 3
    KillPids = {0}
INVARIANT
    KilledByItsPid
