CONSTANTS
    Procs = {p, q}
    NINODES = 3
    Names = {"a", "x"}
    DIRENTS = 3
    MaxNlink = 2
    Calls <- FileCalls
SPECIFICATION Spec
INVARIANT LastPutFrees
