SPECIFICATION Spec
CONSTANTS
    MaxTasks = 3
    MaxProcs = 1
    MaxQueue = 3
    Ops = {"thread", "schedule"}
    ThreadFlags = {FALSE}
    ProcessFlags = {FALSE}
INVARIANTS
    InitOnce
