SPECIFICATION Spec
CONSTANTS
    MaxTasks = 3
    MaxProcs = 1
    MaxQueue = 3
    Ops = {"thread"}
    ThreadFlags = {FALSE}
    ProcessFlags = {FALSE}
INVARIANTS
    TimerNeverWaits
