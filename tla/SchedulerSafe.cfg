SPECIFICATION Spec
CONSTANTS
    MaxTasks = 3
    MaxProcs = 2
    MaxQueue = 3
    Ops = {"process", "main_thread", "thread", "schedule", "switch"}
    ThreadFlags = {FALSE, TRUE}
    ProcessFlags = {FALSE, TRUE}
INVARIANTS
    TypeOK
    RunningIsCurrent
    NothingDangling
    
