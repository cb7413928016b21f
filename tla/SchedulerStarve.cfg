SPECIFICATION FairSpec
CONSTANTS
    MaxTasks = 2
    MaxProcs = 1
    MaxQueue = 3
    Ops = {"main_thread", "schedule"}
    ThreadFlags = {FALSE}
    ProcessFlags = {FALSE}
PROPERTIES
    SkippedForNow
