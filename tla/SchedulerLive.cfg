SPECIFICATION FairSpec
CONSTANTS
    MaxTasks = 3
    MaxProcs = 1
    MaxQueue = 3
    Ops = {"main_thread", "thread", "schedule"}
    ThreadFlags = {FALSE}
    ProcessFlags = {FALSE}
PROPERTIES
    ScheduledRuns
    CallsReturn
