SPECIFICATION FairSpec
CONSTANTS
    Threads = {t1, t2}
    Configurations <- Machines
    MaxLba = 2
    Requests <- Calls
    MaxCalls = 2
    Chunk = 1
INVARIANTS
    TypeOK
    
    AloneRight

    
    
