SPECIFICATION Spec
CONSTANTS
    N = 4
    MinBlk = 2
    MemoryMap <- MCAlignedMap
    KernelLoad = 4
    KernelSize = 2
    Sizes = {1, 3, 6, 9}
INVARIANTS
    TypeOK
    NoOverlap
    
    NoLeak
    
PROPERTIES
    ImplementsFramePool
