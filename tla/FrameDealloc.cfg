SPECIFICATION FairSpec
CONSTANTS
    N = 4
    MinBlk = 2
    MemoryMap <- MCAlignedMap
    KernelLoad = 4
    KernelSize = 2
    Sizes = {1}
PROPERTIES
    DeallocReturns
