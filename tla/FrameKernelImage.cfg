SPECIFICATION Spec
CONSTANTS
    N = 8
    MinBlk = 4
    MemoryMap <- MCKernelMap
    KernelLoad = 8
    KernelSize = 4
    Sizes = {1}
INVARIANTS
    KernelImageKept
