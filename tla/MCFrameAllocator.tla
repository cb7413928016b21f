------------------------- MODULE MCFrameAllocator -------------------------
(***************************************************************************)
(* Instances of FrameAllocator: a pool aligned on its size, and the        *)
(* memory map of a PC whose largest area holds the kernel image.           *)
(***************************************************************************)
EXTENDS FrameAllocator

\* the largest RAM area starts on a multiple of the size of the pool, as the
\* memory above 4 GB does; a longer area is not RAM
MCAlignedMap == <<[base |-> 1,  length |-> 8,  ram |-> TRUE],
                  [base |-> 9,  length |-> 40, ram |-> FALSE],
                  [base |-> 64, length |-> 16, ram |-> TRUE]>>

\* in MB: the RAM above 1 MB, with the kernel at 8 MB
MCKernelMap == <<[base |-> 1, length |-> 1023, ram |-> TRUE]>>
=============================================================================
