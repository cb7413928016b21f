-------------------------- MODULE FrameAllocator --------------------------
(***************************************************************************)
(* The physical memory allocator of the kernel: BuddyFrameAllocator and    *)
(* the global PHYSICAL_MEMORY_POOL of                                      *)
(* src/x86/paging/page_alloc/frame_alloc.rs.                               *)
(*                                                                         *)
(* Addresses and sizes are integers in one unit, MinBlk of which make the  *)
(* smallest block (4096 bytes in the kernel).  Every operation runs with   *)
(* the lock of the pool held, so alloc is one action; dealloc is one       *)
(* action per level, since its loop may not end.                           *)
(*                                                                         *)
(* Operators named ..._bug are deliberately wrong variants of the          *)
(* definition that follows them.  Nothing uses them; substituted for it,   *)
(* each makes TLC refute one of the properties at the end.                 *)
(***************************************************************************)
EXTENDS Integers, Sequences, FiniteSets

CONSTANTS N,           \* number of free lists (18 in the kernel)
          MinBlk,      \* size of a block of level 0
          MemoryMap,   \* the E820 map: a sequence of [base, length, ram]
          KernelLoad,  \* KERNEL_LOAD_ADDR
          KernelSize,  \* KERNEL_SECTOR_SZ * 0x200
          Sizes        \* the sizes callers ask for

level_size(l) == MinBlk * 2^l

MaxBlk == level_size(N - 1)
Levels == 0 .. (N - 1)

ASSUME PoolAssumption ==
    /\ N \in Nat \ {0}
    /\ \E k \in 0 .. 12 : MinBlk = 2^k
    /\ KernelLoad \in Nat /\ KernelSize \in Nat \ {0}
    /\ \A i \in DOMAIN MemoryMap :
           /\ MemoryMap[i].base \in Nat /\ MemoryMap[i].length \in Nat
           /\ MemoryMap[i].ram \in BOOLEAN
    /\ Sizes \subseteq 1 .. (MaxBlk - 1)     \* asserted by allocation_level

\* the null pointer, which ends a free list and reports a failed allocation
Null == 0
NoBlock == [blk |-> Null, level |-> 0]

VARIABLES base,      \* base_addr of the pool, Null before init_phys_memory_pool
          free,      \* free_lists: for each level, the addresses from the head on
          allocs,    \* the FrameAllocations callers hold
          merging    \* full_block and level of the dealloc loop, or NoBlock

vars == <<base, free, allocs, merging>>

-----------------------------------------------------------------------------

\* the entry that the scan of the memory map keeps: the first of the longest
\* RAM areas, or the empty default descriptor
LargestRam ==
    LET ram(i) == MemoryMap[i].ram /\ MemoryMap[i].length > 0
        best   == {i \in DOMAIN MemoryMap :
                     /\ ram(i)
                     /\ \A j \in DOMAIN MemoryMap :
                           ram(j) => \/ MemoryMap[j].length < MemoryMap[i].length
                                     \/ /\ MemoryMap[j].length = MemoryMap[i].length
                                        /\ i <= j}
    IN  IF best = {} THEN [base |-> 0, length |-> 0, ram |-> TRUE]
        ELSE MemoryMap[CHOOSE i \in best : TRUE]

\* where the pool starts: after the kernel image if it is in that area
SegmentBase ==
    IF KernelLoad > LargestRam.base /\ KernelLoad < LargestRam.base + LargestRam.length
    THEN KernelLoad + KernelSize
    ELSE LargestRam.base

\* rounds the size down to a power of two
allocation_level_bug(size) ==
    CHOOSE l \in Levels : /\ size < level_size(l + 1)
                          /\ \A k \in 0 .. (l - 1) : level_size(k + 1) <= size

\* allocation_level: the smallest level whose blocks hold size (the code
\* rounds up to a power of two and takes the difference of two logarithms)
allocation_level(size) ==
    CHOOSE l \in Levels : /\ size <= level_size(l)
                          /\ \A k \in 0 .. (l - 1) : level_size(k) < size

\* shifts by one bit too many
buddy_bug(block, l) ==
    IF (block \div level_size(l + 1)) % 2 = 0 THEN block + level_size(l + 1)
                                              ELSE block - level_size(l + 1)

\* buddy: block XOR the bit whose value is the size of the level.  (For level
\* 0 the shift count level - 1 + log2 wraps in u8 to the same bit.)
buddy(block, l) ==
    IF (block \div level_size(l)) % 2 = 0 THEN block + level_size(l)
                                          ELSE block - level_size(l)

\* the two assertions at the head of buddy.  A failed assertion halts the
\* kernel: they are guards of the steps that call buddy (see BlocksInPool)
InBounds(block) == base <= block /\ block <= base + MaxBlk

\* free_blk: push on a list; pushing address 0 makes the list look empty
push(block, list) == IF block = Null THEN <<>> ELSE <<block>> \o list

\* forgets to empty the list of the last level
pop_bug(l) == IF l = N - 1 THEN free[l] ELSE Tail(free[l])

\* pop_blk_with_level: the last level holds one block at most
pop(l) == IF l = N - 1 THEN <<>> ELSE Tail(free[l])

\* the first level from the requested one on that has a free block
Available(size) == {l \in allocation_level(size) .. (N - 1) : free[l] # <<>>}

-----------------------------------------------------------------------------

Init == /\ base = Null
        /\ free = [l \in Levels |-> <<>>]
        /\ allocs = {}
        /\ merging = NoBlock

Unlocked == base # Null /\ merging = NoBlock

init_phys_memory_pool ==
    /\ base = Null
    /\ base' = SegmentBase
    /\ free' = [free EXCEPT ![N - 1] = push(SegmentBase, <<>>)]
    /\ UNCHANGED <<allocs, merging>>

\* alloc_page / pm_alloc: pop the first block that is large enough, and put
\* the other half of each split on the list of its level (split_blk)
alloc_page(size) ==
    /\ Unlocked
    /\ Available(size) # {}
    /\ LET req   == allocation_level(size)
           l     == CHOOSE x \in Available(size) : \A y \in Available(size) : x <= y
           block == Head(free[l])
       IN  /\ l > req => InBounds(block)
           /\ free' = [k \in Levels |->
                          IF req <= k /\ k < l THEN push(buddy(block, k), free[k])
                          ELSE IF k = l THEN pop(l) ELSE free[k]]
           /\ allocs' = allocs \cup {[start |-> block, length |-> size]}
    /\ UNCHANGED <<base, merging>>

\* ... or NoAvailableFrame; before init_phys_memory_pool too
alloc_page_fails(size) ==
    /\ merging = NoBlock
    /\ base = Null \/ Available(size) = {}
    /\ UNCHANGED vars

\* starts one level too high
free_page_bug(a) ==
    /\ Unlocked
    /\ a \in allocs
    /\ allocs' = allocs \ {a}
    /\ merging' = [blk |-> a.start, level |-> allocation_level(a.length) + 1]
    /\ UNCHANGED <<base, free>>

\* free_page / pm_free: enter dealloc at the level of the allocation
free_page(a) ==
    /\ Unlocked
    /\ a \in allocs
    /\ allocs' = allocs \ {a}
    /\ merging' = [blk |-> a.start, level |-> allocation_level(a.length)]
    /\ UNCHANGED <<base, free>>

\* an iteration of dealloc is about to look for the buddy of full_block
Merging == merging # NoBlock /\ InBounds(merging.blk)

\* does not look for a buddy to merge with
dealloc_insert_bug ==
    LET l == merging.level
    IN  /\ Merging
        /\ free' = [free EXCEPT ![l] = push(merging.blk, free[l])]
        /\ merging' = NoBlock
        /\ UNCHANGED <<base, allocs>>

\* dealloc, an iteration that puts the block on the list of its level: it has
\* no buddy, or remove_blk finds that list empty
dealloc_insert ==
    LET l == merging.level
    IN  /\ Merging
        /\ l = N - 1 \/ free[l] = <<>>
        /\ free' = [free EXCEPT ![l] = push(merging.blk, free[l])]
        /\ merging' = NoBlock
        /\ UNCHANGED <<base, allocs>>

\* keeps the block even if its buddy is the lower half
dealloc_merge_bug ==
    LET l == merging.level
    IN  /\ Merging
        /\ l # N - 1 /\ free[l] # <<>> /\ Head(free[l]) = buddy(merging.blk, l)
        /\ free' = [free EXCEPT ![l] = Tail(free[l])]
        /\ merging' = [merging EXCEPT !.level = l + 1]
        /\ UNCHANGED <<base, allocs>>

\* dealloc, an iteration that merges: remove_blk takes the buddy off the list
\* (it reads the next pointer at the physical address, which is the memory
\* that free_blk wrote as long as physical memory is identity mapped)
dealloc_merge ==
    LET l == merging.level
        b == buddy(merging.blk, l)
    IN  /\ Merging
        /\ l # N - 1 /\ free[l] # <<>> /\ Head(free[l]) = b
        /\ free' = [free EXCEPT ![l] = Tail(free[l])]
        /\ merging' = [blk   |-> IF b < merging.blk THEN b ELSE merging.blk,
                       level |-> l + 1]
        /\ UNCHANGED <<base, allocs>>

\* dealloc, an iteration of the loop of remove_blk that compares the head of
\* the list once more: curr_blk moves on, but curr_blk_ptr is not read again
dealloc_spin ==
    LET l == merging.level
    IN  /\ Merging
        /\ l # N - 1 /\ free[l] # <<>> /\ Head(free[l]) # buddy(merging.blk, l)
        /\ UNCHANGED vars

Next == \/ init_phys_memory_pool
        \/ \E size \in Sizes : alloc_page(size) \/ alloc_page_fails(size)
        \/ \E a \in allocs : free_page(a)
        \/ dealloc_insert \/ dealloc_merge \/ dealloc_spin

Spec == Init /\ [][Next]_vars

\* the thread in dealloc holds the lock of the pool and keeps running
FairSpec == Spec /\ WF_vars(dealloc_insert \/ dealloc_merge)

-----------------------------------------------------------------------------

Span(block, l) == block .. (block + level_size(l) - 1)

\* the places that hold a block: a free list (by level and index), a caller
\* (by its allocation), the dealloc loop
Places == {[kind |-> "free", blk |-> free[l][i], level |-> l, id |-> i] :
              <<l, i>> \in UNION {{k} \X (1 .. Len(free[k])) : k \in Levels}}
     \cup {[kind |-> "owned", blk |-> a.start, level |-> allocation_level(a.length),
            id |-> a.length] : a \in allocs}
     \cup {[kind |-> "merging", blk |-> merging.blk, level |-> merging.level, id |-> 0] :
              x \in {1} \cap (IF merging = NoBlock THEN {} ELSE {1})}

\* The types of the pool, its free lists and what callers hold: no list and
\* no caller ever has the null address.
TypeOK ==
    /\ base \in {Null, SegmentBase}
    /\ free \in [Levels -> Seq(Nat \ {Null})]
    /\ \A a \in allocs : a.start \in Nat \ {Null} /\ a.length \in Sizes
    /\ merging.blk \in Nat /\ merging.level \in Levels

\* No two blocks that the allocator hands out, keeps on a free list or is
\* merging share memory: the splits of alloc and the merges of dealloc cut
\* and join along the same lines, whatever the order of the calls.
NoOverlap ==
    \A p \in Places, q \in Places :
        p # q => Span(p.blk, p.level) \cap Span(q.blk, q.level) = {}

\* Every block lies in the pool, so that the assertions of buddy never fail
\* and no frame outside the area found in the memory map is handed out.
BlocksInPool ==
    \A p \in Places : Span(p.blk, p.level) \subseteq base .. (base + MaxBlk - 1)

\* Nothing is lost: once the pool exists, every address of it is in some
\* block, through any sequence of splits, merges and failed allocations.
NoLeak ==
    base # Null =>
        base .. (base + MaxBlk - 1) \subseteq UNION {Span(p.blk, p.level) : p \in Places}

\* dealloc leaves no two free buddies unmerged: a request fails only for
\* fragmentation caused by blocks that callers still hold.
Coalesced ==
    Unlocked => \A l \in 0 .. (N - 2), i \in 1 .. MaxBlk, j \in 1 .. MaxBlk :
                   (i <= Len(free[l]) /\ j <= Len(free[l])) => free[l][j] # buddy(free[l][i], l)

\* The allocator implements the promise of the FrameAllocator trait.
Pool == INSTANCE FramePool WITH Frames <- SegmentBase .. (SegmentBase + MaxBlk - 1),
                                owned  <- allocs
ImplementsFramePool == Pool!Spec

\* The image of the kernel is never managed memory: init_phys_memory_pool
\* looks for it in the largest area to start the pool after it.
KernelImageKept ==
    base # Null => \A p \in Places :
        Span(p.blk, p.level) \cap (KernelLoad .. (KernelLoad + KernelSize - 1)) = {}

\* deallocate gives the frame back and returns: the loop of remove_blk ends.
DeallocReturns == merging # NoBlock ~> merging = NoBlock

=============================================================================
