----------------------------- MODULE FramePool -----------------------------
(***************************************************************************)
(* What the physical memory allocator promises its callers, with no free   *)
(* list in it: an allocation hands out an area of the pool that nobody     *)
(* owns, and giving an area back makes it available again.  The promise    *)
(* is that of the FrameAllocator trait of                                  *)
(* src/x86/paging/page_alloc/frame_alloc.rs.                               *)
(***************************************************************************)
EXTENDS Integers

CONSTANTS Frames,   \* the addresses that the pool manages
          Sizes     \* the sizes callers ask for

VARIABLE owned      \* the FrameAllocations that callers hold

Area(a) == a.start .. (a.start + a.length - 1)

Init == owned = {}

\* FrameAllocator::allocate, successful.  (A failed one changes nothing.)
Allocate(size) ==
    \E start \in Frames :
        LET a == [start |-> start, length |-> size]
        IN  /\ Area(a) \subseteq Frames
            /\ \A b \in owned : Area(a) \cap Area(b) = {} /\ a # b
            /\ owned' = owned \cup {a}

\* FrameAllocator::deallocate
Deallocate(a) == owned' = owned \ {a}

Next == \/ \E size \in Sizes : Allocate(size)
        \/ \E a \in owned : Deallocate(a)

Spec == Init /\ [][Next]_owned
=============================================================================
