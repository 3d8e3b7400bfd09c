---------------------------- MODULE PageAllocator ----------------------------
(***************************************************************************)
(* What a kernel heap promises its callers: kmalloc returns the start of a *)
(* run of pages nobody else holds, or NULL and only when no run of that    *)
(* length is left; kfree returns exactly the pages of the allocation.      *)
(***************************************************************************)
EXTENDS Integers

CONSTANTS Page,    \* page numbers of the heap, an interval of integers
          Sizes,   \* sizes in pages that are asked for
          Initial  \* allocations that exist from the start

VARIABLES allocated,  \* the live allocations, [start, size]
          returned    \* what the last kmalloc returned; 0 is NULL

Pages(a, n) == a..a + n - 1

Unused(a, n) == /\ Pages(a, n) \subseteq Page
                /\ \A b \in allocated : Pages(a, n) \cap Pages(b.start, b.size) = {}

Allocate(n) ==
  \/ \E a \in Page : /\ Unused(a, n)
                     /\ returned' = a
                     /\ allocated' = allocated \cup {[start |-> a, size |-> n]}
  \/ /\ \A a \in Page : ~Unused(a, n)
     /\ returned' = 0
     /\ UNCHANGED allocated

Release(b) == allocated' = allocated \ {b} /\ UNCHANGED returned

Init == allocated = Initial /\ returned = 0

Next == \/ \E n \in Sizes : Allocate(n)
        \/ \E b \in allocated \ Initial : Release(b)

Spec == Init /\ [][Next]_<<allocated, returned>>
=============================================================================
