----------------------------- MODULE KHeapProofs -----------------------------
(***************************************************************************)
(* The kernel heap keeps its allocations apart and does what it promises,  *)
(* and its frames apart from each other, for every size of the heap, every *)
(* number of frames and every set of request sizes, as long as nobody      *)
(* switches between the strategies that keep the free list and the one     *)
(* that does not.                                                          *)
(***************************************************************************)
EXTENDS KHeapFrames, ListProofs, FiniteSetTheorems

\* No command changes between a strategy that keeps the free list and another.
KeptApart == \A R \in Regimes : R \subseteq {"FIRSTFIT", "NEXTFIT"}
                                \/ R \cap {"FIRSTFIT", "NEXTFIT"} = {}

HeapBlock == Inside(KERNEL_HEAP_START, KERNEL_HEAP_MAX)

\* The two arrays of the boot stay allocated, so the taken list is never empty.
ArraysStay == \E i \in 1..Len(taken_list) : taken_list[i].start < FirstAddress

\* Under the fit strategies a page is in the free list or taken, never both.
FitOK == Fitting /\ ~crashed => /\ Spread(free_list)
                                /\ Held(free_list) = Page \ Held(taken_list)

\* Under the others everything taken lies below the address that only grows.
BumpOK == ~Fitting => /\ FirstAddress <= last_va_in_kheap
                      /\ \A i \in 1..Len(taken_list) : End(taken_list[i]) <= last_va_in_kheap

\* The inductive invariant of the heap.
HeapInv == /\ free_list \in Seq(HeapBlock) /\ taken_list \in Seq(HeapBlock)
           /\ last_va_in_kheap \in Address
           /\ strategy \in Strategies
           /\ returned \in {0} \cup Page
           /\ crashed \in BOOLEAN
           /\ ArraysStay
           /\ Disjoint(taken_list)
           /\ mapped = Held(taken_list)
           /\ FitOK /\ BumpOK

\* The bounds of the heap are numbers.
LEMMA HeapBounds ==
  /\ KERNEL_HEAP_START \in Nat \ {0} /\ KERNEL_HEAP_MAX \in Nat /\ ArrayPages \in Nat \ {0}
  /\ FirstAddress \in Nat /\ FirstAddress < KERNEL_HEAP_MAX
  /\ FirstAddress = KERNEL_HEAP_START + ArrayPages + ArrayPages
BY KHeapAssumption DEF FirstAddress

\* Initially the two arrays are taken and all pages above them are free.
LEMMA HeapInitial == Init => HeapInv
<1> SUFFICES ASSUME Init PROVE HeapInv
  OBVIOUS
<1> DEFINE s == KERNEL_HEAP_START
           e == KERNEL_HEAP_MAX
           A == ArrayPages
           f == [start |-> FirstAddress, size |-> e - FirstAddress]
           b == [start |-> s + A, size |-> A]
           c == [start |-> s, size |-> A]
<1>1. /\ s \in Nat \ {0} /\ e \in Nat /\ A \in Nat \ {0} /\ s + A + A < e
      /\ FirstAddress \in Nat /\ FirstAddress = s + A + A
  BY HeapBounds
<1>2. f \in HeapBlock /\ b \in HeapBlock /\ c \in HeapBlock
  <2> HIDE DEF s, e, A
  <2>1. QED
    BY <1>1, BlockIs DEF HeapBlock, s, e
<1>3. /\ b.start = s + A /\ b.size = A /\ c.start = s /\ c.size = A
      /\ f.start = s + A + A /\ f.size = e - (s + A + A)
  BY <1>1
<1>4. free_list = <<f>> /\ taken_list = <<b, c>>
  BY DEF Init, BootBlocks
<1> HIDE DEF s, e, A, f, b, c
<1>5. /\ free_list \in Seq(HeapBlock) /\ taken_list \in Seq(HeapBlock)
      /\ Len(free_list) = 1 /\ Len(taken_list) = 2
      /\ free_list[1] = f /\ taken_list[1] = b /\ taken_list[2] = c
  BY <1>2, <1>4
<1>6. ArraysStay
  BY <1>1, <1>3, <1>5 DEF ArraysStay
<1>7. Disjoint(taken_list)
  <2>1. Pages(s + A, A) \cap Pages(s, A) = {}
    BY <1>1 DEF Pages
  <2>2. QED
    BY <1>3, <1>5, <2>1 DEF Disjoint
<1>8. \A p : p \in Held(taken_list) <=> p \in s..s + A + A - 1
  <2>1. \A p : p \in Held(taken_list) <=>
                 p \in Int /\ \E i \in 1..Len(taken_list) :
                   taken_list[i].start <= p /\ p < taken_list[i].start + taken_list[i].size
    BY <1>1, <1>5, HeldPages DEF HeapBlock, s, e
  <2>2. \A p : p \in Held(taken_list) <=>
                 p \in Int /\ \/ s + A <= p /\ p < s + A + A
                              \/ s <= p /\ p < s + A
    BY <1>3, <1>5, <2>1
  <2>3. \A p \in Int : p \in s..s + A + A - 1 <=> \/ s + A <= p /\ p < s + A + A
                                                  \/ s <= p /\ p < s + A
    BY <1>1
  <2>4. s..s + A + A - 1 \subseteq Int
    BY <1>1
  <2>5. QED
    BY <2>2, <2>3, <2>4
<1>9. mapped = Held(taken_list)
  <2>1. mapped = s..s + A + A - 1
    BY <1>1 DEF Init, s
  <2>2. QED
    BY <1>8, <2>1
<1>10. FitOK
  <2>1. Spread(free_list)
    BY <1>5 DEF Spread
  <2>2. \A p : p \in Held(free_list) <=> p \in s + A + A..e - 1
    <3>1. \A p : p \in Held(free_list) <=>
                   p \in Int /\ \E i \in 1..Len(free_list) :
                     free_list[i].start <= p /\ p < free_list[i].start + free_list[i].size
      BY <1>1, <1>5, HeldPages DEF HeapBlock, s, e
    <3>2. \A p : p \in Held(free_list) <=>
                   p \in Int /\ s + A + A <= p /\ p < s + A + A + (e - (s + A + A))
      BY <1>3, <1>5, <3>1
    <3>3. QED
      BY <1>1, <3>2
  <2>3. Held(free_list) = Page \ Held(taken_list)
    BY <1>1, <1>8, <2>2 DEF Page, s, e
  <2>4. QED
    BY <2>1, <2>3 DEF FitOK
<1>11. BumpOK
  BY <1>1, <1>3, <1>5 DEF BumpOK, Init, End
<1>12. /\ last_va_in_kheap \in Address /\ strategy \in Strategies
       /\ returned \in {0} \cup Page /\ crashed \in BOOLEAN
  <2>1. FirstAddress \in 0..e
    BY <1>1
  <2>2. QED
    BY <2>1 DEF Init, Address, e
<1>13. QED
  BY <1>5, <1>6, <1>7, <1>9, <1>10, <1>11, <1>12 DEF HeapInv

\* A new allocation of pages that nobody holds keeps the taken list right.
LEMMA TakenGrows ==
  ASSUME HeapInv, NEW b \in HeapBlock, NEW k \in 1..Len(taken_list) + 1,
         Pages(b.start, b.size) \cap Held(taken_list) = {},
         taken_list' \in Seq(HeapBlock), Placed(taken_list, taken_list', k, b),
         mapped' = mapped \cup Pages(b.start, b.size)
  PROVE  /\ ArraysStay' /\ Disjoint(taken_list') /\ mapped' = Held(taken_list')
         /\ Held(taken_list') = Held(taken_list) \cup Pages(b.start, b.size)
         /\ Taken' = Taken \cup {b}
<1> DEFINE t == taken_list
           u == taken_list'
<1>1. /\ KERNEL_HEAP_START \in Int /\ KERNEL_HEAP_MAX \in Int
      /\ t \in Seq(HeapBlock) /\ Disjoint(t) /\ mapped = Held(t) /\ ArraysStay
  BY HeapBounds DEF HeapInv
<1>2. ToSet(u) = ToSet(t) \cup {b} /\ Held(u) = Held(t) \cup Pages(b.start, b.size)
  BY <1>1, PlacedHolds DEF HeapBlock
<1>3. Disjoint(u)
  BY <1>1, PlacedDisjoint DEF HeapBlock
<1>4. ArraysStay'
  <2>1. PICK i \in 1..Len(t) : t[i].start < FirstAddress
    BY <1>1 DEF ArraysStay
  <2>2. i < k => u[i] = t[i]
    BY <1>1 DEF Placed
  <2>3. i >= k => u[i + 1] = t[i]
    BY <1>1 DEF Placed
  <2>4. Len(u) = Len(t) + 1 /\ Len(t) \in Nat
    BY <1>1 DEF Placed
  <2>5. QED
    BY <2>1, <2>2, <2>3, <2>4 DEF ArraysStay
<1>5. QED
  BY <1>1, <1>2, <1>3, <1>4 DEF Taken

\* kmalloc has returned the start of n pages that were nobody's and are now taken.
Granted(n) ==
  /\ returned' \in Page /\ Pages(returned', n) \subseteq Page
  /\ Pages(returned', n) \cap Held(taken_list) = {}
  /\ Taken' = Taken \cup {[start |-> returned', size |-> n]}

\* The fit strategies take the first pages of a free block.
LEMMA FitTakes ==
  ASSUME HeapInv, ~crashed, Fitting, NEW n \in Sizes, NEW i \in Fits(n),
         map_frames(free_list[i].start, n), free_list' = Cut(free_list, i, n),
         last_va_in_kheap' \in Address, strategy' = strategy, crashed' = crashed,
         taken_list' \in Seq(HeapBlock), NEW k \in 1..Len(taken_list) + 1,
         Placed(taken_list, taken_list', k, [start |-> free_list[i].start, size |-> n])
  PROVE  HeapInv' /\ Granted(n)
<1> DEFINE f == free_list
           a == f[i].start
           b == [start |-> a, size |-> n]
           s == KERNEL_HEAP_START
           e == KERNEL_HEAP_MAX
<1>1. s \in Int /\ e \in Int /\ s \in Nat \ {0} /\ n \in Nat \ {0}
  BY HeapBounds, KHeapAssumption
<1>2. /\ f \in Seq(HeapBlock) /\ Spread(f) /\ Held(f) = Page \ Held(taken_list)
  BY DEF HeapInv, FitOK
<1>3. i \in 1..Len(f) /\ n <= f[i].size
  <2>1. i \in 1..Len(f) /\ f[i].size >= n
    BY DEF Fits
  <2>2. f[i].size \in Nat
    BY <1>1, <1>2, <2>1, ListFields DEF HeapBlock
  <2>3. QED
    BY <1>1, <2>1, <2>2
<1>4. PICK z \in Nat \ {0} : z = f[i].size /\ a \in Int /\ s <= a /\ a + z <= e /\ n <= z
  <2>1. f[i] \in Inside(s, e)
    BY <1>2, <1>3, ElementOfSeq DEF HeapBlock
  <2>2. a \in Int /\ f[i].size \in Nat \ {0} /\ s <= a /\ a + f[i].size <= e
    BY <1>1, <2>1, BlockFields
  <2>3. QED
    BY <1>3, <2>2
<1>5. /\ Cut(f, i, n) \in Seq(HeapBlock) /\ Spread(Cut(f, i, n))
      /\ Held(Cut(f, i, n)) = Held(f) \ Pages(a, n)
  BY <1>1, <1>2, <1>3, CutHolds DEF HeapBlock
<1>6. b \in HeapBlock
  <2>1. a + n <= e
    <3> HIDE DEF a, f
    <3>1. QED
      BY <1>1, <1>4
  <2>2. QED
    BY <1>1, <1>4, <2>1, BlockIs, SMTT(20) DEF HeapBlock
<1>7. b.start = a /\ b.size = n
  OBVIOUS
<1>8. Pages(a, n) \subseteq Held(f)
  <2> SUFFICES ASSUME NEW p \in Pages(a, n) PROVE p \in Held(f)
    OBVIOUS
  <2>1. p \in Int /\ a <= p /\ p < a + z
    <3>1. a \in Int /\ z \in Int /\ n \in Int /\ n <= z
      BY <1>1, <1>4
    <3> HIDE DEF a
    <3>2. p \in Int /\ a <= p /\ p < a + n
      BY <3>1 DEF Pages
    <3>3. QED
      BY <3>1, <3>2
  <2>2. QED
    BY <1>1, <1>2, <1>3, <1>4, <2>1, HeldPages DEF HeapBlock
<1>9. Pages(a, n) \subseteq Page /\ Pages(a, n) \cap Held(taken_list) = {}
  BY <1>2, <1>8
<1>10. mapped' = mapped \cup Pages(a, n) /\ returned' = a
  BY DEF map_frames
<1> HIDE DEF a, b, s, e
<1>11. /\ ArraysStay' /\ Disjoint(taken_list') /\ mapped' = Held(taken_list')
       /\ Held(taken_list') = Held(taken_list) \cup Pages(a, n)
       /\ Taken' = Taken \cup {b}
  BY <1>6, <1>7, <1>9, <1>10, TakenGrows DEF a, b
<1>12. FitOK'
  <2>1. Held(free_list') = Page \ Held(taken_list')
    BY <1>2, <1>5, <1>11
  <2>2. QED
    BY <1>5, <2>1 DEF FitOK
<1>13. BumpOK'
  BY DEF BumpOK, Fitting
<1>14. a \in Page
  BY <1>1, <1>4, <1>9 DEF Pages
<1>15. HeapInv'
  BY <1>5, <1>10, <1>11, <1>12, <1>13, <1>14 DEF HeapInv
<1>16. QED
  BY <1>9, <1>10, <1>11, <1>14, <1>15 DEF Granted, b

\* When no free block is large enough there is no run of free pages of that length.
LEMMA NoneFits ==
  ASSUME HeapInv, ~crashed, Fitting, NEW n \in Sizes, Fits(n) = {},
         NEW a \in Page, Pages(a, n) \subseteq Page
  PROVE  Pages(a, n) \cap Held(taken_list) # {}
<1>1. /\ KERNEL_HEAP_START \in Int /\ KERNEL_HEAP_MAX \in Int
      /\ n \in Nat \ {0} /\ a \in Int
  BY HeapBounds, KHeapAssumption DEF Page
<1>2. /\ free_list \in Seq(HeapBlock) /\ Spread(free_list)
      /\ Held(free_list) = Page \ Held(taken_list)
  BY DEF HeapInv, FitOK
<1>3. ASSUME Pages(a, n) \cap Held(taken_list) = {} PROVE FALSE
  <2>1. Pages(a, n) \subseteq Held(free_list)
    BY <1>2, <1>3
  <2>2. PICK i \in 1..Len(free_list) : n <= free_list[i].size
    BY <1>1, <1>2, <2>1, RunInOneBlock DEF HeapBlock
  <2>3. free_list[i].size \in Nat
    BY <1>1, <1>2, ListFields DEF HeapBlock
  <2>4. i \in Fits(n)
    BY <1>1, <2>2, <2>3 DEF Fits
  <2>5. QED
    BY <2>4
<1>4. QED
  BY <1>3

\* A kmalloc that fails changes only what it returned.
LEMMA FailKeeps ==
  ASSUME HeapInv, kmalloc_fails, crashed' = crashed
  PROVE  HeapInv' /\ Taken' = Taken
<1>1. /\ returned' = 0
      /\ free_list' = free_list /\ taken_list' = taken_list
      /\ last_va_in_kheap' = last_va_in_kheap /\ strategy' = strategy /\ mapped' = mapped
  BY DEF kmalloc_fails
<1>2. ArraysStay' /\ FitOK' /\ BumpOK'
  BY <1>1 DEF HeapInv, ArraysStay, FitOK, BumpOK, Fitting
<1>3. QED
  BY <1>1, <1>2 DEF HeapInv, Taken

\* First fit takes the pages of a free block, or there is none that is large enough.
LEMMA FirstFitStep ==
  ASSUME HeapInv, ~crashed, crashed' = crashed, NEW n \in Sizes, first_fit_allocation(n)
  PROVE  /\ HeapInv' /\ strategy' = strategy
         /\ \/ Granted(n)
            \/ Fits(n) = {} /\ returned' = 0 /\ Taken' = Taken
<1>1. Fitting /\ strategy' = strategy
  BY DEF first_fit_allocation, Fitting, kmalloc_fails
<1>2. CASE Fits(n) = {} /\ kmalloc_fails
  BY <1>1, <1>2, FailKeeps DEF kmalloc_fails
<1>3. ASSUME NEW i \in Fits(n),
             map_frames(free_list[i].start, n),
             free_list' = Cut(free_list, i, n),
             last_va_in_kheap' = Wrap(last_va_in_kheap + n),
             taken_list' = insert_sorted(taken_list, [start |-> free_list[i].start, size |-> n])
      PROVE  HeapInv' /\ Granted(n)
  <2> DEFINE b == [start |-> free_list[i].start, size |-> n]
  <2>1. /\ KERNEL_HEAP_START \in Int /\ KERNEL_HEAP_MAX \in Nat /\ KERNEL_HEAP_MAX \in Int
        /\ n \in Nat \ {0}
    BY HeapBounds, KHeapAssumption
  <2>2. last_va_in_kheap' \in Address
    <3>1. last_va_in_kheap + n \in Nat
      BY <2>1 DEF HeapInv, Address
    <3>2. QED
      BY <1>3, <2>1, <3>1 DEF Wrap, Address
  <2>3. b \in HeapBlock
    <3>1. i \in 1..Len(free_list) /\ free_list[i].size >= n /\ free_list \in Seq(HeapBlock)
      BY DEF Fits, HeapInv
    <3>2. PICK a \in Int, z \in Nat \ {0} :
                 /\ a = free_list[i].start /\ z = free_list[i].size
                 /\ KERNEL_HEAP_START <= a /\ a + z <= KERNEL_HEAP_MAX
      BY <2>1, <3>1, ListFields DEF HeapBlock
    <3>3. a + n <= KERNEL_HEAP_MAX
      BY <2>1, <3>1, <3>2
    <3>4. QED
      BY <2>1, <3>2, <3>3, BlockIs DEF HeapBlock
  <2>4. taken_list \in Seq(HeapBlock) /\ taken_list # <<>>
    BY DEF HeapInv, ArraysStay
  <2> HIDE DEF b
  <2>5. /\ taken_list' \in Seq(HeapBlock)
        /\ \E k \in 1..Len(taken_list) + 1 : Placed(taken_list, taken_list', k, b)
    BY <1>3, <2>1, <2>3, <2>4, InsertSorted DEF HeapBlock, b
  <2>6. QED
    BY <1>1, <1>3, <2>2, <2>5, FitTakes DEF b
<1>4. CASE ~(Fits(n) = {} /\ kmalloc_fails)
  <2>1. PICK i \in Fits(n) :
          /\ map_frames(free_list[i].start, n)
          /\ free_list' = Cut(free_list, i, n)
          /\ last_va_in_kheap' = Wrap(last_va_in_kheap + n)
          /\ taken_list' = insert_sorted(taken_list,
                                         [start |-> free_list[i].start, size |-> n])
    BY <1>4, Zenon DEF first_fit_allocation
  <2>2. HeapInv' /\ Granted(n)
    BY <1>3, <2>1
  <2>3. QED
    BY <1>1, <2>2
<1>5. QED
  BY <1>2, <1>4

\* The same of next fit, which adds the block at the head of the list.
LEMMA NextFitStep ==
  ASSUME HeapInv, ~crashed, crashed' = crashed, NEW n \in Sizes, next_fit_allocation(n)
  PROVE  /\ HeapInv' /\ strategy' = strategy
         /\ \/ Granted(n)
            \/ Fits(n) = {} /\ returned' = 0 /\ Taken' = Taken
<1>1. Fitting /\ strategy' = strategy
  BY DEF next_fit_allocation, Fitting, kmalloc_fails
<1>2. CASE Fits(n) = {} /\ kmalloc_fails
  BY <1>1, <1>2, FailKeeps DEF kmalloc_fails
<1>3. ASSUME NEW i \in Fits(n),
             map_frames(free_list[i].start, n),
             free_list' = Cut(free_list, i, n),
             last_va_in_kheap' = free_list[i].start,
             taken_list' = <<[start |-> free_list[i].start, size |-> n]>> \o taken_list
      PROVE  HeapInv' /\ Granted(n)
  <2> DEFINE b == [start |-> free_list[i].start, size |-> n]
  <2>1. /\ KERNEL_HEAP_START \in Nat /\ KERNEL_HEAP_START \in Int
        /\ KERNEL_HEAP_MAX \in Nat /\ KERNEL_HEAP_MAX \in Int
        /\ n \in Nat \ {0}
    BY HeapBounds, KHeapAssumption
  <2>2. i \in 1..Len(free_list) /\ free_list[i].size >= n /\ free_list \in Seq(HeapBlock)
    BY DEF Fits, HeapInv
  <2>3. PICK a \in Int, z \in Nat \ {0} :
               /\ a = free_list[i].start /\ z = free_list[i].size
               /\ KERNEL_HEAP_START <= a /\ a + z <= KERNEL_HEAP_MAX
    BY <2>1, <2>2, ListFields DEF HeapBlock
  <2>4. a + n <= KERNEL_HEAP_MAX /\ a \in Address
    BY <2>1, <2>2, <2>3 DEF Address
  <2>5. b \in HeapBlock
    BY <2>1, <2>3, <2>4, BlockIs DEF HeapBlock
  <2>6. last_va_in_kheap' \in Address
    BY <1>3, <2>3, <2>4
  <2>7. taken_list \in Seq(HeapBlock)
    BY DEF HeapInv
  <2> HIDE DEF b
  <2>8. taken_list' \in Seq(HeapBlock) /\ Placed(taken_list, taken_list', 1, b)
    <3>1. Len(taken_list) \in Nat
      BY <2>7
    <3>2. QED
      BY <1>3, <2>5, <2>7, <3>1, ConsElements DEF b, Placed
  <2>9. 1 \in 1..Len(taken_list) + 1
    BY <2>7
  <2>10. QED
    BY <1>1, <1>3, <2>6, <2>8, <2>9, FitTakes DEF b
<1>4. CASE ~(Fits(n) = {} /\ kmalloc_fails)
  <2>1. PICK i \in Fits(n) :
          /\ map_frames(free_list[i].start, n)
          /\ free_list' = Cut(free_list, i, n)
          /\ last_va_in_kheap' = free_list[i].start
          /\ taken_list' = <<[start |-> free_list[i].start, size |-> n]>> \o taken_list
    BY <1>4, Zenon DEF next_fit_allocation
  <2>2. HeapInv' /\ Granted(n)
    BY <1>3, <2>1
  <2>3. QED
    BY <1>1, <2>2
<1>5. QED
  BY <1>2, <1>4

\* The pages that continuous allocation takes lie above everything taken.
LEMMA ContStep ==
  ASSUME HeapInv, ~crashed, crashed' = crashed, NEW n \in Sizes, cont_allocation(n)
  PROVE  /\ HeapInv' /\ strategy' = strategy
         /\ \/ kmalloc_fails
            \/ /\ map_frames(last_va_in_kheap, n) /\ last_va_in_kheap \in Page
               /\ Pages(last_va_in_kheap, n) \cap Held(taken_list) = {}
<1> DEFINE a == last_va_in_kheap
           b == [start |-> a, size |-> n]
           t == taken_list
<1>1. ~Fitting /\ strategy' = strategy
  BY DEF cont_allocation, Fitting, kmalloc_fails
<1>2. CASE kmalloc_fails
  BY <1>1, <1>2, FailKeeps
<1>3. CASE ~kmalloc_fails
  <2>1. /\ n <= KERNEL_HEAP_MAX - a
        /\ map_frames(a, n)
        /\ last_va_in_kheap' = Wrap(a + n)
        /\ t' = <<b>> \o t
        /\ free_list' = free_list
    BY <1>3 DEF cont_allocation
  <2>2. /\ KERNEL_HEAP_START \in Nat \ {0} /\ KERNEL_HEAP_START \in Int
        /\ KERNEL_HEAP_MAX \in Nat /\ KERNEL_HEAP_MAX \in Int
        /\ FirstAddress \in Nat /\ KERNEL_HEAP_START <= FirstAddress
        /\ n \in Nat \ {0}
    BY HeapBounds, KHeapAssumption
  <2>3. a \in Nat /\ FirstAddress <= a /\ t \in Seq(HeapBlock) /\ Len(t) \in Nat
    BY <1>1, <2>2 DEF HeapInv, BumpOK, Address
  <2>4. a + n <= KERNEL_HEAP_MAX /\ KERNEL_HEAP_START <= a
    BY <2>1, <2>2, <2>3
  <2>5. last_va_in_kheap' = a + n /\ a + n \in Address
    <3>1. a + n \in 0..KERNEL_HEAP_MAX
      BY <2>2, <2>3, <2>4
    <3>2. (a + n) % (KERNEL_HEAP_MAX + 1) = a + n
      BY <2>2, <3>1
    <3>3. QED
      BY <2>1, <3>1, <3>2 DEF Wrap, Address
  <2>6. b \in HeapBlock /\ b.start = a /\ b.size = n
    BY <2>2, <2>3, <2>4, BlockIs DEF HeapBlock
  <2>7. /\ \A i \in 1..Len(t) : /\ t[i].start \in Int /\ t[i].size \in Nat
                                /\ End(t[i]) = t[i].start + t[i].size
                                /\ End(t[i]) <= a
    <3> SUFFICES ASSUME NEW i \in 1..Len(t)
                 PROVE  /\ t[i].start \in Int /\ t[i].size \in Nat
                        /\ End(t[i]) = t[i].start + t[i].size
                        /\ End(t[i]) <= a
      OBVIOUS
    <3>1. t[i] \in Inside(KERNEL_HEAP_START, KERNEL_HEAP_MAX)
      BY <2>3, ElementOfSeq DEF HeapBlock
    <3>2. End(t[i]) <= a
      BY <1>1 DEF HeapInv, BumpOK
    <3>3. QED
      BY <2>2, <3>1, <3>2, BlockFields
  <2>8. Pages(a, n) \cap Held(t) = {}
    <3> SUFFICES ASSUME NEW p \in Held(t), p \in Pages(a, n) PROVE FALSE
      OBVIOUS
    <3>1. PICK i \in 1..Len(t) : p \in Int /\ t[i].start <= p /\ p < t[i].start + t[i].size
      BY <2>2, <2>3, HeldPages DEF HeapBlock
    <3>2. PICK y \in Int : y = End(t[i]) /\ y <= a
      BY <2>7
    <3>3. p < y /\ a <= p
      BY <2>2, <2>3, <2>7, <3>1, <3>2 DEF Pages
    <3>4. QED
      BY <2>3, <3>1, <3>2, <3>3
  <2> HIDE DEF b
  <2>9. t' \in Seq(HeapBlock) /\ Placed(t, t', 1, b)
    BY <2>1, <2>3, <2>6, ConsElements DEF Placed
  <2>10. mapped' = mapped \cup Pages(a, n) /\ returned' = a
    BY <2>1 DEF map_frames
  <2>11. ArraysStay' /\ Disjoint(t') /\ mapped' = Held(t')
    BY <2>3, <2>6, <2>8, <2>9, <2>10, TakenGrows
  <2>12. FitOK'
    BY <1>1 DEF FitOK, Fitting
  <2>13. BumpOK'
    <3>1. FirstAddress <= a + n
      BY <2>2, <2>3
    <3>2. ASSUME NEW i \in 1..Len(t') PROVE End(t'[i]) <= a + n
      <4>1. CASE i = 1
        <5>1. t'[i] = b
          BY <2>3, <2>9, <4>1 DEF Placed
        <5>2. QED
          BY <2>2, <2>3, <2>6, <5>1 DEF End
      <4>2. CASE i # 1
        <5>1. i - 1 \in 1..Len(t) /\ t'[i] = t[i - 1]
          <6>1. i \in 1..Len(t) + 1 /\ ~(i < 1)
            BY <2>3, <2>9 DEF Placed
          <6>2. t'[i] = IF i < 1 THEN t[i] ELSE IF i = 1 THEN b ELSE t[i - 1]
            BY <2>9, <6>1 DEF Placed
          <6>3. QED
            BY <2>3, <4>2, <6>1, <6>2
        <5>2. PICK y \in Int : y = End(t[i - 1]) /\ y <= a
          BY <2>7, <5>1
        <5>3. y <= a + n
          BY <2>2, <2>3, <5>2
        <5>4. QED
          BY <5>1, <5>2, <5>3
      <4>3. QED
        BY <4>1, <4>2
    <3>3. QED
      BY <2>5, <3>1, <3>2 DEF BumpOK
  <2>14. a \in Page
    BY <2>2, <2>3, <2>4 DEF Page
  <2>15. QED
    BY <1>1, <2>1, <2>5, <2>8, <2>9, <2>10, <2>11, <2>12, <2>13, <2>14 DEF HeapInv
<1>4. QED
  BY <1>2, <1>3

\* kfree gives back the pages of one allocation, which was not one of the arrays.
LEMMA FreeStep ==
  ASSUME HeapInv, NEW page \in FirstAddress..KERNEL_HEAP_MAX - 1, kfree(page)
  PROVE  /\ HeapInv' /\ strategy' = strategy /\ returned' = returned
         /\ \E b \in Taken : b.start >= FirstAddress /\ Taken' = Taken \ {b}
<1> DEFINE t == taken_list
<1>1. PICK i \in 1..Len(t) :
        /\ ~crashed
        /\ t[i].start = page
        /\ mapped' = mapped \ Pages(t[i].start, t[i].size)
        /\ t' = RemoveAt(t, i)
        /\ Coalescing_heap(t[i])
        /\ strategy' = strategy /\ returned' = returned
  BY Zenon DEF kfree
<1> DEFINE b == t[i]
<1>2. /\ KERNEL_HEAP_START \in Nat \ {0} /\ KERNEL_HEAP_START \in Int
      /\ KERNEL_HEAP_MAX \in Nat /\ KERNEL_HEAP_MAX \in Int
      /\ FirstAddress \in Nat
  BY HeapBounds
<1>3. /\ t \in Seq(HeapBlock) /\ Disjoint(t) /\ free_list \in Seq(HeapBlock)
      /\ mapped = Held(t)
  BY DEF HeapInv
<1>4. b \in HeapBlock
  BY <1>3, ElementOfSeq
<1>5. /\ b.start \in Int /\ b.size \in Nat \ {0}
      /\ KERNEL_HEAP_START <= b.start /\ b.start + b.size <= KERNEL_HEAP_MAX
  BY <1>2, <1>4, BlockFields DEF HeapBlock
<1>6. /\ t' \in Seq(HeapBlock) /\ ToSet(t') = ToSet(t) \ {b} /\ Disjoint(t')
      /\ Held(t') = Held(t) \ Pages(b.start, b.size)
  BY <1>1, <1>2, <1>3, RemovedHolds DEF HeapBlock
<1>7. /\ \A x : x \in ToSet(t) <=> \E j \in 1..Len(t) : t[j] = x
      /\ \A x : x \in ToSet(t') <=> \E j \in 1..Len(t') : t'[j] = x
  BY DEF ToSet
<1>8. b \in ToSet(t)
  BY <1>7
<1>9. Pages(b.start, b.size) \subseteq Held(t)
  BY <1>8 DEF Held
<1>10. ArraysStay'
  <2>1. PICK j \in 1..Len(t) : t[j].start < FirstAddress
    BY DEF HeapInv, ArraysStay
  <2>2. ~(page < FirstAddress)
    BY <1>2
  <2>3. t[j] # b
    BY <1>1, <2>1, <2>2
  <2>4. t[j] \in ToSet(t')
    BY <1>6, <1>7, <2>3
  <2>5. PICK m \in 1..Len(t') : t'[m] = t[j]
    BY <1>7, <2>4
  <2>6. QED
    BY <2>1, <2>5 DEF ArraysStay
<1>11. /\ crashed' = (free_list = <<>>)
       /\ free_list' = IF crashed' THEN free_list ELSE Coalesced(free_list, b)
       /\ strategy # "NEXTFIT" => last_va_in_kheap' = last_va_in_kheap
       /\ last_va_in_kheap' = last_va_in_kheap \/ last_va_in_kheap' = b.start
  BY <1>1 DEF Coalescing_heap
<1> HIDE DEF b
<1>12. free_list' \in Seq(HeapBlock)
  <2>1. CASE crashed'
    BY <1>3, <1>11, <2>1
  <2>2. CASE ~crashed'
    <3>1. Coalesced(free_list, b) \in Seq(HeapBlock)
      BY <1>2, <1>3, <1>4, <1>11, <2>2, CoalescedHolds DEF HeapBlock
    <3>2. QED
      BY <1>11, <2>2, <3>1
  <2>3. QED
    BY <2>1, <2>2
<1>13. FitOK'
  <2> SUFFICES ASSUME Fitting', ~crashed'
               PROVE  Spread(free_list') /\ Held(free_list') = Page \ Held(t')
    BY DEF FitOK
  <2>1. Spread(free_list) /\ Held(free_list) = Page \ Held(t)
    BY <1>1 DEF Fitting, FitOK, HeapInv
  <2>2. free_list # <<>> /\ free_list' = Coalesced(free_list, b)
    BY <1>11
  <2>3. Pages(b.start, b.size) \cap Held(free_list) = {}
    BY <1>9, <2>1
  <2>4. /\ Spread(free_list')
        /\ Held(free_list') = Held(free_list) \cup Pages(b.start, b.size)
    <3> DEFINE r == Coalesced(free_list, b)
    <3>1. Spread(r) /\ Held(r) = Held(free_list) \cup Pages(b.start, b.size)
      BY <1>2, <1>3, <1>4, <2>1, <2>2, <2>3, CoalescedApart DEF HeapBlock
    <3> HIDE DEF r
    <3>2. QED
      BY <2>2, <3>1 DEF r
  <2>5. Pages(b.start, b.size) \subseteq Page
    BY <1>2, <1>5 DEF Pages, Page
  <2>6. QED
    BY <1>6, <1>9, <2>1, <2>4, <2>5
<1>14. BumpOK'
  <2> SUFFICES ASSUME ~Fitting'
               PROVE  /\ FirstAddress <= last_va_in_kheap'
                      /\ \A j \in 1..Len(t') : End(t'[j]) <= last_va_in_kheap'
    BY DEF BumpOK
  <2>1. last_va_in_kheap' = last_va_in_kheap /\ ~Fitting
    BY <1>1, <1>11 DEF Fitting
  <2>2. \A x \in ToSet(t) : End(x) <= last_va_in_kheap
    BY <1>7, <2>1 DEF HeapInv, BumpOK
  <2>3. \A j \in 1..Len(t') : t'[j] \in ToSet(t)
    BY <1>6, <1>7
  <2>4. FirstAddress <= last_va_in_kheap
    BY <2>1 DEF HeapInv, BumpOK
  <2>5. QED
    BY <2>1, <2>2, <2>3, <2>4
<1>15. last_va_in_kheap' \in Address
  <2>1. b.start \in Address
    BY <1>2, <1>5 DEF Address
  <2>2. QED
    BY <1>11, <2>1 DEF HeapInv
<1>16. crashed' \in BOOLEAN
  BY <1>11
<1>17. HeapInv'
  BY <1>1, <1>3, <1>6, <1>10, <1>12, <1>13, <1>14, <1>15, <1>16 DEF HeapInv, b
<1>18. b.start >= FirstAddress
  BY <1>1, <1>2 DEF b
<1>19. QED
  BY <1>1, <1>6, <1>8, <1>17, <1>18 DEF Taken

\* A command at the prompt stays on its side of KeptApart.
LEMMA SwitchStep ==
  ASSUME KeptApart, HeapInv, NEW s \in Strategies, setKHeapPlacementStrategy(s)
  PROVE  HeapInv' /\ Fitting' = Fitting /\ Taken' = Taken /\ returned' = returned
<1>1. /\ strategy' = s /\ free_list' = free_list /\ taken_list' = taken_list
      /\ last_va_in_kheap' = last_va_in_kheap /\ mapped' = mapped
      /\ returned' = returned /\ crashed' = crashed
  BY DEF setKHeapPlacementStrategy
<1>2. PICK R \in Regimes : strategy \in R /\ s \in R
  BY DEF setKHeapPlacementStrategy
<1>3. Fitting' <=> Fitting
  BY <1>1, <1>2 DEF KeptApart, Fitting
<1>4. Fitting' = Fitting
  BY <1>3 DEF Fitting
<1>5. ArraysStay' /\ FitOK' /\ BumpOK'
  BY <1>1, <1>3 DEF HeapInv, ArraysStay, FitOK, BumpOK
<1>6. QED
  BY <1>1, <1>4, <1>5 DEF HeapInv, Taken

\* Every step keeps the heap right.
LEMMA HeapStep ==
  ASSUME KeptApart, HeapInv, [Next]_vars
  PROVE  HeapInv'
<1>1. ASSUME NEW n \in Sizes, kmalloc(n) PROVE HeapInv'
  <2>1. ~crashed /\ crashed' = crashed
    BY <1>1 DEF kmalloc
  <2>2. QED
    BY <1>1, <2>1, ContStep, FirstFitStep, NextFitStep, FailKeeps DEF kmalloc, kmalloc_unsupported
<1>2. ASSUME NEW page \in FirstAddress..KERNEL_HEAP_MAX - 1, kfree(page) PROVE HeapInv'
  BY <1>2, FreeStep
<1>3. ASSUME NEW s \in Strategies, setKHeapPlacementStrategy(s) PROVE HeapInv'
  BY <1>3, SwitchStep
<1>4. ASSUME UNCHANGED vars PROVE HeapInv'
  BY <1>4 DEF vars, HeapInv, ArraysStay, FitOK, BumpOK, Fitting
<1>5. QED
  BY <1>1, <1>2, <1>3, <1>4 DEF Next, kfree_nothing

\* The invariant of the heap, when its strategies are kept apart.
LEMMA HeapInvariant ==
  ASSUME KeptApart
  PROVE  Spec => []HeapInv
<1>1. HeapInv /\ [Next]_vars => HeapInv'
  BY HeapStep
<1>2. QED
  BY <1>1, HeapInitial, PTL DEF Spec

\* It says that both lists hold blocks of pages of the heap.
LEMMA HeapInvTypes == HeapInv => TypeOK
<1> SUFFICES ASSUME HeapInv PROVE TypeOK
  OBVIOUS
<1>1. /\ KERNEL_HEAP_START \in Nat \ {0} /\ KERNEL_HEAP_START \in Int
      /\ KERNEL_HEAP_MAX \in Nat /\ KERNEL_HEAP_MAX \in Int
  BY HeapBounds
<1>2. HeapBlock \subseteq Block
  <2> SUFFICES ASSUME NEW b \in HeapBlock PROVE b \in Block
    OBVIOUS
  <2>1. PICK a \in Int, n \in Nat \ {0} : /\ b = [start |-> a, size |-> n]
                                          /\ KERNEL_HEAP_START <= a /\ a + n <= KERNEL_HEAP_MAX
    BY <1>1, BlockFields DEF HeapBlock
  <2>2. a \in Page
    BY <1>1, <2>1 DEF Page
  <2>3. QED
    BY <2>1, <2>2 DEF Block
<1>3. free_list \in Seq(Block) /\ taken_list \in Seq(Block)
  <2>1. \A q \in Seq(HeapBlock) : q \in Seq(Block)
    BY <1>2
  <2>2. QED
    BY <2>1 DEF HeapInv
<1>4. mapped \subseteq Page
  <2> SUFFICES ASSUME NEW p \in mapped PROVE p \in Page
    OBVIOUS
  <2>1. taken_list \in Seq(HeapBlock) /\ p \in Held(taken_list)
    BY DEF HeapInv
  <2>2. p \in Int /\ \E i \in 1..Len(taken_list) :
          taken_list[i].start <= p /\ p < taken_list[i].start + taken_list[i].size
    BY <1>1, <2>1, HeldPages DEF HeapBlock
  <2>3. PICK i \in 1..Len(taken_list) :
          taken_list[i].start <= p /\ p < taken_list[i].start + taken_list[i].size
    BY <2>2
  <2>4. PICK a \in Int, n \in Nat : /\ a = taken_list[i].start /\ n = taken_list[i].size
                                    /\ KERNEL_HEAP_START <= a /\ a + n <= KERNEL_HEAP_MAX
    BY <1>1, <2>1, ListFields DEF HeapBlock
  <2>5. a <= p /\ p < a + n
    BY <2>3, <2>4
  <2>6. QED
    BY <1>1, <2>2, <2>4, <2>5 DEF Page
<1>5. QED
  BY <1>3, <1>4 DEF TypeOK, HeapInv

(***************************************************************************)
(* Both lists of kern/kheap.c stay inside the heap, and so do the pages it *)
(* has mapped, whatever kmalloc and kfree are asked for in which order.    *)
(***************************************************************************)
THEOREM HeapTyped ==
  ASSUME KeptApart
  PROVE  Spec => []TypeOK
BY HeapInvariant, HeapInvTypes, PTL

(***************************************************************************)
(* No page is in two live allocations of kmalloc.                          *)
(***************************************************************************)
THEOREM AllocationsDisjoint ==
  ASSUME KeptApart
  PROVE  Spec => []NoOverlap
<1>1. HeapInv => NoOverlap
  BY DEF HeapInv, NoOverlap, Disjoint
<1>2. QED
  BY <1>1, HeapInvariant, PTL

(***************************************************************************)
(* The pages that have a frame are exactly those of live allocations.      *)
(***************************************************************************)
THEOREM FramesMatchAllocations ==
  ASSUME KeptApart
  PROVE  Spec => []MappedIsTaken
<1>1. HeapInv => MappedIsTaken
  BY DEF HeapInv, MappedIsTaken, TakenPages, Taken, Held
<1>2. QED
  BY <1>1, HeapInvariant, PTL

(***************************************************************************)
(* The free list of the fit strategies holds every page that is not        *)
(* allocated once, in blocks that do not touch: Coalescing_heap joins all  *)
(* that can be joined.                                                     *)
(***************************************************************************)
THEOREM FreePagesListed ==
  ASSUME KeptApart
  PROVE  Spec => []FreeListIsExact
<1>1. HeapInv => FreeListIsExact
  <2> SUFFICES ASSUME HeapInv, Fitting, ~crashed
               PROVE  /\ \A i \in 1..Len(free_list) - 1 :
                           End(free_list[i]) < free_list[i + 1].start
                      /\ UNION {Pages(b.start, b.size) : b \in ToSet(free_list)}
                           = Page \ TakenPages
    BY DEF FreeListIsExact
  <2>1. /\ Spread(free_list) /\ Held(free_list) = Page \ Held(taken_list)
        /\ Len(free_list) \in Nat
    BY DEF HeapInv, FitOK
  <2>2. \A i \in 1..Len(free_list) - 1 : End(free_list[i]) < free_list[i + 1].start
    BY <2>1 DEF Spread
  <2>3. QED
    BY <2>1, <2>2 DEF Held, TakenPages, Taken
<1>2. QED
  BY <1>1, HeapInvariant, PTL

\* Pages that overlap no allocation are unused, and the other way round.
LEMMA UnusedPages ==
  ASSUME NEW a, NEW n, Fitting
  PROVE  Promise!Unused(a, n) <=> /\ Pages(a, n) \subseteq Page
                                  /\ Pages(a, n) \cap Held(taken_list) = {}
<1>1. /\ Promise!Pages(a, n) = Pages(a, n)
      /\ \A b : Promise!Pages(b.start, b.size) = Pages(b.start, b.size)
  BY DEF Promise!Pages, Pages
<1>2. allocatedBar = ToSet(taken_list)
  BY DEF allocatedBar, Taken
<1>3. Pages(a, n) \cap Held(taken_list) = {} <=>
        \A b \in ToSet(taken_list) : Pages(a, n) \cap Pages(b.start, b.size) = {}
  BY DEF Held
<1>4. QED
  BY <1>1, <1>2, <1>3 DEF Promise!Unused

\* A kmalloc of a fit strategy is one the promise allows.
LEMMA MallocPromised ==
  ASSUME HeapInv, ~crashed, Fitting, Fitting', NEW n \in Sizes,
         \/ Granted(n)
         \/ Fits(n) = {} /\ returned' = 0 /\ Taken' = Taken
  PROVE  Promise!Allocate(n)
<1>1. /\ allocatedBar = Taken /\ allocatedBar' = Taken'
      /\ returnedBar' = returned'
  BY DEF allocatedBar, returnedBar
<1>2. CASE Granted(n)
  <2>1. returned' \in Page /\ Promise!Unused(returned', n)
    BY <1>2, UnusedPages DEF Granted
  <2>2. allocatedBar' = allocatedBar \cup {[start |-> returned', size |-> n]}
    BY <1>1, <1>2 DEF Granted
  <2>3. QED
    BY <1>1, <2>1, <2>2 DEF Promise!Allocate
<1>3. CASE Fits(n) = {} /\ returned' = 0 /\ Taken' = Taken
  <2>1. \A a \in Page : ~Promise!Unused(a, n)
    BY <1>3, NoneFits, UnusedPages
  <2>2. QED
    BY <1>1, <1>3, <2>1 DEF Promise!Allocate
<1>4. QED
  BY <1>2, <1>3

\* The arrays of the boot lie below the addresses that can be freed.
LEMMA BootBelow == \A b \in ToSet(BootBlocks) : b.start < FirstAddress
<1> DEFINE s == KERNEL_HEAP_START
           A == ArrayPages
           b == [start |-> s + A, size |-> A]
           c == [start |-> s, size |-> A]
<1>1. /\ s \in Nat \ {0} /\ A \in Nat \ {0} /\ FirstAddress = s + A + A
  BY HeapBounds
<1>2. b.start = s + A /\ c.start = s /\ BootBlocks = <<b, c>>
  BY DEF BootBlocks
<1> HIDE DEF b, c, s, A
<1>3. ToSet(BootBlocks) = {b, c}
  BY <1>2 DEF ToSet
<1>4. QED
  BY <1>1, <1>2, <1>3

(***************************************************************************)
(* kern/kheap.c implements the promise of PageAllocator: under the fit     *)
(* strategies kmalloc grants only unused pages and fails only when no run  *)
(* of free pages is long enough, and kfree ends that allocation only.      *)
(***************************************************************************)
THEOREM HeapKeepsPromise ==
  ASSUME KeptApart
  PROVE  Spec => KeepsPromise
<1>1. Init => Promise!Init
  BY DEF Init, Promise!Init, allocatedBar, returnedBar, Taken
<1>2. ASSUME HeapInv, [Next]_vars
      PROVE  [Promise!Next]_<<allocatedBar, returnedBar>>
  <2>1. ASSUME Fitting' = Fitting, ~Fitting PROVE UNCHANGED <<allocatedBar, returnedBar>>
    BY <2>1 DEF allocatedBar, returnedBar, BootBlocks, FirstAddress
  <2>2. ASSUME NEW n \in Sizes, kmalloc(n)
        PROVE  [Promise!Next]_<<allocatedBar, returnedBar>>
    <3>1. ~crashed /\ crashed' = crashed
      BY <2>2 DEF kmalloc
    <3>2. strategy' = strategy
      BY <1>2, <2>2, <3>1, ContStep, FirstFitStep, NextFitStep
      DEF kmalloc, kmalloc_unsupported, kmalloc_fails
    <3>3. Fitting' = Fitting
      BY <3>2 DEF Fitting
    <3>4. CASE Fitting
      <4>1. \/ Granted(n)
            \/ Fits(n) = {} /\ returned' = 0 /\ Taken' = Taken
        BY <1>2, <2>2, <3>1, <3>4, FirstFitStep, NextFitStep
        DEF kmalloc, cont_allocation, kmalloc_unsupported, Fitting
      <4>2. Promise!Allocate(n)
        BY <1>2, <3>1, <3>3, <3>4, <4>1, MallocPromised
      <4>3. QED
        BY <4>2 DEF Promise!Next
    <3>5. QED
      BY <2>1, <3>3, <3>4
  <2>3. ASSUME NEW page \in FirstAddress..KERNEL_HEAP_MAX - 1, kfree(page)
        PROVE  [Promise!Next]_<<allocatedBar, returnedBar>>
    <3>1. strategy' = strategy /\ returned' = returned
      BY <1>2, <2>3, FreeStep
    <3>2. PICK b \in Taken : b.start >= FirstAddress /\ Taken' = Taken \ {b}
      BY <1>2, <2>3, FreeStep
    <3>3. Fitting' = Fitting
      BY <3>1 DEF Fitting
    <3>4. CASE Fitting
      <4>1. /\ allocatedBar = Taken /\ allocatedBar' = Taken'
            /\ returnedBar' = returnedBar
        BY <3>1, <3>3, <3>4 DEF allocatedBar, returnedBar
      <4>2. b \notin ToSet(BootBlocks)
        <5>1. FirstAddress \in Nat /\ \A c \in ToSet(BootBlocks) : c.start < FirstAddress
          BY HeapBounds, BootBelow
        <5>2. b.start \in Int
          <6>1. /\ KERNEL_HEAP_START \in Int /\ KERNEL_HEAP_MAX \in Int
                /\ taken_list \in Seq(HeapBlock)
            BY <1>2, HeapBounds DEF HeapInv
          <6>2. \E i \in 1..Len(taken_list) : taken_list[i] = b
            BY DEF Taken, ToSet
          <6>3. QED
            BY <6>1, <6>2, ListFields DEF HeapBlock
        <5>3. QED
          BY <3>2, <5>1, <5>2
      <4>3. Promise!Release(b) /\ b \in allocatedBar \ ToSet(BootBlocks)
        BY <3>2, <4>1, <4>2 DEF Promise!Release
      <4>4. QED
        BY <4>3 DEF Promise!Next
    <3>5. QED
      BY <2>1, <3>3, <3>4
  <2>4. ASSUME NEW s \in Strategies, setKHeapPlacementStrategy(s)
        PROVE  UNCHANGED <<allocatedBar, returnedBar>>
    BY <1>2, <2>4, SwitchStep DEF allocatedBar, returnedBar, BootBlocks
  <2>5. ASSUME UNCHANGED vars PROVE UNCHANGED <<allocatedBar, returnedBar>>
    BY <2>5 DEF vars, allocatedBar, returnedBar, Taken, Fitting, BootBlocks
  <2>6. QED
    BY <1>2, <2>2, <2>3, <2>4, <2>5 DEF Next, kfree_nothing
<1>3. QED
  BY <1>1, <1>2, HeapInvariant, PTL DEF Spec, KeepsPromise, Promise!Spec

-----------------------------------------------------------------------------
(***************************************************************************)
(* The frames behind the pages.                                            *)
(***************************************************************************)

\* The frames of the list are there once each, and are as many as have no page.
ListInv == /\ free_frame_list \in Seq(1..Frames)
           /\ \A i, j \in 1..Len(free_frame_list) :
                free_frame_list[i] = free_frame_list[j] => i = j
           /\ IsFiniteSet(mapped)
           /\ Len(free_frame_list) = Frames - Cardinality(mapped)

\* Each mapped page has a frame of its own, which is not in the list.
EntryInv == /\ DOMAIN entry = mapped
            /\ \A p \in mapped : entry[p] \in 1..Frames
            /\ \A p, q \in mapped : entry[p] = entry[q] => p = q
            /\ \A p \in mapped, i \in 1..Len(free_frame_list) : free_frame_list[i] # entry[p]

\* frames_info knows the page of exactly the frames in the page tables.
AddressInv == /\ DOMAIN va = {entry[p] : p \in mapped}
              /\ \A p \in mapped : va[entry[p]] = p

FrameInv == ListInv /\ EntryInv /\ AddressInv

\* kmalloc has given frames to n pages that had none.
Given(n) == /\ returned' \in Page
            /\ Pages(returned', n) \cap mapped = {}
            /\ mapped' = mapped \cup Pages(returned', n)
            /\ Cardinality(mapped') <= Frames

\* A kmalloc maps pages that had no frame, or returns NULL and maps none.
LEMMA MallocMaps ==
  ASSUME HeapInv, NEW n \in Sizes, kmalloc(n)
  PROVE  Given(n) \/ (returned' = 0 /\ mapped' = mapped)
<1>1. ~crashed /\ crashed' = crashed /\ mapped = Held(taken_list)
  BY DEF kmalloc, HeapInv
<1>2. ASSUME kmalloc_fails PROVE returned' = 0 /\ mapped' = mapped
  BY <1>2 DEF kmalloc_fails
<1>3. ASSUME NEW a, map_frames(a, n), a \in Page, Pages(a, n) \cap mapped = {}
      PROVE  Given(n)
  BY <1>3 DEF map_frames, Given
<1>4. CASE cont_allocation(n)
  <2>1. \/ kmalloc_fails
        \/ /\ map_frames(last_va_in_kheap, n) /\ last_va_in_kheap \in Page
           /\ Pages(last_va_in_kheap, n) \cap mapped = {}
    BY <1>1, <1>4, ContStep
  <2>2. QED
    BY <1>2, <1>3, <2>1
<1>5. ASSUME first_fit_allocation(n) \/ next_fit_allocation(n)
      PROVE  Given(n) \/ (returned' = 0 /\ mapped' = mapped)
  <2>1. kmalloc_fails \/ \E i \in Fits(n) : map_frames(free_list[i].start, n)
    BY <1>5, Zenon DEF first_fit_allocation, next_fit_allocation
  <2>2. Granted(n) \/ (Fits(n) = {} /\ returned' = 0)
    BY <1>1, <1>5, FirstFitStep, NextFitStep
  <2>3. CASE kmalloc_fails
    BY <1>2, <2>3
  <2>4. ASSUME NEW i \in Fits(n), map_frames(free_list[i].start, n) PROVE Given(n)
    <3>1. Granted(n) /\ returned' = free_list[i].start
      BY <2>2, <2>4 DEF map_frames
    <3>2. QED
      BY <1>1, <1>3, <2>4, <3>1 DEF Granted
  <2>5. QED
    BY <2>1, <2>3, <2>4
<1>6. QED
  BY <1>2, <1>4, <1>5 DEF kmalloc, kmalloc_unsupported

\* A kfree unmaps the pages of one allocation.
LEMMA FreeUnmaps ==
  ASSUME HeapInv, NEW page \in FirstAddress..KERNEL_HEAP_MAX - 1, kfree(page)
  PROVE  \E n \in Nat \ {0} : Pages(page, n) \subseteq mapped
                              /\ mapped' = mapped \ Pages(page, n)
<1> DEFINE t == taken_list
<1>1. PICK i \in 1..Len(t) : /\ t[i].start = page
                             /\ mapped' = mapped \ Pages(t[i].start, t[i].size)
  BY Zenon DEF kfree
<1>2. /\ t \in Seq(HeapBlock) /\ mapped = Held(t)
      /\ KERNEL_HEAP_START \in Int /\ KERNEL_HEAP_MAX \in Int
  BY HeapBounds DEF HeapInv
<1>3. t[i].size \in Nat \ {0}
  BY <1>1, <1>2, ListFields DEF HeapBlock
<1>4. t[i] \in ToSet(t)
  BY <1>1 DEF ToSet
<1>5. Pages(t[i].start, t[i].size) \subseteq mapped
  BY <1>2, <1>4 DEF Held
<1>6. QED
  BY <1>1, <1>3, <1>5

\* A block of n pages has n pages.
LEMMA PagesNumber ==
  ASSUME NEW a \in Int, NEW n \in Nat
  PROVE  /\ IsFiniteSet(Pages(a, n)) /\ Cardinality(Pages(a, n)) = n
         /\ \A p : p \in Pages(a, n) <=> p \in Int /\ a <= p /\ p < a + n
<1>1. Pages(a, n) = a..a + n - 1
  BY DEF Pages
<1>2. a \in Int /\ a + n - 1 \in Int
  OBVIOUS
<1>3. IsFiniteSet(Pages(a, n)) /\ Cardinality(Pages(a, n)) = n
  BY <1>1, <1>2, FS_Interval
<1>4. \A p : p \in Pages(a, n) <=> p \in Int /\ a <= p /\ p < a + n
  BY <1>1
<1>5. QED
  BY <1>3, <1>4

\* Boot gives the arrays the highest frames and lists the others.
LEMMA FramesInitial == FrameInit => FrameInv
<1> SUFFICES ASSUME FrameInit PROVE FrameInv
  OBVIOUS
<1> DEFINE s == KERNEL_HEAP_START
           A == ArrayPages
           F == Frames
           m == F - 2 * A
           boot == [i \in 1..2 * A |-> F + 1 - i]
<1>1. s \in Nat \ {0} /\ A \in Nat \ {0} /\ F \in Nat /\ m \in Nat /\ 2 * A \in Nat
  BY HeapBounds, KHeapAssumption
<1>2. /\ mapped = s..s + 2 * A - 1
      /\ free_frame_list = [i \in 1..m |-> F + 1 - 2 * A - i]
      /\ entry = [p \in mapped |-> boot[p - s + 1]]
      /\ va = [f \in ToSet(boot) |-> s + F - f]
  <2>1. mapped = s..s + 2 * A - 1
    <3>1. Init
      BY DEF FrameInit
    <3>2. mapped = s..FirstAddress - 1
      BY <3>1 DEF Init
    <3>3. FirstAddress - 1 = s + 2 * A - 1
      BY <1>1, HeapBounds
    <3>4. QED
      BY <3>2, <3>3
  <2>2. /\ free_frame_list = [i \in 1..m |-> F + 1 - 2 * A - i]
        /\ entry = [p \in mapped |-> boot[p - s + 1]]
        /\ va = [f \in ToSet(boot) |-> s + F - f]
    BY Zenon DEF FrameInit, FramesInit
  <2> HIDE DEF s, A, F, m, boot
  <2>3. QED
    BY <2>1, <2>2, Zenon
<1>3. /\ free_frame_list \in Seq(1..F) /\ Len(free_frame_list) = m
      /\ \A i \in 1..m : free_frame_list[i] = m + 1 - i
  <2>1. \A i \in 1..m : F + 1 - 2 * A - i = m + 1 - i /\ F + 1 - 2 * A - i \in 1..F
    BY <1>1
  <2>2. QED
    BY <1>1, <1>2, <2>1
<1>4. \A p \in mapped : p \in Int /\ s <= p /\ p < s + 2 * A /\ entry[p] = F + s - p
  <2> SUFFICES ASSUME NEW p \in mapped
               PROVE  p \in Int /\ s <= p /\ p < s + 2 * A /\ entry[p] = F + s - p
    OBVIOUS
  <2>1. p \in Int /\ s <= p /\ p < s + 2 * A
    BY <1>1, <1>2
  <2>2. p - s + 1 \in 1..2 * A /\ F + 1 - (p - s + 1) = F + s - p
    BY <1>1, <2>1
  <2>3. entry[p] = boot[p - s + 1]
    BY <1>2
  <2>4. QED
    BY <2>1, <2>2, <2>3
<1>5. IsFiniteSet(mapped) /\ Cardinality(mapped) = 2 * A
  <2>1. mapped = s..s + 2 * A - 1 /\ s \in Int /\ s + 2 * A - 1 \in Int
    BY <1>1, <1>2
  <2>2. QED
    BY <1>1, <2>1, FS_Interval
<1>6. ToSet(boot) = {entry[p] : p \in mapped}
  <2>1. Len(boot) = 2 * A
    BY <1>1
  <2>2. \A f : f \in ToSet(boot) <=> \E i \in 1..2 * A : f = F + 1 - i
    BY <2>1 DEF ToSet
  <2>3. ASSUME NEW i \in 1..2 * A PROVE \E p \in mapped : F + 1 - i = entry[p]
    <3>1. s + i - 1 \in mapped /\ F + s - (s + i - 1) = F + 1 - i
      BY <1>1, <1>2
    <3>2. entry[s + i - 1] = F + s - (s + i - 1)
      BY <1>4, <3>1
    <3>3. QED
      BY <3>1, <3>2
  <2>4. ASSUME NEW p \in mapped PROVE \E i \in 1..2 * A : entry[p] = F + 1 - i
    <3>1. p - s + 1 \in 1..2 * A /\ F + 1 - (p - s + 1) = F + s - p
      BY <1>1, <1>4
    <3>2. QED
      BY <1>4, <3>1
  <2> HIDE DEF boot
  <2>5. QED
    BY <2>2, <2>3, <2>4
<1>7. ListInv
  BY <1>1, <1>3, <1>5 DEF ListInv
<1>8. EntryInv
  <2>1. DOMAIN entry = mapped
    BY <1>2
  <2>2. ASSUME NEW p \in mapped
        PROVE  entry[p] \in 1..F /\ entry[p] \in Int /\ entry[p] > m
    BY <1>1, <1>4
  <2>3. ASSUME NEW p \in mapped, NEW q \in mapped, entry[p] = entry[q] PROVE p = q
    BY <1>1, <1>4, <2>3
  <2>4. ASSUME NEW p \in mapped, NEW i \in 1..m PROVE free_frame_list[i] # entry[p]
    <3>1. free_frame_list[i] \in Int /\ free_frame_list[i] <= m
      BY <1>1, <1>3
    <3>2. QED
      BY <1>1, <2>2, <3>1
  <2>5. QED
    BY <1>3, <2>1, <2>2, <2>3, <2>4 DEF EntryInv
<1>9. AddressInv
  <2>1. DOMAIN va = {entry[p] : p \in mapped}
    BY <1>2, <1>6
  <2>2. ASSUME NEW p \in mapped PROVE va[entry[p]] = p
    <3>1. va[entry[p]] = s + F - entry[p]
      BY <1>2, <1>6
    <3>2. QED
      BY <1>1, <1>4, <3>1
  <2>3. QED
    BY <2>1, <2>2 DEF AddressInv
<1>10. QED
  BY <1>7, <1>8, <1>9 DEF FrameInv

\* map_frame takes the first frames of the list for the pages of the block.
LEMMA MapKeeps ==
  ASSUME HeapInv, FrameInv, NEW n \in Sizes, Given(n), map_block(returned', n)
  PROVE  FrameInv'
<1> DEFINE a == returned'
           P == Pages(a, n)
           free == free_frame_list
           L == Len(free)
<1>1. n \in Nat \ {0} /\ a \in Int /\ Frames \in Nat
  BY HeapBounds, KHeapAssumption DEF Given, Page
<1>2. /\ free \in Seq(1..Frames) /\ L \in Nat /\ \A i \in 1..L : free[i] \in 1..Frames
      /\ \A i, j \in 1..L : free[i] = free[j] => i = j
      /\ IsFiniteSet(mapped) /\ L = Frames - Cardinality(mapped)
  <2>1. /\ free \in Seq(1..Frames)
        /\ \A i, j \in 1..L : free[i] = free[j] => i = j
        /\ IsFiniteSet(mapped) /\ L = Frames - Cardinality(mapped)
    BY DEF FrameInv, ListInv
  <2>2. L \in Nat
    BY <2>1
  <2>3. ASSUME NEW i \in 1..L PROVE free[i] \in 1..Frames
    BY <2>1, ElementOfSeq, Zenon
  <2>4. QED
    BY <2>1, <2>2, <2>3
<1>3. /\ DOMAIN entry = mapped /\ \A p \in mapped : entry[p] \in 1..Frames
      /\ \A p, q \in mapped : entry[p] = entry[q] => p = q
      /\ \A p \in mapped, i \in 1..L : free[i] # entry[p]
  BY DEF FrameInv, EntryInv
<1>4. DOMAIN va = {entry[p] : p \in mapped} /\ \A p \in mapped : va[entry[p]] = p
  BY DEF FrameInv, AddressInv
<1>5. /\ IsFiniteSet(P) /\ Cardinality(P) = n
      /\ \A p : p \in P <=> p \in Int /\ a <= p /\ p < a + n
  BY <1>1, PagesNumber
<1>6. P \cap mapped = {} /\ mapped' = mapped \cup P /\ Cardinality(mapped') <= Frames
  BY DEF Given
<1> HIDE DEF a, P
<1>7. IsFiniteSet(mapped') /\ Cardinality(mapped') = Cardinality(mapped) + n
  <2>1. Cardinality(mapped) \in Nat /\ mapped \cap P = {}
    BY <1>2, <1>6, FS_CardinalityType
  <2>2. Cardinality({}) = 0
    BY FS_EmptySet
  <2>3. /\ IsFiniteSet(mapped \cup P)
        /\ Cardinality(mapped \cup P) = Cardinality(mapped) + Cardinality(P)
                                        - Cardinality(mapped \cap P)
    BY <1>2, <1>5, FS_Union
  <2>4. mapped \cap P = {} /\ Cardinality(mapped \cap P) = 0
    BY <2>1, <2>2
  <2>5. Cardinality(mapped \cup P) = Cardinality(mapped) + n - 0
    BY <1>5, <2>3, <2>4
  <2>6. Cardinality(mapped \cup P) = Cardinality(mapped) + n
    BY <1>1, <2>1, <2>5
  <2>7. QED
    BY <1>6, <2>3, <2>6
<1>8. n <= L
  BY <1>1, <1>2, <1>6, <1>7, FS_CardinalityType
<1>9. /\ free' \in Seq(1..Frames) /\ Len(free') = L - n
      /\ \A i \in 1..L - n : free'[i] = free[i + n]
  <2>1. free' = SubSeq(free, n + 1, L)
    BY DEF map_block
  <2>2. n + 1 \in 1..L + 1 /\ L \in n..L
    BY <1>1, <1>2, <1>8
  <2>3. \A i \in n + 1..L : free[i] \in 1..Frames
    BY <1>1, <1>2
  <2>4. /\ SubSeq(free, n + 1, L) \in Seq(1..Frames)
        /\ Len(SubSeq(free, n + 1, L)) = L - n
        /\ \A i \in 1..L - n : SubSeq(free, n + 1, L)[i] = free[i + n]
    BY <1>1, <1>2, <1>8
  <2>5. QED
    BY <2>1, <2>4
<1>10. /\ DOMAIN entry' = mapped'
       /\ \A p \in P : p - a + 1 \in 1..n /\ entry'[p] = free[p - a + 1]
       /\ \A p \in mapped : entry'[p] = entry[p]
  <2>1. entry' = [p \in DOMAIN entry \cup P |->
                    IF p \in P THEN free[p - a + 1] ELSE entry[p]]
    BY DEF map_block, a, P
  <2>2. DOMAIN entry' = P \cup mapped
    BY <1>3, <2>1
  <2>3. \A p \in P : entry'[p] = free[p - a + 1]
    BY <2>1
  <2>4. \A p \in mapped : entry'[p] = entry[p]
    BY <1>3, <1>6, <2>1
  <2>5. \A p \in P : p - a + 1 \in 1..n
    BY <1>1, <1>5
  <2>6. QED
    BY <1>6, <2>2, <2>3, <2>4, <2>5
<1>11. ListInv'
  <2>1. ASSUME NEW i \in 1..L - n, NEW j \in 1..L - n, free'[i] = free'[j] PROVE i = j
    <3>1. i + n \in 1..L /\ j + n \in 1..L /\ i \in Int /\ j \in Int
      BY <1>1, <1>2, <1>8
    <3>2. free[i + n] = free[j + n]
      BY <1>9, <2>1
    <3>3. i + n = j + n
      BY <1>2, <3>1, <3>2
    <3>4. QED
      BY <1>1, <3>1, <3>3
  <2>2. L - n = Frames - Cardinality(mapped')
    BY <1>1, <1>2, <1>7, FS_CardinalityType
  <2>3. QED
    BY <1>7, <1>9, <2>1, <2>2 DEF ListInv
<1>12. ASSUME NEW p \in P PROVE p - a + 1 \in 1..n /\ p - a + 1 \in 1..L /\ p \in Int
  BY <1>1, <1>2, <1>5, <1>8, <1>10
<1>13. EntryInv'
  <2>1. ASSUME NEW p \in mapped' PROVE entry'[p] \in 1..Frames
    BY <1>2, <1>3, <1>6, <1>10, <1>12
  <2>2. ASSUME NEW p \in mapped', NEW q \in mapped', entry'[p] = entry'[q] PROVE p = q
    <3>1. CASE p \in mapped /\ q \in mapped
      BY <1>3, <1>10, <2>2, <3>1
    <3>2. CASE p \in P /\ q \in P
      <4>1. free[p - a + 1] = free[q - a + 1]
        BY <1>10, <2>2, <3>2
      <4>2. p - a + 1 = q - a + 1
        BY <1>2, <1>12, <3>2, <4>1
      <4>3. QED
        BY <1>1, <1>12, <3>2, <4>2
    <3>3. CASE p \in mapped /\ q \in P
      BY <1>3, <1>10, <1>12, <2>2, <3>3
    <3>4. CASE p \in P /\ q \in mapped
      BY <1>3, <1>10, <1>12, <2>2, <3>4
    <3>5. QED
      BY <1>6, <3>1, <3>2, <3>3, <3>4
  <2>3. ASSUME NEW p \in mapped', NEW i \in 1..L - n PROVE free'[i] # entry'[p]
    <3>1. i + n \in 1..L /\ i \in Int /\ i > 0 /\ free'[i] = free[i + n]
      BY <1>1, <1>2, <1>8, <1>9
    <3>2. CASE p \in mapped
      BY <1>3, <1>10, <3>1, <3>2
    <3>3. CASE p \in P
      <4>1. entry'[p] = free[p - a + 1] /\ p - a + 1 \in 1..n /\ p - a + 1 \in 1..L
        BY <1>10, <1>12, <3>3
      <4>2. i + n # p - a + 1
        BY <1>1, <3>1, <4>1
      <4>3. QED
        BY <1>2, <3>1, <4>1, <4>2
    <3>4. QED
      BY <1>6, <3>2, <3>3
  <2>4. QED
    BY <1>9, <1>10, <2>1, <2>2, <2>3 DEF EntryInv
<1>14. AddressInv'
  <2> DEFINE q == SubSeq(free, 1, n)
             g(f) == a - 1 + CHOOSE k \in 1..n : free[k] = f
  <2>1. va' = [f \in DOMAIN va \cup ToSet(q) |-> IF f \in ToSet(q) THEN g(f) ELSE va[f]]
    BY DEF map_block, allocate_frame, a
  <2>2. \A f : f \in ToSet(q) <=> \E k \in 1..n : free[k] = f
    <3>1. /\ q \in Seq(1..Frames) /\ Len(q) = n /\ \A k \in 1..n : q[k] = free[k]
      BY <1>1, <1>2, <1>8
    <3> HIDE DEF q
    <3>2. QED
      BY <3>1 DEF ToSet
  <2> HIDE DEF q
  <2> HIDE DEF g
  <2>3. DOMAIN va' = DOMAIN va \cup ToSet(q)
    BY <2>1
  <2>4. \A f \in DOMAIN va : va'[f] = va[f]
    <3>1. \A f \in DOMAIN va : f \notin ToSet(q)
      <4>1. \A k \in 1..n : k \in 1..L
        BY <1>1, <1>2, <1>8
      <4>2. QED
        BY <1>3, <1>4, <2>2, <4>1
    <3>2. QED
      BY <2>1, <3>1
  <2>5. ASSUME NEW p \in P PROVE free[p - a + 1] \in ToSet(q) /\ va'[free[p - a + 1]] = p
    <3> DEFINE k == p - a + 1
    <3>1. k \in 1..n /\ k \in 1..L /\ p \in Int
      BY <1>12
    <3> HIDE DEF k
    <3>2. free[k] \in ToSet(q)
      BY <2>2, <3>1
    <3>3. va'[free[k]] = g(free[k])
      BY <2>1, <2>3, <3>2
    <3>4. \A j \in 1..n : free[j] = free[k] => j = k
      <4>1. \A j \in 1..n : j \in 1..L
        BY <1>1, <1>2, <1>8
      <4>2. QED
        BY <1>2, <3>1, <4>1
    <3>5. (CHOOSE j \in 1..n : free[j] = free[k]) = k
      BY <3>1, <3>4
    <3>6. g(free[k]) = a - 1 + k
      BY <3>5 DEF g
    <3>7. a - 1 + k = p
      BY <1>1, <3>1 DEF k
    <3>8. QED
      BY <3>2, <3>3, <3>6, <3>7 DEF k
  <2>6. ASSUME NEW p \in mapped' PROVE entry'[p] \in DOMAIN va' /\ va'[entry'[p]] = p
    <3>1. CASE p \in mapped
      BY <1>4, <1>10, <2>3, <2>4, <3>1
    <3>2. CASE p \in P
      BY <1>10, <2>3, <2>5, <3>2
    <3>3. QED
      BY <1>6, <3>1, <3>2
  <2>7. ASSUME NEW f \in DOMAIN va' PROVE \E p \in mapped' : f = entry'[p]
    <3>1. CASE f \in DOMAIN va
      BY <1>4, <1>6, <1>10, <3>1
    <3>2. CASE f \in ToSet(q)
      <4>1. PICK k \in 1..n : free[k] = f
        BY <2>2, <3>2
      <4>2. PICK p \in Int : p = a - 1 + k
        BY <1>1
      <4>3. p \in P /\ p - a + 1 = k
        BY <1>1, <1>5, <4>2
      <4>4. entry'[p] = free[p - a + 1]
        BY <1>10, <4>3
      <4>5. entry'[p] = f
        BY <4>1, <4>3, <4>4
      <4>6. QED
        BY <1>6, <4>3, <4>5
    <3>3. QED
      BY <2>3, <3>1, <3>2
  <2>8. DOMAIN va' = {entry'[p] : p \in mapped'}
    BY <2>6, <2>7
  <2>9. QED
    BY <2>6, <2>8 DEF AddressInv
<1>15. QED
  BY <1>11, <1>13, <1>14 DEF FrameInv

\* unmap_frame gives the frames of the block back to the head of the list.
LEMMA UnmapKeeps ==
  ASSUME FrameInv, NEW a \in Int, NEW n \in Nat \ {0},
         Pages(a, n) \subseteq mapped, mapped' = mapped \ Pages(a, n),
         unmap_block(a, Cardinality(mapped) - Cardinality(mapped'))
  PROVE  FrameInv'
<1> DEFINE P == Pages(a, n)
           free == free_frame_list
           L == Len(free)
           q == [i \in 1..n |-> entry[a + i - 1]]
           r == Reverse(q)
<1>1. /\ free \in Seq(1..Frames) /\ L \in Nat
      /\ \A i, j \in 1..L : free[i] = free[j] => i = j
      /\ IsFiniteSet(mapped) /\ L = Frames - Cardinality(mapped) /\ Frames \in Nat
  BY KHeapAssumption DEF FrameInv, ListInv
<1>2. /\ DOMAIN entry = mapped /\ \A p \in mapped : entry[p] \in 1..Frames
      /\ \A p, x \in mapped : entry[p] = entry[x] => p = x
      /\ \A p \in mapped, i \in 1..L : free[i] # entry[p]
  BY DEF FrameInv, EntryInv
<1>3. DOMAIN va = {entry[p] : p \in mapped} /\ \A p \in mapped : va[entry[p]] = p
  BY DEF FrameInv, AddressInv
<1>4. /\ IsFiniteSet(P) /\ Cardinality(P) = n
      /\ \A p : p \in P <=> p \in Int /\ a <= p /\ p < a + n
  BY PagesNumber
<1>5. P \subseteq mapped /\ mapped' = mapped \ P
  OBVIOUS
<1> HIDE DEF P
<1>6. /\ IsFiniteSet(mapped') /\ Cardinality(mapped') = Cardinality(mapped) - n
      /\ Cardinality(mapped) \in Nat
  <2>1. /\ IsFiniteSet(mapped \ P)
        /\ Cardinality(mapped \ P) = Cardinality(mapped) - Cardinality(mapped \cap P)
    BY <1>1, FS_Difference
  <2>2. mapped \cap P = P
    BY <1>5
  <2>3. QED
    BY <1>1, <1>4, <1>5, <2>1, <2>2, FS_CardinalityType
<1>7. Cardinality(mapped) - Cardinality(mapped') = n
  BY <1>6
<1>8. /\ free' = r \o free
      /\ entry' = Restrict(entry, DOMAIN entry \ P)
      /\ va' = Restrict(va, DOMAIN va \ {entry[p] : p \in P})
  BY <1>7 DEF unmap_block, P
<1>9. \A i \in 1..n : a + i - 1 \in P /\ a + i - 1 \in mapped /\ a + i - 1 \in Int
  BY <1>4, <1>5
<1>10. /\ q \in Seq(1..Frames) /\ Len(q) = n
       /\ \A i \in 1..n : q[i] = entry[a + i - 1]
  <2>1. \A i \in 1..n : entry[a + i - 1] \in 1..Frames
    BY <1>2, <1>9
  <2>2. QED
    BY <2>1
<1> HIDE DEF q
<1>11. /\ r \in Seq(1..Frames) /\ Len(r) = n
       /\ \A i \in 1..n : r[i] = q[n - i + 1]
  BY <1>10, ReverseElements
<1> HIDE DEF r
<1>12. ASSUME NEW i \in 1..n PROVE \E p \in P : p = a + n - i /\ r[i] = entry[p]
  <2>1. n - i + 1 \in 1..n /\ a + (n - i + 1) - 1 = a + n - i
    OBVIOUS
  <2>2. r[i] = entry[a + (n - i + 1) - 1] /\ a + (n - i + 1) - 1 \in P
    BY <1>9, <1>10, <1>11, <2>1
  <2>3. QED
    BY <2>1, <2>2
<1>13. /\ free' \in Seq(1..Frames) /\ Len(free') = n + L
       /\ \A i \in 1..n : free'[i] = r[i]
       /\ \A i \in 1..L : free'[n + i] = free[i]
  <2>1. /\ r \o free \in Seq(1..Frames) /\ Len(r \o free) = Len(r) + L
        /\ \A i \in 1..Len(r) : (r \o free)[i] = r[i]
        /\ \A i \in 1..L : (r \o free)[Len(r) + i] = free[i]
    <3> HIDE DEF free
    <3>1. r \in Seq(1..Frames) /\ free \in Seq(1..Frames)
      BY <1>1, <1>11
    <3>2. QED
      BY <3>1, ConcatParts
  <2>2. Len(r) = n /\ free' = r \o free
    BY <1>8, <1>11
  <2>3. QED
    BY <2>1, <2>2, Zenon
<1>14. DOMAIN entry' = mapped' /\ \A p \in mapped' : entry'[p] = entry[p]
  BY <1>2, <1>5, <1>8 DEF Restrict
<1>15. ASSUME NEW i \in 1..n + L, ~(i \in 1..n)
       PROVE  i - n \in 1..L /\ n + (i - n) = i /\ free'[i] = free[i - n]
  <2>1. i - n \in 1..L /\ n + (i - n) = i
    BY <1>1, <1>15
  <2>2. QED
    BY <1>13, <2>1
<1>16. ASSUME NEW i \in 1..n, NEW j \in 1..n + L, j \notin 1..n PROVE free'[i] # free'[j]
  <2>1. PICK p \in P : r[i] = entry[p]
    BY <1>12
  <2>2. j - n \in 1..L /\ free'[j] = free[j - n]
    BY <1>15, <1>16
  <2>3. free[j - n] # entry[p]
    BY <1>2, <1>5, <2>1, <2>2
  <2>4. QED
    BY <1>13, <2>1, <2>2, <2>3
<1>17. ListInv'
  <2>1. ASSUME NEW i \in 1..n + L, NEW j \in 1..n + L, free'[i] = free'[j] PROVE i = j
    <3>1. CASE i \in 1..n /\ j \in 1..n
      <4>1. PICK p \in P : p = a + n - i /\ r[i] = entry[p]
        BY <1>12, <3>1
      <4>2. PICK x \in P : x = a + n - j /\ r[j] = entry[x]
        BY <1>12, <3>1
      <4>3. p = x
        BY <1>2, <1>5, <1>13, <2>1, <3>1, <4>1, <4>2
      <4>4. QED
        BY <4>1, <4>2, <4>3
    <3>2. CASE i \in 1..n /\ j \notin 1..n
      BY <1>16, <2>1, <3>2
    <3>3. CASE i \notin 1..n /\ j \in 1..n
      BY <1>16, <2>1, <3>3
    <3>4. CASE i \notin 1..n /\ j \notin 1..n
      <4>1. i - n \in 1..L /\ n + (i - n) = i /\ free'[i] = free[i - n]
        BY <1>15, <3>4
      <4>2. j - n \in 1..L /\ n + (j - n) = j /\ free'[j] = free[j - n]
        BY <1>15, <3>4
      <4>3. i - n = j - n
        BY <1>1, <2>1, <4>1, <4>2
      <4>4. QED
        BY <4>1, <4>2, <4>3
    <3>5. QED
      BY <3>1, <3>2, <3>3, <3>4
  <2>2. n + L = Frames - Cardinality(mapped')
    BY <1>1, <1>6
  <2>3. QED
    BY <1>6, <1>13, <2>1, <2>2 DEF ListInv
<1>18. EntryInv'
  <2>1. ASSUME NEW p \in mapped', NEW i \in 1..n + L PROVE free'[i] # entry'[p]
    <3>1. p \in mapped /\ p \notin P /\ entry'[p] = entry[p]
      BY <1>5, <1>14
    <3>2. CASE i \in 1..n
      BY <1>2, <1>5, <1>12, <1>13, <3>1, <3>2
    <3>3. CASE i \notin 1..n
      BY <1>2, <1>15, <3>1, <3>3
    <3>4. QED
      BY <3>2, <3>3
  <2>2. \A p \in mapped' : entry'[p] \in 1..Frames
    BY <1>2, <1>5, <1>14
  <2>3. \A p, x \in mapped' : entry'[p] = entry'[x] => p = x
    BY <1>2, <1>5, <1>14
  <2>4. QED
    BY <1>13, <1>14, <2>1, <2>2, <2>3 DEF EntryInv
<1>19. AddressInv'
  <2>1. DOMAIN va' = DOMAIN va \ {entry[p] : p \in P}
    BY <1>8 DEF Restrict
  <2>2. \A f \in DOMAIN va' : va'[f] = va[f]
    BY <1>8, <2>1 DEF Restrict
  <2>3. DOMAIN va' = {entry'[p] : p \in mapped'}
    <3>1. ASSUME NEW f \in DOMAIN va' PROVE \E p \in mapped' : f = entry'[p]
      <4>1. PICK p \in mapped : f = entry[p]
        BY <1>3, <2>1
      <4>2. p \notin P
        BY <2>1, <4>1
      <4>3. QED
        BY <1>5, <1>14, <4>1, <4>2
    <3>2. ASSUME NEW p \in mapped' PROVE entry'[p] \in DOMAIN va'
      <4>1. p \in mapped /\ p \notin P /\ entry'[p] = entry[p]
        BY <1>5, <1>14
      <4>2. \A x \in P : entry[x] # entry[p]
        BY <1>2, <1>5, <4>1
      <4>3. QED
        BY <1>3, <2>1, <4>1, <4>2
    <3>3. QED
      BY <3>1, <3>2
  <2>4. \A p \in mapped' : va'[entry'[p]] = p
    BY <1>3, <1>5, <1>14, <2>2, <2>3
  <2>5. QED
    BY <2>3, <2>4 DEF AddressInv
<1>20. QED
  BY <1>17, <1>18, <1>19 DEF FrameInv

\* A step that leaves the pages and the frames alone keeps them right.
LEMMA FramesStay ==
  ASSUME FrameInv, mapped' = mapped, UNCHANGED frameVars
  PROVE  FrameInv'
BY DEF FrameInv, ListInv, EntryInv, AddressInv, frameVars

\* Every step keeps the frames right.
LEMMA FramesStep ==
  ASSUME HeapInv, FrameInv, [FrameNext]_<<vars, frameVars>>
  PROVE  FrameInv'
<1>1. ASSUME NEW n \in Sizes, kmallocFrames(n) PROVE FrameInv'
  <2>1. kmalloc(n)
    BY <1>1 DEF kmallocFrames
  <2>2. CASE returned' = 0
    <3>1. UNCHANGED frameVars
      BY <1>1, <2>2 DEF kmallocFrames
    <3>2. 0 \notin Page
      BY HeapBounds DEF Page
    <3>3. mapped' = mapped
      BY <2>1, <2>2, <3>2, MallocMaps DEF Given
    <3>4. QED
      BY <3>1, <3>3, FramesStay
  <2>3. CASE returned' # 0
    <3>1. map_block(returned', n)
      BY <1>1, <2>3 DEF kmallocFrames
    <3>2. Given(n)
      BY <2>1, <2>3, MallocMaps
    <3>3. QED
      BY <3>1, <3>2, MapKeeps
  <2>4. QED
    BY <2>2, <2>3
<1>2. ASSUME NEW page \in FirstAddress..KERNEL_HEAP_MAX - 1, kfreeFrames(page)
      PROVE  FrameInv'
  <2>1. PICK n \in Nat \ {0} : Pages(page, n) \subseteq mapped
                               /\ mapped' = mapped \ Pages(page, n)
    BY <1>2, FreeUnmaps DEF kfreeFrames
  <2>2. unmap_block(page, Cardinality(mapped) - Cardinality(mapped'))
    BY <1>2 DEF kfreeFrames
  <2>3. page \in Int
    BY HeapBounds
  <2>4. QED
    BY <2>1, <2>2, <2>3, UnmapKeeps
<1>3. ASSUME NEW page, kfree_nothing(page), UNCHANGED frameVars PROVE FrameInv'
  BY <1>3, FramesStay DEF kfree_nothing, vars
<1>4. ASSUME NEW s, setKHeapPlacementStrategy(s), UNCHANGED frameVars PROVE FrameInv'
  BY <1>4, FramesStay DEF setKHeapPlacementStrategy
<1>5. ASSUME UNCHANGED <<vars, frameVars>> PROVE FrameInv'
  BY <1>5, FramesStay DEF vars
<1>6. QED
  BY <1>1, <1>2, <1>3, <1>4, <1>5 DEF FrameNext

\* The heap with its frames steps as the heap alone.
LEMMA FramesFollowHeap == [FrameNext]_<<vars, frameVars>> => [Next]_vars
<1>1. FrameNext => Next
  BY DEF FrameNext, Next, kmallocFrames, kfreeFrames
<1>2. QED
  BY <1>1

(***************************************************************************)
(* kern/kheap.c and the frames of kern/memory_manager.c: for every heap,   *)
(* every sequence of kmalloc and kfree and every number of frames,         *)
(* kheap_virtual_address and kheap_physical_address are inverse to each    *)
(* other on what is in use, a frame that kfree gave back has no virtual    *)
(* address and a page that is not mapped no frame.                         *)
(***************************************************************************)
THEOREM TranslationsAreInverse ==
  ASSUME KeptApart
  PROVE  FrameSpec => []TranslationsInverse
<1>1. FrameInit => HeapInv /\ FrameInv
  BY HeapInitial, FramesInitial DEF FrameInit
<1>2. HeapInv /\ FrameInv /\ [FrameNext]_<<vars, frameVars>> => HeapInv' /\ FrameInv'
  BY HeapStep, FramesStep, FramesFollowHeap
<1>3. FrameInv => TranslationsInverse
  <2> SUFFICES ASSUME FrameInv PROVE TranslationsInverse
    OBVIOUS
  <2>1. /\ DOMAIN entry = mapped /\ \A p, q \in mapped : entry[p] = entry[q] => p = q
        /\ \A p \in mapped, i \in 1..Len(free_frame_list) : free_frame_list[i] # entry[p]
        /\ DOMAIN va = {entry[p] : p \in mapped} /\ \A p \in mapped : va[entry[p]] = p
    BY DEF FrameInv, EntryInv, AddressInv
  <2>2. \A p \in mapped : kheap_virtual_address(kheap_physical_address(p)) = p
    BY <2>1 DEF kheap_virtual_address, kheap_physical_address
  <2>3. \A f \in DOMAIN va : kheap_physical_address(kheap_virtual_address(f)) = f
    BY <2>1 DEF kheap_virtual_address, kheap_physical_address
  <2>4. \A f \in ToSet(free_frame_list) : kheap_virtual_address(f) = 0
    BY <2>1 DEF kheap_virtual_address, ToSet
  <2>5. \A p \in Page \ mapped : kheap_physical_address(p) = 0
    BY <2>1 DEF kheap_physical_address
  <2>6. QED
    BY <2>2, <2>3, <2>4, <2>5 DEF TranslationsInverse
<1>4. QED
  BY <1>1, <1>2, <1>3, PTL DEF FrameSpec
=============================================================================
