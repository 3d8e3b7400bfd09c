-------------------------- MODULE SharedMemoryProofs --------------------------
(***************************************************************************)
(* Shared variables stay shared: the proof for any number of programs,     *)
(* objects, names and frames, as long as no object is replaced by a larger *)
(* one between the two system calls of an sget for it.                     *)
(***************************************************************************)
EXTENDS SharedMemory, ListProofs, FiniteSetTheorems

UserBlock == Inside(USER_HEAP_START, USER_HEAP_MAX)

Holding == [va: Page, slot: Slot, frames: Seq(Frame)]

Request == [owner: Env, name: Name, size: Nat]

\* The free blocks of a program lie apart, and none overlaps what it has taken.
HeapsOK ==
  /\ free_list \in [Env -> Seq(UserBlock)] /\ taken_list \in [Env -> Seq(UserBlock)]
  /\ \A e \in Env : /\ Spread(free_list[e]) /\ Disjoint(taken_list[e])
                    /\ Held(free_list[e]) \cap Held(taken_list[e]) = {}

\* Every address a program holds is the start of a taken block of its own, which
\* is large enough for what is mapped there.
HoldingsOK ==
  /\ blocks \in [Env -> SUBSET Page] /\ held \in [Env -> SUBSET Holding]
  /\ \A e \in Env :
       /\ \A a \in blocks[e] : \E b \in ToSet(taken_list[e]) : b.start = a
       /\ \A h \in held[e] :
            /\ h.frames # <<>> /\ h.va \notin blocks[e]
            /\ \E b \in ToSet(taken_list[e]) : b.start = h.va /\ Len(h.frames) <= b.size
       /\ \A g, h \in held[e] : g.va = h.va => g = h

\* A program has mapped the objects it holds and nothing else.
MapsOK ==
  /\ page_table \in [Env -> [Page -> Frame \cup {NULL}]]
  /\ \A e \in Env : \A h \in held[e] : \A k \in 1..Len(h.frames) :
       page_table[e][h.va + k - 1] = h.frames[k]
  /\ NothingStaysMapped

Holders(i) == UNION {{<<e, h>> : h \in {g \in held[e] : g.slot = i}} : e \in Env}

\* The array describes the objects that are held: each has a name of its own, its
\* frames are those its holders see, and it lives as long as it has a holder.
SharesOK ==
  ~Lost =>
    /\ shares \in [Slot -> Share]
    /\ \A i \in Slot :
         /\ IsFiniteSet(Holders(i)) /\ shares[i].references = Cardinality(Holders(i))
         /\ shares[i].empty => shares[i] = EmptyShare
         /\ ~shares[i].empty => /\ shares[i].references # 0
                                /\ shares[i].size = Len(shares[i].frames)
                                /\ shares[i].size # 0
    /\ \A i, j \in Slot : i # j =>
         /\ ToSet(shares[i].frames) \cap ToSet(shares[j].frames) = {}
         /\ ~shares[i].empty => ~Matches(j, shares[i].ownerID, shares[i].name)
    /\ \A e \in Env : \A h \in held[e] :
         ~shares[h.slot].empty /\ shares[h.slot].frames = h.frames

\* An object is at most as large as an sget for it has been told.
PendingOK ==
  /\ pending \in [Env -> {NULL} \cup Request]
  /\ \A e \in Env : pending[e] # NULL =>
       /\ pending[e].size # 0
       /\ ~Lost => \A i \in Slot : Matches(i, pending[e].owner, pending[e].name)
                                     => shares[i].size <= pending[e].size

\* The inductive invariant of shared memory.
SharedInv == /\ HeapsOK /\ HoldingsOK /\ MapsOK /\ SharesOK /\ PendingOK
             /\ killed \subseteq Env

\* The bounds of a program's heap are numbers, and its pages lie between them.
LEMMA UserBounds ==
  /\ USER_HEAP_START \in Nat /\ USER_HEAP_MAX \in Nat /\ USER_HEAP_START < USER_HEAP_MAX
  /\ Slot \subseteq Nat /\ Page \subseteq Nat
  /\ \A p \in Int : p \in Page <=> USER_HEAP_START <= p /\ p < USER_HEAP_MAX
  /\ \A n \in Sizes : n \in Nat \ {0}
  /\ NULL \notin Frame /\ NULL \notin Env
BY SharedAssumption DEF Slot, Page

\* The pages of a block of the kind are pages of the heap, and the first is one.
LEMMA BlockInPage ==
  ASSUME NEW b \in UserBlock
  PROVE  /\ b.start \in Page /\ b.size \in Nat \ {0} /\ Pages(b.start, b.size) \subseteq Page
         /\ \A m \in Nat : m <= b.size => Pages(b.start, m) \subseteq Pages(b.start, b.size)
         /\ b.start \in Pages(b.start, b.size)
<1>1. /\ b.start \in Int /\ b.size \in Nat \ {0}
      /\ USER_HEAP_START <= b.start /\ b.start + b.size <= USER_HEAP_MAX
  BY UserBounds, BlockFields DEF UserBlock
<1>2. PICK s \in Int, z \in Nat \ {0} : s = b.start /\ z = b.size
  BY <1>1
<1>3. \A p : p \in Pages(s, z) => /\ p \in Int /\ s <= p /\ p < s + z
  BY DEF Pages
<1>4. Pages(s, z) \subseteq Page
  BY <1>1, <1>2, <1>3, UserBounds
<1>5. \A m \in Nat : m <= z => Pages(s, m) \subseteq Pages(s, z)
  BY DEF Pages
<1>6. s \in Pages(s, z)
  BY DEF Pages
<1>7. QED
  BY <1>1, <1>2, <1>4, <1>5, <1>6

\* A taken block holds its pages, and no two blocks taken by a program share one.
LEMMA TakenApart ==
  ASSUME HeapsOK, NEW e \in Env, NEW b \in ToSet(taken_list[e]), NEW c \in ToSet(taken_list[e])
  PROVE  /\ b \in UserBlock
         /\ Pages(b.start, b.size) \subseteq Held(taken_list[e])
         /\ b # c => Pages(b.start, b.size) \cap Pages(c.start, c.size) = {}
<1>1. taken_list[e] \in Seq(UserBlock) /\ Disjoint(taken_list[e])
  BY DEF HeapsOK
<1>2. PICK i \in 1..Len(taken_list[e]), j \in 1..Len(taken_list[e]) :
        taken_list[e][i] = b /\ taken_list[e][j] = c
  BY DEF ToSet
<1>3. b \in UserBlock
  BY <1>1, <1>2, ElementOfSeq
<1>4. Pages(b.start, b.size) \subseteq Held(taken_list[e])
  BY DEF Held
<1>5. b # c => Pages(b.start, b.size) \cap Pages(c.start, c.size) = {}
  BY <1>1, <1>2 DEF Disjoint
<1>6. QED
  BY <1>3, <1>4, <1>5

\* What first_fit_user gives is a block of free pages; it is taken and no longer free.
LEMMA UserTakes ==
  ASSUME HeapsOK, NEW e \in Env, NEW n \in Nat \ {0}, NEW a \in Page,
         first_fit_user(e, n, a)
  PROVE  /\ HeapsOK'
         /\ [start |-> a, size |-> n] \in UserBlock
         /\ Pages(a, n) \cap Held(taken_list[e]) = {}
         /\ ToSet(taken_list'[e]) = ToSet(taken_list[e]) \cup {[start |-> a, size |-> n]}
         /\ \A d \in Env : d # e => taken_list'[d] = taken_list[d]
<1> DEFINE q == free_list[e]
           t == taken_list[e]
           b == [start |-> a, size |-> n]
           u == <<b>> \o t
<1>1. /\ free_list \in [Env -> Seq(UserBlock)] /\ taken_list \in [Env -> Seq(UserBlock)]
      /\ q \in Seq(UserBlock) /\ t \in Seq(UserBlock)
      /\ Spread(q) /\ Disjoint(t) /\ Held(q) \cap Held(t) = {}
  BY DEF HeapsOK
<1>2. PICK i \in Fits(e, n) :
        /\ a = free_list[e][i].start
        /\ free_list' = [free_list EXCEPT ![e] = Cut(@, i, n)]
        /\ taken_list' = [taken_list EXCEPT ![e] = <<[start |-> a, size |-> n]>> \o @]
  BY DEF first_fit_user
<1>3. i \in 1..Len(q) /\ q[i].size >= n /\ a = q[i].start
  BY <1>2 DEF Fits
<1>4. /\ free_list' = [free_list EXCEPT ![e] = Cut(q, i, n)]
      /\ taken_list' = [taken_list EXCEPT ![e] = u]
  BY <1>2
<1>5. q[i] \in UserBlock
  BY <1>1, <1>3, ElementOfSeq
<1>6. /\ a \in Int /\ q[i].size \in Nat \ {0} /\ USER_HEAP_START <= a
      /\ a + q[i].size <= USER_HEAP_MAX /\ n <= q[i].size
      /\ USER_HEAP_START \in Int /\ USER_HEAP_MAX \in Int
  BY <1>3, <1>5, BlockFields, UserBounds DEF UserBlock
<1>7. b \in UserBlock
  <2>1. PICK z \in Nat : z = q[i].size
    BY <1>6
  <2>2. a + n <= USER_HEAP_MAX
    BY <1>6, <2>1
  <2>3. QED
    BY <1>6, <2>2, BlockIs DEF UserBlock
<1>8. Pages(a, n) \subseteq Held(q)
  <2>1. Pages(a, n) \subseteq Pages(q[i].start, q[i].size)
    BY <1>3, <1>5, <1>6, BlockInPage
  <2>2. Pages(q[i].start, q[i].size) \subseteq Held(q)
    BY <1>3 DEF Held, ToSet
  <2>3. QED
    BY <2>1, <2>2
<1>9. /\ Cut(q, i, n) \in Seq(UserBlock) /\ Spread(Cut(q, i, n))
      /\ Held(Cut(q, i, n)) = Held(q) \ Pages(a, n)
  BY <1>1, <1>3, <1>6, CutHolds DEF UserBlock
<1>10. Pages(a, n) \cap Held(t) = {}
  BY <1>1, <1>8
<1>11. u \in Seq(UserBlock) /\ Placed(t, u, 1, b)
  <2> HIDE DEF t, b, u
  <2>1. /\ u \in Seq(UserBlock) /\ Len(u) = Len(t) + 1
        /\ \A j \in 1..Len(t) + 1 : u[j] = IF j = 1 THEN b ELSE t[j - 1]
    BY <1>1, <1>7, ConsElements DEF u
  <2>2. Len(t) \in Nat
    BY <1>1
  <2>3. QED
    BY <2>1, <2>2 DEF Placed
<1>12. b.start = a /\ b.size = n
  OBVIOUS
<1>13. /\ ToSet(u) = ToSet(t) \cup {b} /\ Held(u) = Held(t) \cup Pages(a, n)
       /\ Disjoint(u)
  <2> HIDE DEF t, b, u
  <2>1. 1 \in 1..Len(t) + 1
    BY <1>1
  <2>2. /\ ToSet(u) = ToSet(t) \cup {b}
        /\ Held(u) = Held(t) \cup Pages(b.start, b.size)
    BY <1>1, <1>6, <1>7, <1>11, <2>1, PlacedHolds DEF UserBlock
  <2>3. Disjoint(u)
    BY <1>1, <1>6, <1>7, <1>10, <1>11, <1>12, <2>1, PlacedDisjoint DEF UserBlock
  <2>4. QED
    BY <1>12, <2>2, <2>3
<1> HIDE DEF q, t, b, u
<1>14. /\ free_list' \in [Env -> Seq(UserBlock)] /\ taken_list' \in [Env -> Seq(UserBlock)]
       /\ free_list'[e] = Cut(q, i, n) /\ taken_list'[e] = u
       /\ \A d \in Env : d # e => /\ free_list'[d] = free_list[d]
                                  /\ taken_list'[d] = taken_list[d]
  BY <1>1, <1>4, <1>9, <1>11
<1>15. Held(free_list'[e]) \cap Held(taken_list'[e]) = {}
  BY <1>1, <1>9, <1>13, <1>14
<1>16. \A d \in Env : /\ Spread(free_list'[d]) /\ Disjoint(taken_list'[d])
                      /\ Held(free_list'[d]) \cap Held(taken_list'[d]) = {}
  <2> SUFFICES ASSUME NEW d \in Env
               PROVE  /\ Spread(free_list'[d]) /\ Disjoint(taken_list'[d])
                      /\ Held(free_list'[d]) \cap Held(taken_list'[d]) = {}
    OBVIOUS
  <2>1. CASE d = e
    BY <1>9, <1>13, <1>14, <1>15, <2>1
  <2>2. CASE d # e
    BY <1>14, <2>2 DEF HeapsOK
  <2>3. QED
    BY <2>1, <2>2
<1>17. HeapsOK'
  BY <1>14, <1>16 DEF HeapsOK
<1>18. QED
  BY <1>7, <1>10, <1>13, <1>14, <1>17 DEF t, b

\* The pages of a range are its first page and those after it, counted from 1.
LEMMA PagesCounted ==
  ASSUME NEW a \in Int, NEW n \in Nat
  PROVE  /\ \A k \in 1..n : a + k - 1 \in Pages(a, n) /\ (a + k - 1) - a + 1 = k
         /\ \A p \in Pages(a, n) : p - a + 1 \in 1..n /\ a + (p - a + 1) - 1 = p
BY DEF Pages

\* What a program holds is mapped inside a block it has taken.
LEMMA HoldingPages ==
  ASSUME HeapsOK, HoldingsOK, NEW e \in Env, NEW h \in held[e]
  PROVE  /\ h.va \in Page /\ h.slot \in Slot /\ h.frames \in Seq(Frame)
         /\ Len(h.frames) \in Nat \ {0}
         /\ \A k \in 1..Len(h.frames) : h.va + k - 1 \in Pages(h.va, Len(h.frames))
         /\ Pages(h.va, Len(h.frames)) \subseteq Page
         /\ Pages(h.va, Len(h.frames)) \subseteq Held(taken_list[e])
         /\ h.va \in Held(taken_list[e])
         /\ \E b \in ToSet(taken_list[e]) :
              /\ b.start = h.va /\ Len(h.frames) <= b.size
              /\ Pages(h.va, Len(h.frames)) \subseteq Pages(b.start, b.size)
<1>1. /\ h \in Holding /\ h.frames # <<>>
      /\ \E b \in ToSet(taken_list[e]) : b.start = h.va /\ Len(h.frames) <= b.size
  BY DEF HoldingsOK
<1>2. h.va \in Page /\ h.slot \in Slot /\ h.frames \in Seq(Frame)
  BY <1>1 DEF Holding
<1>3. Len(h.frames) \in Nat \ {0}
  BY <1>1, <1>2, EmptySeq
<1>4. PICK b \in ToSet(taken_list[e]) : b.start = h.va /\ Len(h.frames) <= b.size
  BY <1>1
<1>5. b \in UserBlock /\ Pages(b.start, b.size) \subseteq Held(taken_list[e])
  BY TakenApart
<1>6. Pages(h.va, Len(h.frames)) \subseteq Pages(b.start, b.size)
  BY <1>3, <1>4, <1>5, BlockInPage
<1>7. Pages(b.start, b.size) \subseteq Page /\ b.start \in Pages(b.start, b.size)
  BY <1>5, BlockInPage
<1>8. \A k \in 1..Len(h.frames) : h.va + k - 1 \in Pages(h.va, Len(h.frames))
  <2>1. PICK a \in Page, n \in Nat : a = h.va /\ n = Len(h.frames)
    BY <1>2, <1>3
  <2>2. a \in Int
    BY UserBounds
  <2>3. \A k \in 1..n : a + k - 1 \in Pages(a, n)
    BY <2>2, PagesCounted
  <2>4. QED
    BY <2>1, <2>3
<1>9. QED
  BY <1>2, <1>3, <1>4, <1>5, <1>6, <1>7, <1>8

\* Two objects a program holds share no page.
LEMMA HoldingsApart ==
  ASSUME HeapsOK, HoldingsOK, NEW e \in Env, NEW g \in held[e], NEW h \in held[e], g # h
  PROVE  Pages(g.va, Len(g.frames)) \cap Pages(h.va, Len(h.frames)) = {}
<1>1. PICK b \in ToSet(taken_list[e]) :
        b.start = g.va /\ Pages(g.va, Len(g.frames)) \subseteq Pages(b.start, b.size)
  BY HoldingPages
<1>2. PICK c \in ToSet(taken_list[e]) :
        c.start = h.va /\ Pages(h.va, Len(h.frames)) \subseteq Pages(c.start, c.size)
  BY HoldingPages
<1>3. b # c
  BY <1>1, <1>2 DEF HoldingsOK
<1>4. Pages(b.start, b.size) \cap Pages(c.start, c.size) = {}
  BY <1>3, TakenApart
<1>5. QED
  BY <1>1, <1>2, <1>4

\* A new address from malloc leaves what is held as it is.
LEMMA BlocksGrow ==
  ASSUME HeapsOK, HoldingsOK, NEW e \in Env, NEW n \in Nat \ {0}, NEW a \in Page,
         first_fit_user(e, n, a), blocks' = [blocks EXCEPT ![e] = @ \cup {a}], held' = held
  PROVE  HoldingsOK'
<1> DEFINE b == [start |-> a, size |-> n]
<1>1. /\ b \in UserBlock /\ Pages(a, n) \cap Held(taken_list[e]) = {}
      /\ ToSet(taken_list'[e]) = ToSet(taken_list[e]) \cup {b}
      /\ \A d \in Env : d # e => taken_list'[d] = taken_list[d]
  BY UserTakes
<1>2. b.start = a /\ b.size = n
  OBVIOUS
<1> HIDE DEF b
<1>3. /\ blocks \in [Env -> SUBSET Page] /\ blocks' \in [Env -> SUBSET Page]
      /\ held' \in [Env -> SUBSET Holding]
      /\ blocks'[e] = blocks[e] \cup {a}
      /\ \A d \in Env : d # e => blocks'[d] = blocks[d]
  BY DEF HoldingsOK
<1>4. a \in Pages(a, n)
  BY <1>1, <1>2, BlockInPage
<1>5. \A h \in held[e] : h.va # a
  BY <1>1, <1>4, HoldingPages
<1>6. \A d \in Env : \A c \in blocks'[d] : \E x \in ToSet(taken_list'[d]) : x.start = c
  <2> SUFFICES ASSUME NEW d \in Env, NEW c \in blocks'[d]
               PROVE  \E x \in ToSet(taken_list'[d]) : x.start = c
    OBVIOUS
  <2>1. CASE d = e /\ c = a
    BY <1>1, <1>2, <2>1
  <2>2. CASE c \in blocks[d]
    BY <1>1, <2>2 DEF HoldingsOK
  <2>3. QED
    BY <1>3, <2>1, <2>2
<1>7. \A d \in Env : \A h \in held[d] :
        /\ h.frames # <<>> /\ h.va \notin blocks'[d]
        /\ \E x \in ToSet(taken_list'[d]) : x.start = h.va /\ Len(h.frames) <= x.size
  <2> SUFFICES ASSUME NEW d \in Env, NEW h \in held[d]
               PROVE  /\ h.frames # <<>> /\ h.va \notin blocks'[d]
                      /\ \E x \in ToSet(taken_list'[d]) :
                           x.start = h.va /\ Len(h.frames) <= x.size
    OBVIOUS
  <2>1. /\ h.frames # <<>> /\ h.va \notin blocks[d]
        /\ \E x \in ToSet(taken_list[d]) : x.start = h.va /\ Len(h.frames) <= x.size
    BY DEF HoldingsOK
  <2>2. ToSet(taken_list[d]) \subseteq ToSet(taken_list'[d])
    BY <1>1
  <2>3. h.va \notin blocks'[d]
    BY <1>3, <1>5, <2>1
  <2>4. QED
    BY <2>1, <2>2, <2>3
<1>8. QED
  BY <1>3, <1>6, <1>7 DEF HoldingsOK

\* What is held and mapped stays so when only more blocks are taken.
LEMMA OnlyTaken ==
  ASSUME HoldingsOK, MapsOK, UNCHANGED <<page_table, blocks, held>>,
         \A d \in Env : ToSet(taken_list[d]) \subseteq ToSet(taken_list'[d])
  PROVE  HoldingsOK' /\ MapsOK'
<1>1. page_table' = page_table /\ blocks' = blocks /\ held' = held
  OBVIOUS
<1>2. MapsOK'
  BY <1>1 DEF MapsOK, NothingStaysMapped
<1>3. \A d \in Env : \A c \in blocks[d] : \E x \in ToSet(taken_list'[d]) : x.start = c
  BY DEF HoldingsOK
<1>4. \A d \in Env : \A h \in held[d] :
        /\ h.frames # <<>> /\ h.va \notin blocks[d]
        /\ \E x \in ToSet(taken_list'[d]) : x.start = h.va /\ Len(h.frames) <= x.size
  BY DEF HoldingsOK
<1>5. QED
  BY <1>1, <1>2, <1>3, <1>4 DEF HoldingsOK

\* An object that gets a block of its own is mapped there and nowhere else.
LEMMA HeldGrows ==
  ASSUME HeapsOK, HoldingsOK, MapsOK, NEW e \in Env, NEW n \in Nat \ {0}, NEW a \in Page,
         first_fit_user(e, n, a), NEW i \in Slot, NEW fs \in Seq(Frame), fs # <<>>,
         Len(fs) <= n, page_table' = Mapped(e, a, fs), blocks' = blocks,
         held' = [held EXCEPT ![e] = @ \cup {[va |-> a, slot |-> i, frames |-> fs]}]
  PROVE  /\ HoldingsOK' /\ MapsOK'
         /\ [va |-> a, slot |-> i, frames |-> fs] \notin held[e]
<1> DEFINE b == [start |-> a, size |-> n]
           h == [va |-> a, slot |-> i, frames |-> fs]
           R == Pages(a, Len(fs))
<1>1. /\ b \in UserBlock /\ Pages(a, n) \cap Held(taken_list[e]) = {}
      /\ ToSet(taken_list'[e]) = ToSet(taken_list[e]) \cup {b}
      /\ \A d \in Env : d # e => taken_list'[d] = taken_list[d]
  BY UserTakes
<1>2. b.start = a /\ b.size = n /\ h.va = a /\ h.slot = i /\ h.frames = fs /\ h \in Holding
  BY DEF Holding
<1>3. held' = [held EXCEPT ![e] = @ \cup {h}]
  OBVIOUS
<1>4. /\ Len(fs) \in Nat \ {0} /\ a \in Int /\ a \in Pages(a, n)
      /\ R \subseteq Pages(a, n) /\ R \subseteq Page
  <2>1. Len(fs) \in Nat \ {0}
    BY EmptySeq
  <2>2. a \in Pages(a, n) /\ R \subseteq Pages(a, n) /\ Pages(a, n) \subseteq Page
    BY <1>1, <1>2, <2>1, BlockInPage
  <2>3. a \in Int
    BY UserBounds
  <2>4. QED
    BY <2>1, <2>2, <2>3
<1>5. R \cap Held(taken_list[e]) = {} /\ a \notin Held(taken_list[e])
  BY <1>1, <1>4
<1> HIDE DEF b, h, R
<1>6. /\ held \in [Env -> SUBSET Holding] /\ held' \in [Env -> SUBSET Holding]
      /\ held'[e] = held[e] \cup {h}
      /\ \A d \in Env : d # e => held'[d] = held[d]
  BY <1>2, <1>3 DEF HoldingsOK
<1>7. /\ \A g \in held[e] : g.va # a
      /\ a \notin blocks[e]
  <2>1. \A g \in held[e] : g.va # a
    BY <1>5, HoldingPages
  <2>2. ASSUME a \in blocks[e] PROVE FALSE
    <3>1. PICK x \in ToSet(taken_list[e]) : x.start = a
      BY <2>2 DEF HoldingsOK
    <3>2. x.start \in Held(taken_list[e])
      BY TakenApart, BlockInPage
    <3>3. QED
      BY <1>5, <3>1, <3>2
  <2>3. QED
    BY <2>1, <2>2
<1>8. h \notin held[e]
  BY <1>2, <1>7
<1>9. HoldingsOK'
  <2>1. \A d \in Env : \A c \in blocks[d] : \E x \in ToSet(taken_list'[d]) : x.start = c
    BY <1>1 DEF HoldingsOK
  <2>2. \A d \in Env : \A g \in held'[d] :
          /\ g.frames # <<>> /\ g.va \notin blocks[d]
          /\ \E x \in ToSet(taken_list'[d]) : x.start = g.va /\ Len(g.frames) <= x.size
    <3> SUFFICES ASSUME NEW d \in Env, NEW g \in held'[d]
                 PROVE  /\ g.frames # <<>> /\ g.va \notin blocks[d]
                        /\ \E x \in ToSet(taken_list'[d]) :
                             x.start = g.va /\ Len(g.frames) <= x.size
      OBVIOUS
    <3>1. CASE d = e /\ g = h
      BY <1>1, <1>2, <1>7, <3>1
    <3>2. CASE g \in held[d]
      <4>1. ToSet(taken_list[d]) \subseteq ToSet(taken_list'[d])
        BY <1>1
      <4>2. /\ g.frames # <<>> /\ g.va \notin blocks[d]
            /\ \E x \in ToSet(taken_list[d]) : x.start = g.va /\ Len(g.frames) <= x.size
        BY <3>2 DEF HoldingsOK
      <4>3. QED
        BY <4>1, <4>2
    <3>3. QED
      BY <1>6, <3>1, <3>2
  <2>3. \A d \in Env : \A g, k \in held'[d] : g.va = k.va => g = k
    <3> SUFFICES ASSUME NEW d \in Env, NEW g \in held'[d], NEW k \in held'[d], g.va = k.va
                 PROVE  g = k
      OBVIOUS
    <3>1. CASE g \in held[d] /\ k \in held[d]
      BY <3>1 DEF HoldingsOK
    <3>2. CASE d = e /\ (g = h \/ k = h)
      BY <1>2, <1>6, <1>7, <3>2
    <3>3. QED
      BY <1>6, <3>1, <3>2
  <2>4. blocks' \in [Env -> SUBSET Page]
    BY DEF HoldingsOK
  <2>5. QED
    BY <1>6, <2>1, <2>2, <2>3, <2>4 DEF HoldingsOK
<1>10. /\ page_table' = [page_table EXCEPT ![e] = [p \in Page |->
                           IF p \in R THEN fs[p - a + 1] ELSE page_table[e][p]]]
       /\ page_table \in [Env -> [Page -> Frame \cup {NULL}]]
  BY DEF Mapped, MapsOK, R
<1>11. /\ \A p \in R : /\ page_table'[e][p] = fs[p - a + 1] /\ p - a + 1 \in 1..Len(fs)
       /\ \A p \in Page : p \notin R => page_table'[e][p] = page_table[e][p]
       /\ \A d \in Env : d # e => page_table'[d] = page_table[d]
       /\ page_table' \in [Env -> [Page -> Frame \cup {NULL}]]
  <2>1. \A p \in R : p - a + 1 \in 1..Len(fs)
    BY <1>4, PagesCounted DEF R
  <2>2. \A p \in R : fs[p - a + 1] \in Frame
    BY <2>1, ElementOfSeq
  <2>3. [p \in Page |-> IF p \in R THEN fs[p - a + 1] ELSE page_table[e][p]]
          \in [Page -> Frame \cup {NULL}]
    BY <1>10, <2>2
  <2>4. QED
    BY <1>4, <1>10, <2>1, <2>3
<1>12. \A d \in Env : \A g \in held'[d] : \A k \in 1..Len(g.frames) :
         page_table'[d][g.va + k - 1] = g.frames[k]
  <2> SUFFICES ASSUME NEW d \in Env, NEW g \in held'[d], NEW k \in 1..Len(g.frames)
               PROVE  page_table'[d][g.va + k - 1] = g.frames[k]
    OBVIOUS
  <2>1. CASE d = e /\ g = h
    <3>1. k \in 1..Len(fs)
      BY <1>2, <2>1
    <3>2. a + k - 1 \in R /\ (a + k - 1) - a + 1 = k
      BY <1>4, <3>1, PagesCounted DEF R
    <3>3. page_table'[e][a + k - 1] = fs[k]
      BY <1>11, <3>2
    <3>4. QED
      BY <1>2, <2>1, <3>3
  <2>2. CASE g \in held[d]
    <3>1. page_table[d][g.va + k - 1] = g.frames[k]
      BY <2>2 DEF MapsOK
    <3>2. g.va + k - 1 \in Page /\ g.va + k - 1 \in Held(taken_list[d])
      <4>1. /\ g.va + k - 1 \in Pages(g.va, Len(g.frames))
            /\ Pages(g.va, Len(g.frames)) \subseteq Page
            /\ Pages(g.va, Len(g.frames)) \subseteq Held(taken_list[d])
        BY <2>2, HoldingPages
      <4>2. QED
        BY <4>1
    <3>3. page_table'[d][g.va + k - 1] = page_table[d][g.va + k - 1]
      BY <1>5, <1>11, <3>2
    <3>4. QED
      BY <3>1, <3>3
  <2>3. QED
    BY <1>6, <2>1, <2>2
<1>13. NothingStaysMapped'
  <2> SUFFICES ASSUME NEW d \in Env, NEW p \in Page, page_table'[d][p] # NULL
               PROVE  \E g \in held'[d] : p \in Pages(g.va, Len(g.frames))
    BY DEF NothingStaysMapped
  <2>1. CASE d = e /\ p \in R
    BY <1>2, <1>6, <2>1 DEF R
  <2>2. CASE ~(d = e /\ p \in R)
    <3>1. page_table[d][p] # NULL
      BY <1>11, <2>2
    <3>2. PICK g \in held[d] : p \in Pages(g.va, Len(g.frames))
      BY <3>1 DEF MapsOK, NothingStaysMapped
    <3>3. g \in held'[d]
      BY <1>6
    <3>4. QED
      BY <3>2, <3>3
  <2>3. QED
    BY <2>1, <2>2
<1>14. MapsOK'
  BY <1>11, <1>12, <1>13 DEF MapsOK
<1>15. QED
  BY <1>8, <1>9, <1>14 DEF h

\* An object that is given back is unmapped, all of it and nothing else.
LEMMA HeldShrinks ==
  ASSUME HeapsOK, HoldingsOK, MapsOK, NEW e \in Env, NEW h \in held[e],
         page_table' = Unmapped(e, h.va, Len(h.frames)),
         held' = [held EXCEPT ![e] = @ \ {h}], UNCHANGED <<heap, blocks>>
  PROVE  HoldingsOK' /\ MapsOK'
<1> DEFINE R == Pages(h.va, Len(h.frames))
<1>1. /\ held \in [Env -> SUBSET Holding] /\ held' \in [Env -> SUBSET Holding]
      /\ held'[e] = held[e] \ {h}
      /\ \A d \in Env : d # e => held'[d] = held[d]
      /\ taken_list' = taken_list /\ blocks' = blocks
  BY DEF HoldingsOK, heap
<1>2. \A d \in Env : held'[d] \subseteq held[d]
  BY <1>1
<1>3. HoldingsOK'
  <2>1. \A d \in Env : \A g \in held'[d] :
          /\ g.frames # <<>> /\ g.va \notin blocks[d]
          /\ \E x \in ToSet(taken_list[d]) : x.start = g.va /\ Len(g.frames) <= x.size
    BY <1>2 DEF HoldingsOK
  <2>2. \A d \in Env : \A g, k \in held'[d] : g.va = k.va => g = k
    BY <1>2 DEF HoldingsOK
  <2>3. /\ blocks \in [Env -> SUBSET Page]
        /\ \A d \in Env : \A c \in blocks[d] : \E x \in ToSet(taken_list[d]) : x.start = c
    BY DEF HoldingsOK
  <2>4. QED
    BY <1>1, <2>1, <2>2, <2>3 DEF HoldingsOK
<1>4. R \subseteq Page
  BY HoldingPages
<1> HIDE DEF R
<1>5. /\ page_table' = [page_table EXCEPT ![e] = [p \in Page |->
                          IF p \in R THEN NULL ELSE page_table[e][p]]]
      /\ page_table \in [Env -> [Page -> Frame \cup {NULL}]]
  BY DEF Unmapped, MapsOK, R
<1>6. /\ \A p \in R : page_table'[e][p] = NULL
      /\ \A p \in Page : p \notin R => page_table'[e][p] = page_table[e][p]
      /\ \A d \in Env : d # e => page_table'[d] = page_table[d]
      /\ page_table' \in [Env -> [Page -> Frame \cup {NULL}]]
  BY <1>4, <1>5
<1>7. \A d \in Env : \A g \in held'[d] : \A k \in 1..Len(g.frames) :
        page_table'[d][g.va + k - 1] = g.frames[k]
  <2> SUFFICES ASSUME NEW d \in Env, NEW g \in held'[d], NEW k \in 1..Len(g.frames)
               PROVE  page_table'[d][g.va + k - 1] = g.frames[k]
    OBVIOUS
  <2>1. g \in held[d]
    BY <1>2
  <2>2. page_table[d][g.va + k - 1] = g.frames[k]
    BY <2>1 DEF MapsOK
  <2>3. Pages(g.va, Len(g.frames)) \subseteq Page
    BY <2>1, HoldingPages
  <2>4. g.va + k - 1 \in Pages(g.va, Len(g.frames))
    BY <2>1, HoldingPages
  <2>5. d = e => Pages(g.va, Len(g.frames)) \cap R = {}
    BY <1>1, <2>1, HoldingsApart DEF R
  <2>6. page_table'[d][g.va + k - 1] = page_table[d][g.va + k - 1]
    BY <1>6, <2>3, <2>4, <2>5
  <2>7. QED
    BY <2>2, <2>6
<1>8. NothingStaysMapped'
  <2> SUFFICES ASSUME NEW d \in Env, NEW p \in Page, page_table'[d][p] # NULL
               PROVE  \E g \in held'[d] : p \in Pages(g.va, Len(g.frames))
    BY DEF NothingStaysMapped
  <2>1. page_table[d][p] # NULL /\ ~(d = e /\ p \in R)
    BY <1>6
  <2>2. PICK g \in held[d] : p \in Pages(g.va, Len(g.frames))
    BY <2>1 DEF MapsOK, NothingStaysMapped
  <2>3. g \in held'[d]
    BY <1>1, <2>1, <2>2 DEF R
  <2>4. QED
    BY <2>2, <2>3
<1>9. MapsOK'
  BY <1>6, <1>7, <1>8 DEF MapsOK
<1>10. QED
  BY <1>3, <1>9

\* The holders of an object are pairs of a program and one of its objects.
LEMMA HolderIs ==
  ASSUME NEW i \in Slot, NEW e, NEW h
  PROVE  <<e, h>> \in Holders(i) <=> e \in Env /\ h \in held[e] /\ h.slot = i
BY DEF Holders

\* Holders(i) holds pairs only.
LEMMA HolderPairs ==
  ASSUME NEW i \in Slot, NEW x \in Holders(i)
  PROVE  \E e \in Env : \E h \in held[e] : h.slot = i /\ x = <<e, h>>
BY DEF Holders

\* The last frame of an object is not free as long as the object exists.
LEMMA FramesInUse ==
  ASSUME HeapsOK, HoldingsOK, MapsOK, SharesOK, ~Lost, NEW i \in Slot
  PROVE  /\ ToSet(shares[i].frames) \cap FreeFrames = {}
         /\ shares[i].frames \in Seq(Frame)
         /\ ~shares[i].empty => \E e \in Env : \E h \in held[e] : h.slot = i
<1>1. /\ shares \in [Slot -> Share]
      /\ IsFiniteSet(Holders(i)) /\ shares[i].references = Cardinality(Holders(i))
      /\ shares[i].empty => shares[i] = EmptyShare
      /\ ~shares[i].empty => shares[i].references # 0
      /\ \A e \in Env : \A h \in held[e] : shares[h.slot].frames = h.frames
  BY DEF SharesOK
<1>2. shares[i].frames \in Seq(Frame)
  BY <1>1 DEF Share
<1>3. CASE shares[i].empty
  <2>1. shares[i].frames = <<>>
    BY <1>1, <1>3 DEF EmptyShare
  <2>2. ToSet(<<>>) = {}
    BY DEF ToSet
  <2>3. QED
    BY <1>2, <1>3, <2>1, <2>2
<1>4. CASE ~shares[i].empty
  <2>1. Holders(i) # {}
    BY <1>1, <1>4, FS_EmptySet
  <2>2. PICK e \in Env : \E h \in held[e] : h.slot = i
    BY <2>1, HolderPairs
  <2>3. PICK h \in held[e] : h.slot = i /\ shares[i].frames = h.frames
    BY <1>1, <2>2
  <2>4. ASSUME NEW f \in ToSet(h.frames) PROVE f \notin FreeFrames
    <3>0. DOMAIN h.frames = 1..Len(h.frames)
      BY HoldingPages
    <3>1. PICK k \in 1..Len(h.frames) : f = h.frames[k]
      BY <3>0 DEF ToSet
    <3>2. page_table[e][h.va + k - 1] = f
      BY <3>1 DEF MapsOK
    <3>3. h.va + k - 1 \in Page
      BY HoldingPages
    <3>4. QED
      BY <3>2, <3>3 DEF FreeFrames
  <2>5. QED
    BY <1>2, <2>2, <2>3, <2>4
<1>5. QED
  BY <1>3, <1>4

\* A new holder of an object is one more, and of no other object.
LEMMA HolderAdded ==
  ASSUME HoldingsOK, NEW e \in Env, NEW h \in Holding, h \notin held[e],
         held' = [held EXCEPT ![e] = @ \cup {h}], NEW i \in Slot,
         IsFiniteSet(Holders(i))
  PROVE  /\ IsFiniteSet(Holders(i)')
         /\ h.slot = i => Cardinality(Holders(i)') = Cardinality(Holders(i)) + 1
         /\ h.slot # i => Holders(i)' = Holders(i)
<1>1. /\ held'[e] = held[e] \cup {h}
      /\ \A d \in Env : d # e => held'[d] = held[d]
  BY DEF HoldingsOK
<1>2. CASE h.slot = i
  <2>1. Holders(i)' = Holders(i) \cup {<<e, h>>}
    <3>1. \A d : \A g : <<d, g>> \in Holders(i)' <=> d \in Env /\ g \in held'[d] /\ g.slot = i
      BY DEF Holders
    <3>2. \A d : \A g : <<d, g>> \in Holders(i)' <=>
                         <<d, g>> \in Holders(i) \/ (d = e /\ g = h)
      <4> SUFFICES ASSUME NEW d, NEW g
                   PROVE  <<d, g>> \in Holders(i)' <=>
                            <<d, g>> \in Holders(i) \/ (d = e /\ g = h)
        OBVIOUS
      <4>1. <<d, g>> \in Holders(i) <=> d \in Env /\ g \in held[d] /\ g.slot = i
        BY HolderIs
      <4>2. CASE d = e
        BY <1>1, <1>2, <3>1, <4>1, <4>2
      <4>3. CASE d # e
        BY <1>1, <3>1, <4>1, <4>3
      <4>4. QED
        BY <4>2, <4>3
    <3>3. \A x \in Holders(i)' : \E d \in Env : \E g \in held'[d] : x = <<d, g>>
      BY DEF Holders
    <3>4. \A x \in Holders(i) : \E d \in Env : \E g \in held[d] : x = <<d, g>>
      BY HolderPairs
    <3>5. Holders(i)' \subseteq Holders(i) \cup {<<e, h>>}
      BY <3>2, <3>3
    <3>6. Holders(i) \cup {<<e, h>>} \subseteq Holders(i)'
      BY <3>2, <3>4
    <3>7. QED
      BY <3>5, <3>6
  <2>2. <<e, h>> \notin Holders(i)
    BY HolderIs
  <2>3. /\ IsFiniteSet(Holders(i) \cup {<<e, h>>})
        /\ Cardinality(Holders(i) \cup {<<e, h>>}) = Cardinality(Holders(i)) + 1
    BY <2>2, FS_AddElement
  <2>4. QED
    BY <1>2, <2>1, <2>3
<1>3. CASE h.slot # i
  <2>1. Holders(i)' = Holders(i)
    BY <1>1, <1>3 DEF Holders
  <2>2. QED
    BY <1>3, <2>1
<1>4. QED
  BY <1>2, <1>3

\* Who gives an object back is a holder no longer.
LEMMA HolderRemoved ==
  ASSUME HoldingsOK, NEW e \in Env, NEW h \in held[e],
         held' = [held EXCEPT ![e] = @ \ {h}], NEW i \in Slot, IsFiniteSet(Holders(i))
  PROVE  /\ IsFiniteSet(Holders(i)')
         /\ h.slot = i => Cardinality(Holders(i)') = Cardinality(Holders(i)) - 1
         /\ h.slot # i => Holders(i)' = Holders(i)
<1>1. /\ held'[e] = held[e] \ {h}
      /\ \A d \in Env : d # e => held'[d] = held[d]
  BY DEF HoldingsOK
<1>2. CASE h.slot = i
  <2>1. Holders(i)' = Holders(i) \ {<<e, h>>}
    BY <1>1, <1>2 DEF Holders
  <2>2. <<e, h>> \in Holders(i)
    BY <1>2, HolderIs
  <2>3. QED
    BY <1>2, <2>1, <2>2, FS_RemoveElement
<1>3. CASE h.slot # i
  <2>1. Holders(i)' = Holders(i)
    BY <1>1, <1>3 DEF Holders
  <2>2. QED
    BY <1>3, <2>1
<1>4. QED
  BY <1>2, <1>3

\* A step after which s describes the object of slot i, where only this one changes.
Describes(i, s) ==
  /\ \A j \in Slot : IsFiniteSet(Holders(j)')
  /\ \A j \in Slot : j # i => Holders(j)' = Holders(j)
  /\ s.references = Cardinality(Holders(i)')
  /\ s.empty => s = EmptyShare
  /\ ~s.empty => s.references # 0 /\ s.size = Len(s.frames) /\ s.size # 0
  /\ \A j \in Slot : j # i => /\ ToSet(s.frames) \cap ToSet(shares[j].frames) = {}
                              /\ ~s.empty => ~Matches(j, s.ownerID, s.name)
  /\ \A d \in Env : \A h \in held'[d] : /\ h.slot = i => ~s.empty /\ s.frames = h.frames
                                        /\ h.slot # i => h \in held[d]
  /\ \A d \in Env : held'[d] \subseteq Holding

\* The array stays right when one object becomes s, a right description of it.
LEMMA OneShareChanges ==
  ASSUME SharesOK, ~Lost, NEW i \in Slot, NEW s \in Share,
         shares' = [shares EXCEPT ![i] = s], Describes(i, s)
  PROVE  SharesOK'
<1> USE DEF Describes
<1>1. /\ shares \in [Slot -> Share] /\ shares' \in [Slot -> Share]
      /\ shares'[i] = s
      /\ \A j \in Slot : j # i => shares'[j] = shares[j]
  BY DEF SharesOK
<1>2. \A j \in Slot : /\ IsFiniteSet(Holders(j)')
                      /\ shares'[j].references = Cardinality(Holders(j)')
                      /\ shares'[j].empty => shares'[j] = EmptyShare
                      /\ ~shares'[j].empty => /\ shares'[j].references # 0
                                              /\ shares'[j].size = Len(shares'[j].frames)
                                              /\ shares'[j].size # 0
  <2> SUFFICES ASSUME NEW j \in Slot
               PROVE  /\ IsFiniteSet(Holders(j)')
                      /\ shares'[j].references = Cardinality(Holders(j)')
                      /\ shares'[j].empty => shares'[j] = EmptyShare
                      /\ ~shares'[j].empty => /\ shares'[j].references # 0
                                              /\ shares'[j].size = Len(shares'[j].frames)
                                              /\ shares'[j].size # 0
    OBVIOUS
  <2>1. CASE j = i
    BY <1>1, <2>1
  <2>2. CASE j # i
    <3>1. shares'[j] = shares[j] /\ Holders(j)' = Holders(j)
      BY <1>1, <2>2
    <3>2. /\ shares[j].references = Cardinality(Holders(j))
          /\ shares[j].empty => shares[j] = EmptyShare
          /\ ~shares[j].empty => /\ shares[j].references # 0
                                 /\ shares[j].size = Len(shares[j].frames)
                                 /\ shares[j].size # 0
      BY DEF SharesOK
    <3>3. QED
      BY <3>1, <3>2
  <2>3. QED
    BY <2>1, <2>2
<1>3. \A j, k \in Slot : j # k =>
        /\ ToSet(shares'[j].frames) \cap ToSet(shares'[k].frames) = {}
        /\ (~shares[j].empty => ~Matches(k, shares[j].ownerID, shares[j].name))'
  <2> SUFFICES ASSUME NEW j \in Slot, NEW k \in Slot, j # k
               PROVE  /\ ToSet(shares'[j].frames) \cap ToSet(shares'[k].frames) = {}
                      /\ (~shares[j].empty =>
                            ~Matches(k, shares[j].ownerID, shares[j].name))'
    OBVIOUS
  <2>1. CASE j = i
    BY <1>1, <2>1 DEF Matches
  <2>2. CASE k = i
    <3>1. ToSet(s.frames) \cap ToSet(shares[j].frames) = {}
      BY <2>2
    <3>2. shares'[j] = shares[j] /\ shares'[k] = s
      BY <1>1, <2>2
    <3>3. ~(/\ ~shares[j].empty /\ ~s.empty
            /\ s.ownerID = shares[j].ownerID /\ s.name = shares[j].name)
      BY <2>2 DEF Matches
    <3>4. QED
      BY <3>1, <3>2, <3>3 DEF Matches
  <2>3. CASE j # i /\ k # i
    <3>1. shares'[j] = shares[j] /\ shares'[k] = shares[k]
      BY <1>1, <2>3
    <3>2. /\ ToSet(shares[j].frames) \cap ToSet(shares[k].frames) = {}
          /\ ~shares[j].empty => ~Matches(k, shares[j].ownerID, shares[j].name)
      BY DEF SharesOK
    <3>3. QED
      BY <3>1, <3>2 DEF Matches
  <2>4. QED
    BY <2>1, <2>2, <2>3
<1>4. \A d \in Env : \A h \in held'[d] :
        ~shares'[h.slot].empty /\ shares'[h.slot].frames = h.frames
  <2> SUFFICES ASSUME NEW d \in Env, NEW h \in held'[d]
               PROVE  ~shares'[h.slot].empty /\ shares'[h.slot].frames = h.frames
    OBVIOUS
  <2>1. h.slot \in Slot
    BY DEF Holding
  <2>2. CASE h.slot = i
    BY <1>1, <2>2
  <2>3. CASE h.slot # i
    <3>1. shares'[h.slot] = shares[h.slot] /\ h \in held[d]
      BY <1>1, <2>1, <2>3
    <3>2. QED
      BY <3>1 DEF SharesOK
  <2>4. QED
    BY <2>2, <2>3
<1>5. QED
  BY <1>1, <1>2, <1>3, <1>4 DEF SharesOK

\* What an sget has been told stays enough when one object becomes s.
LEMMA PendingKept ==
  ASSUME PendingOK, SharesOK, ~Lost, NEW i \in Slot, NEW s \in Share,
         shares' = [shares EXCEPT ![i] = s],
         pending' \in [Env -> {NULL} \cup Request],
         \A d \in Env : pending'[d] # NULL => pending'[d] = pending[d],
         \A d \in Env : pending[d] # NULL /\ ~s.empty /\ s.ownerID = pending[d].owner
                          /\ s.name = pending[d].name => s.size <= pending[d].size
  PROVE  PendingOK'
<1>1. /\ shares \in [Slot -> Share] /\ shares'[i] = s
      /\ \A j \in Slot : j # i => shares'[j] = shares[j]
  BY DEF SharesOK
<1>2. ASSUME NEW d \in Env, pending'[d] # NULL
      PROVE  /\ pending'[d].size # 0
             /\ \A j \in Slot : Matches(j, pending[d].owner, pending[d].name)'
                                  => shares'[j].size <= pending'[d].size
  <2>1. pending'[d] = pending[d] /\ pending[d] # NULL
    BY <1>2
  <2>2. pending[d].size # 0
    BY <2>1 DEF PendingOK
  <2>3. ASSUME NEW j \in Slot, Matches(j, pending[d].owner, pending[d].name)'
        PROVE  shares'[j].size <= pending[d].size
    <3>1. /\ ~shares'[j].empty /\ shares'[j].ownerID = pending[d].owner
          /\ shares'[j].name = pending[d].name
      BY <2>1, <2>3 DEF Matches
    <3>2. CASE j = i
      BY <1>1, <2>1, <3>1, <3>2
    <3>3. CASE j # i
      <4>1. Matches(j, pending[d].owner, pending[d].name)
        BY <1>1, <3>1, <3>3 DEF Matches
      <4>2. shares[j].size <= pending[d].size
        BY <2>1, <4>1 DEF PendingOK
      <4>3. QED
        BY <1>1, <3>3, <4>2
    <3>4. QED
      BY <3>2, <3>3
  <2>4. QED
    BY <2>1, <2>2, <2>3
<1>3. QED
  BY <1>2 DEF PendingOK

\* A step that leaves the array and who holds what leaves the array right.
LEMMA SharesUnchanged ==
  ASSUME SharesOK, UNCHANGED <<shares, held>>
  PROVE  SharesOK'
<1>1. shares' = shares /\ held' = held
  OBVIOUS
<1>2. \A i \in Slot : Holders(i)' = Holders(i)
  BY <1>1 DEF Holders
<1>3. Lost' = Lost
  BY <1>1 DEF Lost
<1>4. \A i, j \in Slot : Matches(j, shares[i].ownerID, shares[i].name)'
                           = Matches(j, shares[i].ownerID, shares[i].name)
  BY <1>1 DEF Matches
<1>5. QED
  BY <1>1, <1>2, <1>3, <1>4 DEF SharesOK

\* A new object gets an empty slot of the array and frames that nobody has mapped.
LEMMA Creates ==
  ASSUME SharedInv, ~Outgrows, ~Lost, NEW e \in Env, NEW name \in Name,
         NEW n \in Nat \ {0}, NEW a \in Page, first_fit_user(e, n, a),
         createSharedObject(e, name, n, a), UNCHANGED <<pending, blocks, killed>>
  PROVE  SharedInv'
<1>1. /\ HeapsOK /\ HoldingsOK /\ MapsOK /\ SharesOK /\ PendingOK /\ killed \subseteq Env
  BY DEF SharedInv
<1>2. PICK i \in Slot, fs \in Allocations(n) :
        /\ FirstEmpty(i)
        /\ shares' = [shares EXCEPT ![i] =
                        [empty |-> FALSE, ownerID |-> e, name |-> name,
                         size |-> n, references |-> 1, frames |-> fs]]
        /\ page_table' = Mapped(e, a, fs)
        /\ held' = [held EXCEPT ![e] = @ \cup {[va |-> a, slot |-> i, frames |-> fs]}]
  BY DEF createSharedObject
<1>3. NotFound(e, name)
  BY DEF createSharedObject
<1>4. \A d \in Env : pending[d] # NULL /\ pending[d].owner = e /\ pending[d].name = name
                       => n <= pending[d].size
  BY DEF createSharedObject
<1> DEFINE h == [va |-> a, slot |-> i, frames |-> fs]
           s == [empty |-> FALSE, ownerID |-> e, name |-> name,
                 size |-> n, references |-> 1, frames |-> fs]
<1>5. /\ fs \in Seq(Frame) /\ Len(fs) = n /\ fs # <<>> /\ ToSet(fs) \subseteq FreeFrames
  <2>1. fs \in [1..n -> FreeFrames] /\ FreeFrames \subseteq Frame
    BY DEF Allocations, FreeFrames
  <2>2. fs \in Seq(Frame) /\ Len(fs) = n
    BY <2>1
  <2>3. QED
    BY <2>1, <2>2, EmptySeq DEF ToSet
<1>6. /\ h \in Holding /\ h.va = a /\ h.slot = i /\ h.frames = fs
  BY <1>5 DEF Holding
<1>7. /\ s \in Share /\ ~s.empty /\ s.ownerID = e /\ s.name = name /\ s.size = n
      /\ s.references = 1 /\ s.frames = fs
  BY <1>5 DEF Share
<1>8. /\ shares' = [shares EXCEPT ![i] = s]
      /\ held' = [held EXCEPT ![e] = @ \cup {h}]
  BY <1>2
<1>9. /\ HoldingsOK' /\ MapsOK' /\ h \notin held[e]
  <2>1. Len(fs) <= n /\ blocks' = blocks
    BY <1>5
  <2>2. /\ page_table' = Mapped(e, a, fs)
        /\ held' = [held EXCEPT ![e] = @ \cup {[va |-> a, slot |-> i, frames |-> fs]}]
    BY <1>2
  <2>3. fs \in Seq(Frame) /\ fs # <<>>
    BY <1>5
  <2>4. QED
    BY <1>1, <2>1, <2>2, <2>3, HeldGrows
<1> HIDE DEF h, s
<1>10. HeapsOK'
  BY <1>1, UserTakes
<1>11. /\ \A d \in Env : held[d] \subseteq Holding /\ held'[d] \subseteq Holding
       /\ held'[e] = held[e] \cup {h}
       /\ \A d \in Env : d # e => held'[d] = held[d]
  BY <1>1, <1>8, <1>9 DEF HoldingsOK
<1>12. shares[i].empty /\ \A d \in Env : \A g \in held[d] : g.slot # i
  BY <1>1, <1>2 DEF FirstEmpty, SharesOK
<1>13. Holders(i) = {}
  BY <1>12, HolderPairs
<1>14. /\ \A j \in Slot : IsFiniteSet(Holders(j)')
       /\ \A j \in Slot : j # i => Holders(j)' = Holders(j)
       /\ Cardinality(Holders(i)') = 1
  <2>1. \A j \in Slot : IsFiniteSet(Holders(j))
    BY <1>1 DEF SharesOK
  <2>2. \A j \in Slot :
          /\ IsFiniteSet(Holders(j)')
          /\ h.slot = j => Cardinality(Holders(j)') = Cardinality(Holders(j)) + 1
          /\ h.slot # j => Holders(j)' = Holders(j)
    BY <1>1, <1>6, <1>8, <1>9, <2>1, HolderAdded
  <2>3. Cardinality(Holders(i)) = 0
    BY <1>13, FS_EmptySet
  <2>4. QED
    BY <1>6, <2>2, <2>3
<1>15. \A j \in Slot : j # i => /\ ToSet(s.frames) \cap ToSet(shares[j].frames) = {}
                                /\ ~s.empty => ~Matches(j, s.ownerID, s.name)
  <2>1. \A j \in Slot : ToSet(shares[j].frames) \cap FreeFrames = {}
    BY <1>1, FramesInUse
  <2>2. QED
    BY <1>3, <1>5, <1>7, <2>1 DEF NotFound
<1>16. \A d \in Env : \A g \in held'[d] :
         /\ g.slot = i => ~s.empty /\ s.frames = g.frames
         /\ g.slot # i => g \in held[d]
  BY <1>6, <1>7, <1>11, <1>12
<1>17. /\ SharesOK /\ s \in Share /\ shares' = [shares EXCEPT ![i] = s]
       /\ s.references = Cardinality(Holders(i)')
       /\ s.empty => s = EmptyShare
       /\ ~s.empty => s.references # 0 /\ s.size = Len(s.frames) /\ s.size # 0
  BY <1>1, <1>5, <1>7, <1>8, <1>14
<1>18. SharesOK'
  <2>1. \A d \in Env : held'[d] \subseteq Holding
    BY <1>11
  <2>2. Describes(i, s)
    BY <1>14, <1>15, <1>16, <1>17, <2>1, Zenon DEF Describes
  <2>3. QED
    BY <1>17, <2>2, OneShareChanges
<1>19. PendingOK'
  <2>1. \A d \in Env : pending[d] # NULL /\ ~s.empty /\ s.ownerID = pending[d].owner
                         /\ s.name = pending[d].name => s.size <= pending[d].size
    BY <1>4, <1>7, Zenon
  <2>2. /\ pending' \in [Env -> {NULL} \cup Request]
        /\ \A d \in Env : pending'[d] # NULL => pending'[d] = pending[d]
    BY <1>1 DEF PendingOK
  <2>3. QED
    BY <1>1, <1>7, <1>8, <2>1, <2>2, PendingKept, Zenon
<1>20. QED
  BY <1>1, <1>9, <1>10, <1>18, <1>19 DEF SharedInv

\* A further user of an object maps its frames, as many as it has asked room for.
LEMMA Gets ==
  ASSUME SharedInv, ~Lost, NEW e \in Env, pending[e] # NULL, NEW a \in Page,
         first_fit_user(e, pending[e].size, a),
         getSharedObject(e, pending[e].owner, pending[e].name, a),
         pending' = [pending EXCEPT ![e] = NULL], UNCHANGED <<blocks, killed>>
  PROVE  SharedInv'
<1>1. /\ HeapsOK /\ HoldingsOK /\ MapsOK /\ SharesOK /\ PendingOK /\ killed \subseteq Env
  BY DEF SharedInv
<1>2. /\ pending[e].size \in Nat \ {0}
      /\ pending' \in [Env -> {NULL} \cup Request]
      /\ \A d \in Env : pending'[d] # NULL => pending'[d] = pending[d]
  BY <1>1 DEF PendingOK, Request
<1> DEFINE n == pending[e].size
<1>3. /\ HeapsOK'
      /\ \A d \in Env : ToSet(taken_list[d]) \subseteq ToSet(taken_list'[d])
  <2> HIDE DEF n
  <2>1. first_fit_user(e, n, a) /\ n \in Nat \ {0}
    BY <1>2 DEF n
  <2>2. /\ HeapsOK'
        /\ ToSet(taken_list'[e]) = ToSet(taken_list[e]) \cup {[start |-> a, size |-> n]}
        /\ \A d \in Env : d # e => taken_list'[d] = taken_list[d]
    BY <1>1, <2>1, UserTakes
  <2>3. QED
    BY <2>2
<1>4. CASE NotFound(pending[e].owner, pending[e].name) /\ UNCHANGED <<shares, page_table, held>>
  <2>1. HoldingsOK' /\ MapsOK'
    BY <1>1, <1>3, <1>4, OnlyTaken
  <2>2. SharesOK'
    BY <1>1, <1>4, SharesUnchanged
  <2>3. PendingOK'
    BY <1>1, <1>2, <1>4 DEF PendingOK, Lost, Matches
  <2>4. QED
    BY <1>1, <1>3, <2>1, <2>2, <2>3 DEF SharedInv
<1>5. ASSUME NEW i \in Slot, Found(i, pending[e].owner, pending[e].name),
             shares' = [shares EXCEPT ![i].references = @ + 1],
             page_table' = Mapped(e, a, shares[i].frames),
             held' = [held EXCEPT ![e] = @ \cup
                        {[va |-> a, slot |-> i, frames |-> shares[i].frames]}]
      PROVE  SharedInv'
  <2> DEFINE o == shares[i]
             h == [va |-> a, slot |-> i, frames |-> o.frames]
             s == [o EXCEPT !.references = @ + 1]
  <2>1. /\ o \in Share /\ ~o.empty /\ o.references = Cardinality(Holders(i))
        /\ o.size = Len(o.frames) /\ o.size # 0
        /\ o.ownerID = pending[e].owner /\ o.name = pending[e].name
    BY <1>1, <1>5 DEF SharesOK, Found, Matches
  <2>2. o.size <= n
    BY <1>1, <1>5 DEF PendingOK, Found
  <2>3. /\ o.references \in Nat /\ o.frames \in Seq(Frame) /\ o.frames # <<>>
        /\ Len(o.frames) <= n
    <3>1. o.references \in Nat /\ o.frames \in Seq(Frame)
      BY <2>1 DEF Share
    <3>2. QED
      BY <2>1, <2>2, <3>1, EmptySeq
  <2>4. /\ s \in Share /\ ~s.empty /\ s.ownerID = o.ownerID /\ s.name = o.name
        /\ s.size = o.size /\ s.references = o.references + 1 /\ s.frames = o.frames
    BY <2>1, <2>3 DEF Share
  <2>5. h \in Holding /\ h.slot = i /\ h.frames = o.frames
    BY <2>3 DEF Holding
  <2>6. /\ shares' = [shares EXCEPT ![i] = s]
        /\ held' = [held EXCEPT ![e] = @ \cup {h}]
    BY <1>5
  <2>7. HoldingsOK' /\ MapsOK' /\ h \notin held[e]
    <3> HIDE DEF n, o
    <3>1. first_fit_user(e, n, a) /\ n \in Nat \ {0} /\ page_table' = Mapped(e, a, o.frames)
      BY <1>2, <1>5 DEF n, o
    <3>2. blocks' = blocks
      OBVIOUS
    <3>3. QED
      BY <1>1, <2>3, <2>6, <3>1, <3>2, HeldGrows
  <2> HIDE DEF n, o, h, s
  <2>8. /\ \A d \in Env : held[d] \subseteq Holding /\ held'[d] \subseteq Holding
        /\ held'[e] = held[e] \cup {h}
        /\ \A d \in Env : d # e => held'[d] = held[d]
    BY <1>1, <2>6, <2>7 DEF HoldingsOK
  <2>9. /\ \A j \in Slot : IsFiniteSet(Holders(j)')
        /\ \A j \in Slot : j # i => Holders(j)' = Holders(j)
        /\ Cardinality(Holders(i)') = o.references + 1
    <3>1. \A j \in Slot : IsFiniteSet(Holders(j))
      BY <1>1 DEF SharesOK
    <3>2. \A j \in Slot :
            /\ IsFiniteSet(Holders(j)')
            /\ h.slot = j => Cardinality(Holders(j)') = Cardinality(Holders(j)) + 1
            /\ h.slot # j => Holders(j)' = Holders(j)
      BY <1>1, <2>5, <2>6, <2>7, <3>1, HolderAdded
    <3>3. QED
      BY <2>1, <2>5, <3>2
  <2>10. \A j \in Slot : j # i => /\ ToSet(s.frames) \cap ToSet(shares[j].frames) = {}
                                  /\ ~s.empty => ~Matches(j, s.ownerID, s.name)
    BY <1>1, <2>1, <2>4 DEF SharesOK, o
  <2>11. \A d \in Env : \A g \in held'[d] :
           /\ g.slot = i => ~s.empty /\ s.frames = g.frames
           /\ g.slot # i => g \in held[d]
    <3>1. \A d \in Env : \A g \in held[d] : g.slot = i => o.frames = g.frames
      BY <1>1 DEF SharesOK, o
    <3>2. QED
      BY <2>4, <2>5, <2>8, <3>1
  <2>12. /\ SharesOK /\ s \in Share /\ shares' = [shares EXCEPT ![i] = s]
         /\ s.references = Cardinality(Holders(i)')
         /\ s.empty => s = EmptyShare
         /\ ~s.empty => s.references # 0 /\ s.size = Len(s.frames) /\ s.size # 0
    BY <1>1, <2>1, <2>3, <2>4, <2>6, <2>9
  <2>13. SharesOK'
    <3>1. \A d \in Env : held'[d] \subseteq Holding
      BY <2>8
    <3>2. Describes(i, s)
      BY <2>9, <2>10, <2>11, <2>12, <3>1, Zenon DEF Describes
    <3>3. QED
      BY <2>12, <3>2, OneShareChanges
  <2>14. PendingOK'
    <3>1. ASSUME NEW d \in Env, pending[d] # NULL, ~s.empty,
                 s.ownerID = pending[d].owner, s.name = pending[d].name
          PROVE  s.size <= pending[d].size
      <4>1. Matches(i, pending[d].owner, pending[d].name)
        BY <2>1, <2>4, <3>1 DEF Matches, o
      <4>2. o.size <= pending[d].size
        BY <1>1, <3>1, <4>1 DEF PendingOK, o
      <4>3. QED
        BY <2>4, <4>2
    <3>2. \A d \in Env : pending[d] # NULL /\ ~s.empty /\ s.ownerID = pending[d].owner
                           /\ s.name = pending[d].name => s.size <= pending[d].size
      BY <3>1, Zenon
    <3>3. QED
      BY <1>1, <1>2, <2>4, <2>6, <3>2, PendingKept, Zenon
  <2>15. QED
    BY <1>1, <1>3, <2>7, <2>13, <2>14 DEF SharedInv
<1>6. QED
  BY <1>4, <1>5 DEF getSharedObject

\* The object found at an address a program holds is the one it holds there.
LEMMA SharedAtHeld ==
  ASSUME HeapsOK, HoldingsOK, MapsOK, SharesOK, ~Lost, NEW e \in Env, NEW h \in held[e]
  PROVE  \A i \in Slot : SharedAt(i, e, h.va) <=> i = h.slot
<1> DEFINE f == page_table[e][h.va]
<1>1. /\ h.va \in Page /\ h.slot \in Slot /\ Len(h.frames) \in Nat \ {0}
  BY HoldingPages
<1>2. f = h.frames[1]
  <2>1. page_table[e][h.va + 1 - 1] = h.frames[1]
    BY <1>1 DEF MapsOK
  <2>2. PICK a \in Page : a = h.va
    BY <1>1
  <2>3. a + 1 - 1 = a
    BY UserBounds
  <2>4. QED
    BY <2>1, <2>2, <2>3
<1> HIDE DEF f
<1>3. ~shares[h.slot].empty /\ shares[h.slot].frames = h.frames
  BY DEF SharesOK
<1>4. \A i \in Slot : ~shares[i].empty => shares[i].frames[1] \in ToSet(shares[i].frames)
  <2> SUFFICES ASSUME NEW i \in Slot, ~shares[i].empty
               PROVE  shares[i].frames[1] \in ToSet(shares[i].frames)
    OBVIOUS
  <2>1. shares[i].frames \in Seq(Frame) /\ Len(shares[i].frames) # 0
    BY DEF SharesOK, Share
  <2>2. 1 \in 1..Len(shares[i].frames)
    BY <2>1
  <2>3. QED
    BY <2>2 DEF ToSet
<1>5. \A i \in Slot : ~shares[i].empty /\ shares[i].frames[1] = f => i = h.slot
  <2> SUFFICES ASSUME NEW i \in Slot, ~shares[i].empty, shares[i].frames[1] = f, i # h.slot
               PROVE  FALSE
    OBVIOUS
  <2>1. f \in ToSet(shares[i].frames) /\ f \in ToSet(shares[h.slot].frames)
    BY <1>1, <1>2, <1>3, <1>4
  <2>2. ToSet(shares[i].frames) \cap ToSet(shares[h.slot].frames) = {}
    BY <1>1 DEF SharesOK
  <2>3. QED
    BY <2>1, <2>2
<1>6. \A i \in Slot : i < h.slot => i # h.slot
  BY <1>1, UserBounds
<1>7. SharedAt(h.slot, e, h.va)
  BY <1>1, <1>2, <1>3, <1>5, <1>6 DEF SharedAt, f
<1>8. \A i \in Slot : SharedAt(i, e, h.va) => i = h.slot
  BY <1>5 DEF SharedAt, f
<1>9. QED
  BY <1>7, <1>8

\* A program that gives an object back unmaps it; the last holder frees it.
LEMMA GivesBack ==
  ASSUME SharedInv, NEW e \in Env, NEW h \in held[e], sfree(e, h)
  PROVE  SharedInv'
<1> DEFINE i == h.slot
           o == shares[i]
           s == IF o.references = 1 THEN EmptyShare ELSE [o EXCEPT !.references = @ - 1]
<1>1. /\ HeapsOK /\ HoldingsOK /\ MapsOK /\ SharesOK /\ PendingOK /\ killed \subseteq Env
  BY DEF SharedInv
<1>2. /\ ~Lost /\ freeSharedObject(e, h.va)
      /\ held' = [held EXCEPT ![e] = @ \ {h}]
      /\ pending' = pending /\ blocks' = blocks /\ killed' = killed
      /\ free_list' = free_list /\ taken_list' = taken_list
  BY DEF sfree, heap
<1>3. i \in Slot /\ \A j \in Slot : SharedAt(j, e, h.va) <=> j = i
  BY <1>1, <1>2, SharedAtHeld, HoldingPages
<1>4. /\ page_table' = Unmapped(e, h.va, o.size)
      /\ shares' = [shares EXCEPT ![i] = s]
  BY <1>2, <1>3 DEF freeSharedObject
<1>5. /\ o \in Share /\ ~o.empty /\ o.frames = h.frames
      /\ o.references = Cardinality(Holders(i)) /\ o.references # 0
      /\ o.size = Len(o.frames) /\ o.size # 0
  BY <1>1, <1>2, <1>3 DEF SharesOK
<1>6. o.references \in Nat /\ o.size = Len(h.frames)
  BY <1>5 DEF Share
<1>7. HoldingsOK' /\ MapsOK'
  <2>1. page_table' = Unmapped(e, h.va, Len(h.frames)) /\ UNCHANGED <<heap, blocks>>
    BY <1>2, <1>4, <1>6 DEF heap
  <2>2. QED
    BY <1>1, <1>2, <2>1, HeldShrinks
<1>8. /\ \A d \in Env : held[d] \subseteq Holding /\ held'[d] \subseteq Holding
      /\ held'[e] = held[e] \ {h}
      /\ \A d \in Env : held'[d] \subseteq held[d]
  BY <1>1, <1>2 DEF HoldingsOK
<1>9. /\ \A j \in Slot : IsFiniteSet(Holders(j)')
      /\ \A j \in Slot : j # i => Holders(j)' = Holders(j)
      /\ Cardinality(Holders(i)') = o.references - 1
  <2>1. \A j \in Slot : IsFiniteSet(Holders(j))
    BY <1>1, <1>2 DEF SharesOK
  <2>2. \A j \in Slot :
          /\ IsFiniteSet(Holders(j)')
          /\ h.slot = j => Cardinality(Holders(j)') = Cardinality(Holders(j)) - 1
          /\ h.slot # j => Holders(j)' = Holders(j)
    BY <1>1, <1>2, <2>1, HolderRemoved
  <2>3. QED
    BY <1>3, <1>5, <2>2
<1>10. CASE o.references = 1
  <2>1. /\ s = EmptyShare /\ s \in Share /\ s.empty /\ s.references = 0 /\ s.frames = <<>>
    BY <1>10 DEF EmptyShare, Share
  <2>2. \A d \in Env : \A g \in held'[d] : g.slot # i
    <3>1. Holders(i)' = {}
      BY <1>3, <1>9, <1>10, FS_EmptySet
    <3> HIDE DEF i
    <3>2. ASSUME NEW d \in Env, NEW g \in held'[d], g.slot = i
          PROVE  FALSE
      <4>1. g \in {x \in held'[d] : x.slot = i}
        BY <3>2
      <4>2. <<d, g>> \in Holders(i)'
        BY <4>1 DEF Holders
      <4>3. QED
        BY <3>1, <4>2
    <3>3. QED
      BY <3>2
  <2>3. \A j \in Slot : ToSet(s.frames) \cap ToSet(shares[j].frames) = {}
    BY <2>1 DEF ToSet
  <2> HIDE DEF s, o, i
  <2>4. s.references = Cardinality(Holders(i)')
    BY <1>9, <1>10, <2>1
  <2>5. Describes(i, s)
    BY <1>8, <1>9, <2>1, <2>2, <2>3, <2>4, Zenon DEF Describes
  <2>6. SharesOK'
    BY <1>1, <1>2, <1>3, <1>4, <2>1, <2>5, OneShareChanges
  <2>7. PendingOK'
    <3>1. /\ pending' \in [Env -> {NULL} \cup Request]
          /\ \A d \in Env : pending'[d] # NULL => pending'[d] = pending[d]
      BY <1>1, <1>2 DEF PendingOK
    <3>2. \A d \in Env : pending[d] # NULL /\ ~s.empty /\ s.ownerID = pending[d].owner
                           /\ s.name = pending[d].name => s.size <= pending[d].size
      BY <2>1, Zenon
    <3>3. QED
      BY <1>1, <1>2, <1>3, <1>4, <2>1, <3>1, <3>2, PendingKept, Zenon
  <2>8. QED
    BY <1>1, <1>2, <1>7, <2>6, <2>7 DEF SharedInv, HeapsOK
<1>11. CASE o.references # 1
  <2>1. /\ s = [o EXCEPT !.references = o.references - 1] /\ o.references - 1 \in Nat \ {0}
    BY <1>5, <1>6, <1>11
  <2>2. /\ s \in Share /\ ~s.empty /\ s.ownerID = o.ownerID /\ s.name = o.name
        /\ s.size = o.size /\ s.references = o.references - 1 /\ s.frames = o.frames
    BY <1>5, <2>1 DEF Share
  <2> HIDE DEF s
  <2>3. \A j \in Slot : j # i => /\ ToSet(s.frames) \cap ToSet(shares[j].frames) = {}
                                 /\ ~s.empty => ~Matches(j, s.ownerID, s.name)
    BY <1>1, <1>2, <1>3, <1>5, <2>2 DEF SharesOK
  <2>4. \A d \in Env : \A g \in held'[d] :
          /\ g.slot = i => ~s.empty /\ s.frames = g.frames
          /\ g.slot # i => g \in held[d]
    <3>1. \A d \in Env : \A g \in held[d] : g.slot = i => o.frames = g.frames
      BY <1>1, <1>2 DEF SharesOK
    <3>2. QED
      BY <1>8, <2>2, <3>1
  <2>5. /\ s.references = Cardinality(Holders(i)')
        /\ s.references # 0 /\ s.size = Len(s.frames) /\ s.size # 0
    BY <1>5, <1>9, <2>1, <2>2
  <2>6. PendingOK'
    <3>1. /\ pending' \in [Env -> {NULL} \cup Request]
          /\ \A d \in Env : pending'[d] # NULL => pending'[d] = pending[d]
      BY <1>1, <1>2 DEF PendingOK
    <3>2. ASSUME NEW d \in Env, pending[d] # NULL, ~s.empty,
                 s.ownerID = pending[d].owner, s.name = pending[d].name
          PROVE  s.size <= pending[d].size
      <4>1. Matches(i, pending[d].owner, pending[d].name)
        BY <1>5, <2>2, <3>2 DEF Matches
      <4>2. o.size <= pending[d].size
        BY <1>1, <1>2, <1>3, <3>2, <4>1 DEF PendingOK
      <4>3. QED
        BY <2>2, <4>2
    <3>3. \A d \in Env : pending[d] # NULL /\ ~s.empty /\ s.ownerID = pending[d].owner
                           /\ s.name = pending[d].name => s.size <= pending[d].size
      BY <3>2, Zenon
    <3> HIDE DEF o, i
    <3>4. QED
      BY <1>1, <1>2, <1>3, <1>4, <2>2, <3>1, <3>3, PendingKept, Zenon
  <2> HIDE DEF o, i
  <2>7. SharesOK'
    <3>1. Describes(i, s)
      BY <1>8, <1>9, <2>2, <2>3, <2>4, <2>5, Zenon DEF Describes
    <3>2. QED
      BY <1>1, <1>2, <1>3, <1>4, <2>2, <3>1, OneShareChanges
  <2>8. QED
    BY <1>1, <1>2, <1>7, <2>6, <2>7 DEF SharedInv, HeapsOK
<1>12. QED
  BY <1>10, <1>11

\* A block that a program frees was not one that an object is mapped in.
LEMMA Frees ==
  ASSUME SharedInv, NEW e \in Env, NEW va \in Page, free(e, va)
  PROVE  SharedInv'
<1> DEFINE q == free_list[e]
           t == taken_list[e]
<1>1. /\ HeapsOK /\ HoldingsOK /\ MapsOK /\ SharesOK /\ PendingOK /\ killed \subseteq Env
      /\ q \in Seq(UserBlock) /\ t \in Seq(UserBlock)
      /\ Spread(q) /\ Disjoint(t) /\ Held(q) \cap Held(t) = {}
  BY DEF SharedInv, HeapsOK
<1>2. PICK i \in 1..Len(t) :
        /\ t[i].start = va
        /\ taken_list' = [taken_list EXCEPT ![e] = RemoveAt(@, i)]
        /\ \/ /\ free_list[e] # <<>>
              /\ free_list' = [free_list EXCEPT ![e] = Coalescing_heap_user(@, t[i])]
              /\ UNCHANGED killed
           \/ /\ free_list[e] = <<>>
              /\ killed' = killed \cup {e}
              /\ UNCHANGED free_list
  BY DEF free
<1>3. /\ va \in blocks[e]
      /\ blocks' = [blocks EXCEPT ![e] = @ \ {va}]
      /\ shares' = shares /\ page_table' = page_table /\ pending' = pending /\ held' = held
  BY DEF free
<1> DEFINE b == t[i]
           u == RemoveAt(t, i)
<1>4. b \in UserBlock /\ b \in ToSet(t)
  BY <1>1, ElementOfSeq DEF ToSet
<1>5. /\ u \in Seq(UserBlock) /\ ToSet(u) = ToSet(t) \ {b}
      /\ Held(u) = Held(t) \ Pages(b.start, b.size) /\ Disjoint(u)
  BY <1>1, UserBounds, RemovedHolds DEF UserBlock
<1>6. Pages(b.start, b.size) \subseteq Held(t)
  BY <1>4 DEF Held
<1>7. PICK r \in Seq(UserBlock) : /\ free_list' = [free_list EXCEPT ![e] = r]
                                  /\ Spread(r)
                                  /\ Held(r) \subseteq Held(q) \cup Pages(b.start, b.size)
                                  /\ killed' \subseteq Env
  <2>1. CASE q # <<>> /\ free_list' = [free_list EXCEPT ![e] = Coalesced(q, b)]
             /\ killed' = killed
    <3> HIDE DEF q, t, b, u
    <3>1. Pages(b.start, b.size) \cap Held(q) = {}
      BY <1>1, <1>6
    <3>2. Coalesced(q, b) \in Seq(UserBlock)
      BY <1>1, <1>4, <2>1, UserBounds, CoalescedHolds DEF UserBlock
    <3>3. /\ Spread(Coalesced(q, b))
          /\ Held(Coalesced(q, b)) = Held(q) \cup Pages(b.start, b.size)
      BY <1>1, <1>4, <2>1, <3>1, UserBounds, CoalescedApart DEF UserBlock
    <3>4. QED
      BY <1>1, <2>1, <3>2, <3>3
  <2>2. CASE free_list' = free_list /\ killed' = killed \cup {e}
    <3>1. free_list' = [free_list EXCEPT ![e] = q]
      BY <1>1, <2>2 DEF HeapsOK
    <3>2. QED
      BY <1>1, <2>2, <3>1
  <2>3. QED
    BY <1>2, <2>1, <2>2 DEF Coalescing_heap_user
<1>8. taken_list' = [taken_list EXCEPT ![e] = u]
  BY <1>2
<1>9. b.start = va
  BY <1>2
<1> HIDE DEF q, t, b, u
<1>10. /\ free_list' \in [Env -> Seq(UserBlock)] /\ taken_list' \in [Env -> Seq(UserBlock)]
       /\ free_list'[e] = r /\ taken_list'[e] = u
       /\ \A d \in Env : d # e => /\ free_list'[d] = free_list[d]
                                  /\ taken_list'[d] = taken_list[d]
  BY <1>1, <1>5, <1>7, <1>8 DEF HeapsOK
<1>11. HeapsOK'
  <2>1. Held(r) \cap Held(u) = {}
    BY <1>1, <1>5, <1>7
  <2>2. \A d \in Env : /\ Spread(free_list'[d]) /\ Disjoint(taken_list'[d])
                       /\ Held(free_list'[d]) \cap Held(taken_list'[d]) = {}
    <3> SUFFICES ASSUME NEW d \in Env
                 PROVE  /\ Spread(free_list'[d]) /\ Disjoint(taken_list'[d])
                        /\ Held(free_list'[d]) \cap Held(taken_list'[d]) = {}
      OBVIOUS
    <3>1. CASE d = e
      BY <1>5, <1>7, <1>10, <2>1, <3>1
    <3>2. CASE d # e
      BY <1>1, <1>10, <3>2 DEF HeapsOK
    <3>3. QED
      BY <3>1, <3>2
  <2>3. QED
    BY <1>10, <2>2 DEF HeapsOK
<1>12. /\ blocks \in [Env -> SUBSET Page] /\ blocks' \in [Env -> SUBSET Page]
       /\ blocks'[e] = blocks[e] \ {va}
       /\ \A d \in Env : d # e => blocks'[d] = blocks[d]
       /\ \A d \in Env : blocks'[d] \subseteq blocks[d]
  BY <1>1, <1>3 DEF HoldingsOK
<1>13. \A d \in Env : \A x \in ToSet(taken_list[d]) :
         x.start # va \/ d # e => x \in ToSet(taken_list'[d])
  BY <1>5, <1>9, <1>10 DEF t
<1>14. \A d \in Env : \A c \in blocks'[d] : \E x \in ToSet(taken_list'[d]) : x.start = c
  <2> SUFFICES ASSUME NEW d \in Env, NEW c \in blocks'[d]
               PROVE  \E x \in ToSet(taken_list'[d]) : x.start = c
    OBVIOUS
  <2>1. PICK x \in ToSet(taken_list[d]) : x.start = c
    BY <1>1, <1>12 DEF HoldingsOK
  <2>2. c # va \/ d # e
    BY <1>12
  <2>3. QED
    BY <1>13, <2>1, <2>2
<1>15. \A d \in Env : \A h \in held[d] :
         /\ h.frames # <<>> /\ h.va \notin blocks'[d]
         /\ \E x \in ToSet(taken_list'[d]) : x.start = h.va /\ Len(h.frames) <= x.size
  <2> SUFFICES ASSUME NEW d \in Env, NEW h \in held[d]
               PROVE  /\ h.frames # <<>> /\ h.va \notin blocks'[d]
                      /\ \E x \in ToSet(taken_list'[d]) :
                           x.start = h.va /\ Len(h.frames) <= x.size
    OBVIOUS
  <2>1. h.frames # <<>> /\ h.va \notin blocks[d]
    BY <1>1 DEF HoldingsOK
  <2>2. PICK x \in ToSet(taken_list[d]) : x.start = h.va /\ Len(h.frames) <= x.size
    BY <1>1 DEF HoldingsOK
  <2>3. x.start # va \/ d # e
    BY <1>3, <2>1, <2>2
  <2>4. x \in ToSet(taken_list'[d])
    BY <1>13, <2>3
  <2>5. QED
    BY <1>12, <2>1, <2>2, <2>4
<1>16. HoldingsOK'
  BY <1>1, <1>3, <1>12, <1>14, <1>15 DEF HoldingsOK
<1>17. MapsOK' /\ SharesOK'
  BY <1>1, <1>3, SharesUnchanged DEF MapsOK, NothingStaysMapped
<1>18. PendingOK'
  BY <1>1, <1>3 DEF PendingOK, Lost, Matches
<1>19. QED
  BY <1>7, <1>11, <1>16, <1>17, <1>18 DEF SharedInv

\* What a program takes from its heap is apart from all it had taken.
LEMMA Mallocs ==
  ASSUME SharedInv, NEW e \in Env, NEW n \in Sizes, malloc(e, n)
  PROVE  SharedInv'
<1>1. /\ HeapsOK /\ HoldingsOK /\ MapsOK /\ SharesOK /\ PendingOK /\ killed \subseteq Env
      /\ n \in Nat \ {0}
  BY UserBounds DEF SharedInv
<1>2. PICK a \in Page : /\ first_fit_user(e, n, a)
                        /\ blocks' = [blocks EXCEPT ![e] = @ \cup {a}]
  BY DEF malloc
<1>3. /\ shares' = shares /\ page_table' = page_table /\ pending' = pending
      /\ held' = held /\ killed' = killed
  BY DEF malloc
<1>4. HeapsOK'
  BY <1>1, <1>2, UserTakes
<1>5. HoldingsOK'
  BY <1>1, <1>2, <1>3, BlocksGrow
<1>6. MapsOK' /\ SharesOK'
  BY <1>1, <1>3, SharesUnchanged DEF MapsOK, NothingStaysMapped
<1>7. PendingOK'
  BY <1>1, <1>3 DEF PendingOK, Lost, Matches
<1>8. QED
  BY <1>1, <1>3, <1>4, <1>5, <1>6, <1>7 DEF SharedInv

\* smalloc makes an object, or finds that the array is full or the name is taken.
LEMMA Smallocs ==
  ASSUME SharedInv, ~Outgrows, NEW e \in Env, NEW name \in Name, NEW n \in Sizes,
         smalloc(e, name, n)
  PROVE  SharedInv'
<1>1. /\ HeapsOK /\ HoldingsOK /\ MapsOK /\ SharesOK /\ PendingOK /\ killed \subseteq Env
      /\ n \in Nat \ {0}
  BY UserBounds DEF SharedInv
<1>2. PICK a \in Page : /\ first_fit_user(e, n, a)
                        /\ \/ createSharedObject(e, name, n, a)
                           \/ createSharedObjectFull(e, name)
                           \/ createSharedObjectExists(e, name)
  BY DEF smalloc
<1>3. ~Lost /\ pending' = pending /\ blocks' = blocks /\ killed' = killed
  BY DEF smalloc
<1>4. CASE createSharedObject(e, name, n, a)
  BY <1>1, <1>2, <1>3, <1>4, Creates
<1>5. CASE createSharedObjectFull(e, name) \/ createSharedObjectExists(e, name)
  <2>1. page_table' = page_table /\ held' = held /\ (shares' = shares \/ Lost')
    BY <1>5 DEF createSharedObjectFull, createSharedObjectExists, Lost
  <2>2. /\ HeapsOK'
        /\ \A d \in Env : ToSet(taken_list[d]) \subseteq ToSet(taken_list'[d])
    <3>1. /\ HeapsOK'
          /\ ToSet(taken_list'[e]) = ToSet(taken_list[e]) \cup {[start |-> a, size |-> n]}
          /\ \A d \in Env : d # e => taken_list'[d] = taken_list[d]
      BY <1>1, <1>2, UserTakes
    <3>2. QED
      BY <3>1
  <2>3. HoldingsOK' /\ MapsOK'
    BY <1>1, <1>3, <2>1, <2>2, OnlyTaken
  <2>4. CASE shares' = shares
    <3>1. SharesOK'
      BY <1>1, <2>1, <2>4, SharesUnchanged
    <3>2. PendingOK'
      BY <1>1, <1>3, <2>4 DEF PendingOK, Lost, Matches
    <3>3. QED
      BY <1>1, <1>3, <2>2, <2>3, <3>1, <3>2 DEF SharedInv
  <2>5. CASE Lost'
    <3>1. SharesOK'
      BY <2>5 DEF SharesOK
    <3>2. PendingOK'
      BY <1>1, <1>3, <2>5 DEF PendingOK
    <3>3. QED
      BY <1>1, <1>3, <2>2, <2>3, <3>1, <3>2 DEF SharedInv
  <2>6. QED
    BY <2>1, <2>4, <2>5
<1>6. QED
  BY <1>2, <1>4, <1>5

\* The size an sget is told is the size of the one object of that name.
LEMMA AsksSize ==
  ASSUME SharedInv, NEW e \in Env, NEW owner \in Env, NEW name \in Name,
         getSizeOfSharedObject(e, owner, name)
  PROVE  SharedInv'
<1>1. /\ HeapsOK /\ HoldingsOK /\ MapsOK /\ SharesOK /\ PendingOK /\ killed \subseteq Env
  BY DEF SharedInv
<1>2. PICK i \in Slot :
        /\ Found(i, owner, name)
        /\ pending' = [pending EXCEPT ![e] = [owner |-> owner, name |-> name,
                                              size |-> shares[i].size]]
  BY DEF getSizeOfSharedObject
<1>3. /\ ~Lost /\ shares' = shares /\ page_table' = page_table /\ free_list' = free_list
      /\ taken_list' = taken_list /\ blocks' = blocks /\ held' = held /\ killed' = killed
  BY DEF getSizeOfSharedObject, heap
<1>4. /\ ~shares[i].empty /\ shares[i].ownerID = owner /\ shares[i].name = name
      /\ shares[i] \in Share /\ shares[i].size # 0
  BY <1>1, <1>2, <1>3 DEF Found, Matches, SharesOK
<1> DEFINE r == [owner |-> owner, name |-> name, size |-> shares[i].size]
<1>5. /\ r \in Request /\ r.owner = owner /\ r.name = name /\ r.size = shares[i].size
  BY <1>4 DEF Request, Share
<1>6. \A j \in Slot : Matches(j, owner, name) => j = i
  BY <1>1, <1>3, <1>4 DEF SharesOK
<1> HIDE DEF r
<1>7. /\ pending' \in [Env -> {NULL} \cup Request] /\ pending'[e] = r
      /\ \A d \in Env : d # e => pending'[d] = pending[d]
  BY <1>1, <1>2, <1>5 DEF PendingOK, r
<1>8. ASSUME NEW d \in Env, pending'[d] # NULL
      PROVE  /\ pending'[d].size # 0
             /\ \A j \in Slot : Matches(j, pending[d].owner, pending[d].name)'
                                  => shares'[j].size <= pending'[d].size
  <2>1. CASE d = e
    <3>1. shares[i].size \in Nat
      BY <1>4 DEF Share
    <3>2. \A j \in Slot : Matches(j, pending[d].owner, pending[d].name)' => j = i
      BY <1>3, <1>5, <1>6, <1>7, <2>1 DEF Matches
    <3>3. shares[i].size <= shares[i].size
      BY <3>1
    <3>4. QED
      BY <1>3, <1>4, <1>5, <1>7, <2>1, <3>2, <3>3
  <2>2. CASE d # e
    <3>1. /\ pending'[d] = pending[d] /\ pending[d].size # 0
          /\ \A j \in Slot : Matches(j, pending[d].owner, pending[d].name)
                               => shares[j].size <= pending[d].size
      BY <1>1, <1>3, <1>7, <1>8, <2>2 DEF PendingOK
    <3>2. QED
      BY <1>3, <3>1 DEF Matches
  <2>3. QED
    BY <2>1, <2>2
<1>9. PendingOK'
  BY <1>7, <1>8 DEF PendingOK
<1>10. HeapsOK' /\ HoldingsOK' /\ MapsOK' /\ SharesOK'
  BY <1>1, <1>3, SharesUnchanged DEF HeapsOK, HoldingsOK, MapsOK, NothingStaysMapped
<1>11. QED
  BY <1>1, <1>3, <1>9, <1>10 DEF SharedInv

\* An sget that finds no room for the size it was told changes nothing else.
LEMMA Sgets ==
  ASSUME SharedInv, NEW e \in Env, sget(e)
  PROVE  SharedInv'
<1>1. /\ HeapsOK /\ HoldingsOK /\ MapsOK /\ SharesOK /\ PendingOK /\ killed \subseteq Env
  BY DEF SharedInv
<1>2. /\ pending[e] # NULL /\ pending' = [pending EXCEPT ![e] = NULL]
      /\ blocks' = blocks /\ killed' = killed
  BY DEF sget
<1>3. CASE /\ ~Lost
           /\ \E a \in Page :
                /\ first_fit_user(e, pending[e].size, a)
                /\ getSharedObject(e, pending[e].owner, pending[e].name, a)
  BY <1>2, <1>3, Gets
<1>4. CASE UNCHANGED <<shares, page_table, heap, held>>
  <2>1. /\ shares' = shares /\ page_table' = page_table /\ free_list' = free_list
        /\ taken_list' = taken_list /\ held' = held
    BY <1>4 DEF heap
  <2>2. HeapsOK' /\ HoldingsOK' /\ MapsOK' /\ SharesOK'
    BY <1>1, <1>2, <2>1, SharesUnchanged DEF HeapsOK, HoldingsOK, MapsOK, NothingStaysMapped
  <2>3. PendingOK'
    BY <1>1, <1>2, <2>1 DEF PendingOK, Lost, Matches
  <2>4. QED
    BY <1>1, <1>2, <2>2, <2>3 DEF SharedInv
<1>5. QED
  BY <1>3, <1>4 DEF sget

\* Initially every program has one free block, and nobody holds an object.
LEMMA SharedInitial == Init => SharedInv
<1> SUFFICES ASSUME Init PROVE SharedInv
  OBVIOUS
<1> DEFINE b == [start |-> USER_HEAP_START, size |-> USER_HEAP_MAX - USER_HEAP_START]
<1>1. b \in UserBlock
  <2>1. PICK lo \in Nat, hi \in Nat :
          lo = USER_HEAP_START /\ hi = USER_HEAP_MAX /\ lo < hi
    BY UserBounds
  <2>2. hi - lo \in Nat \ {0} /\ lo + (hi - lo) <= hi
    BY <2>1
  <2>3. QED
    BY <2>1, <2>2, BlockIs DEF UserBlock
<1> HIDE DEF b
<1>2. /\ shares = [i \in Slot |-> EmptyShare] /\ killed = {}
      /\ page_table = [e \in Env |-> [p \in Page |-> NULL]]
      /\ free_list = [e \in Env |-> <<b>>] /\ taken_list = [e \in Env |-> <<>>]
      /\ pending = [e \in Env |-> NULL]
      /\ blocks = [e \in Env |-> {}] /\ held = [e \in Env |-> {}]
  BY DEF Init, b
<1>3. HeapsOK
  <2>1. <<b>> \in Seq(UserBlock) /\ <<>> \in Seq(UserBlock) /\ Len(<<b>>) = 1
    BY <1>1
  <2>2. Spread(<<b>>)
    BY <2>1 DEF Spread
  <2>3. Disjoint(<<>>) /\ Held(<<>>) = {}
    BY DEF Disjoint, Held, ToSet
  <2>4. /\ free_list \in [Env -> Seq(UserBlock)] /\ taken_list \in [Env -> Seq(UserBlock)]
        /\ \A e \in Env : free_list[e] = <<b>> /\ taken_list[e] = <<>>
    BY <1>2, <2>1
  <2>5. \A e \in Env : /\ Spread(free_list[e]) /\ Disjoint(taken_list[e])
                       /\ Held(free_list[e]) \cap Held(taken_list[e]) = {}
    BY <2>2, <2>3, <2>4
  <2>6. QED
    BY <2>4, <2>5 DEF HeapsOK
<1>4. HoldingsOK
  BY <1>2 DEF HoldingsOK
<1>5. MapsOK
  BY <1>2 DEF MapsOK, NothingStaysMapped
<1>6. SharesOK
  <2>1. \A i \in Slot : Holders(i) = {}
    BY <1>2 DEF Holders
  <2>2. /\ EmptyShare \in Share /\ EmptyShare.empty /\ EmptyShare.references = 0
        /\ EmptyShare.frames = <<>> /\ ToSet(<<>>) = {}
    BY DEF EmptyShare, Share, ToSet
  <2>3. /\ shares \in [Slot -> Share]
        /\ \A i \in Slot : shares[i] = EmptyShare
    BY <1>2, <2>2
  <2>4. \A i \in Slot : /\ IsFiniteSet(Holders(i))
                        /\ shares[i].references = Cardinality(Holders(i))
    BY <2>1, <2>2, <2>3, FS_EmptySet
  <2>5. QED
    BY <1>2, <2>2, <2>3, <2>4 DEF SharesOK
<1>7. PendingOK
  BY <1>2 DEF PendingOK
<1>8. QED
  BY <1>2, <1>3, <1>4, <1>5, <1>6, <1>7 DEF SharedInv

\* Every system call and every operation of a program keeps the invariant.
LEMMA SharedStep ==
  ASSUME ~Outgrows, SharedInv, [Next]_vars
  PROVE  SharedInv'
<1>1. ASSUME NEW e \in Env, NEW n \in Sizes, malloc(e, n) PROVE SharedInv'
  BY <1>1, Mallocs
<1>2. ASSUME NEW e \in Env, NEW va \in Page, free(e, va) PROVE SharedInv'
  BY <1>2, Frees
<1>3. ASSUME NEW e \in Env, NEW name \in Name, NEW n \in Sizes, smalloc(e, name, n)
      PROVE  SharedInv'
  BY <1>3, Smallocs
<1>4. ASSUME NEW e \in Env, NEW owner \in Env, NEW name \in Name,
             getSizeOfSharedObject(e, owner, name)
      PROVE  SharedInv'
  BY <1>4, AsksSize
<1>5. ASSUME NEW e \in Env, sget(e) PROVE SharedInv'
  BY <1>5, Sgets
<1>6. ASSUME NEW e \in Env, NEW h \in held[e], sfree(e, h) PROVE SharedInv'
  BY <1>6, GivesBack
<1>7. ASSUME NEW e \in Env, killed' \subseteq Env,
             UNCHANGED <<shares, page_table, heap, pending, blocks, held>>
      PROVE  SharedInv'
  <2>1. /\ shares' = shares /\ page_table' = page_table /\ free_list' = free_list
        /\ taken_list' = taken_list /\ pending' = pending /\ blocks' = blocks
        /\ held' = held
    BY <1>7 DEF heap
  <2>2. HeapsOK' /\ HoldingsOK' /\ MapsOK' /\ SharesOK'
    BY <2>1, SharesUnchanged
       DEF SharedInv, HeapsOK, HoldingsOK, MapsOK, NothingStaysMapped
  <2>3. PendingOK'
    BY <2>1 DEF SharedInv, PendingOK, Lost, Matches
  <2>4. QED
    BY <1>7, <2>2, <2>3 DEF SharedInv
<1>8. ASSUME NEW e \in Env, LostArrayFault(e) PROVE SharedInv'
  BY <1>7, <1>8 DEF LostArrayFault, SharedInv
<1>9. CASE UNCHANGED vars
  <2>1. /\ shares' = shares /\ page_table' = page_table /\ free_list' = free_list
        /\ taken_list' = taken_list /\ pending' = pending /\ blocks' = blocks
        /\ held' = held /\ killed' = killed
    BY <1>9 DEF vars
  <2>2. HeapsOK' /\ HoldingsOK' /\ MapsOK' /\ SharesOK'
    BY <2>1, SharesUnchanged
       DEF SharedInv, HeapsOK, HoldingsOK, MapsOK, NothingStaysMapped
  <2>3. PendingOK'
    BY <2>1 DEF SharedInv, PendingOK, Lost, Matches
  <2>4. QED
    BY <2>1, <2>2, <2>3 DEF SharedInv
<1>10. CASE Next
  BY <1>1, <1>2, <1>3, <1>4, <1>5, <1>6, <1>8, <1>10, Zenon DEF Next
<1>11. QED
  BY <1>9, <1>10

\* The invariant holds in every state.
LEMMA SharedInvariant ==
  ASSUME ~Outgrows
  PROVE  Spec => []SharedInv
<1>1. Init => SharedInv
  BY SharedInitial
<1>2. SharedInv /\ [Next]_vars => SharedInv'
  BY SharedStep
<1>3. QED
  BY <1>1, <1>2, PTL DEF Spec

\* The invariant gives the types: every block, page table and object is well formed.
LEMMA SharedTypes ==
  ASSUME SharedInv
  PROVE  TypeOK
<1>1. HeapsOK /\ HoldingsOK /\ MapsOK /\ SharesOK /\ PendingOK /\ killed \subseteq Env
  BY DEF SharedInv
<1>2. UserBlock \subseteq Block /\ \A b \in UserBlock : End(b) <= USER_HEAP_MAX
  <2> SUFFICES ASSUME NEW b \in UserBlock
               PROVE  b \in Block /\ End(b) <= USER_HEAP_MAX
    OBVIOUS
  <2>1. b.start \in Page /\ b.size \in Nat \ {0}
    BY BlockInPage
  <2>2. /\ End(b) = b.start + b.size /\ b.start + b.size <= USER_HEAP_MAX
        /\ b = [start |-> b.start, size |-> b.size]
    BY UserBounds, BlockFields DEF UserBlock
  <2>3. QED
    BY <2>1, <2>2 DEF Block
<1>3. /\ free_list \in [Env -> Seq(UserBlock)] /\ taken_list \in [Env -> Seq(UserBlock)]
  BY <1>1 DEF HeapsOK
<1>4. free_list \in [Env -> Seq(Block)] /\ taken_list \in [Env -> Seq(Block)]
  BY <1>2, <1>3
<1>5. \A e \in Env : \A b \in ToSet(free_list[e]) \cup ToSet(taken_list[e]) :
        End(b) <= USER_HEAP_MAX
  <2> SUFFICES ASSUME NEW e \in Env, NEW b \in ToSet(free_list[e]) \cup ToSet(taken_list[e])
               PROVE  End(b) <= USER_HEAP_MAX
    OBVIOUS
  <2>1. free_list[e] \in Seq(UserBlock) /\ taken_list[e] \in Seq(UserBlock)
    BY <1>3
  <2>2. b \in UserBlock
    BY <2>1, ElementOfSeq DEF ToSet
  <2>3. QED
    BY <1>2, <2>2
<1>6. \A e \in Env :
        /\ pending[e] = NULL \/ pending[e] \in [owner: Env, name: Name, size: Nat]
        /\ blocks[e] \subseteq Page
        /\ held[e] \subseteq [va: Page, slot: Slot, frames: Seq(Frame)]
  BY <1>1 DEF PendingOK, HoldingsOK, Request, Holding
<1>7. Lost \/ shares \in [Slot -> Share]
  BY <1>1 DEF SharesOK
<1>8. page_table \in [Env -> [Page -> Frame \cup {NULL}]]
  BY <1>1 DEF MapsOK
<1>9. QED
  BY <1>1, <1>4, <1>5, <1>6, <1>7, <1>8 DEF TypeOK

\* The heaps and what is held of them give that objects lie in blocks of their own.
LEMMA BlocksApart ==
  ASSUME SharedInv
  PROVE  MappedInsideOwnBlock
<1>1. HeapsOK /\ HoldingsOK
  BY DEF SharedInv
<1>2. SUFFICES ASSUME NEW e \in Env
               PROVE  /\ \A h \in held[e] : \E i \in 1..Len(taken_list[e]) :
                           /\ taken_list[e][i].start = h.va
                           /\ Len(h.frames) <= taken_list[e][i].size
                      /\ \A i, j \in 1..Len(taken_list[e]) : i # j =>
                           Pages(taken_list[e][i].start, taken_list[e][i].size)
                             \cap Pages(taken_list[e][j].start, taken_list[e][j].size) = {}
                      /\ \A i \in 1..Len(taken_list[e]) : \A j \in 1..Len(free_list[e]) :
                           Pages(taken_list[e][i].start, taken_list[e][i].size)
                             \cap Pages(free_list[e][j].start, free_list[e][j].size) = {}
  BY DEF MappedInsideOwnBlock
<1>3. \A h \in held[e] : \E i \in 1..Len(taken_list[e]) :
        taken_list[e][i].start = h.va /\ Len(h.frames) <= taken_list[e][i].size
  <2> SUFFICES ASSUME NEW h \in held[e]
               PROVE  \E i \in 1..Len(taken_list[e]) :
                        taken_list[e][i].start = h.va /\ Len(h.frames) <= taken_list[e][i].size
    OBVIOUS
  <2>1. PICK b \in ToSet(taken_list[e]) : b.start = h.va /\ Len(h.frames) <= b.size
    BY <1>1 DEF HoldingsOK
  <2>2. QED
    BY <2>1 DEF ToSet
<1>4. \A i, j \in 1..Len(taken_list[e]) : i # j =>
        Pages(taken_list[e][i].start, taken_list[e][i].size)
          \cap Pages(taken_list[e][j].start, taken_list[e][j].size) = {}
  BY <1>1 DEF HeapsOK, Disjoint
<1>5. \A i \in 1..Len(taken_list[e]) : \A j \in 1..Len(free_list[e]) :
        Pages(taken_list[e][i].start, taken_list[e][i].size)
          \cap Pages(free_list[e][j].start, free_list[e][j].size) = {}
  <2> SUFFICES ASSUME NEW i \in 1..Len(taken_list[e]), NEW j \in 1..Len(free_list[e])
               PROVE  Pages(taken_list[e][i].start, taken_list[e][i].size)
                        \cap Pages(free_list[e][j].start, free_list[e][j].size) = {}
    OBVIOUS
  <2>1. /\ Pages(taken_list[e][i].start, taken_list[e][i].size) \subseteq Held(taken_list[e])
        /\ Pages(free_list[e][j].start, free_list[e][j].size) \subseteq Held(free_list[e])
    BY DEF Held, ToSet
  <2>2. Held(free_list[e]) \cap Held(taken_list[e]) = {}
    BY <1>1 DEF HeapsOK
  <2>3. QED
    BY <2>1, <2>2
<1>6. QED
  BY <1>3, <1>4, <1>5

(***************************************************************************)
(* The array of objects, the page tables and the lists of every program    *)
(* hold values of their types, whatever the programs call.                 *)
(***************************************************************************)
THEOREM SharedTyped ==
  ASSUME ~Outgrows
  PROVE  Spec => []TypeOK
<1>1. SharedInv => TypeOK
  BY SharedTypes
<1>2. QED
  BY <1>1, SharedInvariant, PTL

(***************************************************************************)
(* A program that holds an object sees all its frames, however often the   *)
(* others call smalloc, sget and sfree.                                    *)
(***************************************************************************)
THEOREM ObjectsStayShared ==
  ASSUME ~Outgrows
  PROVE  Spec => []HoldersShare
<1>1. SharedInv => HoldersShare
  <2>1. SharedInv => MapsOK /\ SharesOK
    BY DEF SharedInv
  <2>2. QED
    BY <2>1 DEF MapsOK, SharesOK, HoldersShare
<1>2. QED
  BY <1>1, SharedInvariant, PTL

(***************************************************************************)
(* createSharedObject, getSharedObject and freeSharedObject count the      *)
(* holders of an object exactly.                                           *)
(***************************************************************************)
THEOREM ReferencesAreExact ==
  ASSUME ~Outgrows
  PROVE  Spec => []ReferencesCountHolders
<1>1. SharedInv => ReferencesCountHolders
  <2>1. SharedInv => (~Lost => \A i \in Slot : shares[i].references = Cardinality(Holders(i)))
    BY DEF SharedInv, SharesOK
  <2>2. QED
    BY <2>1 DEF Holders, ReferencesCountHolders
<1>2. QED
  BY <1>1, SharedInvariant, PTL

(***************************************************************************)
(* No frame belongs to two objects, and none is handed out again while its *)
(* object exists.                                                          *)
(***************************************************************************)
THEOREM FramesNotReused ==
  ASSUME ~Outgrows
  PROVE  Spec => []FramesExclusive
<1>1. SharedInv => FramesExclusive
  <2> SUFFICES ASSUME SharedInv, ~Lost, NEW i \in Slot, NEW j \in Slot
               PROVE  /\ ToSet(shares[i].frames) \cap FreeFrames = {}
                      /\ i # j => ToSet(shares[i].frames) \cap ToSet(shares[j].frames) = {}
    BY DEF FramesExclusive
  <2>1. HeapsOK /\ HoldingsOK /\ MapsOK /\ SharesOK
    BY DEF SharedInv
  <2>2. ToSet(shares[i].frames) \cap FreeFrames = {}
    BY <2>1, FramesInUse
  <2>3. i # j => ToSet(shares[i].frames) \cap ToSet(shares[j].frames) = {}
    BY <2>1 DEF SharesOK
  <2>4. QED
    BY <2>2, <2>3
<1>2. QED
  BY <1>1, SharedInvariant, PTL

(***************************************************************************)
(* Every page a program has mapped belongs to an object it holds: sfree    *)
(* leaves nothing of an object behind.                                     *)
(***************************************************************************)
THEOREM NothingLeftMapped ==
  ASSUME ~Outgrows
  PROVE  Spec => []NothingStaysMapped
<1>1. SharedInv => NothingStaysMapped
  BY DEF SharedInv, MapsOK
<1>2. QED
  BY <1>1, SharedInvariant, PTL

(***************************************************************************)
(* Every object is mapped inside a block of its program's heap that is     *)
(* neither free nor part of another.                                       *)
(***************************************************************************)
THEOREM ObjectsKeepApart ==
  ASSUME ~Outgrows
  PROVE  Spec => []MappedInsideOwnBlock
<1>1. SharedInv => MappedInsideOwnBlock
  BY BlocksApart
<1>2. QED
  BY <1>1, SharedInvariant, PTL
=============================================================================
