------------------------- MODULE AddressSpaceProofs -------------------------
(***************************************************************************)
(* AddressSpace, for every number of environments, pages, frames and pages *)
(* of the kernel heap: the references of frames, the page tables and what  *)
(* programs see stay in order whatever they do.                            *)
(*                                                                         *)
(* First what each function of memory_manager.c does to a memory that is   *)
(* Good, then what each step does to the invariant SpaceInv, which adds    *)
(* the working sets and the shared object.                                 *)
(***************************************************************************)
EXTENDS AddressSpace, FiniteSetTheorems, WellFoundedInduction, TLAPS

VAs == HeapPages \cup Pages \cup {WSPage, NULL}
Infos == [references : Nat, va : VAs]
Entries == [Index -> Frames \cup {Junk, NULL}]

Mem == [free_frame_list : SUBSET Frames,
        frames_info : [Frames -> Infos],
        contents : [Frames -> Entries],
        heap : [HeapPages -> Frames \cup {NULL}],
        page_directory : [Spaces -> [Tables -> Frames \cup {NULL}]],
        own : [Spaces -> SUBSET HeapPages], panic : BOOLEAN]

UserPages == Pages \cup {WSPage}

LEMMA PageIndex ==
  ASSUME NEW p \in Nat
  PROVE  /\ PDX(p) \in Nat /\ PTX(p) \in Index
         /\ p = NPTENTRIES * PDX(p) + PTX(p)
<1>1. NPTENTRIES \in Nat \ {0}
  BY SpaceAssumption
<1>2. QED
  BY <1>1 DEF PDX, PTX, Index

LEMMA PageOfIndex ==
  ASSUME NEW p \in Nat, NEW q \in Nat, PDX(p) = PDX(q), PTX(p) = PTX(q)
  PROVE  p = q
BY PageIndex

LEMMA FirstOfTable ==
  ASSUME NEW t \in Nat
  PROVE  t * NPTENTRIES \in Nat /\ PDX(t * NPTENTRIES) = t
<1>1. NPTENTRIES \in Nat \ {0}
  BY SpaceAssumption
<1>2. QED
  BY <1>1 DEF PDX

LEMMA MemFields ==
  ASSUME NEW s \in Mem
  PROVE  /\ s.free_frame_list \in SUBSET Frames
         /\ s.frames_info \in [Frames -> Infos]
         /\ s.contents \in [Frames -> Entries]
         /\ s.heap \in [HeapPages -> Frames \cup {NULL}]
         /\ s.page_directory \in [Spaces -> [Tables -> Frames \cup {NULL}]]
         /\ s.own \in [Spaces -> SUBSET HeapPages]
         /\ s.panic \in BOOLEAN
BY DEF Mem

LEMMA SetContents ==
  ASSUME NEW s \in Mem, NEW c \in [Frames -> Entries]
  PROVE  LET r == [s EXCEPT !.contents = c]
         IN  /\ r \in Mem /\ r.contents = c
             /\ r.free_frame_list = s.free_frame_list /\ r.frames_info = s.frames_info
             /\ r.heap = s.heap /\ r.page_directory = s.page_directory
             /\ r.own = s.own /\ r.panic = s.panic
BY DEF Mem

-----------------------------------------------------------------------------
\* Finite sets: a smallest one among some, the least and the greatest number.
LEMMA SmallestSet ==
  ASSUME NEW S, IsFiniteSet(S), NEW B, \A T \in B : T \subseteq S, B # {}
  PROVE  \E T \in B : \A U \in B : U \subseteq T => U = T
<1> DEFINE R == StrictSubsetOrdering(S)
<1>1. FiniteSubsetsOf(S) = SUBSET S
  BY FS_FiniteSubsetsOfFinite
<1>2. IsWellFoundedOn(R, SUBSET S)
  BY <1>1, FS_StrictSubsetOrderingWellFounded
<1> HIDE DEF R
<1> B \in SUBSET (SUBSET S)
  OBVIOUS
<1>3. PICK T \in B : \A U \in B : <<U, T>> \notin R
  BY <1>2, WFMin
<1>4. ASSUME NEW U \in B, U \subseteq T, U # T PROVE <<U, T>> \in R
  <2>1. U \in SUBSET S /\ T \in SUBSET S
    OBVIOUS
  <2>2. <<U, T>> \in (SUBSET S) \X (SUBSET S)
    BY <2>1
  <2>3. <<U, T>>[1] = U /\ <<U, T>>[2] = T
    OBVIOUS
  <2>4. QED
    BY <1>4, <2>2, <2>3, Zenon DEF R, StrictSubsetOrdering
<1>5. \A U \in B : U \subseteq T => U = T
  BY <1>3, <1>4, Zenon
<1>6. QED
  BY <1>5, Zenon

LEMMA LeastNumber ==
  ASSUME NEW S \in SUBSET Nat, S # {}
  PROVE  Min(S) \in S /\ \A n \in S : Min(S) =< n
<1> DEFINE R == {xy \in Nat \X Nat : xy[1] < xy[2]}
<1>1. IsWellFoundedOn(R, Nat)
  BY NatLessThanWellFounded DEF OpToRel
<1>2. PICK m \in S : \A n \in S : <<n, m>> \notin R
  BY <1>1, WFMin
<1>3. \A n \in S : n < m => <<n, m>> \in R
  OBVIOUS
<1>4. \A n \in S : ~(n < m)
  BY <1>2, <1>3, Zenon
<1>5. \A n \in S : m =< n
  BY <1>4
<1>6. QED
  BY <1>5 DEF Min

LEMMA GreatestNumber ==
  ASSUME NEW S \in SUBSET Nat, IsFiniteSet(S), S # {}
  PROVE  Max(S) \in S
<1> DEFINE B == {T \in SUBSET S : T # {} /\ ~\E m \in T : \A n \in T : m >= n}
<1>1. B = {}
  <2> SUFFICES ASSUME B # {} PROVE FALSE
    OBVIOUS
  <2>1. PICK T \in B : \A U \in B : U \subseteq T => U = T
    <3>1. \A T \in B : T \subseteq S
      OBVIOUS
    <3> HIDE DEF B
    <3>2. QED
      BY <3>1, SmallestSet
  <2>2. PICK x \in T : TRUE
    BY <2>1
  <2> T \in SUBSET Nat /\ x \in Nat /\ T \in SUBSET S /\ T # {}
    BY <2>1, <2>2
  <2> ~\E m \in T : \A n \in T : m >= n
    BY <2>1
  <2>3. T \ {x} # {}
    <3> SUFFICES ASSUME T \ {x} = {} PROVE FALSE
      OBVIOUS
    <3>1. \A n \in T : x >= n
      OBVIOUS
    <3>2. QED
      BY <3>1
  <2>4. PICK m \in T \ {x} : \A n \in T \ {x} : m >= n
    <3>1. T \ {x} # T /\ T \ {x} \subseteq T /\ T \ {x} \in SUBSET S
      BY <2>2
    <3>2. T \ {x} \notin B
      BY <2>1, <3>1, Zenon
    <3>3. QED
      BY <2>3, <3>1, <3>2
  <2> m \in Nat /\ m \in T
    BY <2>4
  <2>5. CASE m >= x
    <3>1. \A n \in T : m >= n
      BY <2>4, <2>5
    <3>2. QED
      BY <3>1
  <2>6. CASE x >= m
    <3>1. \A n \in T : x >= n
      BY <2>4, <2>6
    <3>2. QED
      BY <3>1
  <2>7. QED
    BY <2>5, <2>6
<1>2. \E m \in S : \A n \in S : m >= n
  BY <1>1
<1>3. QED
  BY <1>2 DEF Max

\* A set that holds several elements is not empty, and holds one less without one.
LEMMA Holds ==
  ASSUME NEW S, IsFiniteSet(S)
  PROVE  /\ Cardinality(S) \in Nat
         /\ Cardinality(S) >= 1 <=> S # {}
         /\ \A x \in S : IsFiniteSet(S \ {x}) /\ Cardinality(S \ {x}) = Cardinality(S) - 1
         /\ \A x : x \notin S => /\ IsFiniteSet(S \cup {x})
                               /\ Cardinality(S \cup {x}) = Cardinality(S) + 1
BY FS_CardinalityType, FS_EmptySet, FS_RemoveElement, FS_AddElement

\* What FoldSet computes: an element of the set is chosen, the rest comes first.
Chosen(T) == CHOOSE x \in T : TRUE

FoldStep(T, base, G, g) ==
  IF T = {} THEN base ELSE G[Chosen(T)][g[T \ {Chosen(T)}]]

IsFold(S, V, base, G) ==
  \E g \in [SUBSET S -> V] : \A T \in SUBSET S : g[T] = FoldStep(T, base, G, g)

LEMMA FoldExists ==
  ASSUME NEW S, IsFiniteSet(S), NEW V, NEW base \in V, NEW G \in [S -> [V -> V]]
  PROVE  IsFold(S, V, base, G)
<1> DEFINE Folds(n, g) == \A T \in SUBSET S : Cardinality(T) =< n => g[T] = FoldStep(T, base, G, g)
           B == {n \in Nat : ~\E g \in [SUBSET S -> V] : Folds(n, g)}
<1>0. ASSUME NEW T \in SUBSET S
      PROVE  /\ Cardinality(T) \in Nat /\ Cardinality(T) =< Cardinality(S)
             /\ (Cardinality(T) = 0) <=> (T = {})
  <2>1. IsFiniteSet(T) /\ Cardinality(T) \in Nat /\ Cardinality(T) =< Cardinality(S)
    BY FS_Subset, FS_CardinalityType
  <2>2. QED
    BY <2>1, FS_EmptySet
<1>1. ASSUME NEW T \in SUBSET S, T # {}
      PROVE  /\ Chosen(T) \in T /\ Chosen(T) \in S /\ T \ {Chosen(T)} \in SUBSET S
             /\ Cardinality(T \ {Chosen(T)}) = Cardinality(T) - 1
  <2>1. IsFiniteSet(T)
    BY FS_Subset
  <2>2. Chosen(T) \in T
    BY <1>1 DEF Chosen
  <2>3. QED
    BY <2>1, <2>2, Holds
<1>2. B = {}
  <2> SUFFICES ASSUME B # {} PROVE FALSE
    OBVIOUS
  <2> DEFINE m == Min(B)
  <2>1. m \in B /\ \A n \in B : m =< n
    <3>1. B \in SUBSET Nat
      OBVIOUS
    <3> HIDE DEF B
    <3>2. QED
      BY <3>1, LeastNumber
  <2>2. m \in Nat /\ ~\E g \in [SUBSET S -> V] : Folds(m, g)
    BY <2>1
  <2> HIDE DEF m, Folds
  <2>3. CASE m = 0
    <3> DEFINE g == [T \in SUBSET S |-> base]
    <3>1. g \in [SUBSET S -> V]
      OBVIOUS
    <3>2. Folds(0, g)
      <4> SUFFICES ASSUME NEW T \in SUBSET S, Cardinality(T) =< 0
                   PROVE  g[T] = FoldStep(T, base, G, g)
        BY DEF Folds
      <4>1. Cardinality(T) = 0
        BY <1>0
      <4>2. T = {}
        BY <1>0, <4>1
      <4>3. QED
        BY <4>2 DEF FoldStep
    <3>3. QED
      BY <2>2, <2>3, <3>1, <3>2, Zenon
  <2>4. CASE m # 0
    <3>1. m - 1 \in Nat
      BY <2>2, <2>4
    <3>9. m - 1 \notin B
      <4> HIDE DEF B
      <4>1. \A n \in B : m =< n
        BY <2>1
      <4>2. QED
        BY <2>2, <3>1, <4>1
    <3>2. PICK g \in [SUBSET S -> V] : Folds(m - 1, g)
      BY <3>1, <3>9
    <3> HIDE DEF B
    <3> DEFINE rest(T) == T \ {Chosen(T)}
               h == [T \in SUBSET S |-> IF Cardinality(T) =< m - 1 THEN g[T]
                                        ELSE G[Chosen(T)][g[rest(T)]]]
    <3>3. h \in [SUBSET S -> V]
      <4> SUFFICES ASSUME NEW T \in SUBSET S, ~(Cardinality(T) =< m - 1)
                   PROVE  G[Chosen(T)][g[rest(T)]] \in V
        OBVIOUS
      <4>1. T # {}
        <5> HIDE DEF rest, h
        <5>1. SUFFICES ASSUME T = {} PROVE FALSE
          OBVIOUS
        <5>2. Cardinality(T) = 0
          BY <1>0, <5>1
        <5>3. QED
          BY <2>2, <3>1, <5>2
      <4>2. Chosen(T) \in S /\ rest(T) \in SUBSET S
        BY <1>1, <4>1
      <4> HIDE DEF rest
      <4>3. g[rest(T)] \in V
        BY <4>2
      <4>4. QED
        BY <4>2, <4>3
    <3>4. Folds(m, h)
      <4> SUFFICES ASSUME NEW T \in SUBSET S, Cardinality(T) =< m
                   PROVE  h[T] = FoldStep(T, base, G, h)
        BY DEF Folds
      <4>1. CASE T = {}
        <5>1. Cardinality(T) =< m - 1
          <6>1. Cardinality(T) = 0
            BY <1>0, <4>1
          <6>2. QED
            BY <2>2, <2>4, <6>1
        <5>2. g[T] = base
          BY <3>2, <4>1, <5>1 DEF Folds, FoldStep
        <5>3. QED
          BY <4>1, <5>1, <5>2 DEF FoldStep
      <4>2. CASE T # {}
        <5>1. rest(T) \in SUBSET S /\ Cardinality(rest(T)) =< m - 1
          BY <1>0, <1>1, <2>2, <4>2
        <5>2. h[rest(T)] = g[rest(T)]
          BY <5>1
        <5>3. h[T] = G[Chosen(T)][g[rest(T)]]
          <6>1. CASE Cardinality(T) =< m - 1
            <7>1. g[T] = FoldStep(T, base, G, g)
              BY <3>2, <6>1 DEF Folds
            <7>2. QED
              BY <4>2, <6>1, <7>1 DEF FoldStep
          <6>2. CASE ~(Cardinality(T) =< m - 1)
            BY <6>2
          <6>3. QED
            BY <6>1, <6>2
        <5> HIDE DEF h
        <5>4. QED
          BY <4>2, <5>2, <5>3 DEF FoldStep
      <4>3. QED
        BY <4>1, <4>2
    <3> HIDE DEF h
    <3>5. QED
      BY <2>2, <3>3, <3>4, Zenon
  <2>5. QED
    BY <2>3, <2>4
<1>3. Cardinality(S) \in Nat
  BY FS_CardinalityType
<1>4. PICK g \in [SUBSET S -> V] : Folds(Cardinality(S), g)
  BY <1>2, <1>3
<1>5. \A T \in SUBSET S : g[T] = FoldStep(T, base, G, g)
  BY <1>0, <1>4
<1>6. QED
  BY <1>5 DEF IsFold

LEMMA FoldKeeps ==
  ASSUME NEW S, IsFiniteSet(S), NEW P, NEW g, g[{}] \in P[{}],
         \A T \in SUBSET S : T # {} /\ g[T \ {Chosen(T)}] \in P[T \ {Chosen(T)}] => g[T] \in P[T]
  PROVE  g[S] \in P[S]
<1> DEFINE B == {T \in SUBSET S : g[T] \notin P[T]}
<1>1. B = {}
  <2> SUFFICES ASSUME B # {} PROVE FALSE
    OBVIOUS
  <2>1. PICK T \in B : \A U \in B : U \subseteq T => U = T
    <3>1. \A T \in B : T \subseteq S
      OBVIOUS
    <3> HIDE DEF B
    <3>2. QED
      BY <3>1, SmallestSet
  <2>2. T # {}
    OBVIOUS
  <2>3. Chosen(T) \in T
    BY <2>2 DEF Chosen
  <2>4. T \ {Chosen(T)} \notin B
    BY <2>1, <2>3
  <2>5. g[T \ {Chosen(T)}] \in P[T \ {Chosen(T)}]
    BY <2>4
  <2>6. QED
    BY <2>2, <2>5
<1>2. QED
  BY <1>1

-----------------------------------------------------------------------------
(***************************************************************************)
(* What holds of the memory s between the calls of its functions, with the *)
(* frames out that are neither free nor used: lost, or taken and not yet   *)
(* mapped.                                                                 *)
(***************************************************************************)
TableOf(s, d, p) == s.page_directory[d][PDX(p)]

\* The frame mapped at p, read without the detour over the heap.
MappedAt(s, d, p) ==
  IF TableOf(s, d, p) = NULL THEN NULL ELSE s.contents[TableOf(s, d, p)][PTX(p)]

MappingsOf(s, f) == {k \in Envs \X UserPages : MappedAt(s, k[1], k[2]) = f}
HeapPagesOf(s, f) == {h \in HeapPages : s.heap[h] = f}
References(s, f) == Cardinality(MappingsOf(s, f)) + Cardinality(HeapPagesOf(s, f))

\* The pages of the heap have a frame of their own.
HeapApart(s) ==
  \A g, h \in HeapPages : s.heap[g] # NULL /\ s.heap[g] = s.heap[h] => g = h

\* A page table is a page of the heap, found by its frame, of one directory only;
\* its entries are frames.
TableOK(s, d, t, f) ==
  /\ s.frames_info[f].va \in HeapPages /\ s.heap[s.frames_info[f].va] = f
  /\ \A i \in Index : s.contents[f][i] # Junk
  /\ \A c \in Spaces, u \in Tables : s.page_directory[c][u] = f => c = d /\ u = t

TablesOK(s) ==
  \A d \in Spaces, t \in Tables :
    s.page_directory[d][t] # NULL => TableOK(s, d, t, s.page_directory[d][t])

Counted(s, out) ==
  \A f \in Frames :
    /\ s.frames_info[f].references = References(s, f)
    /\ References(s, f) = 0 <=> f \in s.free_frame_list \cup out
    /\ f \notin s.free_frame_list \cap out

Good(s, out) == s \in Mem /\ HeapApart(s) /\ TablesOK(s) /\ Counted(s, out)

IsTable(s, f) == \E d \in Spaces, t \in Tables : s.page_directory[d][t] = f

-----------------------------------------------------------------------------
\* Lookups.
LEMMA PageTypes ==
  ASSUME NEW p \in UserPages
  PROVE  p \in Nat /\ PDX(p) \in Tables /\ PTX(p) \in Index /\ PDX(p) \in Nat
<1>1. p \in Nat
  BY SpaceAssumption DEF UserPages
<1>2. QED
  BY <1>1, PageIndex DEF UserPages, Tables

LEMMA NotNumbers ==
  /\ NULL \notin Frames /\ Junk \notin Frames /\ NULL \notin HeapPages
  /\ Junk # NULL /\ Storage \in Spaces /\ Storage \notin Envs /\ Envs \subseteq Spaces
  /\ IsFiniteSet(Frames) /\ IsFiniteSet(HeapPages)
BY SpaceAssumption DEF Spaces

LEMMA TableTypes ==
  ASSUME NEW s \in Mem, NEW d \in Spaces, NEW t \in Tables
  PROVE  /\ s.page_directory[d][t] \in Frames \cup {NULL}
         /\ \A f \in Frames, i \in Index : s.contents[f][i] \in Frames \cup {Junk, NULL}
         /\ \A h \in HeapPages : s.heap[h] \in Frames \cup {NULL}
BY MemFields DEF Entries

LEMMA Lookup ==
  ASSUME NEW s \in Mem, TablesOK(s), NEW d \in Spaces, NEW p \in UserPages
  PROVE  /\ get_page_table(s, d, p) = NULL <=> TableOf(s, d, p) = NULL
         /\ TableOf(s, d, p) # NULL =>
              /\ get_page_table(s, d, p) = s.frames_info[TableOf(s, d, p)].va
              /\ get_page_table(s, d, p) \in HeapPages
              /\ s.heap[get_page_table(s, d, p)] = TableOf(s, d, p)
              /\ Entry(s, d, p) = MappedAt(s, d, p)
              /\ \A x : SetEntry(s, d, p, x) =
                          [s EXCEPT !.contents[TableOf(s, d, p)][PTX(p)] = x]
         /\ get_frame_info(s, d, p) = MappedAt(s, d, p)
         /\ MappedAt(s, d, p) \in Frames \cup {NULL}
<1> DEFINE f == TableOf(s, d, p)
<1>1. PDX(p) \in Tables /\ PTX(p) \in Index
  BY PageTypes
<1>2. f = s.page_directory[d][PDX(p)] /\ f \in Frames \cup {NULL}
  BY <1>1, TableTypes DEF TableOf
<1>3. get_page_table(s, d, p) = IF f = NULL THEN NULL ELSE s.frames_info[f].va
  BY <1>2 DEF get_page_table, kheap_virtual_address
<1>4. f # NULL => TableOK(s, d, PDX(p), f)
  BY <1>1, <1>2 DEF TablesOK
<1>5. f # NULL => /\ s.frames_info[f].va \in HeapPages /\ s.heap[s.frames_info[f].va] = f
                  /\ \A i \in Index : s.contents[f][i] # Junk
  BY <1>4 DEF TableOK
<1>6. get_page_table(s, d, p) = NULL <=> f = NULL
  BY <1>3, <1>5, NotNumbers
<1>7. MappedAt(s, d, p) = IF f = NULL THEN NULL ELSE s.contents[f][PTX(p)]
  BY DEF MappedAt
<1> HIDE DEF f
<1>8. ASSUME f # NULL
      PROVE  /\ get_page_table(s, d, p) = s.frames_info[f].va
             /\ get_page_table(s, d, p) \in HeapPages
             /\ s.heap[get_page_table(s, d, p)] = f
             /\ Entry(s, d, p) = MappedAt(s, d, p)
             /\ \A x : SetEntry(s, d, p, x) = [s EXCEPT !.contents[f][PTX(p)] = x]
  <2>1. get_page_table(s, d, p) = s.frames_info[f].va /\ s.heap[get_page_table(s, d, p)] = f
    BY <1>3, <1>5, <1>8
  <2>2. Entry(s, d, p) = MappedAt(s, d, p)
    BY <1>7, <1>8, <2>1 DEF Entry
  <2>3. \A x : SetEntry(s, d, p, x) = [s EXCEPT !.contents[f][PTX(p)] = x]
    BY <2>1 DEF SetEntry
  <2>4. QED
    BY <1>5, <1>8, <2>1, <2>2, <2>3
<1>9. get_frame_info(s, d, p) = MappedAt(s, d, p)
  BY <1>6, <1>7, <1>8 DEF get_frame_info
<1>10. MappedAt(s, d, p) \in Frames \cup {NULL}
  <2>1. CASE f = NULL
    BY <1>7, <2>1
  <2>2. CASE f # NULL
    <3>1. s.contents[f][PTX(p)] \in Frames \cup {Junk, NULL}
      BY <1>1, <1>2, <2>2, TableTypes
    <3>2. QED
      BY <1>1, <1>5, <1>7, <2>2, <3>1
  <2>3. QED
    BY <2>1, <2>2
<1>11. QED
  BY <1>6, <1>8, <1>9, <1>10 DEF f

-----------------------------------------------------------------------------
\* Counting references.
LEMMA CountTypes ==
  ASSUME NEW s, NEW f
  PROVE  /\ IsFiniteSet(MappingsOf(s, f)) /\ Cardinality(MappingsOf(s, f)) \in Nat
         /\ IsFiniteSet(HeapPagesOf(s, f)) /\ Cardinality(HeapPagesOf(s, f)) \in Nat
         /\ References(s, f) \in Nat
<1>1. IsFiniteSet(UserPages)
  BY SpaceAssumption, FS_AddElement DEF UserPages
<1>2. IsFiniteSet(Envs \X UserPages)
  BY <1>1, SpaceAssumption, FS_Product
<1>3. IsFiniteSet(MappingsOf(s, f)) /\ Cardinality(MappingsOf(s, f)) \in Nat
  <2>1. MappingsOf(s, f) \in SUBSET (Envs \X UserPages)
    BY DEF MappingsOf
  <2>2. QED
    BY <1>2, <2>1, FS_Subset, FS_CardinalityType
<1>4. IsFiniteSet(HeapPagesOf(s, f)) /\ Cardinality(HeapPagesOf(s, f)) \in Nat
  <2>1. HeapPagesOf(s, f) \in SUBSET HeapPages
    BY DEF HeapPagesOf
  <2>2. QED
    BY <2>1, SpaceAssumption, FS_Subset, FS_CardinalityType
<1>5. QED
  BY <1>3, <1>4 DEF References

\* One entry of an environment changes.
LEMMA MappingChanges ==
  ASSUME NEW s, NEW r, NEW d \in Envs, NEW p \in UserPages, NEW x,
         \A c \in Envs, q \in UserPages :
           MappedAt(r, c, q) = IF c = d /\ q = p THEN x ELSE MappedAt(s, c, q),
         NEW f
  PROVE  /\ (f = MappedAt(s, d, p) <=> f = x) => MappingsOf(r, f) = MappingsOf(s, f)
         /\ f = MappedAt(s, d, p) /\ f # x =>
              Cardinality(MappingsOf(r, f)) = Cardinality(MappingsOf(s, f)) - 1
         /\ f # MappedAt(s, d, p) /\ f = x =>
              Cardinality(MappingsOf(r, f)) = Cardinality(MappingsOf(s, f)) + 1
<1>1. <<d, p>> \in Envs \X UserPages /\ <<d, p>>[1] = d /\ <<d, p>>[2] = p
  OBVIOUS
<1>2. \A k \in Envs \X UserPages :
        /\ k[1] \in Envs /\ k[2] \in UserPages
        /\ k # <<d, p>> => ~(k[1] = d /\ k[2] = p)
  OBVIOUS
<1>3. MappedAt(r, d, p) = x
  OBVIOUS
<1>4. \A k \in Envs \X UserPages :
        k # <<d, p>> => MappedAt(r, k[1], k[2]) = MappedAt(s, k[1], k[2])
  BY <1>2
<1>5. <<d, p>> \in MappingsOf(s, f) <=> f = MappedAt(s, d, p)
  BY <1>1 DEF MappingsOf
<1>6. <<d, p>> \in MappingsOf(r, f) <=> f = x
  BY <1>1, <1>3 DEF MappingsOf
<1>7. \A k : k # <<d, p>> => (k \in MappingsOf(r, f) <=> k \in MappingsOf(s, f))
  BY <1>4 DEF MappingsOf
<1>8. (f = MappedAt(s, d, p) <=> f = x) => MappingsOf(r, f) = MappingsOf(s, f)
  BY <1>5, <1>6, <1>7
<1>9. ASSUME f = MappedAt(s, d, p), f # x
      PROVE  Cardinality(MappingsOf(r, f)) = Cardinality(MappingsOf(s, f)) - 1
  <2>1. MappingsOf(r, f) = MappingsOf(s, f) \ {<<d, p>>}
    BY <1>6, <1>7, <1>9
  <2>2. QED
    BY <1>5, <1>9, <2>1, CountTypes, Holds
<1>10. ASSUME f # MappedAt(s, d, p), f = x
       PROVE  Cardinality(MappingsOf(r, f)) = Cardinality(MappingsOf(s, f)) + 1
  <2>1. MappingsOf(r, f) = MappingsOf(s, f) \cup {<<d, p>>}
    BY <1>6, <1>7, <1>10
  <2>2. QED
    BY <1>5, <1>10, <2>1, CountTypes, Holds
<1>11. QED
  BY <1>8, <1>9, <1>10

LEMMA MappingsStay ==
  ASSUME NEW s, NEW r, NEW f,
         \A c \in Envs, q \in UserPages : MappedAt(r, c, q) = MappedAt(s, c, q)
  PROVE  MappingsOf(r, f) = MappingsOf(s, f)
<1>1. \A k \in Envs \X UserPages : k[1] \in Envs /\ k[2] \in UserPages
  OBVIOUS
<1>2. QED
  BY <1>1 DEF MappingsOf

\* One page of the heap changes.
LEMMA HeapChanges ==
  ASSUME NEW s, NEW r, NEW h \in HeapPages, NEW x,
         \A g \in HeapPages : r.heap[g] = IF g = h THEN x ELSE s.heap[g],
         NEW f
  PROVE  /\ (f = s.heap[h] <=> f = x) => HeapPagesOf(r, f) = HeapPagesOf(s, f)
         /\ f = s.heap[h] /\ f # x =>
              Cardinality(HeapPagesOf(r, f)) = Cardinality(HeapPagesOf(s, f)) - 1
         /\ f # s.heap[h] /\ f = x =>
              Cardinality(HeapPagesOf(r, f)) = Cardinality(HeapPagesOf(s, f)) + 1
<1>1. h \in HeapPagesOf(s, f) <=> f = s.heap[h]
  BY DEF HeapPagesOf
<1>2. h \in HeapPagesOf(r, f) <=> f = x
  BY DEF HeapPagesOf
<1>3. \A g : g # h => (g \in HeapPagesOf(r, f) <=> g \in HeapPagesOf(s, f))
  BY DEF HeapPagesOf
<1>4. (f = s.heap[h] <=> f = x) => HeapPagesOf(r, f) = HeapPagesOf(s, f)
  BY <1>1, <1>2, <1>3
<1>5. ASSUME f = s.heap[h], f # x
      PROVE  Cardinality(HeapPagesOf(r, f)) = Cardinality(HeapPagesOf(s, f)) - 1
  <2>1. HeapPagesOf(r, f) = HeapPagesOf(s, f) \ {h}
    BY <1>2, <1>3, <1>5
  <2>2. QED
    BY <1>1, <1>5, <2>1, CountTypes, Holds
<1>6. ASSUME f # s.heap[h], f = x
      PROVE  Cardinality(HeapPagesOf(r, f)) = Cardinality(HeapPagesOf(s, f)) + 1
  <2>1. HeapPagesOf(r, f) = HeapPagesOf(s, f) \cup {h}
    BY <1>2, <1>3, <1>6
  <2>2. QED
    BY <1>1, <1>6, <2>1, CountTypes, Holds
<1>7. QED
  BY <1>4, <1>5, <1>6

\* A frame that is not used is found nowhere; one of the heap is used.
LEMMA NotUsed ==
  ASSUME NEW s, NEW f
  PROVE  References(s, f) = 0 <=>
           /\ \A c \in Envs, q \in UserPages : MappedAt(s, c, q) # f
           /\ \A h \in HeapPages : s.heap[h] # f
<1>1. References(s, f) = 0 <=> MappingsOf(s, f) = {} /\ HeapPagesOf(s, f) = {}
  <2>1. /\ Cardinality(MappingsOf(s, f)) = 0 <=> MappingsOf(s, f) = {}
        /\ Cardinality(HeapPagesOf(s, f)) = 0 <=> HeapPagesOf(s, f) = {}
    BY CountTypes, FS_EmptySet
  <2>2. QED
    BY <2>1, CountTypes DEF References
<1>2. MappingsOf(s, f) = {} <=> \A c \in Envs, q \in UserPages : MappedAt(s, c, q) # f
  <2>1. ASSUME NEW c \in Envs, NEW q \in UserPages, MappedAt(s, c, q) = f
        PROVE  <<c, q>> \in MappingsOf(s, f)
    BY <2>1 DEF MappingsOf
  <2>2. \A k \in MappingsOf(s, f) :
          k[1] \in Envs /\ k[2] \in UserPages /\ MappedAt(s, k[1], k[2]) = f
    BY DEF MappingsOf
  <2>3. QED
    BY <2>1, <2>2
<1>3. HeapPagesOf(s, f) = {} <=> \A h \in HeapPages : s.heap[h] # f
  BY DEF HeapPagesOf
<1>4. QED
  BY <1>1, <1>2, <1>3

\* What the invariant says of a frame of the heap, of a table and of a free frame.
LEMMA FrameInHeap ==
  ASSUME NEW s, NEW out, Good(s, out), NEW h \in HeapPages, NEW f \in Frames, s.heap[h] = f
  PROVE  /\ HeapPagesOf(s, f) = {h} /\ Cardinality(HeapPagesOf(s, f)) = 1
         /\ f \notin s.free_frame_list /\ f \notin out
         /\ s.frames_info[f].references = Cardinality(MappingsOf(s, f)) + 1
<1>1. HeapPagesOf(s, f) = {h}
  BY NotNumbers DEF HeapPagesOf, Good, HeapApart
<1>2. Cardinality(HeapPagesOf(s, f)) = 1
  BY <1>1, FS_Singleton
<1>3. References(s, f) # 0
  BY NotUsed
<1>4. QED
  BY <1>1, <1>2, <1>3 DEF Good, Counted, References

LEMMA TableFrames ==
  ASSUME NEW s, NEW out, Good(s, out), NEW d \in Spaces, NEW t \in Tables,
         s.page_directory[d][t] # NULL
  PROVE  LET f == s.page_directory[d][t]
         IN  /\ f \in Frames /\ TableOK(s, d, t, f) /\ f \notin s.free_frame_list /\ f \notin out
             /\ s.frames_info[f].va \in HeapPages /\ s.heap[s.frames_info[f].va] = f
             /\ s.frames_info[f].references = Cardinality(MappingsOf(s, f)) + 1
<1> DEFINE f == s.page_directory[d][t]
<1>1. f \in Frames
  BY TableTypes DEF Good
<1>2. TableOK(s, d, t, f)
  BY DEF Good, TablesOK
<1>3. s.frames_info[f].va \in HeapPages /\ s.heap[s.frames_info[f].va] = f
  BY <1>2 DEF TableOK
<1> HIDE DEF f
<1>4. QED
  BY <1>1, <1>2, <1>3, FrameInHeap DEF f

\* What an entry of a directory names is a frame, and it holds entries.
LEMMA CleanTables ==
  ASSUME NEW s, NEW out, Good(s, out), NEW d \in Spaces, NEW t \in Tables,
         s.page_directory[d][t] # NULL
  PROVE  /\ s.page_directory[d][t] \in Frames
         /\ \A i \in Index : s.contents[s.page_directory[d][t]][i] # Junk
<1> DEFINE f == s.page_directory[d][t]
<1>1. f \in Frames
  BY TableFrames
<1>2. TableOK(s, d, t, f)
  BY DEF Good, TablesOK
<1> HIDE DEF f
<1>3. \A i \in Index : s.contents[f][i] # Junk
  BY <1>2 DEF TableOK
<1>4. QED
  BY <1>1, <1>3 DEF f

LEMMA FreeFrames ==
  ASSUME NEW s, NEW out, Good(s, out), NEW f \in Frames,
         f \in s.free_frame_list \/ f \in out
  PROVE  /\ References(s, f) = 0 /\ s.frames_info[f].references = 0 /\ ~IsTable(s, f)
         /\ \A c \in Envs, q \in UserPages : MappedAt(s, c, q) # f
         /\ \A h \in HeapPages : s.heap[h] # f
<1>1. References(s, f) = 0 /\ s.frames_info[f].references = 0
  BY DEF Good, Counted
<1>2. /\ \A c \in Envs, q \in UserPages : MappedAt(s, c, q) # f
      /\ \A h \in HeapPages : s.heap[h] # f
  BY <1>1, NotUsed
<1>3. ~IsTable(s, f)
  <2> SUFFICES ASSUME NEW d \in Spaces, NEW t \in Tables, s.page_directory[d][t] = f
               PROVE  FALSE
    BY DEF IsTable
  <2>1. s.page_directory[d][t] # NULL
    BY NotNumbers
  <2>2. QED
    BY <2>1, TableFrames
<1>4. QED
  BY <1>1, <1>2, <1>3

-----------------------------------------------------------------------------
(***************************************************************************)
(* Steps of the memory that keep the invariant, each by the fields that it *)
(* changes.                                                                *)
(***************************************************************************)
\* Entries of tables are as they were, and so is what maps them.
LEMMA SameMappings ==
  ASSUME NEW s, NEW r, r.page_directory = s.page_directory,
         \A d \in Spaces, t \in Tables : s.page_directory[d][t] # NULL =>
           \A i \in Index : r.contents[s.page_directory[d][t]][i] =
                              s.contents[s.page_directory[d][t]][i]
  PROVE  \A d \in Spaces, p \in UserPages : MappedAt(r, d, p) = MappedAt(s, d, p)
<1> SUFFICES ASSUME NEW d \in Spaces, NEW p \in UserPages
             PROVE  MappedAt(r, d, p) = MappedAt(s, d, p)
  OBVIOUS
<1>1. PDX(p) \in Tables /\ PTX(p) \in Index
  BY PageTypes
<1>2. TableOf(r, d, p) = TableOf(s, d, p)
  BY DEF TableOf
<1>3. CASE TableOf(s, d, p) = NULL
  BY <1>2, <1>3 DEF MappedAt
<1>4. CASE TableOf(s, d, p) # NULL
  <2>1. r.contents[TableOf(s, d, p)][PTX(p)] = s.contents[TableOf(s, d, p)][PTX(p)]
    BY <1>1, <1>4 DEF TableOf
  <2>2. QED
    BY <1>2, <1>4, <2>1 DEF MappedAt
<1>5. QED
  BY <1>3, <1>4

\* What the tables and the heap say about the frames that stay where they are.
LEMMA SameTables ==
  ASSUME NEW s, NEW r, TablesOK(s), r.page_directory = s.page_directory,
         \A h \in HeapPages : s.heap[h] # NULL => r.heap[h] = s.heap[h],
         NULL \notin Frames, \A d \in Spaces, t \in Tables :
           s.page_directory[d][t] # NULL =>
             /\ s.page_directory[d][t] \in Frames
             /\ r.frames_info[s.page_directory[d][t]].va = s.frames_info[s.page_directory[d][t]].va
             /\ \A i \in Index : r.contents[s.page_directory[d][t]][i] # Junk
  PROVE  TablesOK(r)
<1> SUFFICES ASSUME NEW d \in Spaces, NEW t \in Tables, s.page_directory[d][t] # NULL
             PROVE  TableOK(r, d, t, s.page_directory[d][t])
  BY DEF TablesOK
<1> DEFINE f == s.page_directory[d][t]
<1>1. TableOK(s, d, t, f)
  BY DEF TablesOK
<1>2. f \in Frames /\ r.frames_info[f].va = s.frames_info[f].va
      /\ \A i \in Index : r.contents[f][i] # Junk
  OBVIOUS
<1> HIDE DEF f
<1>3. r.heap[r.frames_info[f].va] = f /\ r.frames_info[f].va \in HeapPages
  BY <1>1, <1>2 DEF TableOK
<1>4. \A c \in Spaces, u \in Tables : r.page_directory[c][u] = f => c = d /\ u = t
  BY <1>1 DEF TableOK
<1>5. QED
  BY <1>2, <1>3, <1>4 DEF TableOK, f

LEMMA CountedSame ==
  ASSUME NEW s, NEW r, NEW f, MappingsOf(r, f) = MappingsOf(s, f),
         HeapPagesOf(r, f) = HeapPagesOf(s, f)
  PROVE  References(r, f) = References(s, f)
BY DEF References

LEMMA SameHeap ==
  ASSUME NEW s, NEW r, r.heap = s.heap, NEW f
  PROVE  HeapPagesOf(r, f) = HeapPagesOf(s, f)
BY DEF HeapPagesOf

\* A free frame is taken.
IsAllocated(s, r, out, f) ==
  /\ Good(r, out \cup {f}) /\ f \in Frames
  /\ r.free_frame_list = s.free_frame_list \ {f}
  /\ r.contents = s.contents /\ r.heap = s.heap
  /\ r.page_directory = s.page_directory /\ r.own = s.own /\ r.panic = s.panic
  /\ r.frames_info = [s.frames_info EXCEPT ![f] = initialize_frame_info]
  /\ \A d \in Spaces, p \in UserPages : MappedAt(r, d, p) = MappedAt(s, d, p)

LEMMA Allocate ==
  ASSUME NEW s, NEW out, Good(s, out), NEW f \in s.free_frame_list
  PROVE  IsAllocated(s, allocate_frame(s, f), out, f)
<1> DEFINE r == allocate_frame(s, f)
<1>1. s \in Mem /\ f \in Frames
  BY MemFields DEF Good
<1>2. initialize_frame_info \in Infos /\ initialize_frame_info.references = 0
  BY DEF initialize_frame_info, Infos, VAs
<1>3. /\ r \in Mem /\ r.free_frame_list = s.free_frame_list \ {f}
      /\ r.contents = s.contents /\ r.heap = s.heap
      /\ r.page_directory = s.page_directory /\ r.own = s.own /\ r.panic = s.panic
      /\ r.frames_info = [s.frames_info EXCEPT ![f] = initialize_frame_info]
  BY <1>1, <1>2 DEF allocate_frame, Mem
<1> HIDE DEF r
<1>4. \A d \in Spaces, p \in UserPages : MappedAt(r, d, p) = MappedAt(s, d, p)
  BY <1>3, SameMappings
<1>5. References(s, f) = 0 /\ ~IsTable(s, f)
  BY <1>1, FreeFrames
<1>6. \A g \in Frames : References(r, g) = References(s, g)
  BY <1>3, <1>4, MappingsStay, SameHeap, CountedSame, NotNumbers
<1>7. HeapApart(r)
  BY <1>3 DEF HeapApart, Good
<1>8. TablesOK(r)
  <2>1. ASSUME NEW d \in Spaces, NEW t \in Tables, s.page_directory[d][t] # NULL
        PROVE  /\ s.page_directory[d][t] \in Frames
               /\ r.frames_info[s.page_directory[d][t]].va
                    = s.frames_info[s.page_directory[d][t]].va
               /\ \A i \in Index : r.contents[s.page_directory[d][t]][i] # Junk
    <3>1. s.page_directory[d][t] # f
      BY <1>5 DEF IsTable
    <3>2. s.page_directory[d][t] \in Frames
          /\ \A i \in Index : s.contents[s.page_directory[d][t]][i] # Junk
      BY <2>1, CleanTables
    <3>3. s.frames_info \in [Frames -> Infos]
      BY <1>1, MemFields
    <3>4. QED
      BY <1>1, <1>3, <3>1, <3>2, <3>3
  <2>2. TablesOK(s)
    BY DEF Good
  <2>3. QED
    BY <1>3, <2>1, <2>2, NotNumbers, SameTables
<1>9. Counted(r, out \cup {f})
  <2> SUFFICES ASSUME NEW g \in Frames
               PROVE  /\ r.frames_info[g].references = References(r, g)
                      /\ References(r, g) = 0 <=> g \in r.free_frame_list \cup (out \cup {f})
                      /\ g \notin r.free_frame_list \cap (out \cup {f})
    BY DEF Counted
  <2>1. /\ s.frames_info[g].references = References(s, g)
        /\ References(s, g) = 0 <=> g \in s.free_frame_list \cup out
        /\ g \notin s.free_frame_list \cap out
    BY DEF Good, Counted
  <2>2. r.frames_info[g].references = s.frames_info[g].references
    <3>1. s.frames_info \in [Frames -> Infos]
      BY <1>1, MemFields
    <3>2. s.frames_info[f].references = 0
      BY <1>1, <1>5 DEF Good, Counted
    <3>3. QED
      BY <1>1, <1>2, <1>3, <3>1, <3>2
  <2>3. QED
    BY <1>3, <1>6, <2>1, <2>2
<1>10. Good(r, out \cup {f})
  BY <1>3, <1>7, <1>8, <1>9 DEF Good
<1>11. IsAllocated(s, r, out, f)
  BY <1>1, <1>3, <1>4, <1>10 DEF IsAllocated
<1>12. QED
  BY <1>11 DEF r

\* A page of the kernel heap gets a frame.
LEMMA Kmalloc ==
  ASSUME NEW s, NEW out, Good(s, out), s.free_frame_list # {}, FreeHeapPages(s) # {}
  PROVE  LET r == kmalloc(s)
             f == HeapFrame(s)
             h == NextHeapPage(s)
         IN  /\ Good(r, out) /\ f \in s.free_frame_list /\ f \in Frames
             /\ h \in HeapPages /\ s.heap[h] = NULL
             /\ r.free_frame_list = s.free_frame_list \ {f}
             /\ r.contents = s.contents /\ r.heap = [s.heap EXCEPT ![h] = f]
             /\ r.page_directory = s.page_directory /\ r.own = s.own /\ r.panic = s.panic
             /\ r.frames_info[f].va = h
             /\ \A d \in Spaces, p \in UserPages : MappedAt(r, d, p) = MappedAt(s, d, p)
<1> DEFINE r == kmalloc(s)
           f == HeapFrame(s)
           h == NextHeapPage(s)
           a == allocate_frame(s, f)
           info == [references |-> 1, va |-> h]
<1>1. s \in Mem /\ s.free_frame_list \in SUBSET Frames /\ Frames \subseteq Nat
  BY MemFields, SpaceAssumption DEF Good
<1>2. f \in s.free_frame_list
  BY <1>1, LeastNumber DEF HeapFrame
<1>3. h \in HeapPages /\ s.heap[h] = NULL
  <2>1. FreeHeapPages(s) \in SUBSET Nat
    BY SpaceAssumption DEF FreeHeapPages
  <2>2. h \in FreeHeapPages(s)
    BY <2>1, LeastNumber DEF NextHeapPage
  <2>3. QED
    BY <2>2 DEF FreeHeapPages
<1>4. r = [a EXCEPT !.heap[h] = f, !.frames_info[f] = info]
  BY DEF kmalloc
<1> HIDE DEF f, h
<1>5. /\ Good(a, out \cup {f}) /\ f \in Frames
      /\ a.free_frame_list = s.free_frame_list \ {f}
      /\ a.contents = s.contents /\ a.heap = s.heap
      /\ a.page_directory = s.page_directory /\ a.own = s.own /\ a.panic = s.panic
      /\ \A d \in Spaces, p \in UserPages : MappedAt(a, d, p) = MappedAt(s, d, p)
  <2>1. IsAllocated(s, a, out, f)
    BY <1>2, Allocate
  <2>2. QED
    BY <2>1 DEF IsAllocated
<1>6. info \in Infos /\ info.references = 1 /\ info.va = h
  BY <1>3 DEF Infos, VAs
<1> HIDE DEF a, r, info
<1>7. a \in Mem /\ a.frames_info \in [Frames -> Infos]
  BY <1>5, MemFields DEF Good
<1>8. /\ r \in Mem /\ r.free_frame_list = a.free_frame_list
      /\ r.contents = a.contents /\ r.heap = [a.heap EXCEPT ![h] = f]
      /\ r.page_directory = a.page_directory /\ r.own = a.own /\ r.panic = a.panic
      /\ r.frames_info = [a.frames_info EXCEPT ![f] = info]
  BY <1>3, <1>4, <1>5, <1>6, <1>7 DEF Mem
<1>9. \A g \in HeapPages : r.heap[g] = IF g = h THEN f ELSE a.heap[g]
  BY <1>3, <1>7, <1>8, MemFields
<1>10. /\ \A g \in Frames : g # f => r.frames_info[g] = a.frames_info[g]
       /\ r.frames_info[f] = info
  BY <1>5, <1>7, <1>8
<1>11. \A d \in Spaces, p \in UserPages : MappedAt(r, d, p) = MappedAt(a, d, p)
  BY <1>8, SameMappings
<1>12. References(a, f) = 0 /\ ~IsTable(a, f) /\ \A g \in HeapPages : a.heap[g] # f
  BY <1>5, FreeFrames
<1>13. \A g \in Frames : References(r, g) = IF g = f THEN 1 ELSE References(a, g)
  <2> SUFFICES ASSUME NEW g \in Frames
               PROVE  References(r, g) = IF g = f THEN 1 ELSE References(a, g)
    OBVIOUS
  <2>1. MappingsOf(r, g) = MappingsOf(a, g)
    BY <1>11, MappingsStay, NotNumbers
  <2>2. a.heap[h] = NULL /\ g # NULL
    BY <1>3, <1>5, NotNumbers
  <2>3. CASE g # f
    <3>1. HeapPagesOf(r, g) = HeapPagesOf(a, g)
      <4>1. g = a.heap[h] <=> g = f
        BY <2>2, <2>3
      <4>2. QED
        BY <1>3, <1>9, <4>1, HeapChanges
    <3>2. QED
      BY <2>1, <2>3, <3>1, CountedSame
  <2>4. CASE g = f
    <3>1. Cardinality(HeapPagesOf(r, g)) = Cardinality(HeapPagesOf(a, g)) + 1
      BY <1>3, <1>9, <2>2, <2>4, HeapChanges
    <3>2. QED
      BY <1>12, <2>1, <2>4, <3>1, CountTypes DEF References
  <2>5. QED
    BY <2>3, <2>4
<1>14. HeapApart(r)
  <2>1. HeapApart(a)
    BY <1>5 DEF Good
  <2>2. QED
    BY <1>9, <1>12, <2>1 DEF HeapApart
<1>15. TablesOK(r)
  <2>1. ASSUME NEW d \in Spaces, NEW t \in Tables, a.page_directory[d][t] # NULL
        PROVE  /\ a.page_directory[d][t] \in Frames
               /\ r.frames_info[a.page_directory[d][t]].va
                    = a.frames_info[a.page_directory[d][t]].va
               /\ \A i \in Index : r.contents[a.page_directory[d][t]][i] # Junk
    <3>1. a.page_directory[d][t] # f
      BY <1>12 DEF IsTable
    <3>2. a.page_directory[d][t] \in Frames
          /\ \A i \in Index : a.contents[a.page_directory[d][t]][i] # Junk
      BY <1>5, <2>1, CleanTables
    <3>3. QED
      BY <1>8, <1>10, <3>1, <3>2
  <2>2. TablesOK(a)
    BY <1>5 DEF Good
  <2>3. \A g \in HeapPages : a.heap[g] # NULL => r.heap[g] = a.heap[g]
    BY <1>3, <1>5, <1>9
  <2>4. QED
    BY <1>8, <2>1, <2>2, <2>3, NotNumbers, SameTables
<1>16. Counted(r, out)
  <2> SUFFICES ASSUME NEW g \in Frames
               PROVE  /\ r.frames_info[g].references = References(r, g)
                      /\ References(r, g) = 0 <=> g \in r.free_frame_list \cup out
                      /\ g \notin r.free_frame_list \cap out
    BY DEF Counted
  <2>1. /\ a.frames_info[g].references = References(a, g)
        /\ References(a, g) = 0 <=> g \in a.free_frame_list \cup (out \cup {f})
        /\ g \notin a.free_frame_list \cap (out \cup {f})
    BY <1>5 DEF Good, Counted
  <2>2. CASE g = f
    <3>1. f \notin out /\ f \notin a.free_frame_list
      BY <1>2, <1>5 DEF Good, Counted
    <3>2. QED
      BY <1>6, <1>8, <1>10, <1>13, <2>2, <3>1
  <2>3. CASE g # f
    BY <1>8, <1>10, <1>13, <2>1, <2>3
  <2>4. QED
    BY <2>2, <2>3
<1>17. Good(r, out)
  BY <1>8, <1>14, <1>15, <1>16 DEF Good
<1>18. r.frames_info[f].va = h
  BY <1>6, <1>10
<1>19. QED
  BY <1>2, <1>3, <1>5, <1>8, <1>11, <1>17, <1>18 DEF f, h, r

\* The program writes to its page.
LEMMA GivenKeeps ==
  ASSUME NEW s, NEW out, Good(s, out), NEW f \in Frames, ~IsTable(s, f)
  PROVE  LET r == Given(s, f)
         IN  /\ Good(r, out) /\ r.free_frame_list = s.free_frame_list /\ r.heap = s.heap
             /\ r.page_directory = s.page_directory /\ r.own = s.own /\ r.panic = s.panic
             /\ \A d \in Spaces, p \in UserPages : MappedAt(r, d, p) = MappedAt(s, d, p)
<1> DEFINE r == Given(s, f)
<1>1. s \in Mem
  BY DEF Good
<1>2. [i \in Index |-> Junk] \in Entries
  BY DEF Entries
<1>3. /\ r \in Mem /\ r.free_frame_list = s.free_frame_list /\ r.frames_info = s.frames_info
      /\ r.contents = [s.contents EXCEPT ![f] = [i \in Index |-> Junk]] /\ r.heap = s.heap
      /\ r.page_directory = s.page_directory /\ r.own = s.own /\ r.panic = s.panic
  BY <1>1, <1>2 DEF Given, Mem
<1> HIDE DEF r
<1>4. \A g \in Frames : g # f => r.contents[g] = s.contents[g]
  BY <1>1, <1>3, MemFields
<1>5. ASSUME NEW d \in Spaces, NEW t \in Tables, s.page_directory[d][t] # NULL
      PROVE  /\ s.page_directory[d][t] \in Frames /\ s.page_directory[d][t] # f
             /\ \A i \in Index : s.contents[s.page_directory[d][t]][i] # Junk
  <2>1. s.page_directory[d][t] # f
    BY DEF IsTable
  <2>2. s.page_directory[d][t] \in Frames
        /\ \A i \in Index : s.contents[s.page_directory[d][t]][i] # Junk
    BY <1>5, CleanTables
  <2>3. QED
    BY <2>1, <2>2
<1>6. \A d \in Spaces, p \in UserPages : MappedAt(r, d, p) = MappedAt(s, d, p)
  <2>1. \A d \in Spaces, t \in Tables : s.page_directory[d][t] # NULL =>
          \A i \in Index : r.contents[s.page_directory[d][t]][i] =
                             s.contents[s.page_directory[d][t]][i]
    BY <1>4, <1>5
  <2>2. QED
    BY <1>3, <2>1, SameMappings
<1>7. HeapApart(r)
  BY <1>3 DEF HeapApart, Good
<1>8. TablesOK(r)
  <2>1. \A d \in Spaces, t \in Tables : s.page_directory[d][t] # NULL =>
          /\ s.page_directory[d][t] \in Frames
          /\ r.frames_info[s.page_directory[d][t]].va = s.frames_info[s.page_directory[d][t]].va
          /\ \A i \in Index : r.contents[s.page_directory[d][t]][i] # Junk
    BY <1>3, <1>4, <1>5
  <2>2. TablesOK(s)
    BY DEF Good
  <2>3. QED
    BY <1>3, <2>1, <2>2, NotNumbers, SameTables
<1>9. \A g \in Frames : References(r, g) = References(s, g)
  BY <1>3, <1>6, MappingsStay, SameHeap, CountedSame, NotNumbers
<1>10. Counted(r, out)
  BY <1>3, <1>9 DEF Good, Counted
<1>11. QED
  BY <1>3, <1>6, <1>7, <1>8, <1>10 DEF Good, r

\* The heap pages that a space owns and the panic are nobody else's business.
LEMMA OwnAndPanic ==
  ASSUME NEW s, NEW out, Good(s, out), NEW r \in Mem,
         r.free_frame_list = s.free_frame_list, r.frames_info = s.frames_info,
         r.contents = s.contents, r.heap = s.heap, r.page_directory = s.page_directory
  PROVE  /\ Good(r, out)
         /\ \A d \in Spaces, p \in UserPages : MappedAt(r, d, p) = MappedAt(s, d, p)
<1>1. \A d \in Spaces, p \in UserPages : MappedAt(r, d, p) = MappedAt(s, d, p)
  BY SameMappings
<1>2. \A g \in Frames : References(r, g) = References(s, g)
  BY <1>1, MappingsStay, SameHeap, CountedSame, NotNumbers
<1>3. Counted(r, out)
  BY <1>2 DEF Good, Counted
<1>4. HeapApart(r)
  BY DEF HeapApart, Good
<1>5. TablesOK(r)
  <2> SUFFICES ASSUME NEW d \in Spaces, NEW t \in Tables, s.page_directory[d][t] # NULL
               PROVE  TableOK(r, d, t, s.page_directory[d][t])
    BY DEF TablesOK
  <2>1. TableOK(s, d, t, s.page_directory[d][t])
    BY DEF Good, TablesOK
  <2>2. QED
    BY <2>1 DEF TableOK
<1>6. QED
  BY <1>1, <1>3, <1>4, <1>5 DEF Good

LEMMA SetPanic ==
  ASSUME NEW s, NEW out, Good(s, out), NEW b \in BOOLEAN
  PROVE  LET r == [s EXCEPT !.panic = b]
         IN  /\ Good(r, out) /\ r.panic = b
             /\ r.free_frame_list = s.free_frame_list /\ r.heap = s.heap
             /\ r.page_directory = s.page_directory /\ r.own = s.own
             /\ \A d \in Spaces, p \in UserPages : MappedAt(r, d, p) = MappedAt(s, d, p)
<1> DEFINE r == [s EXCEPT !.panic = b]
<1>1. s \in Mem
  BY DEF Good
<1>2. /\ r \in Mem /\ r.panic = b
      /\ r.free_frame_list = s.free_frame_list /\ r.frames_info = s.frames_info
      /\ r.contents = s.contents /\ r.heap = s.heap
      /\ r.page_directory = s.page_directory /\ r.own = s.own
  BY <1>1 DEF Mem
<1> HIDE DEF r
<1>3. Good(r, out) /\ \A d \in Spaces, p \in UserPages : MappedAt(r, d, p) = MappedAt(s, d, p)
  BY <1>2, OwnAndPanic
<1>4. QED
  BY <1>2, <1>3 DEF r

\* A new table maps nothing.
LEMMA CreateTable ==
  ASSUME NEW s, NEW out, Good(s, out), NEW d \in Spaces, NEW p \in UserPages,
         TableOf(s, d, p) = NULL, s.free_frame_list # {}, FreeHeapPages(s) # {}
  PROVE  LET r == create_page_table(s, d, p)
             f == HeapFrame(s)
             h == NextHeapPage(s)
         IN  /\ Good(r, out) /\ f \in s.free_frame_list /\ f \in Frames
             /\ h \in HeapPages /\ s.heap[h] = NULL
             /\ r.free_frame_list = s.free_frame_list \ {f}
             /\ r.heap = [s.heap EXCEPT ![h] = f]
             /\ r.page_directory = [s.page_directory EXCEPT ![d][PDX(p)] = f]
             /\ r.own = s.own /\ r.panic = s.panic
             /\ \A c \in Spaces, q \in UserPages : MappedAt(r, c, q) = MappedAt(s, c, q)
<1> DEFINE r == create_page_table(s, d, p)
           f == HeapFrame(s)
           h == NextHeapPage(s)
           k == kmalloc(s)
           t == PDX(p)
           clear == [i \in Index |-> NULL]
<1>1. /\ Good(k, out) /\ f \in s.free_frame_list /\ f \in Frames
      /\ h \in HeapPages /\ s.heap[h] = NULL
      /\ k.free_frame_list = s.free_frame_list \ {f}
      /\ k.contents = s.contents /\ k.heap = [s.heap EXCEPT ![h] = f]
      /\ k.page_directory = s.page_directory /\ k.own = s.own /\ k.panic = s.panic
      /\ k.frames_info[f].va = h
      /\ \A c \in Spaces, q \in UserPages : MappedAt(k, c, q) = MappedAt(s, c, q)
  BY Kmalloc
<1> HIDE DEF k
<1>2. s \in Mem /\ k \in Mem
  BY <1>1 DEF Good
<1>3. kheap_physical_address(k, h) = f
  BY <1>1, <1>2, MemFields DEF kheap_physical_address
<1>4. r = [k EXCEPT !.page_directory[d][t] = f, !.contents[f] = clear]
  BY <1>3 DEF create_page_table, k
<1> HIDE DEF f, h
<1>5. clear \in Entries
  BY DEF Entries
<1>6. t \in Tables
  BY PageTypes
<1> HIDE DEF r, t
<1>7. /\ r \in Mem /\ r.free_frame_list = k.free_frame_list /\ r.frames_info = k.frames_info
      /\ r.contents = [k.contents EXCEPT ![f] = clear] /\ r.heap = k.heap
      /\ r.page_directory = [k.page_directory EXCEPT ![d][t] = f]
      /\ r.own = k.own /\ r.panic = k.panic
  BY <1>1, <1>2, <1>4, <1>5, <1>6 DEF Mem
<1>8. /\ r.contents[f] = clear
      /\ \A g \in Frames : g # f => r.contents[g] = k.contents[g]
  BY <1>1, <1>2, <1>7, MemFields
<1>9. \A c \in Spaces, u \in Tables :
        r.page_directory[c][u] = IF c = d /\ u = t THEN f ELSE k.page_directory[c][u]
  BY <1>2, <1>6, <1>7, MemFields
<1>10. ~IsTable(s, f) /\ k.page_directory[d][t] = NULL
  BY <1>1, FreeFrames DEF TableOf, t
<1>11. ASSUME NEW c \in Spaces, NEW u \in Tables, k.page_directory[c][u] # NULL
       PROVE  LET g == k.page_directory[c][u]
              IN  /\ g \in Frames /\ g # f /\ TableOK(k, c, u, g) /\ ~(c = d /\ u = t)
                  /\ r.contents[g] = k.contents[g]
  <2>1. k.page_directory[c][u] # f
    BY <1>1, <1>10 DEF IsTable
  <2>2. k.page_directory[c][u] \in Frames /\ TableOK(k, c, u, k.page_directory[c][u])
    BY <1>1, <1>11, TableFrames
  <2>3. QED
    BY <1>8, <1>10, <1>11, <2>1, <2>2
<1>12. \A c \in Spaces, q \in UserPages : MappedAt(r, c, q) = MappedAt(k, c, q)
  <2> SUFFICES ASSUME NEW c \in Spaces, NEW q \in UserPages
               PROVE  MappedAt(r, c, q) = MappedAt(k, c, q)
    OBVIOUS
  <2>1. PDX(q) \in Tables /\ PTX(q) \in Index
    BY PageTypes
  <2>2. CASE c = d /\ PDX(q) = t
    <3>1. TableOf(r, c, q) = f /\ TableOf(k, c, q) = NULL
      BY <1>9, <1>10, <2>1, <2>2 DEF TableOf
    <3>2. r.contents[f][PTX(q)] = NULL
      BY <1>8, <2>1
    <3>3. QED
      BY <1>1, <3>1, <3>2 DEF MappedAt
  <2>3. CASE ~(c = d /\ PDX(q) = t)
    <3>1. TableOf(r, c, q) = TableOf(k, c, q)
      BY <1>9, <2>1, <2>3 DEF TableOf
    <3>2. TableOf(k, c, q) # NULL => r.contents[TableOf(k, c, q)] = k.contents[TableOf(k, c, q)]
      BY <1>11, <2>1 DEF TableOf
    <3>3. QED
      BY <3>1, <3>2 DEF MappedAt
  <2>4. QED
    BY <2>2, <2>3
<1>13. TablesOK(r)
  <2> SUFFICES ASSUME NEW c \in Spaces, NEW u \in Tables, r.page_directory[c][u] # NULL
               PROVE  TableOK(r, c, u, r.page_directory[c][u])
    BY DEF TablesOK
  <2>1. CASE c = d /\ u = t
    <3>1. r.page_directory[c][u] = f
      BY <1>9, <2>1
    <3>2. r.frames_info[f].va \in HeapPages /\ r.heap[r.frames_info[f].va] = f
      BY <1>1, <1>2, <1>7, MemFields
    <3>3. \A i \in Index : r.contents[f][i] # Junk
      BY <1>8, NotNumbers
    <3>4. \A b \in Spaces, v \in Tables : r.page_directory[b][v] = f => b = c /\ v = u
      BY <1>1, <1>9, <1>10, <2>1 DEF IsTable
    <3>5. QED
      BY <3>1, <3>2, <3>3, <3>4 DEF TableOK
  <2>2. CASE ~(c = d /\ u = t)
    <3> DEFINE g == k.page_directory[c][u]
    <3>1. r.page_directory[c][u] = g /\ g # NULL
      BY <1>9, <2>2
    <3>2. g # f /\ TableOK(k, c, u, g) /\ r.contents[g] = k.contents[g]
      BY <1>11, <3>1
    <3> HIDE DEF g
    <3>3. /\ r.frames_info[g].va \in HeapPages /\ r.heap[r.frames_info[g].va] = g
          /\ \A i \in Index : r.contents[g][i] # Junk
      BY <1>7, <3>2 DEF TableOK
    <3>4. \A b \in Spaces, v \in Tables : r.page_directory[b][v] = g => b = c /\ v = u
      BY <1>9, <3>2 DEF TableOK
    <3>5. QED
      BY <3>1, <3>3, <3>4 DEF TableOK
  <2>3. QED
    BY <2>1, <2>2
<1>14. HeapApart(r)
  BY <1>1, <1>7 DEF HeapApart, Good
<1>15. \A g \in Frames : References(r, g) = References(k, g)
  BY <1>7, <1>12, MappingsStay, SameHeap, CountedSame, NotNumbers
<1>16. Counted(r, out)
  BY <1>1, <1>7, <1>15 DEF Good, Counted
<1>17. Good(r, out)
  BY <1>7, <1>13, <1>14, <1>16 DEF Good
<1>18. \A c \in Spaces, q \in UserPages : MappedAt(r, c, q) = MappedAt(s, c, q)
  BY <1>1, <1>12
<1>19. QED
  BY <1>1, <1>7, <1>17, <1>18 DEF f, h, r, t


\* An entry of a table is written; tables are not shared, so one entry changes.
LEMMA SetEntryKeeps ==
  ASSUME NEW s \in Mem, TablesOK(s), NEW d \in Spaces, NEW p \in UserPages,
         TableOf(s, d, p) # NULL, NEW x \in Frames \cup {NULL}
  PROVE  LET r == SetEntry(s, d, p, x)
         IN  /\ r \in Mem /\ TablesOK(r)
             /\ r.free_frame_list = s.free_frame_list /\ r.frames_info = s.frames_info
             /\ r.heap = s.heap /\ r.page_directory = s.page_directory
             /\ r.own = s.own /\ r.panic = s.panic
             /\ \A c \in Spaces, q \in UserPages :
                  MappedAt(r, c, q) = IF c = d /\ q = p THEN x ELSE MappedAt(s, c, q)
<1> DEFINE r == SetEntry(s, d, p, x)
           f == TableOf(s, d, p)
           i == PTX(p)
<1>1. r = [s EXCEPT !.contents[f][i] = x]
  BY Lookup
<1>2. PDX(p) \in Tables /\ i \in Index
  BY PageTypes
<1>3. f = s.page_directory[d][PDX(p)] /\ f \in Frames
  BY <1>2, TableTypes DEF TableOf
<1> HIDE DEF r
<1> DEFINE c1 == [s.contents EXCEPT ![f][i] = x]
<1>4. s.contents \in [Frames -> Entries]
  BY MemFields
<1> HIDE DEF f, i
<1>5. c1 \in [Frames -> Entries] /\ c1[f] = [s.contents[f] EXCEPT ![i] = x]
      /\ \A g \in Frames : g # f => c1[g] = s.contents[g]
  BY <1>2, <1>3, <1>4 DEF Entries
<1>6. /\ \A j \in Index : c1[f][j] = IF j = i THEN x ELSE s.contents[f][j]
  BY <1>3, <1>4, <1>5 DEF Entries
<1>7. r = [s EXCEPT !.contents = c1]
  BY <1>1 DEF Mem
<1> HIDE DEF c1
<1>8. /\ r \in Mem /\ r.contents = c1
      /\ r.free_frame_list = s.free_frame_list /\ r.frames_info = s.frames_info
      /\ r.heap = s.heap /\ r.page_directory = s.page_directory
      /\ r.own = s.own /\ r.panic = s.panic
  BY <1>5, <1>7, SetContents
<1>9. x # Junk
  BY NotNumbers
<1>10. \A c \in Spaces, t \in Tables : s.page_directory[c][t] # NULL =>
         /\ s.page_directory[c][t] \in Frames /\ TableOK(s, c, t, s.page_directory[c][t])
         /\ \A j \in Index : r.contents[s.page_directory[c][t]][j] # Junk
  <2> SUFFICES ASSUME NEW c \in Spaces, NEW t \in Tables, s.page_directory[c][t] # NULL
               PROVE  /\ s.page_directory[c][t] \in Frames
                      /\ TableOK(s, c, t, s.page_directory[c][t])
                      /\ \A j \in Index : r.contents[s.page_directory[c][t]][j] # Junk
    OBVIOUS
  <2>1. s.page_directory[c][t] \in Frames /\ TableOK(s, c, t, s.page_directory[c][t])
    BY TableTypes DEF TablesOK
  <2> DEFINE g == s.page_directory[c][t]
  <2>2. \A j \in Index : s.contents[g][j] # Junk
    BY <2>1 DEF TableOK
  <2>3. g \in Frames /\ TableOK(s, c, t, g)
    BY <2>1
  <2> SUFFICES \A j \in Index : r.contents[g][j] # Junk
    BY <2>1
  <2> HIDE DEF g
  <2>4. CASE g = f
    BY <1>6, <1>8, <1>9, <2>2, <2>4
  <2>5. CASE g # f
    BY <1>5, <1>8, <2>2, <2>3, <2>5
  <2>6. QED
    BY <2>4, <2>5
<1>11. TablesOK(r)
  BY <1>8, <1>10, NotNumbers, SameTables
<1>12. ASSUME NEW c \in Spaces, NEW q \in UserPages
       PROVE  MappedAt(r, c, q) = IF c = d /\ q = p THEN x ELSE MappedAt(s, c, q)
  <2>1. PDX(q) \in Tables /\ PTX(q) \in Index /\ q \in Nat /\ p \in Nat
    BY PageTypes
  <2>2. TableOf(r, c, q) = TableOf(s, c, q)
    BY <1>8 DEF TableOf
  <2>3. CASE TableOf(s, c, q) = NULL
    <3>1. ~(c = d /\ q = p)
      BY <2>3
    <3>2. QED
      BY <2>2, <2>3, <3>1 DEF MappedAt
  <2>4. CASE TableOf(s, c, q) # NULL /\ TableOf(s, c, q) # f
    <3>1. ~(c = d /\ q = p)
      BY <2>4 DEF f
    <3>2. TableOf(s, c, q) \in Frames
      BY <1>10, <2>1, <2>4 DEF TableOf
    <3>3. r.contents[TableOf(s, c, q)] = s.contents[TableOf(s, c, q)]
      BY <1>5, <1>8, <2>4, <3>2
    <3>4. QED
      BY <2>2, <2>4, <3>1, <3>3 DEF MappedAt
  <2>5. CASE TableOf(s, c, q) = f
    <3>1. f # NULL
      BY <1>3, NotNumbers
    <3>2. TableOK(s, d, PDX(p), f)
      BY <1>2, <1>3, <1>10, <3>1
    <3>3. c = d /\ PDX(q) = PDX(p)
      BY <2>1, <2>5, <3>2 DEF TableOK, TableOf
    <3>4. PTX(q) = i <=> q = p
      BY <2>1, <3>3, PageOfIndex DEF i
    <3>5. MappedAt(r, c, q) = r.contents[f][PTX(q)] /\ MappedAt(s, c, q) = s.contents[f][PTX(q)]
      BY <2>2, <2>5, <3>1 DEF MappedAt
    <3>6. QED
      BY <1>6, <1>8, <2>1, <3>3, <3>4, <3>5
  <2>6. QED
    BY <2>3, <2>4, <2>5
<1>13. QED
  BY <1>8, <1>11, <1>12 DEF r

\* A reference is given back, and with the last one the frame.
LEMMA Decrement ==
  ASSUME NEW s \in Mem, NEW f \in Frames, s.frames_info[f].references # 0
  PROVE  LET r == decrement_references(s, f)
             n == s.frames_info[f].references
         IN  /\ r \in Mem
             /\ r.free_frame_list = IF n = 1 THEN s.free_frame_list \cup {f} ELSE s.free_frame_list
             /\ r.heap = s.heap /\ r.page_directory = s.page_directory
             /\ r.own = s.own /\ r.panic = s.panic
             /\ r.frames_info[f].references = n - 1
             /\ n # 1 => r.frames_info[f].va = s.frames_info[f].va /\ r.contents = s.contents
             /\ \A g \in Frames : g # f =>
                  r.frames_info[g] = s.frames_info[g] /\ r.contents[g] = s.contents[g]
<1> DEFINE r == decrement_references(s, f)
           n == s.frames_info[f].references
<1>1. /\ s.frames_info \in [Frames -> Infos] /\ s.contents \in [Frames -> Entries]
      /\ s.free_frame_list \in SUBSET Frames
  BY MemFields
<1>2. s.frames_info[f] \in Infos /\ n \in Nat /\ n # 0
  BY <1>1 DEF Infos
<1>3. CASE n = 1
  <2> DEFINE junk == [i \in Index |-> Junk]
  <2>1. junk \in Entries
    BY DEF Entries
  <2>2. initialize_frame_info \in Infos /\ initialize_frame_info.references = 0
    BY DEF initialize_frame_info, Infos, VAs
  <2>3. r = [s EXCEPT !.free_frame_list = @ \cup {f}, !.frames_info[f] = initialize_frame_info,
                      !.contents[f] = junk]
    BY <1>3 DEF decrement_references, free_frame
  <2> HIDE DEF junk, r
  <2>4. /\ r \in Mem /\ r.free_frame_list = s.free_frame_list \cup {f}
        /\ r.frames_info = [s.frames_info EXCEPT ![f] = initialize_frame_info]
        /\ r.contents = [s.contents EXCEPT ![f] = junk]
        /\ r.heap = s.heap /\ r.page_directory = s.page_directory
        /\ r.own = s.own /\ r.panic = s.panic
    BY <1>1, <2>1, <2>2, <2>3 DEF Mem
  <2>5. r.frames_info[f].references = 0
    BY <1>1, <2>2, <2>4
  <2>6. \A g \in Frames : g # f =>
          r.frames_info[g] = s.frames_info[g] /\ r.contents[g] = s.contents[g]
    BY <1>1, <2>4
  <2>7. QED
    BY <1>3, <2>4, <2>5, <2>6 DEF r
<1>4. CASE n # 1
  <2> DEFINE info == [s.frames_info[f] EXCEPT !.references = n - 1]
  <2>1. info \in Infos /\ info.references = n - 1 /\ info.va = s.frames_info[f].va
    BY <1>2 DEF Infos
  <2>2. r = [s EXCEPT !.frames_info[f] = info]
    BY <1>1, <1>4 DEF decrement_references
  <2> HIDE DEF info, r
  <2>3. /\ r \in Mem /\ r.free_frame_list = s.free_frame_list
        /\ r.frames_info = [s.frames_info EXCEPT ![f] = info]
        /\ r.contents = s.contents
        /\ r.heap = s.heap /\ r.page_directory = s.page_directory
        /\ r.own = s.own /\ r.panic = s.panic
    BY <1>1, <2>1, <2>2 DEF Mem
  <2>4. r.frames_info[f] = info /\ \A g \in Frames : g # f => r.frames_info[g] = s.frames_info[g]
    BY <1>1, <2>3
  <2>5. QED
    BY <1>4, <2>1, <2>3, <2>4 DEF r
<1>5. QED
  BY <1>3, <1>4

\* What Decrement says, by name.
IsDecremented(s, r, f) ==
  LET n == s.frames_info[f].references
  IN  /\ r \in Mem
      /\ r.free_frame_list = IF n = 1 THEN s.free_frame_list \cup {f} ELSE s.free_frame_list
      /\ r.heap = s.heap /\ r.page_directory = s.page_directory
      /\ r.own = s.own /\ r.panic = s.panic
      /\ r.frames_info[f].references = n - 1
      /\ \A g \in Frames : g # f =>
           r.frames_info[g] = s.frames_info[g] /\ r.contents[g] = s.contents[g]

LEMMA DecrementIs ==
  ASSUME NEW s \in Mem, NEW f \in Frames, s.frames_info[f].references # 0
  PROVE  IsDecremented(s, decrement_references(s, f), f)
BY Decrement DEF IsDecremented

\* What is mapped at p of an environment is unmapped.
LEMMA Unmap ==
  ASSUME NEW s, NEW out, Good(s, out), NEW e \in Envs, NEW p \in UserPages,
         MappedAt(s, e, p) # NULL
  PROVE  LET r == unmap_frame(s, e, p)
             f == MappedAt(s, e, p)
         IN  /\ Good(r, out) /\ f \in Frames
             /\ s.free_frame_list \subseteq r.free_frame_list
             /\ r.free_frame_list \subseteq s.free_frame_list \cup {f}
             /\ References(s, f) = 1 => f \in r.free_frame_list
             /\ r.heap = s.heap /\ r.page_directory = s.page_directory
             /\ r.own = s.own /\ r.panic = s.panic
             /\ \A c \in Spaces, q \in UserPages :
                  MappedAt(r, c, q) = IF c = e /\ q = p THEN NULL ELSE MappedAt(s, c, q)
<1> DEFINE r == unmap_frame(s, e, p)
           f == MappedAt(s, e, p)
           d == decrement_references(s, f)
           n == s.frames_info[f].references
<1>1. s \in Mem /\ TablesOK(s) /\ HeapApart(s) /\ Counted(s, out) /\ e \in Spaces
  BY NotNumbers DEF Good
<1>2. get_frame_info(s, e, p) = f /\ f \in Frames
  BY <1>1, Lookup
<1>3. r = SetEntry(d, e, p, NULL)
  BY <1>2 DEF unmap_frame
<1>4. <<e, p>> \in MappingsOf(s, f)
  BY DEF MappingsOf
<1> HIDE DEF f
<1>5. n = References(s, f) /\ n \in Nat /\ n # 0
  BY <1>1, <1>2, <1>4, CountTypes, Holds DEF Counted, References
<1>6. /\ d \in Mem
      /\ d.free_frame_list = IF n = 1 THEN s.free_frame_list \cup {f} ELSE s.free_frame_list
      /\ d.heap = s.heap /\ d.page_directory = s.page_directory
      /\ d.own = s.own /\ d.panic = s.panic
      /\ d.frames_info[f].references = n - 1
      /\ n # 1 => d.frames_info[f].va = s.frames_info[f].va /\ d.contents = s.contents
      /\ \A g \in Frames : g # f =>
           d.frames_info[g] = s.frames_info[g] /\ d.contents[g] = s.contents[g]
  BY <1>1, <1>2, <1>5, Decrement
<1> HIDE DEF d
<1>7. ASSUME NEW c \in Spaces, NEW t \in Tables, s.page_directory[c][t] # NULL
      PROVE  LET g == s.page_directory[c][t]
             IN  /\ g \in Frames /\ d.frames_info[g].va = s.frames_info[g].va
                 /\ d.contents[g] = s.contents[g]
                 /\ \A i \in Index : s.contents[g][i] # Junk
  <2> DEFINE g == s.page_directory[c][t]
  <2>1. g \in Frames /\ TableOK(s, c, t, g)
        /\ s.frames_info[g].references = Cardinality(MappingsOf(s, g)) + 1
    BY <1>7, TableFrames
  <2> HIDE DEF g
  <2>2. \A i \in Index : s.contents[g][i] # Junk
    BY <2>1 DEF TableOK
  <2>3. g = f => n # 1
    BY <1>4, <2>1, CountTypes, Holds
  <2>4. d.frames_info[g].va = s.frames_info[g].va /\ d.contents[g] = s.contents[g]
    BY <1>6, <2>1, <2>3
  <2>5. QED
    BY <2>1, <2>2, <2>4 DEF g
<1>8. TablesOK(d)
  <2>1. \A c \in Spaces, t \in Tables : s.page_directory[c][t] # NULL =>
          /\ s.page_directory[c][t] \in Frames
          /\ d.frames_info[s.page_directory[c][t]].va = s.frames_info[s.page_directory[c][t]].va
          /\ \A i \in Index : d.contents[s.page_directory[c][t]][i] # Junk
    BY <1>7
  <2>2. QED
    BY <1>1, <1>6, <2>1, NotNumbers, SameTables
<1>9. \A c \in Spaces, q \in UserPages : MappedAt(d, c, q) = MappedAt(s, c, q)
  <2>1. \A c \in Spaces, t \in Tables : s.page_directory[c][t] # NULL =>
          \A i \in Index : d.contents[s.page_directory[c][t]][i] =
                             s.contents[s.page_directory[c][t]][i]
    BY <1>7
  <2>2. QED
    BY <1>6, <2>1, SameMappings
<1>10. TableOf(d, e, p) # NULL
  BY <1>6, <1>2, NotNumbers DEF TableOf, MappedAt, f
<1>11. /\ r \in Mem /\ TablesOK(r)
       /\ r.free_frame_list = d.free_frame_list /\ r.frames_info = d.frames_info
       /\ r.heap = d.heap /\ r.page_directory = d.page_directory
       /\ r.own = d.own /\ r.panic = d.panic
       /\ \A c \in Spaces, q \in UserPages :
            MappedAt(r, c, q) = IF c = e /\ q = p THEN NULL ELSE MappedAt(d, c, q)
  BY <1>1, <1>3, <1>6, <1>8, <1>10, SetEntryKeeps
<1> HIDE DEF r
<1>12. \A c \in Spaces, q \in UserPages :
         MappedAt(r, c, q) = IF c = e /\ q = p THEN NULL ELSE MappedAt(s, c, q)
  BY <1>9, <1>11
<1>13. HeapApart(r)
  BY <1>1, <1>6, <1>11 DEF HeapApart
<1>14. \A g \in Frames : References(r, g) = IF g = f THEN n - 1 ELSE References(s, g)
  <2> SUFFICES ASSUME NEW g \in Frames
               PROVE  References(r, g) = IF g = f THEN n - 1 ELSE References(s, g)
    OBVIOUS
  <2>1. HeapPagesOf(r, g) = HeapPagesOf(s, g)
    BY <1>6, <1>11, SameHeap
  <2>2. \A c \in Envs, q \in UserPages :
          MappedAt(r, c, q) = IF c = e /\ q = p THEN NULL ELSE MappedAt(s, c, q)
    BY <1>12, NotNumbers
  <2>3. CASE g = f
    <3>1. g = MappedAt(s, e, p) /\ g # NULL
      BY <2>3, NotNumbers DEF f
    <3>2. Cardinality(MappingsOf(r, g)) = Cardinality(MappingsOf(s, g)) - 1
      BY <2>2, <3>1, MappingChanges
    <3>3. QED
      BY <1>5, <2>1, <2>3, <3>2, CountTypes DEF References
  <2>4. CASE g # f
    <3>1. g = MappedAt(s, e, p) <=> g = NULL
      BY <2>4, NotNumbers DEF f
    <3>2. MappingsOf(r, g) = MappingsOf(s, g)
      BY <2>2, <3>1, MappingChanges
    <3>3. QED
      BY <2>1, <2>4, <3>2, CountedSame
  <2>5. QED
    BY <2>3, <2>4
<1>15. Counted(r, out)
  <2> SUFFICES ASSUME NEW g \in Frames
               PROVE  /\ r.frames_info[g].references = References(r, g)
                      /\ References(r, g) = 0 <=> g \in r.free_frame_list \cup out
                      /\ g \notin r.free_frame_list \cap out
    BY DEF Counted
  <2>1. /\ s.frames_info[g].references = References(s, g)
        /\ References(s, g) = 0 <=> g \in s.free_frame_list \cup out
        /\ g \notin s.free_frame_list \cap out
    BY <1>1 DEF Counted
  <2>2. CASE g = f
    <3>1. g \notin s.free_frame_list /\ g \notin out
      BY <1>5, <2>1, <2>2
    <3>2. r.frames_info[g].references = n - 1 /\ References(r, g) = n - 1
      BY <1>6, <1>11, <1>14, <2>2
    <3>3. g \in r.free_frame_list <=> n = 1
      BY <1>6, <1>11, <2>2, <3>1
    <3>4. QED
      BY <1>5, <3>1, <3>2, <3>3
  <2>3. CASE g # f
    <3>1. r.frames_info[g].references = s.frames_info[g].references
          /\ References(r, g) = References(s, g)
      BY <1>6, <1>11, <1>14, <2>3
    <3>2. g \in r.free_frame_list <=> g \in s.free_frame_list
      BY <1>6, <1>11, <2>3
    <3>3. QED
      BY <2>1, <3>1, <3>2
  <2>4. QED
    BY <2>2, <2>3
<1>16. /\ s.free_frame_list \subseteq r.free_frame_list
       /\ r.free_frame_list \subseteq s.free_frame_list \cup {f}
       /\ References(s, f) = 1 => f \in r.free_frame_list
  BY <1>5, <1>6, <1>11
<1>17. Good(r, out)
  BY <1>11, <1>13, <1>15 DEF Good
<1>18. QED
  BY <1>2, <1>6, <1>11, <1>12, <1>16, <1>17 DEF f, r

\* The frame f gets a reference, and an entry of an environment that is empty.
LEMMA AddEntry ==
  ASSUME NEW s, NEW out, Good(s, out), NEW e \in Envs, NEW p \in UserPages,
         TableOf(s, e, p) # NULL, MappedAt(s, e, p) = NULL,
         NEW f \in Frames, f \notin s.free_frame_list, ~IsTable(s, f),
         NEW a \in Mem, a.free_frame_list = s.free_frame_list, a.contents = s.contents,
         a.heap = s.heap, a.page_directory = s.page_directory, a.own = s.own,
         a.panic = s.panic,
         a.frames_info[f].references = s.frames_info[f].references + 1,
         \A g \in Frames : g # f => a.frames_info[g] = s.frames_info[g]
  PROVE  LET r == SetEntry(a, e, p, f)
         IN  /\ Good(r, out \ {f})
             /\ r.free_frame_list = s.free_frame_list
             /\ r.heap = s.heap /\ r.page_directory = s.page_directory
             /\ r.own = s.own /\ r.panic = s.panic
             /\ \A c \in Spaces, q \in UserPages :
                  MappedAt(r, c, q) = IF c = e /\ q = p THEN f ELSE MappedAt(s, c, q)
<1> DEFINE r == SetEntry(a, e, p, f)
           n == s.frames_info[f].references
<1>1. s \in Mem /\ TablesOK(s) /\ HeapApart(s) /\ Counted(s, out) /\ e \in Spaces
  BY NotNumbers DEF Good
<1>2. TablesOK(a)
  <2>1. ASSUME NEW c \in Spaces, NEW t \in Tables, s.page_directory[c][t] # NULL
        PROVE  /\ s.page_directory[c][t] \in Frames
               /\ a.frames_info[s.page_directory[c][t]].va
                    = s.frames_info[s.page_directory[c][t]].va
               /\ \A i \in Index : a.contents[s.page_directory[c][t]][i] # Junk
    <3>1. s.page_directory[c][t] # f
      BY DEF IsTable
    <3>2. s.page_directory[c][t] \in Frames
          /\ \A i \in Index : s.contents[s.page_directory[c][t]][i] # Junk
      BY <2>1, CleanTables
    <3>3. QED
      BY <3>1, <3>2
  <2>2. QED
    BY <1>1, <2>1, NotNumbers, SameTables
<1>3. \A c \in Spaces, q \in UserPages : MappedAt(a, c, q) = MappedAt(s, c, q)
  BY SameMappings
<1>4. TableOf(a, e, p) # NULL /\ f \in Frames \cup {NULL}
  BY DEF TableOf
<1>5. /\ r \in Mem /\ TablesOK(r)
      /\ r.free_frame_list = a.free_frame_list /\ r.frames_info = a.frames_info
      /\ r.heap = a.heap /\ r.page_directory = a.page_directory
      /\ r.own = a.own /\ r.panic = a.panic
      /\ \A c \in Spaces, q \in UserPages :
           MappedAt(r, c, q) = IF c = e /\ q = p THEN f ELSE MappedAt(a, c, q)
  BY <1>1, <1>2, <1>4, SetEntryKeeps
<1> HIDE DEF r
<1>6. \A c \in Spaces, q \in UserPages :
        MappedAt(r, c, q) = IF c = e /\ q = p THEN f ELSE MappedAt(s, c, q)
  BY <1>3, <1>5
<1>7. HeapApart(r)
  BY <1>1, <1>5 DEF HeapApart
<1>8. \A g \in Frames : References(r, g) = IF g = f THEN n + 1 ELSE References(s, g)
  <2> SUFFICES ASSUME NEW g \in Frames
               PROVE  References(r, g) = IF g = f THEN n + 1 ELSE References(s, g)
    OBVIOUS
  <2>1. HeapPagesOf(r, g) = HeapPagesOf(s, g)
    BY <1>5, SameHeap
  <2>2. \A c \in Envs, q \in UserPages :
          MappedAt(r, c, q) = IF c = e /\ q = p THEN f ELSE MappedAt(s, c, q)
    BY <1>6, NotNumbers
  <2>3. CASE g = f
    <3>1. g # MappedAt(s, e, p)
      BY NotNumbers
    <3>2. Cardinality(MappingsOf(r, g)) = Cardinality(MappingsOf(s, g)) + 1
      BY <2>2, <2>3, <3>1, MappingChanges
    <3>3. n = References(s, g)
      BY <1>1, <2>3 DEF Counted
    <3>4. QED
      BY <2>1, <2>3, <3>2, <3>3, CountTypes DEF References
  <2>4. CASE g # f
    <3>1. g # MappedAt(s, e, p)
      BY NotNumbers
    <3>2. \A c \in Envs, q \in UserPages : MappedAt(r, c, q) = g <=> MappedAt(s, c, q) = g
      BY <2>2, <2>4, <3>1
    <3>3. \A k \in Envs \X UserPages : k[1] \in Envs /\ k[2] \in UserPages
      OBVIOUS
    <3>4. MappingsOf(r, g) = MappingsOf(s, g)
      BY <3>2, <3>3 DEF MappingsOf
    <3>5. QED
      BY <2>1, <2>4, <3>4, CountedSame
  <2>5. QED
    BY <2>3, <2>4
<1>9. Counted(r, out \ {f})
  <2> SUFFICES ASSUME NEW g \in Frames
               PROVE  /\ r.frames_info[g].references = References(r, g)
                      /\ References(r, g) = 0 <=> g \in r.free_frame_list \cup (out \ {f})
                      /\ g \notin r.free_frame_list \cap (out \ {f})
    BY DEF Counted
  <2>1. /\ s.frames_info[g].references = References(s, g)
        /\ References(s, g) = 0 <=> g \in s.free_frame_list \cup out
        /\ g \notin s.free_frame_list \cap out
    BY <1>1 DEF Counted
  <2>2. CASE g = f
    <3>1. n + 1 # 0
      BY <2>1, <2>2, CountTypes
    <3>2. QED
      BY <1>5, <1>8, <2>2, <3>1
  <2>3. CASE g # f
    BY <1>5, <1>8, <2>1, <2>3
  <2>4. QED
    BY <2>2, <2>3
<1>10. Good(r, out \ {f})
  BY <1>5, <1>7, <1>9 DEF Good
<1>11. QED
  BY <1>5, <1>6, <1>10 DEF r

-----------------------------------------------------------------------------
(***************************************************************************)
(* Mapping.  It takes at most one free frame and one page of the heap, for *)
(* a table.                                                                *)
(***************************************************************************)
Grows(s, r) ==
  /\ r.own = s.own
  /\ \A h \in HeapPages :
       \/ r.heap[h] = s.heap[h]
       \/ s.heap[h] = NULL /\ r.heap[h] \in s.free_frame_list
  /\ \A d \in Spaces, t \in Tables :
       \/ r.page_directory[d][t] = s.page_directory[d][t]
       \/ s.page_directory[d][t] = NULL /\ r.page_directory[d][t] \in s.free_frame_list
  /\ \E f : s.free_frame_list \ {f} \subseteq r.free_frame_list
  /\ \E h : FreeHeapPages(s) \ {h} \subseteq FreeHeapPages(r)

LEMMA GrowsNot ==
  ASSUME NEW s, NEW r, r.own = s.own, r.heap = s.heap, r.page_directory = s.page_directory,
         s.free_frame_list \subseteq r.free_frame_list
  PROVE  Grows(s, r)
BY DEF Grows, FreeHeapPages

\* A table can be had, or is not needed.
Room(s, d, p) ==
  TableOf(s, d, p) # NULL \/ (s.free_frame_list # {} /\ FreeHeapPages(s) # {})

LEMMA TableForPage ==
  ASSUME NEW s, NEW out, Good(s, out), NEW d \in Spaces, NEW p \in UserPages
  PROVE  LET r == WithTable(s, d, p)
         IN  /\ Room(s, d, p) =>
                  /\ Good(r, out) /\ Grows(s, r) /\ r.panic = s.panic
                  /\ r.free_frame_list \subseteq s.free_frame_list
                  /\ TableOf(r, d, p) # NULL
                  /\ \A c \in Spaces, q \in UserPages : MappedAt(r, c, q) = MappedAt(s, c, q)
             /\ TableOf(s, d, p) = NULL /\ FreeHeapPages(s) = {} =>
                  r = [s EXCEPT !.panic = TRUE]
<1> DEFINE r == WithTable(s, d, p)
<1>1. s \in Mem /\ TablesOK(s)
  BY DEF Good
<1>2. r = IF TableOf(s, d, p) = NULL THEN create_page_table(s, d, p) ELSE s
  BY <1>1, Lookup DEF WithTable
<1> HIDE DEF r
<1>3. CASE TableOf(s, d, p) # NULL
  <2>1. r = s
    BY <1>2, <1>3
  <2>2. Grows(s, s)
    BY GrowsNot
  <2>3. QED
    BY <1>3, <2>1, <2>2 DEF r
<1>4. CASE TableOf(s, d, p) = NULL /\ FreeHeapPages(s) = {}
  BY <1>2, <1>4 DEF create_page_table, Room, r
<1>5. CASE TableOf(s, d, p) = NULL /\ FreeHeapPages(s) # {}
  <2> SUFFICES ASSUME s.free_frame_list # {}
               PROVE  /\ Good(r, out) /\ Grows(s, r) /\ r.panic = s.panic
                      /\ r.free_frame_list \subseteq s.free_frame_list
                      /\ TableOf(r, d, p) # NULL
                      /\ \A c \in Spaces, q \in UserPages : MappedAt(r, c, q) = MappedAt(s, c, q)
    BY <1>5 DEF Room, r
  <2> DEFINE f == HeapFrame(s)
             h == NextHeapPage(s)
  <2>1. r = create_page_table(s, d, p)
    BY <1>2, <1>5
  <2>2. /\ Good(r, out) /\ f \in s.free_frame_list /\ f \in Frames
        /\ h \in HeapPages /\ s.heap[h] = NULL
        /\ r.free_frame_list = s.free_frame_list \ {f}
        /\ r.heap = [s.heap EXCEPT ![h] = f]
        /\ r.page_directory = [s.page_directory EXCEPT ![d][PDX(p)] = f]
        /\ r.own = s.own /\ r.panic = s.panic
        /\ \A c \in Spaces, q \in UserPages : MappedAt(r, c, q) = MappedAt(s, c, q)
    BY <1>5, <2>1, CreateTable
  <2> HIDE DEF f, h
  <2>3. s.heap \in [HeapPages -> Frames \cup {NULL}]
        /\ s.page_directory \in [Spaces -> [Tables -> Frames \cup {NULL}]]
    BY <1>1, MemFields
  <2>4. \A g \in HeapPages : r.heap[g] = IF g = h THEN f ELSE s.heap[g]
    BY <2>2, <2>3
  <2>5. PDX(p) \in Tables
    BY PageTypes
  <2>6. \A c \in Spaces, t \in Tables :
          r.page_directory[c][t] = IF c = d /\ t = PDX(p) THEN f ELSE s.page_directory[c][t]
    BY <2>2, <2>3, <2>5
  <2>7. s.page_directory[d][PDX(p)] = NULL
    BY <1>5 DEF TableOf
  <2>8. TableOf(r, d, p) # NULL
    BY <2>2, <2>5, <2>6, NotNumbers DEF TableOf
  <2>9. FreeHeapPages(s) \ {h} \subseteq FreeHeapPages(r)
    BY <2>4 DEF FreeHeapPages
  <2>10. Grows(s, r)
    BY <2>2, <2>4, <2>6, <2>7, <2>9 DEF Grows
  <2>11. QED
    BY <2>2, <2>8, <2>10
<1>6. QED
  BY <1>3, <1>4, <1>5

LEMMA AddReference ==
  ASSUME NEW s \in Mem, NEW f \in Frames
  PROVE  LET a == [s EXCEPT !.frames_info[f].references = @ + 1]
         IN  /\ a \in Mem /\ a.free_frame_list = s.free_frame_list /\ a.contents = s.contents
             /\ a.heap = s.heap /\ a.page_directory = s.page_directory /\ a.own = s.own
             /\ a.panic = s.panic
             /\ a.frames_info[f].references = s.frames_info[f].references + 1
             /\ \A g \in Frames : g # f => a.frames_info[g] = s.frames_info[g]
<1> DEFINE i == s.frames_info[f]
           info == [i EXCEPT !.references = i.references + 1]
           a == [s EXCEPT !.frames_info[f].references = @ + 1]
<1>1. s.frames_info \in [Frames -> Infos] /\ i \in Infos
  BY MemFields
<1>2. a = [s EXCEPT !.frames_info = [s.frames_info EXCEPT ![f] = info]]
  BY <1>1 DEF Mem
<1> HIDE DEF a, i
<1>3. info \in Infos /\ info.references = i.references + 1
  BY <1>1 DEF Infos
<1> HIDE DEF info
<1>4. /\ a \in Mem /\ a.free_frame_list = s.free_frame_list /\ a.contents = s.contents
      /\ a.heap = s.heap /\ a.page_directory = s.page_directory /\ a.own = s.own
      /\ a.panic = s.panic /\ a.frames_info = [s.frames_info EXCEPT ![f] = info]
  BY <1>1, <1>2, <1>3 DEF Mem
<1>5. a.frames_info[f] = info /\ \A g \in Frames : g # f => a.frames_info[g] = s.frames_info[g]
  BY <1>1, <1>4
<1>6. QED
  BY <1>3, <1>4, <1>5 DEF a, i

LEMMA AddReferenceAt ==
  ASSUME NEW s \in Mem, NEW f \in Frames, NEW v \in VAs
  PROVE  LET a == [s EXCEPT !.frames_info[f].references = @ + 1, !.frames_info[f].va = v]
         IN  /\ a \in Mem /\ a.free_frame_list = s.free_frame_list /\ a.contents = s.contents
             /\ a.heap = s.heap /\ a.page_directory = s.page_directory /\ a.own = s.own
             /\ a.panic = s.panic
             /\ a.frames_info[f].references = s.frames_info[f].references + 1
             /\ \A g \in Frames : g # f => a.frames_info[g] = s.frames_info[g]
<1> DEFINE i == s.frames_info[f]
           one == [i EXCEPT !.references = i.references + 1]
           info == [one EXCEPT !.va = v]
           a == [s EXCEPT !.frames_info[f].references = @ + 1, !.frames_info[f].va = v]
<1>1. s.frames_info \in [Frames -> Infos] /\ i \in Infos
  BY MemFields
<1>2. a = [s EXCEPT !.frames_info = [s.frames_info EXCEPT ![f] = info]]
  BY <1>1 DEF Mem
<1> HIDE DEF a, i
<1>3. info \in Infos /\ info.references = i.references + 1
  <2>1. one \in Infos /\ one.references = i.references + 1
    BY <1>1 DEF Infos
  <2> HIDE DEF one
  <2>2. QED
    BY <2>1 DEF Infos
<1> HIDE DEF info
<1>4. /\ a \in Mem /\ a.free_frame_list = s.free_frame_list /\ a.contents = s.contents
      /\ a.heap = s.heap /\ a.page_directory = s.page_directory /\ a.own = s.own
      /\ a.panic = s.panic /\ a.frames_info = [s.frames_info EXCEPT ![f] = info]
  BY <1>1, <1>2, <1>3 DEF Mem
<1>5. a.frames_info[f] = info /\ \A g \in Frames : g # f => a.frames_info[g] = s.frames_info[g]
  BY <1>1, <1>4
<1>6. QED
  BY <1>3, <1>4, <1>5 DEF a, i

\* What it does to map f at p.
MapsAt(s, r, out, e, p, f) ==
  /\ Good(r, out) /\ Grows(s, r) /\ ~r.panic
  /\ \A c \in Spaces, q \in UserPages :
       MappedAt(r, c, q) = IF c = e /\ q = p THEN f ELSE MappedAt(s, c, q)

\* The frame f, taken or of the heap, or mapped elsewhere, is mapped at p.
LEMMA MapFrame ==
  ASSUME NEW s, NEW out, Good(s, out), ~s.panic, NEW e \in Envs, NEW p \in UserPages,
         Room(s, e, p), NEW f \in Frames, f \notin s.free_frame_list, ~IsTable(s, f),
         f # MappedAt(s, e, p)
  PROVE  MapsAt(s, map_frame(s, e, f, p), out \ {f}, e, p, f)
<1> DEFINE r == map_frame(s, e, f, p)
           x == MappedAt(s, e, p)
           t == WithTable(s, e, p)
           u == unmap_frame(t, e, p)
           a == [u EXCEPT !.frames_info[f].references = @ + 1, !.frames_info[f].va = p]
<1>1. e \in Spaces /\ s \in Mem
  BY NotNumbers DEF Good
<1>2. /\ Good(t, out) /\ Grows(s, t) /\ t.panic = s.panic
      /\ t.free_frame_list \subseteq s.free_frame_list
      /\ TableOf(t, e, p) # NULL
      /\ \A c \in Spaces, q \in UserPages : MappedAt(t, c, q) = MappedAt(s, c, q)
  BY <1>1, TableForPage
<1> HIDE DEF t, x
<1>3. t \in Mem /\ TablesOK(t) /\ MappedAt(t, e, p) = x
  BY <1>1, <1>2 DEF Good, x
<1>4. Entry(t, e, p) = x /\ get_frame_info(t, e, p) = x /\ x \in Frames \cup {NULL}
  BY <1>1, <1>2, <1>3, Lookup
<1>5. r = SetEntry(a, e, p, f)
  <2>1. x # f
    BY DEF x
  <2>2. QED
    BY <1>2, <1>4, <2>1 DEF map_frame, t
<1>6. /\ Good(u, out)
      /\ t.free_frame_list \subseteq u.free_frame_list
      /\ u.free_frame_list \subseteq t.free_frame_list \cup ({x} \ {NULL})
      /\ u.heap = t.heap /\ u.page_directory = t.page_directory
      /\ u.own = t.own /\ u.panic = t.panic
      /\ \A c \in Spaces, q \in UserPages :
           MappedAt(u, c, q) = IF c = e /\ q = p THEN NULL ELSE MappedAt(t, c, q)
  <2>1. CASE x = NULL
    <3>1. u = t
      BY <1>4, <2>1 DEF unmap_frame
    <3>2. QED
      BY <1>2, <1>3, <2>1, <3>1
  <2>2. CASE x # NULL
    <3>1. MappedAt(t, e, p) # NULL
      BY <1>3, <2>2
    <3>2. QED
      BY <1>2, <1>3, <2>2, <3>1, Unmap
  <2>3. QED
    BY <2>1, <2>2
<1> HIDE DEF u
<1>7. u \in Mem /\ p \in VAs
  BY <1>6 DEF Good, VAs, UserPages
<1>8. /\ a \in Mem /\ a.free_frame_list = u.free_frame_list /\ a.contents = u.contents
      /\ a.heap = u.heap /\ a.page_directory = u.page_directory /\ a.own = u.own
      /\ a.panic = u.panic
      /\ a.frames_info[f].references = u.frames_info[f].references + 1
      /\ \A g \in Frames : g # f => a.frames_info[g] = u.frames_info[g]
  BY <1>7, AddReferenceAt
<1> HIDE DEF a, r
<1>9. ~IsTable(u, f)
  <2> SUFFICES ASSUME NEW c \in Spaces, NEW v \in Tables, t.page_directory[c][v] = f
               PROVE  FALSE
    BY <1>6 DEF IsTable
  <2>1. \/ t.page_directory[c][v] = s.page_directory[c][v]
        \/ t.page_directory[c][v] \in s.free_frame_list
    BY <1>2 DEF Grows
  <2>2. QED
    BY <2>1 DEF IsTable
<1>10. f \notin u.free_frame_list
  BY <1>2, <1>6 DEF x
<1>11. TableOf(u, e, p) # NULL /\ MappedAt(u, e, p) = NULL
  BY <1>1, <1>2, <1>6 DEF TableOf
<1>12. /\ Good(r, out \ {f})
       /\ r.free_frame_list = u.free_frame_list
       /\ r.heap = u.heap /\ r.page_directory = u.page_directory
       /\ r.own = u.own /\ r.panic = u.panic
       /\ \A c \in Spaces, q \in UserPages :
            MappedAt(r, c, q) = IF c = e /\ q = p THEN f ELSE MappedAt(u, c, q)
  BY <1>5, <1>6, <1>8, <1>9, <1>10, <1>11, AddEntry
<1>13. Grows(s, r)
  <2>1. FreeHeapPages(r) = FreeHeapPages(t)
    BY <1>6, <1>12 DEF FreeHeapPages
  <2>2. QED
    BY <1>2, <1>6, <1>12, <2>1 DEF Grows
<1>14. /\ ~r.panic
       /\ \A c \in Spaces, q \in UserPages :
            MappedAt(r, c, q) = IF c = e /\ q = p THEN f ELSE MappedAt(s, c, q)
  BY <1>2, <1>6, <1>12
<1>15. QED
  BY <1>12, <1>13, <1>14 DEF MapsAt, r

\* The same in env_create, where p is not mapped.
LEMMA LoadtimeMapFrame ==
  ASSUME NEW s, NEW out, Good(s, out), ~s.panic, NEW e \in Envs, NEW p \in UserPages,
         Room(s, e, p), NEW f \in Frames, f \notin s.free_frame_list, ~IsTable(s, f),
         MappedAt(s, e, p) = NULL
  PROVE  MapsAt(s, loadtime_map_frame(s, e, f, p), out \ {f}, e, p, f)
<1> DEFINE r == loadtime_map_frame(s, e, f, p)
           t == WithTable(s, e, p)
           a == [t EXCEPT !.frames_info[f].references = @ + 1]
<1>1. e \in Spaces /\ s \in Mem
  BY NotNumbers DEF Good
<1>2. /\ Good(t, out) /\ Grows(s, t) /\ t.panic = s.panic
      /\ t.free_frame_list \subseteq s.free_frame_list
      /\ TableOf(t, e, p) # NULL
      /\ \A c \in Spaces, q \in UserPages : MappedAt(t, c, q) = MappedAt(s, c, q)
  BY <1>1, TableForPage
<1>3. r = SetEntry(a, e, p, f)
  BY <1>2 DEF loadtime_map_frame
<1> HIDE DEF t
<1>4. t \in Mem /\ NULL \in VAs /\ MappedAt(t, e, p) = NULL
  BY <1>1, <1>2 DEF Good, VAs
<1>5. /\ a \in Mem /\ a.free_frame_list = t.free_frame_list /\ a.contents = t.contents
      /\ a.heap = t.heap /\ a.page_directory = t.page_directory /\ a.own = t.own
      /\ a.panic = t.panic
      /\ a.frames_info[f].references = t.frames_info[f].references + 1
      /\ \A g \in Frames : g # f => a.frames_info[g] = t.frames_info[g]
  BY <1>4, AddReference
<1> HIDE DEF a, r
<1>6. ~IsTable(t, f)
  <2> SUFFICES ASSUME NEW c \in Spaces, NEW v \in Tables, t.page_directory[c][v] = f
               PROVE  FALSE
    BY DEF IsTable
  <2>1. \/ t.page_directory[c][v] = s.page_directory[c][v]
        \/ t.page_directory[c][v] \in s.free_frame_list
    BY <1>2 DEF Grows
  <2>2. QED
    BY <2>1 DEF IsTable
<1>7. f \notin t.free_frame_list
  BY <1>2
<1>8. /\ Good(r, out \ {f})
      /\ r.free_frame_list = t.free_frame_list
      /\ r.heap = t.heap /\ r.page_directory = t.page_directory
      /\ r.own = t.own /\ r.panic = t.panic
      /\ \A c \in Spaces, q \in UserPages :
           MappedAt(r, c, q) = IF c = e /\ q = p THEN f ELSE MappedAt(t, c, q)
  BY <1>2, <1>3, <1>4, <1>5, <1>6, <1>7, AddEntry
<1>9. Grows(s, r)
  <2>1. FreeHeapPages(r) = FreeHeapPages(t)
    BY <1>8 DEF FreeHeapPages
  <2>2. QED
    BY <1>2, <1>8, <2>1 DEF Grows
<1>10. QED
  BY <1>2, <1>8, <1>9 DEF MapsAt, r

\* What r has more than s comes from new.
TakesFrom(s, r, new) ==
  /\ r.own = s.own
  /\ \A h \in HeapPages : r.heap[h] = s.heap[h] \/ (s.heap[h] = NULL /\ r.heap[h] \in new)
  /\ \A d \in Spaces, t \in Tables :
       \/ r.page_directory[d][t] = s.page_directory[d][t]
       \/ s.page_directory[d][t] = NULL /\ r.page_directory[d][t] \in new

\* There is no heap page for the table of p.
HeapFull(s, d, p) == TableOf(s, d, p) = NULL /\ FreeHeapPages(s) = {}

\* The frame f was taken, and then the kernel panicked.
NotMapped(s, r, out, f) ==
  /\ r.panic /\ Good(r, out \cup {f})
  /\ r.free_frame_list = s.free_frame_list \ {f} /\ r.heap = s.heap
  /\ r.page_directory = s.page_directory /\ r.own = s.own
  /\ \A c \in Spaces, q \in UserPages : MappedAt(r, c, q) = MappedAt(s, c, q)

\* The frame f was taken and is mapped at p.
NowMapped(s, r, out, e, p, f) ==
  /\ ~r.panic /\ Good(r, out) /\ TakesFrom(s, r, s.free_frame_list \ {f})
  /\ \E g : s.free_frame_list \ {f, g} \subseteq r.free_frame_list
  /\ \E h : FreeHeapPages(s) \ {h} \subseteq FreeHeapPages(r)
  /\ \A c \in Spaces, q \in UserPages :
       MappedAt(r, c, q) = IF c = e /\ q = p THEN f ELSE MappedAt(s, c, q)

\* A new frame is mapped at p, or the kernel panics.
LEMMA MapGiven ==
  ASSUME NEW s, NEW out, Good(s, out), ~s.panic, NEW e \in Envs, NEW p \in UserPages,
         NEW f \in s.free_frame_list, TableOf(s, e, p) # NULL \/ s.free_frame_list \ {f} # {},
         NEW loading \in BOOLEAN, loading => MappedAt(s, e, p) = NULL
  PROVE  LET a == allocate_frame(s, f)
             m == IF loading THEN loadtime_map_frame(a, e, f, p) ELSE map_frame(a, e, f, p)
             r == Given(m, f)
         IN  /\ f \in Frames /\ r.panic = m.panic
             /\ HeapFull(s, e, p) => NotMapped(s, r, out, f)
             /\ ~HeapFull(s, e, p) => NowMapped(s, r, out, e, p, f)
<1> DEFINE a == allocate_frame(s, f)
           m == IF loading THEN loadtime_map_frame(a, e, f, p) ELSE map_frame(a, e, f, p)
           r == Given(m, f)
<1>1. /\ Good(a, out \cup {f}) /\ f \in Frames
      /\ a.free_frame_list = s.free_frame_list \ {f}
      /\ a.contents = s.contents /\ a.heap = s.heap
      /\ a.page_directory = s.page_directory /\ a.own = s.own /\ a.panic = s.panic
      /\ \A d \in Spaces, q \in UserPages : MappedAt(a, d, q) = MappedAt(s, d, q)
  <2>1. IsAllocated(s, a, out, f)
    BY Allocate
  <2>2. QED
    BY <2>1 DEF IsAllocated
<1> HIDE DEF a
<1>2. e \in Spaces /\ a \in Mem
  BY <1>1, NotNumbers DEF Good
<1>3. f \notin out /\ f \notin a.free_frame_list
  BY <1>1 DEF Good, Counted
<1>4. ~IsTable(a, f) /\ f # MappedAt(a, e, p) /\ ~IsTable(s, f)
  BY <1>1, FreeFrames
<1>5. TableOf(a, e, p) = TableOf(s, e, p) /\ FreeHeapPages(a) = FreeHeapPages(s)
  BY <1>1 DEF TableOf, FreeHeapPages
<1>6. ASSUME TableOf(s, e, p) = NULL, FreeHeapPages(s) = {}
      PROVE  NotMapped(s, r, out, f) /\ r.panic = m.panic
  <2> DEFINE b == [a EXCEPT !.panic = TRUE]
  <2>1. WithTable(a, e, p) = b
    BY <1>1, <1>2, <1>5, <1>6, TableForPage
  <2>2. b.panic = TRUE
    BY <1>2 DEF Mem
  <2>3. m = b
    BY <2>1, <2>2 DEF map_frame, loadtime_map_frame
  <2> HIDE DEF m, r
  <2>4. /\ Good(b, out \cup {f}) /\ b.free_frame_list = a.free_frame_list /\ b.heap = a.heap
        /\ b.page_directory = a.page_directory /\ b.own = a.own
        /\ \A c \in Spaces, q \in UserPages : MappedAt(b, c, q) = MappedAt(a, c, q)
    BY <1>1, SetPanic
  <2> HIDE DEF b
  <2>5. ~IsTable(m, f)
    BY <1>4, <2>3, <2>4 DEF IsTable
  <2>6. /\ Good(r, out \cup {f}) /\ r.free_frame_list = m.free_frame_list /\ r.heap = m.heap
        /\ r.page_directory = m.page_directory /\ r.own = m.own /\ r.panic = m.panic
        /\ \A d \in Spaces, q \in UserPages : MappedAt(r, d, q) = MappedAt(m, d, q)
    BY <1>1, <2>3, <2>4, <2>5, GivenKeeps DEF r
  <2>7. QED
    BY <1>1, <2>2, <2>3, <2>4, <2>6 DEF NotMapped
<1>7. ASSUME ~HeapFull(s, e, p)
      PROVE  NowMapped(s, r, out, e, p, f) /\ r.panic = m.panic
  <2>1. Room(a, e, p)
    BY <1>1, <1>5, <1>7 DEF Room, HeapFull
  <2>2. /\ Good(a, out \cup {f}) /\ ~a.panic /\ Room(a, e, p) /\ f \in Frames
        /\ f \notin a.free_frame_list /\ ~IsTable(a, f) /\ f # MappedAt(a, e, p)
    BY <1>1, <1>3, <1>4, <2>1
  <2>3. MapsAt(a, m, (out \cup {f}) \ {f}, e, p, f)
    <3>1. MapsAt(a, map_frame(a, e, f, p), (out \cup {f}) \ {f}, e, p, f)
      BY <2>2, MapFrame
    <3>2. ASSUME loading
          PROVE  MapsAt(a, loadtime_map_frame(a, e, f, p), (out \cup {f}) \ {f}, e, p, f)
      <4>1. MappedAt(a, e, p) = NULL
        BY <1>1, <1>2, <3>2
      <4>2. QED
        BY <2>2, <4>1, LoadtimeMapFrame
    <3>3. QED
      BY <3>1, <3>2
  <2> HIDE DEF m
  <2>4. (out \cup {f}) \ {f} = out
    BY <1>3
  <2>5. ~IsTable(m, f)
    <3> SUFFICES ASSUME NEW c \in Spaces, NEW v \in Tables, m.page_directory[c][v] = f
                 PROVE  FALSE
      BY DEF IsTable
    <3>1. \/ m.page_directory[c][v] = a.page_directory[c][v]
          \/ m.page_directory[c][v] \in a.free_frame_list
      BY <2>3 DEF MapsAt, Grows
    <3>2. QED
      BY <1>3, <1>4, <3>1 DEF IsTable
  <2>6. /\ Good(r, out) /\ r.free_frame_list = m.free_frame_list /\ r.heap = m.heap
        /\ r.page_directory = m.page_directory /\ r.own = m.own /\ r.panic = m.panic
        /\ \A d \in Spaces, q \in UserPages : MappedAt(r, d, q) = MappedAt(m, d, q)
    BY <1>1, <2>3, <2>4, <2>5, GivenKeeps DEF MapsAt
  <2> HIDE DEF r
  <2>7. TakesFrom(s, r, s.free_frame_list \ {f})
    BY <1>1, <2>3, <2>6 DEF TakesFrom, MapsAt, Grows
  <2>9. \E g : s.free_frame_list \ {f, g} \subseteq r.free_frame_list
    <3>1. PICK g : a.free_frame_list \ {g} \subseteq m.free_frame_list
      BY <2>3 DEF MapsAt, Grows
    <3>2. s.free_frame_list \ {f, g} \subseteq r.free_frame_list
      BY <1>1, <2>6, <3>1
    <3>3. QED
      BY <3>2
  <2>10. \E h : FreeHeapPages(s) \ {h} \subseteq FreeHeapPages(r)
    <3>1. FreeHeapPages(r) = FreeHeapPages(m)
      BY <2>6 DEF FreeHeapPages
    <3>2. QED
      BY <1>5, <2>3, <3>1 DEF MapsAt, Grows
  <2>11. \A c \in Spaces, q \in UserPages :
           MappedAt(r, c, q) = IF c = e /\ q = p THEN f ELSE MappedAt(s, c, q)
    BY <1>1, <2>3, <2>6 DEF MapsAt
  <2>12. QED
    BY <2>3, <2>6, <2>7, <2>9, <2>10, <2>11 DEF NowMapped, MapsAt
<1>8. QED
  BY <1>1, <1>6, <1>7 DEF r, m, a, HeapFull

LEMMA FreePageFrame ==
  ASSUME NEW s \in Mem, s.free_frame_list # {}
  PROVE  PageFrame(s) \in s.free_frame_list
<1>1. s.free_frame_list \in SUBSET Nat /\ IsFiniteSet(s.free_frame_list)
  <2>1. s.free_frame_list \subseteq Frames /\ Frames \subseteq Nat /\ IsFiniteSet(Frames)
    BY MemFields, SpaceAssumption
  <2>2. QED
    BY <2>1, FS_Subset
<1>2. QED
  BY <1>1, GreatestNumber DEF PageFrame

-----------------------------------------------------------------------------
(***************************************************************************)
(* A page of the heap is freed, and with it the table that it may be.      *)
(***************************************************************************)
LEMMA KfreeFields ==
  ASSUME NEW s, NEW out, Good(s, out), NEW h \in HeapPages, NEW f \in Frames, s.heap[h] = f
  PROVE  LET r == kfree(s, h)
             n == References(s, f)
         IN  /\ r \in Mem /\ n \in Nat /\ n # 0
             /\ r.free_frame_list = IF n = 1 THEN s.free_frame_list \cup {f} ELSE s.free_frame_list
             /\ \A g \in HeapPages : r.heap[g] = IF g = h THEN NULL ELSE s.heap[g]
             /\ r.page_directory = s.page_directory
             /\ r.own = s.own /\ r.panic = s.panic
             /\ r.frames_info[f].references = n - 1
             /\ \A g \in Frames : g # f =>
                  r.frames_info[g] = s.frames_info[g] /\ r.contents[g] = s.contents[g]
<1> DEFINE r == kfree(s, h)
           n == References(s, f)
           a == [s EXCEPT !.heap[h] = NULL]
<1>1. s \in Mem /\ s.heap \in [HeapPages -> Frames \cup {NULL}]
  BY MemFields DEF Good
<1>2. n = s.frames_info[f].references /\ n \in Nat /\ n # 0
  BY FrameInHeap, CountTypes, NotUsed DEF Good, Counted
<1>3. /\ a \in Mem /\ a.free_frame_list = s.free_frame_list /\ a.frames_info = s.frames_info
      /\ a.contents = s.contents /\ a.heap = [s.heap EXCEPT ![h] = NULL]
      /\ a.page_directory = s.page_directory /\ a.own = s.own /\ a.panic = s.panic
  BY <1>1 DEF Mem
<1>4. r = decrement_references(a, f)
  BY DEF kfree
<1> HIDE DEF a, r
<1>5. a.frames_info[f].references = n /\ a.frames_info[f].references # 0
  BY <1>2, <1>3
<1> HIDE DEF n
<1>6. /\ r \in Mem
      /\ r.free_frame_list = IF a.frames_info[f].references = 1 THEN a.free_frame_list \cup {f}
                                                                ELSE a.free_frame_list
      /\ r.heap = a.heap /\ r.page_directory = a.page_directory
      /\ r.own = a.own /\ r.panic = a.panic
      /\ r.frames_info[f].references = a.frames_info[f].references - 1
      /\ \A g \in Frames : g # f =>
           r.frames_info[g] = a.frames_info[g] /\ r.contents[g] = a.contents[g]
  <2>1. a \in Mem /\ a.frames_info[f].references # 0
    BY <1>3, <1>5
  <2>2. IsDecremented(a, r, f)
    BY <1>4, <2>1, DecrementIs
  <2>3. QED
    BY <2>2 DEF IsDecremented
<1>7. \A g \in HeapPages : r.heap[g] = IF g = h THEN NULL ELSE s.heap[g]
  BY <1>1, <1>3, <1>6
<1>8. QED
  BY <1>2, <1>3, <1>5, <1>6, <1>7 DEF n, r

\* r is s without the page h of the heap, whose frame is f, and without the table f.
Freed(s, r, h, f) ==
  /\ r.free_frame_list =
       IF References(s, f) = 1 THEN s.free_frame_list \cup {f} ELSE s.free_frame_list
  /\ \A g \in HeapPages : r.heap[g] = IF g = h THEN NULL ELSE s.heap[g]
  /\ \A d \in Spaces, t \in Tables :
       r.page_directory[d][t] = IF s.page_directory[d][t] = f THEN NULL ELSE s.page_directory[d][t]
  /\ r.frames_info[f].references = References(s, f) - 1
  /\ \A g \in Frames : g # f =>
       r.frames_info[g] = s.frames_info[g] /\ r.contents[g] = s.contents[g]

MapsNothing(s, f) ==
  \A e \in Envs, q \in UserPages : TableOf(s, e, q) = f => MappedAt(s, e, q) = NULL

LEMMA FreePage ==
  ASSUME NEW s, NEW out, Good(s, out), NEW h \in HeapPages, NEW f \in Frames, s.heap[h] = f,
         MapsNothing(s, f), NEW r \in Mem, Freed(s, r, h, f)
  PROVE  /\ Good(r, out)
         /\ s.free_frame_list \subseteq r.free_frame_list
         /\ r.free_frame_list \subseteq s.free_frame_list \cup {f}
         /\ \A g \in HeapPages : r.heap[g] = IF g = h THEN NULL ELSE s.heap[g]
         /\ \A d \in Spaces, q \in UserPages :
              MappedAt(r, d, q) = IF TableOf(s, d, q) = f THEN NULL ELSE MappedAt(s, d, q)
<1> DEFINE n == References(s, f)
<1>1. /\ r.free_frame_list = IF n = 1 THEN s.free_frame_list \cup {f} ELSE s.free_frame_list
      /\ \A g \in HeapPages : r.heap[g] = IF g = h THEN NULL ELSE s.heap[g]
      /\ r.frames_info[f].references = n - 1
      /\ \A g \in Frames : g # f =>
           r.frames_info[g] = s.frames_info[g] /\ r.contents[g] = s.contents[g]
      /\ n \in Nat /\ n # 0
  <2>1. n \in Nat /\ n # 0
    BY NotUsed, CountTypes
  <2>2. QED
    BY <2>1 DEF Freed
<1>0. \A d \in Spaces, t \in Tables :
        r.page_directory[d][t] =
          IF s.page_directory[d][t] = f THEN NULL ELSE s.page_directory[d][t]
  BY DEF Freed
<1>2. s \in Mem /\ TablesOK(s) /\ HeapApart(s) /\ Counted(s, out)
  BY DEF Good
<1>3. ASSUME NEW d \in Spaces, NEW t \in Tables, s.page_directory[d][t] # NULL,
             s.page_directory[d][t] # f
      PROVE  LET g == s.page_directory[d][t]
             IN  /\ g \in Frames /\ TableOK(s, d, t, g)
                 /\ r.frames_info[g] = s.frames_info[g] /\ r.contents[g] = s.contents[g]
  <2>1. s.page_directory[d][t] \in Frames /\ TableOK(s, d, t, s.page_directory[d][t])
    BY <1>3, TableFrames
  <2>2. QED
    BY <1>1, <1>3, <2>1
<1>4. \A d \in Spaces, q \in UserPages :
        MappedAt(r, d, q) = IF TableOf(s, d, q) = f THEN NULL ELSE MappedAt(s, d, q)
  <2> SUFFICES ASSUME NEW d \in Spaces, NEW q \in UserPages
               PROVE  MappedAt(r, d, q) =
                        IF TableOf(s, d, q) = f THEN NULL ELSE MappedAt(s, d, q)
    OBVIOUS
  <2>1. PDX(q) \in Tables
    BY PageTypes
  <2>2. TableOf(r, d, q) = IF TableOf(s, d, q) = f THEN NULL ELSE TableOf(s, d, q)
    BY <1>0, <2>1 DEF TableOf
  <2>3. CASE TableOf(s, d, q) = f \/ TableOf(s, d, q) = NULL
    BY <2>2, <2>3 DEF MappedAt
  <2>4. CASE TableOf(s, d, q) # f /\ TableOf(s, d, q) # NULL
    <3>1. r.contents[TableOf(s, d, q)] = s.contents[TableOf(s, d, q)]
      BY <1>3, <2>1, <2>4 DEF TableOf
    <3>2. QED
      BY <2>2, <2>4, <3>1 DEF MappedAt
  <2>5. QED
    BY <2>3, <2>4
<1>5. \A e \in Envs, q \in UserPages : MappedAt(r, e, q) = MappedAt(s, e, q)
  BY <1>4, NotNumbers DEF MapsNothing
<1>6. \A g \in HeapPages : r.heap[g] = IF g = h THEN NULL ELSE s.heap[g]
  BY <1>1
<1>7. HeapApart(r)
  BY <1>2, <1>6 DEF HeapApart
<1>8. TablesOK(r)
  <2> SUFFICES ASSUME NEW d \in Spaces, NEW t \in Tables, r.page_directory[d][t] # NULL
               PROVE  TableOK(r, d, t, r.page_directory[d][t])
    BY DEF TablesOK
  <2> DEFINE g == s.page_directory[d][t]
  <2>1. r.page_directory[d][t] = g /\ g # NULL /\ g # f
    BY <1>0
  <2>2. /\ g \in Frames /\ TableOK(s, d, t, g)
        /\ r.frames_info[g] = s.frames_info[g] /\ r.contents[g] = s.contents[g]
    BY <1>3, <2>1
  <2> HIDE DEF g
  <2>3. s.frames_info[g].va \in HeapPages /\ s.heap[s.frames_info[g].va] = g
        /\ \A i \in Index : s.contents[g][i] # Junk
    BY <2>2 DEF TableOK
  <2>4. r.frames_info[g].va \in HeapPages /\ r.heap[r.frames_info[g].va] = g
    BY <1>6, <2>1, <2>2, <2>3
  <2>5. ASSUME NEW c \in Spaces, NEW u \in Tables, r.page_directory[c][u] = g
        PROVE  c = d /\ u = t
    <3>1. r.page_directory[c][u] # NULL
      BY <2>1, <2>5
    <3>2. s.page_directory[c][u] = g
      BY <1>0, <2>5, <3>1
    <3>3. QED
      BY <2>2, <3>2 DEF TableOK
  <2>6. QED
    BY <2>1, <2>2, <2>3, <2>4, <2>5 DEF TableOK
<1>9. \A g \in Frames : References(r, g) = IF g = f THEN n - 1 ELSE References(s, g)
  <2> SUFFICES ASSUME NEW g \in Frames
               PROVE  References(r, g) = IF g = f THEN n - 1 ELSE References(s, g)
    OBVIOUS
  <2>1. MappingsOf(r, g) = MappingsOf(s, g)
    BY <1>5, MappingsStay
  <2>2. CASE g = f
    <3>1. Cardinality(HeapPagesOf(r, g)) = Cardinality(HeapPagesOf(s, g)) - 1
      <4>1. HeapPagesOf(s, f) = {h} /\ Cardinality(HeapPagesOf(s, f)) = 1
        BY FrameInHeap
      <4>2. HeapPagesOf(r, f) = {}
        BY <1>6, <4>1, NotNumbers DEF HeapPagesOf
      <4>3. QED
        BY <2>2, <4>1, <4>2, FS_EmptySet
    <3>2. QED
      BY <2>1, <2>2, <3>1, CountTypes DEF References
  <2>3. CASE g # f
    <3>1. (g = s.heap[h] <=> g = NULL) => HeapPagesOf(r, g) = HeapPagesOf(s, g)
      BY <1>6, HeapChanges
    <3>2. g # s.heap[h] /\ g # NULL
      BY <2>3, NotNumbers
    <3>3. QED
      BY <2>1, <2>3, <3>1, <3>2, CountedSame
  <2>4. QED
    BY <2>2, <2>3
<1> HIDE DEF n
<1>10. Counted(r, out)
  <2> SUFFICES ASSUME NEW g \in Frames
               PROVE  /\ r.frames_info[g].references = References(r, g)
                      /\ References(r, g) = 0 <=> g \in r.free_frame_list \cup out
                      /\ g \notin r.free_frame_list \cap out
    BY DEF Counted
  <2>1. /\ s.frames_info[g].references = References(s, g)
        /\ References(s, g) = 0 <=> g \in s.free_frame_list \cup out
        /\ g \notin s.free_frame_list \cap out
    BY <1>2 DEF Counted
  <2>2. CASE g = f
    <3>1. g \notin s.free_frame_list /\ g \notin out
      BY <2>2, FrameInHeap
    <3>2. r.frames_info[g].references = n - 1 /\ References(r, g) = n - 1
      BY <1>1, <1>9, <2>2
    <3>3. g \in r.free_frame_list <=> n = 1
      BY <1>1, <2>2, <3>1
    <3>4. QED
      BY <1>1, <3>1, <3>2, <3>3
  <2>3. CASE g # f
    <3>1. r.frames_info[g].references = s.frames_info[g].references
          /\ References(r, g) = References(s, g)
      BY <1>1, <1>9, <2>3
    <3>2. g \in r.free_frame_list <=> g \in s.free_frame_list
      BY <1>1, <2>3
    <3>3. QED
      BY <2>1, <3>1, <3>2
  <2>4. QED
    BY <2>2, <2>3
<1>11. /\ s.free_frame_list \subseteq r.free_frame_list
       /\ r.free_frame_list \subseteq s.free_frame_list \cup {f}
  BY <1>1
<1>12. QED
  BY <1>4, <1>6, <1>7, <1>8, <1>10, <1>11 DEF Good

\* The table t of d, in which an environment has nothing mapped, is removed.
WithoutTable(s, d, t) ==
  [kfree(s, s.frames_info[s.page_directory[d][t]].va) EXCEPT !.page_directory[d][t] = NULL]

LEMMA RemoveTable ==
  ASSUME NEW s, NEW out, Good(s, out), NEW d \in Spaces, NEW t \in Tables,
         s.page_directory[d][t] # NULL,
         d \in Envs => \A q \in UserPages : PDX(q) = t => MappedAt(s, d, q) = NULL
  PROVE  LET f == s.page_directory[d][t]
             r == WithoutTable(s, d, t)
         IN  /\ Good(r, out) /\ r.own = s.own /\ r.panic = s.panic
             /\ s.free_frame_list \subseteq r.free_frame_list
             /\ \A g \in HeapPages :
                  r.heap[g] = IF s.heap[g] = f THEN NULL ELSE s.heap[g]
             /\ \A c \in Spaces, u \in Tables :
                  r.page_directory[c][u] =
                    IF c = d /\ u = t THEN NULL ELSE s.page_directory[c][u]
             /\ \A c \in Spaces, q \in UserPages :
                  MappedAt(r, c, q) = IF c = d /\ PDX(q) = t THEN NULL ELSE MappedAt(s, c, q)
<1> DEFINE f == s.page_directory[d][t]
           h == s.frames_info[f].va
           k == kfree(s, h)
           r == [k EXCEPT !.page_directory[d][t] = NULL]
<1>1. f \in Frames /\ TableOK(s, d, t, f) /\ h \in HeapPages /\ s.heap[h] = f
  BY TableFrames
<1>2. s \in Mem /\ HeapApart(s) /\ f # NULL
  BY DEF Good
<1>3. \A c \in Spaces, u \in Tables : s.page_directory[c][u] = f <=> c = d /\ u = t
  BY <1>1 DEF TableOK
<1> HIDE DEF f, h
<1>4. /\ k \in Mem
      /\ k.free_frame_list =
           IF References(s, f) = 1 THEN s.free_frame_list \cup {f} ELSE s.free_frame_list
      /\ \A g \in HeapPages : k.heap[g] = IF g = h THEN NULL ELSE s.heap[g]
      /\ k.page_directory = s.page_directory /\ k.own = s.own /\ k.panic = s.panic
      /\ k.frames_info[f].references = References(s, f) - 1
      /\ \A g \in Frames : g # f =>
           k.frames_info[g] = s.frames_info[g] /\ k.contents[g] = s.contents[g]
  BY <1>1, KfreeFields
<1> HIDE DEF k
<1>5. /\ r \in Mem /\ r.free_frame_list = k.free_frame_list /\ r.frames_info = k.frames_info
      /\ r.contents = k.contents /\ r.heap = k.heap
      /\ r.page_directory = [s.page_directory EXCEPT ![d][t] = NULL]
      /\ r.own = s.own /\ r.panic = s.panic
  BY <1>4 DEF Mem
<1> HIDE DEF r
<1>6. \A c \in Spaces, u \in Tables :
        r.page_directory[c][u] = IF c = d /\ u = t THEN NULL ELSE s.page_directory[c][u]
  BY <1>2, <1>5, MemFields
<1>7. \A c \in Spaces, u \in Tables :
        r.page_directory[c][u] =
          IF s.page_directory[c][u] = f THEN NULL ELSE s.page_directory[c][u]
  BY <1>3, <1>6
<1>8. \A c \in Spaces, q \in UserPages : TableOf(s, c, q) = f <=> c = d /\ PDX(q) = t
  BY <1>3, PageTypes DEF TableOf
<1>9. MapsNothing(s, f)
  BY <1>8, NotNumbers DEF MapsNothing
<1>10. Freed(s, r, h, f)
  BY <1>4, <1>5, <1>7 DEF Freed
<1>11. /\ Good(r, out)
       /\ s.free_frame_list \subseteq r.free_frame_list
       /\ \A g \in HeapPages : r.heap[g] = IF g = h THEN NULL ELSE s.heap[g]
       /\ \A c \in Spaces, q \in UserPages :
            MappedAt(r, c, q) = IF TableOf(s, c, q) = f THEN NULL ELSE MappedAt(s, c, q)
  <2>1. r \in Mem /\ f \in Frames /\ h \in HeapPages /\ s.heap[h] = f
    BY <1>1, <1>5
  <2>2. QED
    BY <1>9, <1>10, <2>1, FreePage
<1>12. \A g \in HeapPages : g = h <=> s.heap[g] = f
  BY <1>1, <1>2 DEF HeapApart
<1>13. r = WithoutTable(s, d, t)
  BY DEF WithoutTable, f, h, k, r
<1>14. QED
  BY <1>5, <1>6, <1>8, <1>11, <1>12, <1>13 DEF f

\* unmap_frame at a page that may be mapped or not.
LEMMA UnmapAny ==
  ASSUME NEW s, NEW out, Good(s, out), NEW e \in Envs, NEW p \in UserPages
  PROVE  LET r == unmap_frame(s, e, p)
         IN  /\ Good(r, out) /\ s.free_frame_list \subseteq r.free_frame_list
             /\ r.heap = s.heap /\ r.page_directory = s.page_directory
             /\ r.own = s.own /\ r.panic = s.panic
             /\ \A c \in Spaces, q \in UserPages :
                  MappedAt(r, c, q) = IF c = e /\ q = p THEN NULL ELSE MappedAt(s, c, q)
<1>1. CASE MappedAt(s, e, p) # NULL
  BY <1>1, Unmap
<1>2. CASE MappedAt(s, e, p) = NULL
  <2>1. s \in Mem /\ TablesOK(s) /\ e \in Spaces
    BY NotNumbers DEF Good
  <2>2. get_frame_info(s, e, p) = NULL
    BY <1>2, <2>1, Lookup
  <2>3. unmap_frame(s, e, p) = s
    BY <2>2 DEF unmap_frame
  <2>4. QED
    BY <1>2, <2>3
<1>3. QED
  BY <1>1, <1>2

\* What it does to unmap the pages T, of which some may be mapped already.
Unmapped(s, r, out, e, T) ==
  /\ Good(r, out) /\ s.free_frame_list \subseteq r.free_frame_list
  /\ r.heap = s.heap /\ r.page_directory = s.page_directory
  /\ r.own = s.own /\ r.panic = s.panic
  /\ \A c \in Spaces, q \in UserPages :
       MappedAt(r, c, q) = IF c = e /\ q \in T THEN NULL ELSE MappedAt(s, c, q)

LEMMA UnmapOneMore ==
  ASSUME NEW s, NEW r, NEW out, NEW e \in Envs, NEW T \in SUBSET UserPages, NEW p \in T,
         Unmapped(s, r, out, e, T \ {p})
  PROVE  Unmapped(s, unmap_frame(r, e, p), out, e, T)
<1> DEFINE u == unmap_frame(r, e, p)
<1>1. Good(r, out)
  BY DEF Unmapped
<1>2. /\ Good(u, out) /\ r.free_frame_list \subseteq u.free_frame_list
      /\ u.heap = r.heap /\ u.page_directory = r.page_directory
      /\ u.own = r.own /\ u.panic = r.panic
      /\ \A c \in Spaces, q \in UserPages :
           MappedAt(u, c, q) = IF c = e /\ q = p THEN NULL ELSE MappedAt(r, c, q)
  BY <1>1, UnmapAny
<1> HIDE DEF u
<1>3. \A c \in Spaces, q \in UserPages :
        MappedAt(u, c, q) = IF c = e /\ q \in T THEN NULL ELSE MappedAt(s, c, q)
  BY <1>2 DEF Unmapped
<1>4. Unmapped(s, u, out, e, T)
  BY <1>2, <1>3 DEF Unmapped
<1>5. QED
  BY <1>4 DEF u

LEMMA UnmapPages ==
  ASSUME NEW s, NEW out, Good(s, out), NEW e \in Envs,
         NEW S \in SUBSET UserPages, IsFiniteSet(S)
  PROVE  Unmapped(s, UnmapAll(s, e, S), out, e, S)
<1> DEFINE V == {r \in Mem : Good(r, out)}
           G == [p \in S |-> [r \in V |-> unmap_frame(r, e, p)]]
           Iter(g) == g = [T \in SUBSET S |-> IF T = {} THEN s
                             ELSE unmap_frame(g[T \ {Chosen(T)}], e, Chosen(T))]
           P == [T \in SUBSET S |-> {r \in V : Unmapped(s, r, out, e, T)}]
<1>1. s \in V
  BY DEF Good
<1>2. \A p \in S, r \in V : unmap_frame(r, e, p) \in V
  <2>1. TAKE p \in S, r \in V
  <2>2. Good(unmap_frame(r, e, p), out)
    BY UnmapAny
  <2>3. QED
    BY <2>2 DEF Good
<1>3. G \in [S -> [V -> V]]
  BY <1>2
<1>4. PICK g \in [SUBSET S -> V] : \A T \in SUBSET S : g[T] = FoldStep(T, s, G, g)
  <2> HIDE DEF V, G
  <2>1. IsFold(S, V, s, G)
    BY <1>1, <1>3, FoldExists
  <2>2. QED
    BY <2>1 DEF IsFold
<1>5. \A T \in SUBSET S : T # {} =>
        Chosen(T) \in T /\ Chosen(T) \in S /\ T \ {Chosen(T)} \in SUBSET S
  BY DEF Chosen
<1>6. \A T \in SUBSET S :
        g[T] = IF T = {} THEN s ELSE unmap_frame(g[T \ {Chosen(T)}], e, Chosen(T))
  <2>1. TAKE T \in SUBSET S
  <2>2. CASE T = {}
    BY <1>4, <2>2 DEF FoldStep
  <2>3. CASE T # {}
    <3>1. g[T] = G[Chosen(T)][g[T \ {Chosen(T)}]]
      BY <1>4, <2>3 DEF FoldStep
    <3>2. g[T \ {Chosen(T)}] \in V
      BY <1>4, <1>5, <2>3
    <3>3. QED
      BY <1>5, <2>3, <3>1, <3>2
  <2>4. QED
    BY <2>2, <2>3
<1>7. Iter(g)
  <2> HIDE DEF V, G
  <2>1. g = [T \in SUBSET S |-> g[T]]
    BY <1>4
  <2>2. QED
    BY <1>6, <2>1
<1>8. PICK h : Iter(h) /\ UnmapAll(s, e, S) = h[S]
  BY <1>7 DEF UnmapAll, FoldSet, MapThenFoldSet, Chosen
<1>9. h[{}] = s /\ \A T \in SUBSET S : T # {} =>
        h[T] = unmap_frame(h[T \ {Chosen(T)}], e, Chosen(T))
  BY <1>8
<1>10. Unmapped(s, s, out, e, {})
  BY DEF Unmapped
<1> HIDE DEF Iter
<1>11. h[{}] \in P[{}]
  BY <1>1, <1>9, <1>10
<1>12. \A T \in SUBSET S :
         T # {} /\ h[T \ {Chosen(T)}] \in P[T \ {Chosen(T)}] => h[T] \in P[T]
  <2>1. TAKE T \in SUBSET S
  <2>2. HAVE T # {} /\ h[T \ {Chosen(T)}] \in P[T \ {Chosen(T)}]
  <2>3. Unmapped(s, h[T \ {Chosen(T)}], out, e, T \ {Chosen(T)}) /\ Chosen(T) \in T
    BY <1>5, <2>2
  <2>4. Unmapped(s, h[T], out, e, T)
    <3> HIDE DEF P
    <3>1. T \in SUBSET UserPages /\ h[T] = unmap_frame(h[T \ {Chosen(T)}], e, Chosen(T))
      BY <1>9, <2>2
    <3>2. Unmapped(s, unmap_frame(h[T \ {Chosen(T)}], e, Chosen(T)), out, e, T)
      BY <2>3, <3>1, UnmapOneMore
    <3>3. QED
      BY <3>1, <3>2
  <2>5. h[T] \in Mem /\ Good(h[T], out)
    BY <2>4 DEF Unmapped, Good
  <2>6. QED
    BY <2>4, <2>5
<1>13. h[S] \in P[S]
  <2> HIDE DEF P
  <2>1. QED
    BY <1>11, <1>12, FoldKeeps
<1>14. QED
  BY <1>8, <1>13

-----------------------------------------------------------------------------
(***************************************************************************)
(* How the tables and the heap may change in a step, with the frames new   *)
(* that were free: the storage of the shared object keeps its page, and a  *)
(* page of the heap is given back only when it was a table.                *)
(***************************************************************************)
Moves(s, r, new) ==
  /\ r.own[Storage] = s.own[Storage]
  /\ \A h \in HeapPages :
       \/ r.heap[h] = s.heap[h]
       \/ r.heap[h] = NULL /\ IsTable(s, s.heap[h])
       \/ s.heap[h] = NULL /\ r.heap[h] \in new
  /\ \A d \in Spaces, t \in Tables :
       \/ r.page_directory[d][t] = s.page_directory[d][t]
       \/ r.page_directory[d][t] = NULL
       \/ r.page_directory[d][t] \in new

\* Tables were removed and nothing that the spaces D see changed.
Tidied(s, r, out, D) ==
  /\ Good(r, out) /\ s.free_frame_list \subseteq r.free_frame_list
  /\ r.own = s.own /\ r.panic = s.panic /\ Moves(s, r, {})
  /\ \A d \in D, q \in UserPages : MappedAt(r, d, q) = MappedAt(s, d, q)

LEMMA TidyNothing ==
  ASSUME NEW s, NEW out, Good(s, out), NEW D
  PROVE  Tidied(s, s, out, D)
BY DEF Tidied, Moves

LEMMA TidyTwice ==
  ASSUME NEW s, NEW r, NEW u, NEW out, NEW D, Good(s, out),
         Tidied(s, r, out, D), Tidied(r, u, out, D)
  PROVE  Tidied(s, u, out, D)
<1>1. Moves(s, r, {}) /\ Moves(r, u, {}) /\ r.own = s.own
  BY DEF Tidied
<1>2. \A f : f # NULL /\ IsTable(r, f) => IsTable(s, f)
  BY <1>1 DEF Moves, IsTable
<1>3. \A h \in HeapPages :
        u.heap[h] = s.heap[h] \/ (u.heap[h] = NULL /\ IsTable(s, s.heap[h]))
  <2>1. TAKE h \in HeapPages
  <2>2. r.heap[h] = s.heap[h] \/ (r.heap[h] = NULL /\ IsTable(s, s.heap[h]))
    BY <1>1 DEF Moves
  <2>3. u.heap[h] = r.heap[h] \/ (u.heap[h] = NULL /\ IsTable(r, r.heap[h]))
    BY <1>1 DEF Moves
  <2>4. QED
    BY <1>2, <2>2, <2>3
<1>4. \A d \in Spaces, t \in Tables :
        u.page_directory[d][t] = s.page_directory[d][t] \/ u.page_directory[d][t] = NULL
  BY <1>1 DEF Moves
<1>5. Moves(s, u, {})
  BY <1>1, <1>3, <1>4 DEF Moves
<1>6. QED
  BY <1>5 DEF Tidied

\* A table of an environment in which nothing is mapped is removed, and nothing else.
LEMMA RemovedTidies ==
  ASSUME NEW s, NEW out, Good(s, out), NEW d \in Envs, NEW t \in Tables,
         s.page_directory[d][t] # NULL,
         \A q \in UserPages : PDX(q) = t => MappedAt(s, d, q) = NULL
  PROVE  Tidied(s, WithoutTable(s, d, t), out, Spaces)
<1> DEFINE f == s.page_directory[d][t]
           r == WithoutTable(s, d, t)
<1>1. d \in Spaces
  BY NotNumbers
<1>2. /\ Good(r, out) /\ r.own = s.own /\ r.panic = s.panic
      /\ s.free_frame_list \subseteq r.free_frame_list
      /\ \A h \in HeapPages : r.heap[h] = IF s.heap[h] = f THEN NULL ELSE s.heap[h]
      /\ \A c \in Spaces, u \in Tables :
           r.page_directory[c][u] =
             IF c = d /\ u = t THEN NULL ELSE s.page_directory[c][u]
      /\ \A c \in Spaces, q \in UserPages :
           MappedAt(r, c, q) = IF c = d /\ PDX(q) = t THEN NULL ELSE MappedAt(s, c, q)
  BY <1>1, RemoveTable
<1>3. IsTable(s, f)
  BY <1>1 DEF IsTable
<1> HIDE DEF f, r
<1>4. Moves(s, r, {})
  BY <1>2, <1>3 DEF Moves
<1>5. \A c \in Spaces, q \in UserPages : MappedAt(r, c, q) = MappedAt(s, c, q)
  BY <1>2
<1>6. QED
  BY <1>2, <1>4, <1>5 DEF Tidied, r

\* A table without entries is removed, and nothing else.
LEMMA RemoveIfEmptyTidies ==
  ASSUME NEW s, NEW out, Good(s, out), NEW d \in Envs, NEW t \in Tables
  PROVE  Tidied(s, RemoveIfEmpty(s, d, t), out, Spaces)
<1> DEFINE f == s.page_directory[d][t]
           h == s.frames_info[f].va
           r == WithoutTable(s, d, t)
           g == get_page_table(s, d, t * NPTENTRIES)
<1>1. t \in Nat /\ d \in Spaces
  BY PageIndex, SpaceAssumption, NotNumbers DEF Tables
<1>2. g = IF f = NULL THEN NULL ELSE h
  BY <1>1, FirstOfTable DEF get_page_table, kheap_virtual_address
<1>3. CASE f = NULL
  BY <1>2, <1>3, TidyNothing DEF RemoveIfEmpty
<1>4. CASE f # NULL
  <2>1. f \in Frames /\ h \in HeapPages /\ s.heap[h] = f
    BY <1>1, <1>4, TableFrames
  <2>2. g = h /\ h # NULL
    BY <1>2, <1>4, <2>1, NotNumbers
  <2>3. CASE \E i \in Index : s.contents[f][i] # NULL
    <3>1. RemoveIfEmpty(s, d, t) = s
      BY <2>1, <2>2, <2>3 DEF RemoveIfEmpty
    <3>2. QED
      BY <3>1, TidyNothing
  <2>4. CASE \A i \in Index : s.contents[f][i] = NULL
    <3>1. RemoveIfEmpty(s, d, t) = r
      <4>1. ~(g = NULL \/ \E i \in Index : s.contents[s.heap[g]][i] # NULL)
        BY <2>1, <2>2, <2>4
      <4>2. QED
        BY <2>2, <4>1, Zenon DEF RemoveIfEmpty, WithoutTable
    <3>2. \A q \in UserPages : PDX(q) = t => MappedAt(s, d, q) = NULL
      BY <2>4, PageTypes DEF MappedAt, TableOf
    <3>3. Tidied(s, r, out, Spaces)
      BY <1>4, <3>2, RemovedTidies
    <3>4. QED
      BY <3>1, <3>3
  <2>5. QED
    BY <2>3, <2>4
<1>5. QED
  BY <1>3, <1>4

LEMMA FiniteTables == IsFiniteSet(Tables)
<1>1. IsFiniteSet(Pages \cup {WSPage})
  BY SpaceAssumption, FS_AddElement
<1>2. [p \in Pages \cup {WSPage} |-> PDX(p)] \in Surjection(Pages \cup {WSPage}, Tables)
  BY DEF Tables, Surjection
<1>3. QED
  BY <1>1, <1>2, FS_Surjection

LEMMA RemoveTablesTidies ==
  ASSUME NEW s, NEW out, Good(s, out), NEW e \in Envs, NEW range \in SUBSET Pages
  PROVE  Tidied(s, RemoveTables(s, e, range), out, Spaces)
<1> DEFINE S == {PDX(p) : p \in range}
           V == {r \in Mem : Tidied(s, r, out, Spaces)}
           G == [t \in S |-> [r \in V |-> RemoveIfEmpty(r, e, t)]]
           Iter(g) == g = [T \in SUBSET S |-> IF T = {} THEN s
                             ELSE RemoveIfEmpty(g[T \ {Chosen(T)}], e, Chosen(T))]
           P == [T \in SUBSET S |-> V]
<1>1. s \in V
  BY TidyNothing DEF Good
<1>2. S \in SUBSET Tables /\ IsFiniteSet(S)
  <2>1. S \in SUBSET Tables
    BY DEF Tables
  <2>2. QED
    BY <2>1, FiniteTables, FS_Subset
<1>3. \A t \in S, r \in V : RemoveIfEmpty(r, e, t) \in V
  <2>1. TAKE t \in S, r \in V
  <2>2. Good(r, out) /\ t \in Tables /\ Tidied(s, r, out, Spaces)
    BY <1>2 DEF Tidied
  <2> DEFINE u == RemoveIfEmpty(r, e, t)
  <2>3. Tidied(r, u, out, Spaces)
    BY <2>2, RemoveIfEmptyTidies
  <2> HIDE DEF u
  <2>4. Tidied(s, u, out, Spaces)
    BY <2>2, <2>3, TidyTwice
  <2>5. u \in Mem
    BY <2>4 DEF Tidied, Good
  <2>6. QED
    BY <2>4, <2>5 DEF u
<1> HIDE DEF S
<1>4. G \in [S -> [V -> V]]
  BY <1>3
<1>5. PICK g \in [SUBSET S -> V] : \A T \in SUBSET S : g[T] = FoldStep(T, s, G, g)
  <2> HIDE DEF V, G
  <2>1. IsFold(S, V, s, G)
    BY <1>1, <1>2, <1>4, FoldExists
  <2>2. QED
    BY <2>1 DEF IsFold
<1>6. \A T \in SUBSET S : T # {} =>
        Chosen(T) \in T /\ Chosen(T) \in S /\ T \ {Chosen(T)} \in SUBSET S
  BY DEF Chosen
<1>7. \A T \in SUBSET S :
        g[T] = IF T = {} THEN s ELSE RemoveIfEmpty(g[T \ {Chosen(T)}], e, Chosen(T))
  <2>1. TAKE T \in SUBSET S
  <2>2. CASE T = {}
    BY <1>5, <2>2 DEF FoldStep
  <2>3. CASE T # {}
    <3>1. g[T] = G[Chosen(T)][g[T \ {Chosen(T)}]]
      BY <1>5, <2>3 DEF FoldStep
    <3>2. g[T \ {Chosen(T)}] \in V
      BY <1>5, <1>6, <2>3
    <3>3. QED
      BY <1>6, <2>3, <3>1, <3>2
  <2>4. QED
    BY <2>2, <2>3
<1>8. Iter(g)
  <2> HIDE DEF V, G
  <2>1. g = [T \in SUBSET S |-> g[T]]
    BY <1>5
  <2>2. QED
    BY <1>7, <2>1
<1>9. PICK h : Iter(h) /\ RemoveTables(s, e, range) = h[S]
  BY <1>8 DEF RemoveTables, FoldSet, MapThenFoldSet, Chosen, S
<1>10. h[{}] = s /\ \A T \in SUBSET S : T # {} =>
         h[T] = RemoveIfEmpty(h[T \ {Chosen(T)}], e, Chosen(T))
  BY <1>9
<1> HIDE DEF Iter
<1>11. h[{}] \in P[{}]
  BY <1>1, <1>10
<1>12. \A T \in SUBSET S :
         T # {} /\ h[T \ {Chosen(T)}] \in P[T \ {Chosen(T)}] => h[T] \in P[T]
  <2>1. TAKE T \in SUBSET S
  <2>2. HAVE T # {} /\ h[T \ {Chosen(T)}] \in P[T \ {Chosen(T)}]
  <2>3. h[T \ {Chosen(T)}] \in V /\ Chosen(T) \in S
    BY <1>6, <2>2
  <2> HIDE DEF V
  <2>4. RemoveIfEmpty(h[T \ {Chosen(T)}], e, Chosen(T)) \in V
    BY <1>3, <2>3
  <2>5. QED
    BY <1>10, <2>2, <2>4
<1>13. h[S] \in P[S]
  <2> HIDE DEF P
  <2>1. QED
    BY <1>2, <1>11, <1>12, FoldKeeps
<1>14. QED
  BY <1>9, <1>13

\* What it does to remove the tables T of the storage.
Cleared(s, r, out, T) ==
  /\ Tidied(s, r, out, Envs)
  /\ \A t \in Tables :
       r.page_directory[Storage][t] = IF t \in T THEN NULL ELSE s.page_directory[Storage][t]

LEMMA ClearOneMore ==
  ASSUME NEW s, NEW r, NEW out, Good(s, out), NEW T \in SUBSET Tables, NEW t \in T,
         s.page_directory[Storage][t] # NULL, Cleared(s, r, out, T \ {t})
  PROVE  Cleared(s, WithoutTable(r, Storage, t), out, T)
<1> DEFINE u == WithoutTable(r, Storage, t)
           f == r.page_directory[Storage][t]
<1>1. Good(r, out) /\ f # NULL /\ Tidied(s, r, out, Envs)
  BY DEF Cleared, Tidied
<1>2. /\ Good(u, out) /\ u.own = r.own /\ u.panic = r.panic
      /\ r.free_frame_list \subseteq u.free_frame_list
      /\ \A h \in HeapPages : u.heap[h] = IF r.heap[h] = f THEN NULL ELSE r.heap[h]
      /\ \A c \in Spaces, v \in Tables :
           u.page_directory[c][v] =
             IF c = Storage /\ v = t THEN NULL ELSE r.page_directory[c][v]
      /\ \A c \in Spaces, q \in UserPages :
           MappedAt(u, c, q) = IF c = Storage /\ PDX(q) = t THEN NULL ELSE MappedAt(r, c, q)
  BY <1>1, NotNumbers, RemoveTable
<1>3. IsTable(r, f)
  BY NotNumbers DEF IsTable
<1> HIDE DEF f, u
<1>4. Moves(r, u, {})
  BY <1>2, <1>3 DEF Moves
<1>5. \A c \in Envs, q \in UserPages : MappedAt(u, c, q) = MappedAt(r, c, q)
  BY <1>2, NotNumbers
<1>6. Tidied(r, u, out, Envs)
  BY <1>2, <1>4, <1>5 DEF Tidied
<1>7. Tidied(s, u, out, Envs)
  BY <1>1, <1>6, TidyTwice
<1>8. \A v \in Tables :
        u.page_directory[Storage][v] =
          IF v \in T THEN NULL ELSE s.page_directory[Storage][v]
  BY <1>2, NotNumbers DEF Cleared
<1>9. QED
  BY <1>7, <1>8 DEF Cleared, u

LEMMA ClearStorage ==
  ASSUME NEW s, NEW out, Good(s, out)
  PROVE  Cleared(s, clear_frames_storage(s), out, Tables)
<1> DEFINE S == {t \in Tables : s.page_directory[Storage][t] # NULL}
           Iter(g) == g = [T \in SUBSET S |-> IF T = {} THEN s
                             ELSE RemoveStorageTable(g[T \ {Chosen(T)}], Chosen(T))]
           V == {r \in Mem : Tidied(s, r, out, Envs)}
           G == [t \in S |-> [r \in V |-> IF WithoutTable(r, Storage, t) \in V
                                          THEN WithoutTable(r, Storage, t) ELSE r]]
           P == [T \in SUBSET S |-> {r \in V : Cleared(s, r, out, T)}]
<1>1. s \in V
  BY TidyNothing DEF Good
<1>2. S \in SUBSET Tables /\ IsFiniteSet(S)
  <2>1. S \in SUBSET Tables
    OBVIOUS
  <2>2. QED
    BY <2>1, FiniteTables, FS_Subset
<1>3. \A r, t : RemoveStorageTable(r, t) = WithoutTable(r, Storage, t)
  BY Zenon DEF RemoveStorageTable, WithoutTable, kheap_virtual_address
<1>4. \A t \in S : s.page_directory[Storage][t] # NULL
  OBVIOUS
<1>5. \A t \in Tables : t \notin S => s.page_directory[Storage][t] = NULL
  OBVIOUS
<1>6. G \in [S -> [V -> V]]
  OBVIOUS
<1> HIDE DEF S
<1>7. PICK g \in [SUBSET S -> V] : \A T \in SUBSET S : g[T] = FoldStep(T, s, G, g)
  <2> HIDE DEF V, G
  <2>1. IsFold(S, V, s, G)
    BY <1>1, <1>2, <1>6, FoldExists
  <2>2. QED
    BY <2>1 DEF IsFold
<1>8. \A T \in SUBSET S : T # {} =>
        Chosen(T) \in T /\ Chosen(T) \in S /\ T \ {Chosen(T)} \in SUBSET S
  BY DEF Chosen
<1>9. Cleared(s, s, out, {})
  BY TidyNothing DEF Cleared
<1>10. \A T \in SUBSET S : \A r :
         T # {} /\ Cleared(s, r, out, T \ {Chosen(T)}) =>
           Cleared(s, WithoutTable(r, Storage, Chosen(T)), out, T)
  <2>1. TAKE T \in SUBSET S
  <2>a. TAKE r
  <2>2. HAVE T # {} /\ Cleared(s, r, out, T \ {Chosen(T)})
  <2>3. T \in SUBSET Tables /\ Chosen(T) \in T /\ s.page_directory[Storage][Chosen(T)] # NULL
    BY <1>2, <1>4, <1>8, <2>2
  <2>4. QED
    BY <2>2, <2>3, ClearOneMore
<1>11. \A r, T : Cleared(s, r, out, T) => r \in V
  BY DEF Cleared, Tidied, Good
<1> HIDE DEF V
<1>12. g[{}] = s /\ \A T \in SUBSET S : T # {} => g[T] = G[Chosen(T)][g[T \ {Chosen(T)}]]
  <2> HIDE DEF G
  <2>1. QED
    BY <1>7 DEF FoldStep
<1>13. \A T \in SUBSET S : T # {} /\ g[T \ {Chosen(T)}] \in P[T \ {Chosen(T)}] =>
         /\ g[T] = WithoutTable(g[T \ {Chosen(T)}], Storage, Chosen(T))
         /\ g[T] \in P[T]
  <2>1. TAKE T \in SUBSET S
  <2>2. HAVE T # {} /\ g[T \ {Chosen(T)}] \in P[T \ {Chosen(T)}]
  <2> DEFINE r == g[T \ {Chosen(T)}]
             u == WithoutTable(r, Storage, Chosen(T))
  <2>3. T \ {Chosen(T)} \in SUBSET S /\ Chosen(T) \in S
    BY <1>8, <2>2
  <2>4. r \in V /\ Cleared(s, r, out, T \ {Chosen(T)})
    BY <2>2, <2>3
  <2>5. Cleared(s, u, out, T)
    <3> HIDE DEF r
    <3>1. QED
      BY <1>10, <2>2, <2>4
  <2>6. u \in V
    BY <1>11, <2>5
  <2>7. G[Chosen(T)][r] = u
    <3> HIDE DEF r
    <3>1. QED
      BY <2>3, <2>4, <2>6
  <2>8. g[T] = u
    BY <1>12, <2>2, <2>7
  <2>9. QED
    BY <2>5, <2>6, <2>8
<1>14. g[{}] \in P[{}]
  BY <1>1, <1>9, <1>12
<1> HIDE DEF P, G
<1>15. \A T \in SUBSET S : g[T] \in P[T]
  <2>1. TAKE T \in SUBSET S
  <2>2. IsFiniteSet(T)
    BY <1>2, FS_Subset
  <2>3. \A U \in SUBSET T :
          U # {} /\ g[U \ {Chosen(U)}] \in P[U \ {Chosen(U)}] => g[U] \in P[U]
    BY <1>13
  <2>4. QED
    BY <1>14, <2>2, <2>3, FoldKeeps
<1>16. \A T \in SUBSET S :
         g[T] = IF T = {} THEN s ELSE RemoveStorageTable(g[T \ {Chosen(T)}], Chosen(T))
  BY <1>3, <1>8, <1>12, <1>13, <1>15
<1>17. Iter(g)
  <2>1. g = [T \in SUBSET S |-> g[T]]
    BY <1>7
  <2>2. QED
    BY <1>16, <2>1
<1>18. PICK h : Iter(h) /\ clear_frames_storage(s) = h[S]
  <2>1. clear_frames_storage(s) = (CHOOSE k : Iter(k))[S]
    BY DEF clear_frames_storage, FoldSet, MapThenFoldSet, Chosen, S
  <2> HIDE DEF Iter, S
  <2>2. Iter(CHOOSE k : Iter(k))
    BY <1>17
  <2>3. QED
    BY <2>1, <2>2
<1>19. h[{}] = s /\ \A T \in SUBSET S : T # {} =>
         h[T] = WithoutTable(h[T \ {Chosen(T)}], Storage, Chosen(T))
  BY <1>3, <1>18
<1> HIDE DEF Iter
<1>20. h[{}] \in P[{}]
  BY <1>12, <1>14, <1>19
<1>21. \A T \in SUBSET S :
         T # {} /\ h[T \ {Chosen(T)}] \in P[T \ {Chosen(T)}] => h[T] \in P[T]
  <2>1. TAKE T \in SUBSET S
  <2>2. HAVE T # {} /\ h[T \ {Chosen(T)}] \in P[T \ {Chosen(T)}]
  <2>3. T \ {Chosen(T)} \in SUBSET S
    BY <1>8, <2>2
  <2>4. Cleared(s, h[T \ {Chosen(T)}], out, T \ {Chosen(T)})
    BY <2>2, <2>3 DEF P
  <2>5. Cleared(s, h[T], out, T)
    BY <1>10, <1>19, <2>2, <2>4
  <2>6. QED
    BY <1>11, <2>5 DEF P
<1>22. h[S] \in P[S]
  BY <1>2, <1>20, <1>21, FoldKeeps
<1>23. Cleared(s, h[S], out, S)
  BY <1>22 DEF P
<1>24. Cleared(s, h[S], out, Tables)
  BY <1>2, <1>5, <1>23 DEF Cleared
<1>25. QED
  BY <1>18, <1>24

-----------------------------------------------------------------------------
(***************************************************************************)
(* What holds between the steps of SpaceSpec: of the memory s, with the    *)
(* frames out lost, the working sets w and n references of the shared      *)
(* object, NULL when there is none.                                        *)
(***************************************************************************)
SharedFrame(s) == MappedAt(s, Storage, 0)

\* A page of a program is no frame of the heap.
Private(s) ==
  \A e \in Envs, p \in Pages, h \in HeapPages :
    MappedAt(s, e, p) # NULL => s.heap[h] # MappedAt(s, e, p)

\* A frame is mapped once, but for the frame of the shared object.
Apart(s, sharing) ==
  \A e, g \in Envs, p, q \in UserPages :
    MappedAt(s, e, p) # NULL /\ MappedAt(s, e, p) = MappedAt(s, g, q) =>
      \/ e = g /\ p = q
      \/ sharing /\ MappedAt(s, e, p) = SharedFrame(s)

\* The page of the heap that is the storage's directory.
StoragePage(s) ==
  \E h \in HeapPages : s.own[Storage] = {h} /\ s.heap[h] # NULL /\ ~IsTable(s, s.heap[h])

Stored(s) ==
  /\ SharedFrame(s) # NULL /\ StoragePage(s)
  /\ \A h \in HeapPages : s.heap[h] # SharedFrame(s)
  /\ \A e \in Envs : MappedAt(s, e, WSPage) # SharedFrame(s)

User(s, sharing) == Private(s) /\ Apart(s, sharing) /\ (sharing => Stored(s))

\* A page of the working set is mapped, and not to the shared object.
Resident(s, w, sharing) ==
  \A e \in Envs : \A p \in w[e] :
    MappedAt(s, e, p) # NULL /\ (sharing => MappedAt(s, e, p) # SharedFrame(s))

SharesCounted(s, n) ==
  n # NULL => n # 0 /\ n = Cardinality(MappingsOf(s, SharedFrame(s)))

Accounted(s, out, w, n) ==
  /\ Good(s, out) /\ User(s, n # NULL) /\ Resident(s, w, n # NULL)
  /\ SharesCounted(s, n)

\* The inductive invariant.
SpaceInv == SpaceTypeOK /\ Accounted(mem, lost, ws, shares)

\* A frame that nobody has.
Fresh(s, sharing, f) ==
  /\ f \in Frames
  /\ \A c \in Envs, q \in UserPages : MappedAt(s, c, q) # f
  /\ \A h \in HeapPages : s.heap[h] # f
  /\ sharing => f # SharedFrame(s)

LEMMA PagesKnown ==
  /\ 0 \in UserPages /\ WSPage \in UserPages /\ Pages \subseteq UserPages
  /\ WSPage \notin Pages
  /\ \A q \in UserPages : PDX(q) = PDX(WSPage) => q = WSPage
BY SpaceAssumption DEF UserPages

LEMMA SharedFrameUsed ==
  ASSUME NEW s, NEW out, NEW w, NEW n, Accounted(s, out, w, n), n # NULL
  PROVE  /\ SharedFrame(s) \in Frames
         /\ SharedFrame(s) \notin s.free_frame_list /\ SharedFrame(s) \notin out
<1> DEFINE F == SharedFrame(s)
<1>1. Good(s, out) /\ s \in Mem /\ TablesOK(s) /\ Counted(s, out) /\ F # NULL
  BY DEF Accounted, Good, User, Stored
<1>2. F \in Frames
  BY <1>1, PagesKnown, NotNumbers, Lookup DEF SharedFrame
<1> HIDE DEF F
<1>3. Cardinality(MappingsOf(s, F)) # 0
  BY DEF Accounted, SharesCounted, F
<1>4. References(s, F) # 0
  BY <1>3, CountTypes DEF References
<1>5. QED
  BY <1>1, <1>2, <1>4 DEF Counted, F

LEMMA FreeIsFresh ==
  ASSUME NEW s, NEW out, NEW w, NEW n, Accounted(s, out, w, n), NEW f \in s.free_frame_list
  PROVE  Fresh(s, n # NULL, f)
<1>1. Good(s, out) /\ f \in Frames
  BY DEF Accounted, Good, Mem
<1>2. /\ \A c \in Envs, q \in UserPages : MappedAt(s, c, q) # f
      /\ \A h \in HeapPages : s.heap[h] # f
  BY <1>1, FreeFrames
<1>3. n # NULL => f # SharedFrame(s)
  BY SharedFrameUsed
<1>4. QED
  BY <1>1, <1>2, <1>3 DEF Fresh

\* x may become the entry for p.
NewEntry(s, b, p, x, new) ==
  \/ x = NULL
  \/ b /\ x = SharedFrame(s) /\ p \in Pages
  \/ Fresh(s, b, x) /\ (p \in Pages => x \notin new)

\* One entry at most becomes x, others are removed.
LEMMA UserMoves ==
  ASSUME NEW s, NEW r, NEW b \in BOOLEAN, User(s, b), NEW new, Moves(s, r, new),
         \A f \in new : Fresh(s, b, f),
         NEW e \in Envs, NEW p \in UserPages, NEW x, NewEntry(s, b, p, x, new),
         \A c \in Envs, q \in UserPages :
           \/ MappedAt(r, c, q) = MappedAt(s, c, q)
           \/ MappedAt(r, c, q) = NULL
           \/ c = e /\ q = p /\ MappedAt(r, c, q) = x,
         b => SharedFrame(r) = SharedFrame(s)
  PROVE  User(r, b)
<1> DEFINE F == SharedFrame(s)
<1>1. Private(s) /\ Apart(s, b) /\ (b => Stored(s)) /\ NULL \notin Frames
  BY NotNumbers DEF User
<1>0. \/ x = NULL
      \/ b /\ x = SharedFrame(s) /\ p \in Pages
      \/ Fresh(s, b, x) /\ (p \in Pages => x \notin new)
  BY DEF NewEntry
<1>2. \A h \in HeapPages : r.heap[h] = s.heap[h] \/ r.heap[h] = NULL \/ r.heap[h] \in new
  BY DEF Moves
<1>3. \A c \in Envs, q \in Pages : q \in UserPages
  BY PagesKnown
<1>4. Private(r)
  <2> SUFFICES ASSUME NEW c \in Envs, NEW q \in Pages, NEW h \in HeapPages,
                      MappedAt(r, c, q) # NULL
               PROVE  r.heap[h] # MappedAt(r, c, q)
    BY DEF Private
  <2>1. CASE MappedAt(r, c, q) = MappedAt(s, c, q)
    <3>1. s.heap[h] # MappedAt(s, c, q)
      BY <1>1, <2>1 DEF Private
    <3>2. MappedAt(s, c, q) \notin new
      BY <1>3 DEF Fresh
    <3>3. QED
      BY <1>2, <2>1, <3>1, <3>2
  <2>2. CASE c = e /\ q = p /\ MappedAt(r, c, q) = x
    <3>1. CASE b /\ x = SharedFrame(s)
      <4>1. s.heap[h] # x /\ x \notin new
        BY <1>1, <3>1 DEF Stored, Fresh
      <4>2. QED
        BY <1>2, <2>2, <4>1
    <3>2. CASE Fresh(s, b, x) /\ x \notin new
      <4>1. s.heap[h] # x
        BY <3>2 DEF Fresh
      <4>2. QED
        BY <1>2, <2>2, <3>2, <4>1
    <3>3. QED
      BY <1>0, <2>2, <3>1, <3>2
  <2>3. QED
    BY <1>3, <2>1, <2>2
<1>5. Apart(r, b)
  <2> SUFFICES ASSUME NEW c \in Envs, NEW g \in Envs, NEW q \in UserPages, NEW u \in UserPages,
                      MappedAt(r, c, q) # NULL, MappedAt(r, c, q) = MappedAt(r, g, u),
                      ~(c = g /\ q = u), ~(b /\ MappedAt(r, c, q) = SharedFrame(r))
               PROVE  FALSE
    BY DEF Apart
  <2>1. ~(b /\ MappedAt(r, c, q) = F)
    OBVIOUS
  <2>3. CASE MappedAt(r, c, q) = MappedAt(s, c, q) /\ MappedAt(r, g, u) = MappedAt(s, g, u)
    <3>1. MappedAt(s, c, q) # NULL /\ MappedAt(s, c, q) = MappedAt(s, g, u)
      BY <2>3
    <3>2. ~(b /\ MappedAt(s, c, q) = SharedFrame(s))
      BY <2>1, <2>3
    <3>3. QED
      BY <1>1, <3>1, <3>2 DEF Apart
  <2>4. CASE c = e /\ q = p /\ MappedAt(r, c, q) = x /\ MappedAt(r, g, u) = MappedAt(s, g, u)
    <3>1. Fresh(s, b, x)
      BY <1>0, <2>1, <2>4
    <3>2. QED
      BY <2>4, <3>1 DEF Fresh
  <2>5. CASE g = e /\ u = p /\ MappedAt(r, g, u) = x /\ MappedAt(r, c, q) = MappedAt(s, c, q)
    <3>1. Fresh(s, b, x)
      BY <1>0, <2>1, <2>5
    <3>2. QED
      BY <2>5, <3>1 DEF Fresh
  <2>6. QED
    BY <2>3, <2>4, <2>5
<1>6. ASSUME b PROVE Stored(r)
  <2>1. Stored(s) /\ SharedFrame(r) = F /\ F # NULL
    BY <1>1, <1>6 DEF Stored
  <2>2. \A h \in HeapPages : r.heap[h] # F
    BY <1>2, <1>6, <2>1 DEF Stored, Fresh
  <2>3. \A c \in Envs : MappedAt(r, c, WSPage) # F
    <3>1. WSPage \in UserPages /\ WSPage \notin Pages
      BY PagesKnown
    <3>2. \A c \in Envs : MappedAt(s, c, WSPage) # F
      BY <2>1 DEF Stored
    <3>3. WSPage = p => x # F
      BY <1>0, <1>6, <2>1, <3>1 DEF Fresh
    <3>4. QED
      BY <2>1, <3>1, <3>2, <3>3
  <2>4. StoragePage(r)
    <3>1. PICK h \in HeapPages :
            s.own[Storage] = {h} /\ s.heap[h] # NULL /\ ~IsTable(s, s.heap[h])
      BY <2>1 DEF Stored, StoragePage
    <3>2. r.own[Storage] = {h} /\ r.heap[h] = s.heap[h]
      BY <3>1 DEF Moves
    <3>3. s.heap[h] \notin new
      BY DEF Fresh
    <3>4. ~IsTable(r, s.heap[h])
      BY <3>1, <3>3 DEF Moves, IsTable
    <3>5. QED
      BY <3>1, <3>2, <3>4 DEF StoragePage
  <2>5. QED
    BY <2>1, <2>2, <2>3, <2>4 DEF Stored
<1>7. QED
  BY <1>4, <1>5, <1>6 DEF User

\* Nothing that environments see changes.
LEMMA AccountedSame ==
  ASSUME NEW s, NEW r, NEW out, NEW out2, NEW w, NEW n, Accounted(s, out, w, n),
         \A c \in Envs : w[c] \subseteq Pages,
         Good(r, out2), NEW new, Moves(s, r, new), \A f \in new : Fresh(s, n # NULL, f),
         \A c \in Envs, q \in UserPages : MappedAt(r, c, q) = MappedAt(s, c, q),
         n # NULL => SharedFrame(r) = SharedFrame(s)
  PROVE  Accounted(r, out2, w, n)
<1> DEFINE b == n # NULL
<1>1. User(s, b) /\ Resident(s, w, b) /\ SharesCounted(s, n) /\ b \in BOOLEAN
  BY DEF Accounted
<1>2. \A f \in new : Fresh(s, b, f)
  OBVIOUS
<1>3. b => SharedFrame(r) = SharedFrame(s)
  OBVIOUS
<1> HIDE DEF b
<1>4. User(r, b)
  <2>1. CASE Envs = {}
    <3>1. Private(r) /\ Apart(r, b)
      BY <2>1 DEF Private, Apart
    <3>2. b => Stored(r)
      <4> SUFFICES ASSUME b PROVE Stored(r)
        OBVIOUS
      <4>1. Stored(s) /\ SharedFrame(r) = SharedFrame(s) /\ NULL \notin Frames
        BY <1>1, <1>3, NotNumbers DEF User
      <4>2. \A f \in new : f # SharedFrame(s) /\ f # NULL /\ \A h \in HeapPages : s.heap[h] # f
        BY <1>2, <4>1 DEF Fresh
      <4>3. \A h \in HeapPages : r.heap[h] # SharedFrame(s)
        BY <4>1, <4>2 DEF Stored, Moves
      <4>4. PICK h \in HeapPages :
              s.own[Storage] = {h} /\ s.heap[h] # NULL /\ ~IsTable(s, s.heap[h])
        BY <4>1 DEF Stored, StoragePage
      <4>5. r.own[Storage] = {h} /\ r.heap[h] = s.heap[h] /\ ~IsTable(r, s.heap[h])
        BY <4>2, <4>4 DEF Moves, IsTable
      <4>6. QED
        BY <2>1, <4>1, <4>3, <4>4, <4>5 DEF Stored, StoragePage
    <3>3. QED
      BY <3>1, <3>2 DEF User
  <2>2. CASE Envs # {}
    <3>1. PICK e \in Envs : TRUE
      BY <2>2
    <3>2. 0 \in UserPages /\ NewEntry(s, b, 0, NULL, new)
      BY PagesKnown DEF NewEntry
    <3>3. QED
      BY <1>1, <1>2, <1>3, <3>1, <3>2, UserMoves
  <2>3. QED
    BY <2>1, <2>2
<1>5. Resident(r, w, b)
  <2>1. \A c \in Envs : \A q \in w[c] : q \in UserPages
    BY PagesKnown
  <2>2. QED
    BY <1>1, <1>3, <2>1 DEF Resident
<1>6. SharesCounted(r, n)
  <2>1. \A f : MappingsOf(r, f) = MappingsOf(s, f)
    BY MappingsStay
  <2>2. QED
    BY <1>1, <1>3, <2>1 DEF SharesCounted, b
<1>7. QED
  BY <1>4, <1>5, <1>6 DEF Accounted, b

LEMMA AccountedTidied ==
  ASSUME NEW s, NEW r, NEW out, NEW w, NEW n, Accounted(s, out, w, n),
         \A c \in Envs : w[c] \subseteq Pages, Tidied(s, r, out, Spaces)
  PROVE  Accounted(r, out, w, n)
<1>1. Good(r, out) /\ Moves(s, r, {})
  BY DEF Tidied
<1>2. \A c \in Spaces, q \in UserPages : MappedAt(r, c, q) = MappedAt(s, c, q)
  BY DEF Tidied
<1>3. \A c \in Envs, q \in UserPages : MappedAt(r, c, q) = MappedAt(s, c, q)
  BY <1>2, NotNumbers
<1>4. SharedFrame(r) = SharedFrame(s)
  BY <1>2, PagesKnown, NotNumbers DEF SharedFrame
<1>5. QED
  BY <1>1, <1>3, <1>4, AccountedSame

\* Pages of e that are not shared are unmapped, and no longer in its working set.
LEMMA AccountedUnmapped ==
  ASSUME NEW s, NEW r, NEW out, NEW w, NEW n, Accounted(s, out, w, n),
         \A c \in Envs : w[c] \subseteq Pages,
         NEW e \in Envs, NEW T \in SUBSET UserPages, Unmapped(s, r, out, e, T),
         n # NULL => \A q \in T : MappedAt(s, e, q) # SharedFrame(s),
         NEW w2, \A c \in Envs : w2[c] \subseteq w[c], w2[e] \cap T = {}
  PROVE  Accounted(r, out, w2, n)
<1> DEFINE b == n # NULL
<1>1. Good(s, out) /\ User(s, b) /\ Resident(s, w, b) /\ SharesCounted(s, n) /\ b \in BOOLEAN
  BY DEF Accounted
<1>2. /\ Good(r, out) /\ r.heap = s.heap /\ r.page_directory = s.page_directory /\ r.own = s.own
      /\ \A c \in Spaces, q \in UserPages :
           MappedAt(r, c, q) = IF c = e /\ q \in T THEN NULL ELSE MappedAt(s, c, q)
  BY DEF Unmapped
<1>3. Moves(s, r, {})
  BY <1>2 DEF Moves
<1>4. SharedFrame(r) = SharedFrame(s)
  BY <1>2, PagesKnown, NotNumbers DEF SharedFrame
<1>5. \A c \in Envs, q \in UserPages :
        MappedAt(r, c, q) = IF c = e /\ q \in T THEN NULL ELSE MappedAt(s, c, q)
  BY <1>2, NotNumbers
<1> HIDE DEF b
<1>6. User(r, b)
  <2>1. 0 \in UserPages /\ NewEntry(s, b, 0, NULL, {})
    BY PagesKnown DEF NewEntry
  <2>2. \A c \in Envs, q \in UserPages :
          MappedAt(r, c, q) = MappedAt(s, c, q) \/ MappedAt(r, c, q) = NULL
    BY <1>5
  <2>3. QED
    BY <1>1, <1>3, <1>4, <2>1, <2>2, UserMoves
<1>7. Resident(r, w2, b)
  <2> SUFFICES ASSUME NEW c \in Envs, NEW q \in w2[c]
               PROVE  MappedAt(r, c, q) # NULL /\ (b => MappedAt(r, c, q) # SharedFrame(r))
    BY DEF Resident
  <2>1. q \in w[c] /\ q \in UserPages /\ ~(c = e /\ q \in T)
    BY PagesKnown
  <2>2. MappedAt(r, c, q) = MappedAt(s, c, q)
    BY <1>5, <2>1
  <2>3. QED
    BY <1>1, <1>4, <2>1, <2>2 DEF Resident
<1>8. SharesCounted(r, n)
  <2> SUFFICES ASSUME b PROVE n # 0 /\ n = Cardinality(MappingsOf(r, SharedFrame(r)))
    BY DEF SharesCounted, b
  <2>1. SharedFrame(s) # NULL
    BY <1>1 DEF User, Stored
  <2>2. \A q \in T : MappedAt(s, e, q) # SharedFrame(s)
    BY DEF b
  <2>3. \A k \in Envs \X UserPages : k[1] \in Envs /\ k[2] \in UserPages
    OBVIOUS
  <2>4. MappingsOf(r, SharedFrame(s)) = MappingsOf(s, SharedFrame(s))
    BY <1>5, <2>1, <2>2, <2>3 DEF MappingsOf
  <2>5. QED
    BY <1>1, <1>4, <2>4 DEF SharesCounted, b
<1>9. QED
  BY <1>2, <1>6, <1>7, <1>8 DEF Accounted, b

\* A fresh frame is mapped in place of one that is not the shared object's.
LEMMA AccountedMapped ==
  ASSUME NEW s, NEW r, NEW out, NEW out2, NEW w, NEW n, Accounted(s, out, w, n),
         \A c \in Envs : w[c] \subseteq Pages,
         Good(r, out2), NEW new, Moves(s, r, new), \A f \in new : Fresh(s, n # NULL, f),
         NEW e \in Envs, NEW p \in UserPages, NEW x, Fresh(s, n # NULL, x),
         p \in Pages => x \notin new,
         n # NULL => MappedAt(s, e, p) # SharedFrame(s),
         \A c \in Spaces, q \in UserPages :
           MappedAt(r, c, q) = IF c = e /\ q = p THEN x ELSE MappedAt(s, c, q),
         NEW w2, \A c \in Envs : \A q \in w2[c] : q \in w[c] \/ (c = e /\ q = p)
  PROVE  Accounted(r, out2, w2, n)
<1> DEFINE b == n # NULL
<1>1. Good(s, out) /\ User(s, b) /\ Resident(s, w, b) /\ SharesCounted(s, n) /\ b \in BOOLEAN
  BY DEF Accounted
<1>2. (\A f \in new : Fresh(s, b, f)) /\ Fresh(s, b, x)
  OBVIOUS
<1>3. SharedFrame(r) = SharedFrame(s)
  BY PagesKnown, NotNumbers DEF SharedFrame
<1>4. \A c \in Envs, q \in UserPages :
        MappedAt(r, c, q) = IF c = e /\ q = p THEN x ELSE MappedAt(s, c, q)
  BY NotNumbers
<1>5. b => MappedAt(s, e, p) # SharedFrame(s) /\ x # SharedFrame(s)
  BY DEF Fresh
<1>6. x # NULL
  BY <1>2, NotNumbers DEF Fresh
<1> HIDE DEF b
<1>7. User(r, b)
  <2>1. \A c \in Envs, q \in UserPages :
          \/ MappedAt(r, c, q) = MappedAt(s, c, q)
          \/ MappedAt(r, c, q) = NULL
          \/ c = e /\ q = p /\ MappedAt(r, c, q) = x
    BY <1>4
  <2>2. NewEntry(s, b, p, x, new)
    BY <1>2 DEF NewEntry
  <2>3. QED
    BY <1>1, <1>2, <1>3, <2>1, <2>2, UserMoves
<1>8. Resident(r, w2, b)
  <2> SUFFICES ASSUME NEW c \in Envs, NEW q \in w2[c]
               PROVE  MappedAt(r, c, q) # NULL /\ (b => MappedAt(r, c, q) # SharedFrame(r))
    BY DEF Resident
  <2>1. CASE c = e /\ q = p
    BY <1>3, <1>4, <1>5, <1>6, <2>1
  <2>2. CASE ~(c = e /\ q = p)
    <3>1. q \in w[c] /\ q \in UserPages
      BY <2>2, PagesKnown
    <3>2. MappedAt(r, c, q) = MappedAt(s, c, q)
      BY <1>4, <2>2, <3>1
    <3>3. QED
      BY <1>1, <1>3, <3>1, <3>2 DEF Resident
  <2>3. QED
    BY <2>1, <2>2
<1>9. SharesCounted(r, n)
  <2> SUFFICES ASSUME b PROVE n # 0 /\ n = Cardinality(MappingsOf(r, SharedFrame(r)))
    BY DEF SharesCounted, b
  <2>1. MappingsOf(r, SharedFrame(s)) = MappingsOf(s, SharedFrame(s))
    BY <1>4, <1>5, MappingChanges
  <2>2. QED
    BY <1>1, <1>3, <2>1 DEF SharesCounted, b
<1>10. QED
  BY <1>7, <1>8, <1>9 DEF Accounted, b

LEMMA AccountedPanic ==
  ASSUME NEW s, NEW out, NEW w, NEW n, Accounted(s, out, w, n),
         \A c \in Envs : w[c] \subseteq Pages, NEW b \in BOOLEAN
  PROVE  LET r == [s EXCEPT !.panic = b]
         IN  /\ Accounted(r, out, w, n) /\ r \in Mem /\ r.panic = b
<1> DEFINE r == [s EXCEPT !.panic = b]
<1>1. Good(s, out)
  BY DEF Accounted
<1>2. /\ Good(r, out) /\ r.panic = b /\ r.free_frame_list = s.free_frame_list
      /\ r.heap = s.heap /\ r.page_directory = s.page_directory /\ r.own = s.own
      /\ \A d \in Spaces, p \in UserPages : MappedAt(r, d, p) = MappedAt(s, d, p)
  BY <1>1, SetPanic
<1> HIDE DEF r
<1>3. Moves(s, r, {})
  BY <1>2 DEF Moves
<1>4. SharedFrame(r) = SharedFrame(s)
  BY <1>2, PagesKnown, NotNumbers DEF SharedFrame
<1>5. \A d \in Envs, p \in UserPages : MappedAt(r, d, p) = MappedAt(s, d, p)
  BY <1>2, NotNumbers
<1>6. Accounted(r, out, w, n)
  BY <1>2, <1>3, <1>4, <1>5, AccountedSame
<1>7. QED
  BY <1>2, <1>6 DEF Good, r

\* A program gets a new page at p, as m, or the kernel panics and loses f.
PageGiven(s, m, out, w, w2, n, e, p, f) ==
  LET r == Given(m, f)
  IN  /\ f \in Frames /\ r \in Mem /\ r.panic = m.panic
      /\ r.panic => Accounted(r, out \cup {f}, w, n)
      /\ ~r.panic => Accounted(r, out, w2, n)
      /\ TableOf(s, e, p) # NULL => ~r.panic

LEMMA NewPage ==
  ASSUME NEW s, NEW out, NEW w, NEW n, Accounted(s, out, w, n), ~s.panic,
         \A c \in Envs : w[c] \subseteq Pages,
         NEW e \in Envs, NEW p \in Pages, NEW f \in s.free_frame_list,
         NEW m,
         \/ m = map_frame(allocate_frame(s, f), e, f, p)
         \/ m = loadtime_map_frame(allocate_frame(s, f), e, f, p) /\ MappedAt(s, e, p) = NULL,
         n # NULL => MappedAt(s, e, p) # SharedFrame(s),
         TableOf(s, e, p) # NULL \/ s.free_frame_list \ {f} # {},
         NEW w2, \A c \in Envs : \A q \in w2[c] : q \in w[c] \/ (c = e /\ q = p)
  PROVE  PageGiven(s, m, out, w, w2, n, e, p, f)
<1> DEFINE a == allocate_frame(s, f)
           loading == m # map_frame(a, e, f, p)
           r == Given(m, f)
           new == s.free_frame_list \ {f}
<1>1. Good(s, out) /\ p \in UserPages
  BY PagesKnown DEF Accounted
<1>2. /\ f \in Frames /\ r.panic = m.panic
      /\ HeapFull(s, e, p) => NotMapped(s, r, out, f)
      /\ ~HeapFull(s, e, p) => NowMapped(s, r, out, e, p, f)
  <2>1. m = IF loading THEN loadtime_map_frame(a, e, f, p) ELSE map_frame(a, e, f, p)
    OBVIOUS
  <2>2. loading \in BOOLEAN /\ (loading => MappedAt(s, e, p) = NULL)
    OBVIOUS
  <2> HIDE DEF loading
  <2> DEFINE u == IF loading THEN loadtime_map_frame(a, e, f, p) ELSE map_frame(a, e, f, p)
             v == Given(u, f)
  <2>3. /\ f \in Frames /\ v.panic = u.panic
        /\ HeapFull(s, e, p) => NotMapped(s, v, out, f)
        /\ ~HeapFull(s, e, p) => NowMapped(s, v, out, e, p, f)
    BY <1>1, <2>2, MapGiven
  <2>4. QED
    BY <2>1, <2>3
<1>3. \A g \in s.free_frame_list : Fresh(s, n # NULL, g)
  BY FreeIsFresh
<1>4. new \subseteq s.free_frame_list /\ f \notin new
  OBVIOUS
<1> HIDE DEF a, loading, r, new
<1>5. CASE HeapFull(s, e, p)
  <2>1. Moves(s, r, {})
    BY <1>2, <1>5 DEF Moves, NotMapped
  <2>2. SharedFrame(r) = SharedFrame(s)
    BY <1>2, <1>5, PagesKnown, NotNumbers DEF SharedFrame, NotMapped
  <2>3. \A d \in Envs, q \in UserPages : MappedAt(r, d, q) = MappedAt(s, d, q)
    BY <1>2, <1>5, NotNumbers DEF NotMapped
  <2>4. Good(r, out \cup {f})
    BY <1>2, <1>5 DEF NotMapped
  <2>5. Accounted(r, out \cup {f}, w, n)
    BY <2>1, <2>2, <2>3, <2>4, AccountedSame
  <2>6. QED
    BY <1>2, <1>5, <2>5 DEF Good, NotMapped, HeapFull, PageGiven, r
<1>6. CASE ~HeapFull(s, e, p)
  <2>1. Moves(s, r, new)
    BY <1>2, <1>6 DEF Moves, NowMapped, TakesFrom, new
  <2>2. /\ Good(r, out)
        /\ \A c \in Spaces, q \in UserPages :
             MappedAt(r, c, q) = IF c = e /\ q = p THEN f ELSE MappedAt(s, c, q)
    BY <1>2, <1>6 DEF NowMapped
  <2>3. (\A g \in new : Fresh(s, n # NULL, g)) /\ Fresh(s, n # NULL, f) /\ f \notin new
    BY <1>3, <1>4
  <2>4. Accounted(r, out, w2, n)
    BY <1>1, <2>1, <2>2, <2>3, AccountedMapped
  <2>5. QED
    BY <1>2, <1>6, <2>4 DEF Good, NowMapped, PageGiven, r
<1>7. QED
  BY <1>5, <1>6

-----------------------------------------------------------------------------
(***************************************************************************)
(* The steps of SpaceSpec, one by one.                                     *)
(***************************************************************************)
StatusOK(st) == st \in [Envs -> {"free", "loading", "running", "stopped"}]

LEMMA TypesOfSpace ==
  SpaceTypeOK <=>
    /\ mem \in Mem /\ mem.panic = FALSE /\ StatusOK(status)
    /\ ws \in [Envs -> SUBSET Pages] /\ shares \in Nat \cup {NULL}
    /\ lost \subseteq Frames /\ releases \in 0..MaxReleases
<1>1. mem \in [free_frame_list : SUBSET Frames, frames_info : [Frames -> Infos],
               contents : [Frames -> Entries], heap : [HeapPages -> Frames \cup {NULL}],
               page_directory : [Spaces -> [Tables -> Frames \cup {NULL}]],
               own : [Spaces -> SUBSET HeapPages], panic : {FALSE}]
        <=> mem \in Mem /\ mem.panic = FALSE
  BY DEF Mem
<1>2. QED
  BY <1>1 DEF SpaceTypeOK, StatusOK, Infos, VAs, Entries

\* What a step needs of the state that it starts in.
LEMMA InSpaceInv ==
  ASSUME SpaceInv
  PROVE  /\ Accounted(mem, lost, ws, shares) /\ Good(mem, lost) /\ mem \in Mem /\ ~mem.panic
         /\ \A c \in Envs : ws[c] \subseteq Pages
         /\ TablesOK(mem) /\ mem.free_frame_list \subseteq Frames
         /\ IsFiniteSet(mem.free_frame_list) /\ IsFiniteSet(FreeHeapPages(mem))
<1>1. SpaceTypeOK /\ Accounted(mem, lost, ws, shares)
  BY DEF SpaceInv
<1>2. mem \in Mem /\ mem.panic = FALSE /\ ws \in [Envs -> SUBSET Pages]
  BY <1>1, TypesOfSpace
<1>3. Good(mem, lost) /\ TablesOK(mem) /\ mem.free_frame_list \subseteq Frames
  BY <1>1, <1>2, MemFields DEF Accounted, Good
<1>4. IsFiniteSet(mem.free_frame_list)
  BY <1>3, SpaceAssumption, FS_Subset
<1>5. IsFiniteSet(FreeHeapPages(mem))
  BY SpaceAssumption, FS_Subset DEF FreeHeapPages
<1>6. QED
  BY <1>1, <1>2, <1>3, <1>4, <1>5

\* What a step must show.
LEMMA ToSpaceInv ==
  ASSUME SpaceInv, mem' \in Mem, mem'.panic = FALSE, StatusOK(status'),
         \A c \in Envs : ws'[c] \subseteq Pages, ws' \in [Envs -> SUBSET Pages],
         shares' \in Nat \cup {NULL}, lost' \subseteq Frames, Keeps \/ Releases,
         Accounted(mem', lost', ws', shares')
  PROVE  SpaceInv'
<1>1. releases \in 0..MaxReleases /\ MaxReleases \in Nat
  BY TypesOfSpace, SpaceAssumption DEF SpaceInv
<1>2. releases' \in 0..MaxReleases
  BY <1>1 DEF Keeps, Releases
<1>3. (SpaceTypeOK)'
  <2>1. mem' \in [free_frame_list : SUBSET Frames, frames_info : [Frames -> Infos],
                  contents : [Frames -> Entries], heap : [HeapPages -> Frames \cup {NULL}],
                  page_directory : [Spaces -> [Tables -> Frames \cup {NULL}]],
                  own : [Spaces -> SUBSET HeapPages], panic : {FALSE}]
    BY DEF Mem
  <2>2. QED
    BY <1>2, <2>1 DEF SpaceTypeOK, StatusOK, Infos, VAs, Entries
<1>4. QED
  BY <1>3 DEF SpaceInv

LEMMA MappedHere ==
  ASSUME SpaceInv, NEW e \in Envs, NEW p \in Pages
  PROVE  /\ p \in Mapped(e) <=> MappedAt(mem, e, p) # NULL
         /\ p \in MappedShared(e) <=>
              shares # NULL /\ MappedAt(mem, e, p) # NULL /\ MappedAt(mem, e, p) = SharedFrame(mem)
         /\ get_page_table(mem, e, p) = NULL <=> TableOf(mem, e, p) = NULL
<1>1. mem \in Mem /\ TablesOK(mem) /\ e \in Spaces /\ Storage \in Spaces
      /\ p \in UserPages /\ 0 \in UserPages
  BY InSpaceInv, NotNumbers, PagesKnown
<1>2. get_frame_info(mem, e, p) = MappedAt(mem, e, p)
  BY <1>1, Lookup
<1>3. get_frame_from_storage(mem, 0) = SharedFrame(mem)
  BY <1>1, Lookup DEF get_frame_from_storage, SharedFrame
<1>4. get_page_table(mem, e, p) = NULL <=> TableOf(mem, e, p) = NULL
  BY <1>1, Lookup
<1>5. QED
  BY <1>2, <1>3, <1>4 DEF Mapped, MappedShared

LEMMA SharedFrameFound ==
  ASSUME SpaceInv
  PROVE  get_frame_from_storage(mem, 0) = SharedFrame(mem)
BY InSpaceInv, NotNumbers, PagesKnown, Lookup DEF get_frame_from_storage, SharedFrame

\* With n + 1 there is another after any n.
LEMMA Fewer ==
  ASSUME NEW S, IsFiniteSet(S), NEW n \in Nat, Cardinality(S) >= n + 1
  PROVE  /\ S # {}
         /\ \A x : IsFiniteSet(S \ {x}) /\ Cardinality(S \ {x}) >= n
<1>1. Cardinality(S) \in Nat /\ S # {}
  BY Holds
<1>2. \A x : IsFiniteSet(S \ {x}) /\ Cardinality(S \ {x}) >= n
  <2>1. TAKE x
  <2>2. CASE x \in S
    BY <1>1, <2>2, Holds
  <2>3. CASE x \notin S
    <3> DEFINE R == S \ {x}
    <3>1. R = S
      BY <2>3
    <3> HIDE DEF R
    <3>2. IsFiniteSet(R) /\ Cardinality(R) >= n
      BY <1>1, <3>1
    <3>3. QED
      BY <3>2 DEF R
  <2>4. QED
    BY <2>2, <2>3
<1>3. QED
  BY <1>1, <1>2

\* Two frames are free: one of them is taken, and there is another for a table.
LEMMA TwoFree ==
  ASSUME SpaceInv, FramesFree(2)
  PROVE  /\ PageFrame(mem) \in mem.free_frame_list
         /\ mem.free_frame_list \ {PageFrame(mem)} # {}
<1> DEFINE S == mem.free_frame_list
<1>1. IsFiniteSet(S) /\ mem \in Mem /\ Cardinality(S) >= 1 + 1
  BY InSpaceInv DEF FramesFree
<1>2. S # {} /\ \A x : IsFiniteSet(S \ {x}) /\ Cardinality(S \ {x}) >= 1
  BY <1>1, Fewer
<1>3. PageFrame(mem) \in S
  BY <1>1, <1>2, FreePageFrame
<1>4. \A x : S \ {x} # {}
  BY <1>2, Holds
<1>5. QED
  BY <1>3, <1>4

LEMMA OneFree ==
  ASSUME SpaceInv, FramesFree(1)
  PROVE  PageFrame(mem) \in mem.free_frame_list
<1>1. IsFiniteSet(mem.free_frame_list) /\ mem \in Mem
  BY InSpaceInv
<1>2. mem.free_frame_list # {}
  BY <1>1, Holds DEF FramesFree
<1>3. QED
  BY <1>1, <1>2, FreePageFrame

LEMMA LoadPageKeeps ==
  ASSUME SpaceInv, NEW e \in Envs, NEW p \in Pages, LoadPage(e, p)
  PROVE  SpaceInv'
<1> DEFINE f == PageFrame(mem)
           a == allocate_frame(mem, f)
           m == loadtime_map_frame(a, e, f, p)
           r == Given(m, f)
           w2 == [ws EXCEPT ![e] = @ \cup {p}]
<1>1. /\ Accounted(mem, lost, ws, shares) /\ ~mem.panic
      /\ \A c \in Envs : ws[c] \subseteq Pages
  BY InSpaceInv
<1>2. ws \in [Envs -> SUBSET Pages] /\ lost \subseteq Frames /\ StatusOK(status)
      /\ shares \in Nat \cup {NULL}
  BY TypesOfSpace DEF SpaceInv
<1>3. f \in mem.free_frame_list /\ mem.free_frame_list \ {f} # {}
  BY TwoFree DEF LoadPage
<1>4. MappedAt(mem, e, p) = NULL /\ (shares # NULL => MappedAt(mem, e, p) # SharedFrame(mem))
  <2>1. MappedAt(mem, e, p) = NULL
    BY MappedHere DEF LoadPage
  <2>2. QED
    BY <1>1, <2>1 DEF Accounted, User, Stored
<1>5. /\ w2 \in [Envs -> SUBSET Pages]
      /\ \A c \in Envs : w2[c] \subseteq Pages
      /\ \A c \in Envs : \A q \in w2[c] : q \in ws[c] \/ (c = e /\ q = p)
  BY <1>2
<1> HIDE DEF f, w2
<1>m. m = loadtime_map_frame(allocate_frame(mem, f), e, f, p)
  OBVIOUS
<1> HIDE DEF m
<1>6. /\ f \in Frames /\ r \in Mem /\ r.panic = m.panic
      /\ r.panic => Accounted(r, lost \cup {f}, ws, shares)
      /\ ~r.panic => Accounted(r, lost, w2, shares)
  <2>1. PageGiven(mem, m, lost, ws, w2, shares, e, p, f)
    BY <1>1, <1>3, <1>4, <1>5, <1>m, NewPage
  <2>2. QED
    BY <2>1 DEF PageGiven
<1>7. /\ mem' = [r EXCEPT !.panic = FALSE]
      /\ status' = IF r.panic THEN [status EXCEPT ![e] = "stopped"] ELSE status
      /\ lost' = lost \cup IF r.panic THEN {f} ELSE {}
      /\ ws' = IF m.panic THEN ws ELSE w2
      /\ shares' = shares /\ Keeps
  BY DEF LoadPage, Leave, f, w2, m
<1> HIDE DEF a, m, r
<1>8. lost' \subseteq Frames /\ StatusOK(status') /\ ws' \in [Envs -> SUBSET Pages]
      /\ \A c \in Envs : ws'[c] \subseteq Pages
  BY <1>1, <1>2, <1>5, <1>6, <1>7 DEF StatusOK
<1>9. Accounted(r, lost', ws', shares')
  <2>1. CASE r.panic
    BY <1>6, <1>7, <2>1
  <2>2. CASE ~r.panic
    <3>1. lost' = lost
      BY <1>7, <2>2
    <3>2. QED
      BY <1>6, <1>7, <2>2, <3>1
  <2>3. QED
    BY <2>1, <2>2
<1>10. Accounted(mem', lost', ws', shares') /\ mem' \in Mem /\ mem'.panic = FALSE
  BY <1>7, <1>8, <1>9, AccountedPanic
<1>11. QED
  BY <1>2, <1>7, <1>8, <1>10, ToSpaceInv

\* The same of MapNew.
NewMapped(s, r, out, w, w2, n, e, p) ==
  /\ PageFrame(s) \in Frames /\ r \in Mem
  /\ r.panic => Accounted(r, out \cup {PageFrame(s)}, w, n)
  /\ ~r.panic => Accounted(r, out, w2, n)
  /\ TableOf(s, e, p) # NULL => ~r.panic

LEMMA MapNewPage ==
  ASSUME NEW s, NEW out, NEW w, NEW n, Accounted(s, out, w, n), ~s.panic,
         \A c \in Envs : w[c] \subseteq Pages, NEW e \in Envs, NEW p \in Pages,
         PageFrame(s) \in s.free_frame_list,
         n # NULL => MappedAt(s, e, p) # SharedFrame(s),
         TableOf(s, e, p) # NULL \/ s.free_frame_list \ {PageFrame(s)} # {},
         NEW w2, \A c \in Envs : \A q \in w2[c] : q \in w[c] \/ (c = e /\ q = p)
  PROVE  NewMapped(s, MapNew(s, e, p), out, w, w2, n, e, p)
<1> DEFINE f == PageFrame(s)
           m == map_frame(allocate_frame(s, f), e, f, p)
<1>1. MapNew(s, e, p) = Given(m, f)
  BY DEF MapNew
<1>2. m = map_frame(allocate_frame(s, f), e, f, p) /\ f \in s.free_frame_list
  OBVIOUS
<1>3. TableOf(s, e, p) # NULL \/ s.free_frame_list \ {f} # {}
  OBVIOUS
<1> HIDE DEF m, f
<1>4. PageGiven(s, m, out, w, w2, n, e, p, f)
  BY <1>2, <1>3, NewPage
<1>5. QED
  BY <1>1, <1>4 DEF PageGiven, NewMapped, f

LEMMA PlacePageKeeps ==
  ASSUME SpaceInv, NEW e \in Envs, NEW p \in Pages, NEW b \in BOOLEAN, PlacePage(e, p, b)
  PROVE  SpaceInv'
<1> DEFINE r == MapNew(mem, e, p)
           w2 == [ws EXCEPT ![e] = ws[e] \cup IF b THEN {p} ELSE {}]
<1>1. /\ Accounted(mem, lost, ws, shares) /\ ~mem.panic
      /\ \A c \in Envs : ws[c] \subseteq Pages
  BY InSpaceInv
<1>2. ws \in [Envs -> SUBSET Pages] /\ lost \subseteq Frames /\ StatusOK(status)
      /\ shares \in Nat \cup {NULL}
  BY TypesOfSpace DEF SpaceInv
<1>3. PageFrame(mem) \in mem.free_frame_list
  BY OneFree DEF PlacePage
<1>4. TableOf(mem, e, p) # NULL /\ (shares # NULL => MappedAt(mem, e, p) # SharedFrame(mem))
  <2>1. MappedAt(mem, e, p) = NULL /\ TableOf(mem, e, p) # NULL
    BY MappedHere DEF PlacePage
  <2>2. QED
    BY <1>1, <2>1 DEF Accounted, User, Stored
<1>5. /\ w2 \in [Envs -> SUBSET Pages]
      /\ \A c \in Envs : w2[c] \subseteq Pages
      /\ \A c \in Envs : \A q \in w2[c] : q \in ws[c] \/ (c = e /\ q = p)
  BY <1>2
<1> HIDE DEF w2
<1>6. NewMapped(mem, r, lost, ws, w2, shares, e, p)
  BY <1>1, <1>3, <1>4, <1>5, MapNewPage
<1>7. /\ mem' = r /\ ws' = w2 /\ shares' = shares /\ lost' = lost /\ Keeps
      /\ status' = IF b THEN status ELSE [status EXCEPT ![e] = "stopped"]
  BY DEF PlacePage, Faulted, w2
<1> HIDE DEF r
<1>8. r \in Mem /\ ~r.panic /\ Accounted(r, lost, w2, shares)
  BY <1>4, <1>6 DEF NewMapped
<1>9. StatusOK(status') /\ r.panic = FALSE
  BY <1>2, <1>7, <1>8, MemFields DEF StatusOK
<1>10. QED
  BY <1>2, <1>5, <1>7, <1>8, <1>9, ToSpaceInv

LEMMA ReplacePageKeeps ==
  ASSUME SpaceInv, NEW e \in Envs, NEW p \in Pages, NEW victim \in ws[e],
         NEW b \in BOOLEAN, ReplacePage(e, p, victim, b)
  PROVE  SpaceInv'
<1> DEFINE u == unmap_frame(mem, e, victim)
           r == MapNew(u, e, p)
           w1 == [ws EXCEPT ![e] = ws[e] \ {victim}]
           w2 == [ws EXCEPT ![e] = (ws[e] \ {victim}) \cup IF b THEN {p} ELSE {}]
<1>1. /\ Accounted(mem, lost, ws, shares) /\ ~mem.panic /\ Good(mem, lost)
      /\ \A c \in Envs : ws[c] \subseteq Pages
  BY InSpaceInv
<1>2. ws \in [Envs -> SUBSET Pages] /\ lost \subseteq Frames /\ StatusOK(status)
      /\ shares \in Nat \cup {NULL}
  BY TypesOfSpace DEF SpaceInv
<1>3. victim \in Pages /\ victim \in UserPages /\ p \in UserPages /\ e \in Spaces
  BY <1>1, PagesKnown, NotNumbers
<1>4. /\ MappedAt(mem, e, p) = NULL /\ TableOf(mem, e, p) # NULL
      /\ shares # NULL => MappedAt(mem, e, p) # SharedFrame(mem)
  <2>1. MappedAt(mem, e, p) = NULL /\ TableOf(mem, e, p) # NULL
    BY MappedHere DEF ReplacePage
  <2>2. QED
    BY <1>1, <2>1 DEF Accounted, User, Stored
<1>5. /\ MappedAt(mem, e, victim) # NULL
      /\ shares # NULL => MappedAt(mem, e, victim) # SharedFrame(mem)
  BY <1>1 DEF Accounted, Resident
\* The frame of the victim is free then: nobody else has it.
<1>6. References(mem, MappedAt(mem, e, victim)) = 1
  <2> DEFINE x == MappedAt(mem, e, victim)
  <2>1. Private(mem) /\ Apart(mem, shares # NULL)
    BY <1>1 DEF Accounted, User
  <2>2. HeapPagesOf(mem, x) = {}
    BY <1>3, <1>5, <2>1 DEF HeapPagesOf, Private
  <2>3. \A c \in Envs, q \in UserPages : MappedAt(mem, c, q) = x => c = e /\ q = victim
    BY <1>3, <1>5, <2>1 DEF Apart
  <2>4. MappingsOf(mem, x) = {<<e, victim>>}
    <3>1. \A k \in Envs \X UserPages :
            k[1] \in Envs /\ k[2] \in UserPages /\ k = <<k[1], k[2]>>
      OBVIOUS
    <3>2. <<e, victim>> \in Envs \X UserPages
      BY <1>3
    <3>3. QED
      BY <2>3, <3>1, <3>2 DEF MappingsOf
  <2>5. Cardinality(HeapPagesOf(mem, x)) = 0 /\ Cardinality(MappingsOf(mem, x)) = 1
    BY <2>2, <2>4, FS_EmptySet, FS_Singleton
  <2> HIDE DEF x
  <2>6. References(mem, x) = 1
    BY <2>5 DEF References
  <2>7. QED
    BY <2>6 DEF x
<1>7. /\ Unmapped(mem, u, lost, e, {victim}) /\ u.free_frame_list # {}
      /\ MappedAt(u, e, p) = MappedAt(mem, e, p) /\ TableOf(u, e, p) # NULL
      /\ MappedAt(mem, e, victim) \in u.free_frame_list
  <2>1. /\ Good(u, lost) /\ mem.free_frame_list \subseteq u.free_frame_list
        /\ MappedAt(mem, e, victim) \in u.free_frame_list
        /\ u.heap = mem.heap /\ u.page_directory = mem.page_directory
        /\ u.own = mem.own /\ u.panic = mem.panic
        /\ \A c \in Spaces, q \in UserPages :
             MappedAt(u, c, q) = IF c = e /\ q = victim THEN NULL ELSE MappedAt(mem, c, q)
    BY <1>1, <1>3, <1>5, <1>6, Unmap
  <2> HIDE DEF u
  <2>2. Unmapped(mem, u, lost, e, {victim})
    BY <2>1 DEF Unmapped
  <2>3. MappedAt(u, e, p) = MappedAt(mem, e, p) /\ TableOf(u, e, p) # NULL
    BY <1>3, <1>4, <2>1 DEF TableOf
  <2>4. QED
    BY <2>1, <2>2, <2>3
<1>8. /\ \A c \in Envs : w1[c] \subseteq ws[c] /\ w1[c] \subseteq Pages
      /\ w1[e] \cap {victim} = {}
      /\ w2 \in [Envs -> SUBSET Pages] /\ \A c \in Envs : w2[c] \subseteq Pages
      /\ \A c \in Envs : \A q \in w2[c] : q \in w1[c] \/ (c = e /\ q = p)
  BY <1>2
<1> HIDE DEF w1, w2, u
<1>9. Accounted(u, lost, w1, shares)
  <2>1. {victim} \in SUBSET UserPages
        /\ (shares # NULL => \A q \in {victim} : MappedAt(mem, e, q) # SharedFrame(mem))
    BY <1>3, <1>5
  <2>2. QED
    BY <1>1, <1>7, <1>8, <2>1, AccountedUnmapped
<1>10. NewMapped(u, r, lost, w1, w2, shares, e, p)
  <2>1. u \in Mem /\ PageFrame(u) \in u.free_frame_list /\ ~u.panic
    BY <1>1, <1>7, FreePageFrame DEF Unmapped, Good
  <2>2. shares # NULL => MappedAt(u, e, p) # SharedFrame(u)
    <3>1. MappedAt(u, e, p) = NULL
      BY <1>4, <1>7
    <3>2. QED
      BY <1>9, <3>1 DEF Accounted, User, Stored
  <2>3. QED
    BY <1>7, <1>8, <1>9, <2>1, <2>2, MapNewPage
<1>11. /\ mem' = r /\ ws' = w2 /\ shares' = shares /\ lost' = lost /\ Releases
       /\ status' = IF b THEN status ELSE [status EXCEPT ![e] = "stopped"]
  BY DEF ReplacePage, Faulted, w2, u
<1> HIDE DEF r
<1>12. r \in Mem /\ ~r.panic /\ Accounted(r, lost, w2, shares)
  BY <1>7, <1>10 DEF NewMapped
<1>13. StatusOK(status') /\ r.panic = FALSE
  BY <1>2, <1>11, <1>12, MemFields DEF StatusOK
<1>14. QED
  BY <1>2, <1>8, <1>11, <1>12, <1>13, ToSpaceInv

LEMMA NotShared ==
  ASSUME SpaceInv, NEW e \in Envs, NEW p \in Pages, p \notin MappedShared(e)
  PROVE  shares # NULL => MappedAt(mem, e, p) # SharedFrame(mem)
<1>1. shares # NULL => SharedFrame(mem) # NULL
  BY InSpaceInv DEF Accounted, User, Stored
<1>2. QED
  BY <1>1, MappedHere

\* A step that ends with Leave and changes neither the working sets nor the object.
LEMMA LeaveKeeps ==
  ASSUME SpaceInv, NEW r \in Mem, NEW e \in Envs, NEW taken \in SUBSET Frames,
         Leave(r, e, taken), shares' \in Nat \cup {NULL}, ws' = ws, Keeps \/ Releases,
         r.panic => Accounted(r, lost \cup taken, ws, shares'),
         ~r.panic => Accounted(r, lost, ws, shares')
  PROVE  SpaceInv'
<1>1. \A c \in Envs : ws[c] \subseteq Pages
  BY InSpaceInv
<1>2. ws \in [Envs -> SUBSET Pages] /\ lost \subseteq Frames /\ StatusOK(status)
  BY TypesOfSpace DEF SpaceInv
<1>3. /\ mem' = [r EXCEPT !.panic = FALSE]
      /\ status' = IF r.panic THEN [status EXCEPT ![e] = "stopped"] ELSE status
      /\ lost' = lost \cup IF r.panic THEN taken ELSE {}
  BY DEF Leave
<1>4. lost' \subseteq Frames /\ StatusOK(status')
  BY <1>2, <1>3 DEF StatusOK
<1>5. Accounted(r, lost', ws, shares')
  <2>1. CASE r.panic
    BY <1>3, <2>1
  <2>2. CASE ~r.panic
    <3>1. lost' = lost
      BY <1>3, <2>2
    <3>2. QED
      BY <2>2, <3>1
  <2>3. QED
    BY <2>1, <2>2
<1>6. Accounted(mem', lost', ws, shares') /\ mem' \in Mem /\ mem'.panic = FALSE
  BY <1>1, <1>3, <1>5, AccountedPanic
<1>7. Accounted(mem', lost', ws', shares') /\ ws' \in [Envs -> SUBSET Pages]
      /\ \A c \in Envs : ws'[c] \subseteq Pages
  BY <1>1, <1>2, <1>6
<1>8. QED
  BY <1>4, <1>6, <1>7, ToSpaceInv

LEMMA AllocatePageKeeps ==
  ASSUME SpaceInv, NEW e \in Envs, NEW p \in Pages, NEW valid \in BOOLEAN,
         __sys_allocate_page(e, p, valid)
  PROVE  SpaceInv'
<1> DEFINE r == MapNew(mem, e, p)
           f == PageFrame(mem)
<1>1. /\ Accounted(mem, lost, ws, shares) /\ ~mem.panic /\ Good(mem, lost) /\ mem \in Mem
      /\ \A c \in Envs : ws[c] \subseteq Pages
  BY InSpaceInv
<1>2. ws \in [Envs -> SUBSET Pages] /\ lost \subseteq Frames /\ StatusOK(status)
      /\ shares \in Nat \cup {NULL}
  BY TypesOfSpace DEF SpaceInv
<1>3. f \in mem.free_frame_list /\ mem.free_frame_list \ {f} # {} /\ f \in Frames
  BY <1>1, TwoFree, MemFields DEF __sys_allocate_page
<1>4. ws' = ws /\ shares' = shares /\ (Keeps \/ Releases) /\ p \notin MappedShared(e)
  BY DEF __sys_allocate_page
<1>5. CASE valid
  <2>1. Leave(r, e, {f})
    BY <1>5 DEF __sys_allocate_page
  <2>2. shares # NULL => MappedAt(mem, e, p) # SharedFrame(mem)
    BY <1>4, NotShared
  <2>3. \A c \in Envs : \A q \in ws[c] : q \in ws[c] \/ (c = e /\ q = p)
    OBVIOUS
  <2>4. NewMapped(mem, r, lost, ws, ws, shares, e, p)
    BY <1>1, <1>3, <2>2, <2>3, MapNewPage
  <2> HIDE DEF r
  <2>5. /\ r \in Mem /\ {f} \in SUBSET Frames
        /\ r.panic => Accounted(r, lost \cup {f}, ws, shares')
        /\ ~r.panic => Accounted(r, lost, ws, shares')
    BY <1>3, <1>4, <2>4 DEF NewMapped
  <2> HIDE DEF f
  <2>6. QED
    BY <1>2, <1>4, <2>1, <2>5, LeaveKeeps
<1>6. CASE ~valid
  <2>1. mem' = allocate_frame(mem, f) /\ lost' = lost \cup {f} /\ status' = status
    BY <1>6 DEF __sys_allocate_page
  <2> DEFINE a == allocate_frame(mem, f)
  <2>a. /\ Good(a, lost \cup {f}) /\ a.heap = mem.heap /\ a.page_directory = mem.page_directory
        /\ a.own = mem.own /\ a.panic = mem.panic
        /\ \A d \in Spaces, q \in UserPages : MappedAt(a, d, q) = MappedAt(mem, d, q)
    <3> HIDE DEF f
    <3>1. IsAllocated(mem, a, lost, f)
      BY <1>1, <1>3, Allocate
    <3>2. QED
      BY <3>1 DEF IsAllocated
  <2>2. /\ Good(mem', lost') /\ mem'.heap = mem.heap /\ mem'.page_directory = mem.page_directory
        /\ mem'.own = mem.own /\ mem'.panic = mem.panic
        /\ \A d \in Spaces, q \in UserPages : MappedAt(mem', d, q) = MappedAt(mem, d, q)
    <3>1. mem' = a
      BY <2>1
    <3> HIDE DEF a
    <3>2. QED
      BY <2>1, <2>a, <3>1
  <2>3. Moves(mem, mem', {}) /\ SharedFrame(mem') = SharedFrame(mem)
    BY <2>2, PagesKnown, NotNumbers DEF Moves, SharedFrame
  <2>4. \A d \in Envs, q \in UserPages : MappedAt(mem', d, q) = MappedAt(mem, d, q)
    BY <2>2, NotNumbers
  <2>5. Accounted(mem', lost', ws, shares)
    BY <1>1, <2>2, <2>3, <2>4, AccountedSame
  <2>6. mem' \in Mem /\ mem'.panic = FALSE /\ lost' \subseteq Frames
    BY <1>1, <1>2, <1>3, <2>1, <2>2, MemFields DEF Good
  <2>7. Accounted(mem', lost', ws', shares') /\ ws' \in [Envs -> SUBSET Pages]
        /\ (\A c \in Envs : ws'[c] \subseteq Pages) /\ StatusOK(status')
        /\ shares' \in Nat \cup {NULL}
    BY <1>1, <1>2, <1>4, <2>1, <2>5
  <2>8. QED
    BY <1>4, <2>6, <2>7, ToSpaceInv
<1>7. QED
  BY <1>5, <1>6

LEMMA AllocUserPageKeeps ==
  ASSUME SpaceInv, NEW e \in Envs, NEW p \in Pages, command_allocuserpage(e, p)
  PROVE  SpaceInv'
<1> DEFINE r == MapNew(mem, e, p)
           f == PageFrame(mem)
<1>1. /\ Accounted(mem, lost, ws, shares) /\ ~mem.panic /\ mem \in Mem
      /\ \A c \in Envs : ws[c] \subseteq Pages
  BY InSpaceInv
<1>2. ws \in [Envs -> SUBSET Pages] /\ lost \subseteq Frames /\ StatusOK(status)
      /\ shares \in Nat \cup {NULL}
  BY TypesOfSpace DEF SpaceInv
<1>3. f \in mem.free_frame_list /\ mem.free_frame_list \ {f} # {} /\ f \in Frames
  BY <1>1, TwoFree, MemFields DEF command_allocuserpage
<1>4. /\ ws' = ws /\ shares' = shares /\ status' = status /\ (Keeps \/ Releases)
      /\ p \notin MappedShared(e)
      /\ mem' = [r EXCEPT !.panic = FALSE]
      /\ lost' = lost \cup IF r.panic THEN {f} ELSE {}
  BY DEF command_allocuserpage
<1>5. shares # NULL => MappedAt(mem, e, p) # SharedFrame(mem)
  BY <1>4, NotShared
<1>6. \A c \in Envs : \A q \in ws[c] : q \in ws[c] \/ (c = e /\ q = p)
  OBVIOUS
<1>7. NewMapped(mem, r, lost, ws, ws, shares, e, p)
  BY <1>1, <1>3, <1>5, <1>6, MapNewPage
<1> HIDE DEF r
<1>8. Accounted(r, lost', ws, shares)
  <2>1. CASE r.panic
    BY <1>4, <1>7, <2>1 DEF NewMapped
  <2>2. CASE ~r.panic
    <3>1. lost' = lost
      BY <1>4, <2>2
    <3>2. QED
      BY <1>7, <2>2, <3>1 DEF NewMapped
  <2>3. QED
    BY <2>1, <2>2
<1> HIDE DEF f
<1>9. Accounted(mem', lost', ws, shares) /\ mem' \in Mem /\ mem'.panic = FALSE
  BY <1>1, <1>4, <1>8, AccountedPanic
<1>10. Accounted(mem', lost', ws', shares') /\ ws' \in [Envs -> SUBSET Pages]
       /\ (\A c \in Envs : ws'[c] \subseteq Pages) /\ StatusOK(status')
       /\ shares' \in Nat \cup {NULL} /\ lost' \subseteq Frames
  BY <1>1, <1>2, <1>3, <1>4, <1>9
<1>11. QED
  BY <1>4, <1>9, <1>10, ToSpaceInv

LEMMA StartKeeps ==
  ASSUME SpaceInv, NEW e \in Envs, Start(e)
  PROVE  SpaceInv'
<1>1. /\ Accounted(mem, lost, ws, shares) /\ mem \in Mem
      /\ \A c \in Envs : ws[c] \subseteq Pages
  BY InSpaceInv
<1>2. ws \in [Envs -> SUBSET Pages] /\ lost \subseteq Frames /\ StatusOK(status)
      /\ shares \in Nat \cup {NULL} /\ mem.panic = FALSE
  BY TypesOfSpace DEF SpaceInv
<1>3. mem' = mem /\ ws' = ws /\ shares' = shares /\ lost' = lost /\ Keeps
      /\ status' = [status EXCEPT ![e] = "running"]
  BY DEF Start
<1>4. StatusOK(status')
  BY <1>2, <1>3 DEF StatusOK
<1>5. QED
  BY <1>1, <1>2, <1>3, <1>4, ToSpaceInv

LEMMA TableFaultKeeps ==
  ASSUME SpaceInv, NEW e \in Envs, NEW p \in Pages, table_fault_handler(e, p)
  PROVE  SpaceInv'
<1> DEFINE r == create_page_table(mem, e, p)
<1>1. /\ Accounted(mem, lost, ws, shares) /\ mem \in Mem /\ ~mem.panic /\ Good(mem, lost)
      /\ \A c \in Envs : ws[c] \subseteq Pages
  BY InSpaceInv
<1>2. shares \in Nat \cup {NULL} /\ p \in UserPages /\ e \in Spaces
  BY TypesOfSpace, PagesKnown, NotNumbers DEF SpaceInv
<1>3. TableOf(mem, e, p) = NULL /\ mem.free_frame_list # {}
  BY MappedHere, OneFree DEF table_fault_handler
<1>4. Leave(r, e, {}) /\ ws' = ws /\ shares' = shares /\ Keeps
  BY DEF table_fault_handler
<1>5. CASE FreeHeapPages(mem) = {}
  <2>1. r = [mem EXCEPT !.panic = TRUE]
    BY <1>5 DEF create_page_table
  <2> HIDE DEF r
  <2>2. Accounted(r, lost, ws, shares) /\ r \in Mem /\ r.panic = TRUE
    BY <1>1, <2>1, AccountedPanic
  <2>3. lost \cup {} = lost
    OBVIOUS
  <2>4. QED
    BY <1>2, <1>4, <2>2, <2>3, LeaveKeeps
<1>6. CASE FreeHeapPages(mem) # {}
  <2> DEFINE f == HeapFrame(mem)
             h == NextHeapPage(mem)
  <2>1. /\ Good(r, lost) /\ f \in mem.free_frame_list /\ f \in Frames
        /\ h \in HeapPages /\ mem.heap[h] = NULL
        /\ r.heap = [mem.heap EXCEPT ![h] = f]
        /\ r.page_directory = [mem.page_directory EXCEPT ![e][PDX(p)] = f]
        /\ r.own = mem.own /\ r.panic = mem.panic
        /\ \A c \in Spaces, q \in UserPages : MappedAt(r, c, q) = MappedAt(mem, c, q)
    BY <1>1, <1>2, <1>3, <1>6, CreateTable
  <2> HIDE DEF r, f, h
  <2>2. Moves(mem, r, {f})
    <3>1. /\ \A g \in HeapPages : r.heap[g] = IF g = h THEN f ELSE mem.heap[g]
          /\ \A d \in Spaces, t \in Tables :
               r.page_directory[d][t] = mem.page_directory[d][t] \/ r.page_directory[d][t] = f
      BY <1>1, <2>1, MemFields
    <3>2. QED
      BY <2>1, <3>1 DEF Moves
  <2>3. \A g \in {f} : Fresh(mem, shares # NULL, g)
    BY <1>1, <2>1, FreeIsFresh
  <2>4. SharedFrame(r) = SharedFrame(mem)
    BY <2>1, PagesKnown, NotNumbers DEF SharedFrame
  <2>5. \A d \in Envs, q \in UserPages : MappedAt(r, d, q) = MappedAt(mem, d, q)
    BY <2>1, NotNumbers
  <2>6. Accounted(r, lost, ws, shares)
    BY <1>1, <2>1, <2>2, <2>3, <2>4, <2>5, AccountedSame
  <2>7. r \in Mem /\ ~r.panic
    BY <1>1, <2>1 DEF Good
  <2>8. QED
    BY <1>2, <1>4, <2>6, <2>7, LeaveKeeps
<1>7. QED
  BY <1>5, <1>6

LEMMA FreeMemKeeps ==
  ASSUME SpaceInv, NEW e \in Envs, NEW range \in Ranges, freeMem(e, range)
  PROVE  SpaceInv'
<1> DEFINE T == ws[e] \cap range
           u == UnmapAll(mem, e, T)
           r == RemoveTables(u, e, range)
           w2 == [ws EXCEPT ![e] = @ \ range]
<1>1. /\ Accounted(mem, lost, ws, shares) /\ mem \in Mem /\ ~mem.panic /\ Good(mem, lost)
      /\ \A c \in Envs : ws[c] \subseteq Pages
  BY InSpaceInv
<1>2. ws \in [Envs -> SUBSET Pages] /\ lost \subseteq Frames /\ StatusOK(status)
      /\ shares \in Nat \cup {NULL}
  BY TypesOfSpace DEF SpaceInv
<1>3. range \in SUBSET Pages /\ T \in SUBSET UserPages /\ IsFiniteSet(T)
  <2>1. range \in SUBSET Pages /\ T \in SUBSET Pages
    BY DEF Ranges
  <2>2. IsFiniteSet(T)
    BY <2>1, SpaceAssumption, FS_Subset
  <2>3. QED
    BY <2>1, <2>2, PagesKnown
<1>4. shares # NULL => \A q \in T : MappedAt(mem, e, q) # SharedFrame(mem)
  BY <1>1 DEF Accounted, Resident
<1>5. /\ \A c \in Envs : w2[c] \subseteq ws[c] /\ w2[c] \subseteq Pages
      /\ w2[e] \cap T = {} /\ w2 \in [Envs -> SUBSET Pages]
  BY <1>2
<1>6. /\ mem' = r /\ ws' = w2 /\ status' = status /\ shares' = shares /\ lost' = lost
      /\ Releases
  BY DEF freeMem
<1> HIDE DEF T, w2
<1>7. Unmapped(mem, u, lost, e, T)
  BY <1>1, <1>3, UnmapPages
<1> HIDE DEF u
<1>8. Accounted(u, lost, w2, shares)
  BY <1>1, <1>3, <1>4, <1>5, <1>7, AccountedUnmapped
<1>9. Tidied(u, r, lost, Spaces)
  BY <1>3, <1>7, RemoveTablesTidies DEF Unmapped
<1> HIDE DEF r
<1>10. Accounted(r, lost, w2, shares)
  BY <1>5, <1>8, <1>9, AccountedTidied
<1>11. r \in Mem /\ r.panic = FALSE
  BY <1>1, <1>7, <1>9, MemFields DEF Unmapped, Tidied, Good
<1>12. QED
  BY <1>2, <1>5, <1>6, <1>10, <1>11, ToSpaceInv

LEMMA EnvFreeKeeps ==
  ASSUME SpaceInv, NEW e \in Envs, env_free(e)
  PROVE  SpaceInv'
<1> DEFINE u == unmap_frame(mem, e, WSPage)
           r == WithoutTable(u, e, PDX(WSPage))
<1>1. /\ Accounted(mem, lost, ws, shares) /\ mem \in Mem /\ ~mem.panic /\ Good(mem, lost)
      /\ TablesOK(mem) /\ \A c \in Envs : ws[c] \subseteq Pages
  BY InSpaceInv
<1>2. ws \in [Envs -> SUBSET Pages] /\ lost \subseteq Frames /\ StatusOK(status)
      /\ shares \in Nat \cup {NULL}
  BY TypesOfSpace DEF SpaceInv
<1>3. WSPage \in UserPages /\ WSPage \notin Pages /\ e \in Spaces /\ PDX(WSPage) \in Tables
  BY PagesKnown, NotNumbers, PageTypes
<1>4. /\ Good(u, lost) /\ mem.free_frame_list \subseteq u.free_frame_list
      /\ u.heap = mem.heap /\ u.page_directory = mem.page_directory
      /\ u.own = mem.own /\ u.panic = mem.panic
      /\ \A c \in Spaces, q \in UserPages :
           MappedAt(u, c, q) = IF c = e /\ q = WSPage THEN NULL ELSE MappedAt(mem, c, q)
  BY <1>1, <1>3, UnmapAny
<1>5. /\ mem' = [kfree(u, get_page_table(u, e, WSPage))
                   EXCEPT !.page_directory[e][PDX(WSPage)] = NULL]
      /\ status' = [status EXCEPT ![e] = "stopped"] /\ get_page_table(mem, e, WSPage) # NULL
      /\ ws' = ws /\ shares' = shares /\ lost' = lost /\ Releases
  BY DEF env_free
<1> HIDE DEF u
<1>6. Unmapped(mem, u, lost, e, {WSPage})
  BY <1>4 DEF Unmapped
<1>7. TableOf(u, e, WSPage) # NULL /\ u.page_directory[e][PDX(WSPage)] # NULL
  <2>1. TableOf(mem, e, WSPage) # NULL
    BY <1>1, <1>3, <1>5, Lookup
  <2>2. QED
    BY <1>4, <2>1 DEF TableOf
<1>8. mem' = r
  <2>1. u \in Mem /\ TablesOK(u)
    BY <1>4 DEF Good
  <2>2. get_page_table(u, e, WSPage) = u.frames_info[u.page_directory[e][PDX(WSPage)]].va
    BY <1>3, <1>7, <2>1, Lookup DEF TableOf
  <2>3. QED
    BY <1>5, <2>2, Zenon DEF WithoutTable
<1>9. Accounted(u, lost, ws, shares)
  <2>1. shares # NULL => \A q \in {WSPage} : MappedAt(mem, e, q) # SharedFrame(mem)
    BY <1>1 DEF Accounted, User, Stored
  <2>2. ws[e] \cap {WSPage} = {} /\ {WSPage} \in SUBSET UserPages
    BY <1>1, <1>3
  <2>3. \A c \in Envs : ws[c] \subseteq ws[c]
    OBVIOUS
  <2>4. QED
    BY <1>1, <1>6, <2>1, <2>2, <2>3, AccountedUnmapped
<1>10. Tidied(u, r, lost, Spaces)
  <2>1. \A q \in UserPages : PDX(q) = PDX(WSPage) => MappedAt(u, e, q) = NULL
    BY <1>3, <1>4, PagesKnown
  <2>2. QED
    BY <1>3, <1>4, <1>7, <2>1, RemovedTidies
<1> HIDE DEF r
<1>11. Accounted(r, lost, ws, shares)
  BY <1>1, <1>9, <1>10, AccountedTidied
<1>12. r \in Mem /\ r.panic = FALSE
  BY <1>1, <1>4, <1>10, MemFields DEF Tidied, Good
<1>13. StatusOK(status')
  BY <1>2, <1>5 DEF StatusOK
<1>14. QED
  BY <1>1, <1>2, <1>5, <1>8, <1>11, <1>12, <1>13, ToSpaceInv

\* The frame of the object is a page of the heap or a table of nobody.
LEMMA SharedIsNoTable ==
  ASSUME NEW s, NEW out, NEW w, NEW n, Accounted(s, out, w, n), n # NULL
  PROVE  ~IsTable(s, SharedFrame(s))
<1>1. Good(s, out) /\ Stored(s)
  BY DEF Accounted, User
<1> SUFFICES ASSUME NEW d \in Spaces, NEW t \in Tables,
                    s.page_directory[d][t] = SharedFrame(s)
             PROVE  FALSE
  BY DEF IsTable
<1>2. SharedFrame(s) # NULL
  BY <1>1 DEF Stored
<1>3. s.frames_info[SharedFrame(s)].va \in HeapPages
      /\ s.heap[s.frames_info[SharedFrame(s)].va] = SharedFrame(s)
  BY <1>1, <1>2, TableFrames
<1>4. QED
  BY <1>1, <1>3 DEF Stored

\* One more page is mapped to the frame of the shared object.
LEMMA UserShares ==
  ASSUME NEW s, NEW r, NEW b \in BOOLEAN, User(s, b), NEW new, Moves(s, r, new),
         \A f \in new : Fresh(s, b, f), NEW e \in Envs, NEW p \in Pages,
         NewEntry(s, b, p, SharedFrame(s), new),
         \A c \in Spaces, q \in UserPages :
           MappedAt(r, c, q) = IF c = e /\ q = p THEN SharedFrame(s) ELSE MappedAt(s, c, q)
  PROVE  User(r, b)
<1> SUFFICES ASSUME NEW x, x = SharedFrame(s)
             PROVE  User(r, b)
  OBVIOUS
<1>1. p \in UserPages /\ NewEntry(s, b, p, x, new)
  BY PagesKnown
<1>2. b => SharedFrame(r) = SharedFrame(s)
  BY PagesKnown, NotNumbers DEF SharedFrame
<1>3. \A c \in Envs, q \in UserPages :
        \/ MappedAt(r, c, q) = MappedAt(s, c, q)
        \/ MappedAt(r, c, q) = NULL
        \/ c = e /\ q = p /\ MappedAt(r, c, q) = x
  BY NotNumbers
<1>4. QED
  BY <1>1, <1>2, <1>3, UserMoves

LEMMA GetSharedKeeps ==
  ASSUME SpaceInv, NEW e \in Envs, NEW p \in Pages, getSharedObject(e, p)
  PROVE  SpaceInv'
<1> DEFINE F == SharedFrame(mem)
           r == map_frame(mem, e, F, p)
<1>1. /\ Accounted(mem, lost, ws, shares) /\ mem \in Mem /\ ~mem.panic /\ Good(mem, lost)
      /\ \A c \in Envs : ws[c] \subseteq Pages
  BY InSpaceInv
<1>2. shares \in Nat \cup {NULL} /\ p \in UserPages /\ e \in Spaces
  BY TypesOfSpace, PagesKnown, NotNumbers DEF SpaceInv
<1>3. shares # NULL /\ MappedAt(mem, e, p) = NULL /\ mem.free_frame_list # {}
  BY MappedHere, OneFree DEF getSharedObject
<1>4. shares \in Nat /\ shares + 1 \in Nat
  BY <1>2, <1>3
<1>5. Leave(r, e, {}) /\ shares' = (IF r.panic THEN shares ELSE shares + 1) /\ ws' = ws /\ Keeps
  BY SharedFrameFound DEF getSharedObject
<1>6. F \in Frames /\ F \notin mem.free_frame_list /\ F \notin lost /\ ~IsTable(mem, F)
  BY <1>1, <1>3, SharedFrameUsed, SharedIsNoTable
<1>7. F # NULL /\ User(mem, shares # NULL)
      /\ Resident(mem, ws, shares # NULL)
      /\ shares = Cardinality(MappingsOf(mem, F))
  BY <1>1, <1>3 DEF Accounted, SharesCounted, User, Stored
<1>8. F = SharedFrame(mem)
  OBVIOUS
<1> HIDE DEF F
<1>9. CASE HeapFull(mem, e, p)
  <2>1. WithTable(mem, e, p) = [mem EXCEPT !.panic = TRUE]
    BY <1>1, <1>2, <1>9, TableForPage DEF HeapFull
  <2>2. [mem EXCEPT !.panic = TRUE].panic = TRUE
    BY <1>1 DEF Mem
  <2>3. r = [mem EXCEPT !.panic = TRUE]
    BY <2>1, <2>2 DEF map_frame
  <2> HIDE DEF r
  <2>4. Accounted(r, lost, ws, shares) /\ r \in Mem /\ r.panic = TRUE
    BY <1>1, <2>3, AccountedPanic
  <2>5. shares' = shares /\ lost \cup {} = lost
    BY <1>5, <2>4
  <2>6. QED
    BY <1>2, <1>5, <2>4, <2>5, LeaveKeeps
<1>10. CASE ~HeapFull(mem, e, p)
  <2>1. Room(mem, e, p)
    BY <1>3, <1>10 DEF Room, HeapFull
  <2>2. MapsAt(mem, r, lost \ {F}, e, p, F)
    BY <1>1, <1>2, <1>3, <1>6, <1>7, <2>1, MapFrame
  <2> HIDE DEF r
  <2>3. lost \ {F} = lost
    BY <1>6
  <2>4. /\ Good(r, lost) /\ Grows(mem, r) /\ ~r.panic
        /\ \A c \in Spaces, q \in UserPages :
             MappedAt(r, c, q) = IF c = e /\ q = p THEN F ELSE MappedAt(mem, c, q)
    BY <2>2, <2>3 DEF MapsAt
  <2>5. Moves(mem, r, mem.free_frame_list)
    BY <2>4 DEF Moves, Grows
  <2>6. \A f \in mem.free_frame_list : Fresh(mem, shares # NULL, f)
    BY <1>1, FreeIsFresh
  <2>7. SharedFrame(r) = F
    BY <1>8, <2>4, PagesKnown, NotNumbers DEF SharedFrame
  <2>8. \A c \in Envs, q \in UserPages :
          MappedAt(r, c, q) = IF c = e /\ q = p THEN F ELSE MappedAt(mem, c, q)
    BY <2>4, NotNumbers
  <2>9. User(r, shares # NULL)
    <3> DEFINE b == shares # NULL
    <3>1. /\ b \in BOOLEAN /\ User(mem, b)
          /\ \A f \in mem.free_frame_list : Fresh(mem, b, f)
          /\ NewEntry(mem, b, p, SharedFrame(mem), mem.free_frame_list)
      BY <1>3, <1>7, <2>6 DEF NewEntry
    <3>2. \A c \in Spaces, q \in UserPages :
            MappedAt(r, c, q) = IF c = e /\ q = p THEN SharedFrame(mem) ELSE MappedAt(mem, c, q)
      BY <1>8, <2>4
    <3> HIDE DEF b
    <3>3. User(r, b)
      BY <2>5, <3>1, <3>2, UserShares
    <3>4. QED
      BY <3>3 DEF b
  <2>10. Resident(r, ws, shares # NULL)
    <3> SUFFICES ASSUME NEW c \in Envs, NEW q \in ws[c]
                 PROVE  MappedAt(r, c, q) # NULL /\ MappedAt(r, c, q) # F
      BY <2>7 DEF Resident
    <3>1. q \in UserPages /\ MappedAt(mem, c, q) # NULL /\ MappedAt(mem, c, q) # F
      BY <1>1, <1>3, <1>7, <1>8, PagesKnown DEF Resident
    <3>2. MappedAt(r, c, q) = MappedAt(mem, c, q)
      BY <1>3, <2>8, <3>1
    <3>3. QED
      BY <3>1, <3>2
  <2>11. Cardinality(MappingsOf(r, F)) = shares + 1
    <3>1. F # MappedAt(mem, e, p)
      BY <1>3, <1>7
    <3>2. QED
      BY <1>2, <1>7, <2>8, <3>1, MappingChanges
  <2>12. Accounted(r, lost, ws, shares + 1)
    <3>1. shares + 1 # NULL /\ shares + 1 # 0
      BY <1>4, SpaceAssumption
    <3>2. (shares + 1 # NULL) = (shares # NULL)
      BY <1>3, <3>1
    <3>3. User(r, shares + 1 # NULL) /\ Resident(r, ws, shares + 1 # NULL)
      BY <2>9, <2>10, <3>2
    <3>4. SharesCounted(r, shares + 1)
      BY <2>7, <2>11, <3>1 DEF SharesCounted
    <3>5. QED
      BY <2>4, <3>3, <3>4 DEF Accounted
  <2>13. r \in Mem /\ shares' = shares + 1
    BY <1>5, <2>4 DEF Good
  <2>14. QED
    BY <1>4, <1>5, <2>4, <2>12, <2>13, LeaveKeeps
<1>11. QED
  BY <1>9, <1>10

-----------------------------------------------------------------------------
(***************************************************************************)
(* The storage of a shared object is made, filled and freed.               *)
(***************************************************************************)
\* Programs see what they saw.
ObjectFreed(s, r, out) ==
  /\ Good(r, out) /\ r.panic = s.panic
  /\ \A h \in HeapPages : r.heap[h] = s.heap[h] \/ r.heap[h] = NULL
  /\ \A d \in Envs, q \in UserPages : MappedAt(r, d, q) = MappedAt(s, d, q)

LEMMA FreeObject ==
  ASSUME NEW s, NEW out, Good(s, out), StoragePage(s)
  PROVE  ObjectFreed(s, free_share_object(s), out)
<1> DEFINE c == clear_frames_storage(s)
           page == CHOOSE h \in c.own[Storage] : TRUE
           k == kfree(c, page)
           r == [k EXCEPT !.own[Storage] = {}]
<1>1. r = free_share_object(s)
  BY Zenon DEF free_share_object
<1>2. Cleared(s, c, out, Tables)
  BY ClearStorage
<1> HIDE DEF c
<1>3. /\ Good(c, out) /\ c \in Mem /\ c.own = s.own /\ c.panic = s.panic /\ Moves(s, c, {})
      /\ \A d \in Envs, q \in UserPages : MappedAt(c, d, q) = MappedAt(s, d, q)
  BY <1>2 DEF Cleared, Tidied, Good
<1>4. PICK h \in HeapPages :
        s.own[Storage] = {h} /\ s.heap[h] # NULL /\ ~IsTable(s, s.heap[h])
  BY DEF StoragePage
<1> DEFINE f == s.heap[h]
<1>5. page = h
  BY <1>3, <1>4
<1>6. f \in Frames /\ f # NULL /\ c.heap[h] = f /\ ~IsTable(c, f)
  <2>1. f \in Frames /\ f # NULL
    <3>1. s.heap \in [HeapPages -> Frames \cup {NULL}]
      BY MemFields DEF Good
    <3>2. QED
      BY <1>4, <3>1
  <2>2. c.heap[h] = f
    BY <1>3, <1>4 DEF Moves
  <2>3. ~IsTable(c, f)
    BY <1>3, <1>4, <2>1 DEF Moves, IsTable
  <2>4. QED
    BY <2>1, <2>2, <2>3
<1> HIDE DEF f, page
<1> DEFINE n == References(c, f)
<1>7. /\ k \in Mem /\ n \in Nat /\ n # 0
      /\ k.free_frame_list = IF n = 1 THEN c.free_frame_list \cup {f} ELSE c.free_frame_list
      /\ \A g \in HeapPages : k.heap[g] = IF g = h THEN NULL ELSE c.heap[g]
      /\ k.page_directory = c.page_directory
      /\ k.own = c.own /\ k.panic = c.panic
      /\ k.frames_info[f].references = n - 1
      /\ \A g \in Frames : g # f =>
           k.frames_info[g] = c.frames_info[g] /\ k.contents[g] = c.contents[g]
  <2> DEFINE u == kfree(c, h)
             v == References(c, f)
  <2>1. k = u /\ n = v
    BY <1>5
  <2>2. /\ u \in Mem /\ v \in Nat /\ v # 0
        /\ u.free_frame_list = IF v = 1 THEN c.free_frame_list \cup {f} ELSE c.free_frame_list
        /\ \A g \in HeapPages : u.heap[g] = IF g = h THEN NULL ELSE c.heap[g]
        /\ u.page_directory = c.page_directory
        /\ u.own = c.own /\ u.panic = c.panic
        /\ u.frames_info[f].references = v - 1
        /\ \A g \in Frames : g # f =>
             u.frames_info[g] = c.frames_info[g] /\ u.contents[g] = c.contents[g]
    BY <1>3, <1>6, KfreeFields
  <2> HIDE DEF u, v, k, n
  <2>3. QED
    BY <2>1, <2>2
<1> HIDE DEF n, k
<1>8. \A d \in Spaces, t \in Tables : c.page_directory[d][t] # f
  BY <1>6 DEF IsTable
<1>9. Freed(c, k, h, f)
  BY <1>7, <1>8 DEF Freed, n
<1>10. \A d \in Spaces, q \in UserPages : TableOf(c, d, q) # f
  BY <1>8, PageTypes DEF TableOf
<1>11. MapsNothing(c, f)
  BY <1>10, NotNumbers DEF MapsNothing
<1>12. /\ Good(k, out)
       /\ \A d \in Spaces, q \in UserPages :
            MappedAt(k, d, q) = IF TableOf(c, d, q) = f THEN NULL ELSE MappedAt(c, d, q)
  BY <1>3, <1>6, <1>7, <1>9, <1>11, FreePage
<1>13. /\ r \in Mem /\ r.free_frame_list = k.free_frame_list /\ r.frames_info = k.frames_info
       /\ r.contents = k.contents /\ r.heap = k.heap /\ r.page_directory = k.page_directory
       /\ r.panic = k.panic
  BY <1>7, NotNumbers DEF Mem
<1> HIDE DEF r
<1>14. Good(r, out) /\ \A d \in Spaces, q \in UserPages : MappedAt(r, d, q) = MappedAt(k, d, q)
  BY <1>12, <1>13, OwnAndPanic
<1>15. \A d \in Envs, q \in UserPages : MappedAt(r, d, q) = MappedAt(s, d, q)
  BY <1>3, <1>10, <1>12, <1>14, NotNumbers
<1>16. \A g \in HeapPages : r.heap[g] = s.heap[g] \/ r.heap[g] = NULL
  BY <1>3, <1>7, <1>13 DEF Moves
<1>17. ObjectFreed(s, r, out)
  BY <1>3, <1>7, <1>13, <1>14, <1>15, <1>16 DEF ObjectFreed
<1>18. QED
  BY <1>1, <1>17

\* A page h of the heap, with the frame f, for the directory, which is empty.
StorageMade(s, r, out, f, h) ==
  /\ Good(r, out) /\ r.panic = s.panic /\ r.own[Storage] = {h}
  /\ f \in s.free_frame_list /\ r.free_frame_list = s.free_frame_list \ {f}
  /\ h \in HeapPages /\ s.heap[h] = NULL
  /\ \A g \in HeapPages : r.heap[g] = IF g = h THEN f ELSE s.heap[g]
  /\ \A d \in Spaces, t \in Tables :
       r.page_directory[d][t] = IF d = Storage THEN NULL ELSE s.page_directory[d][t]
  /\ \A d \in Envs, q \in UserPages : MappedAt(r, d, q) = MappedAt(s, d, q)

LEMMA CreateStorage ==
  ASSUME NEW s, NEW out, Good(s, out), s.free_frame_list # {}, FreeHeapPages(s) # {}
  PROVE  StorageMade(s, create_frames_storage(s), out, HeapFrame(s), NextHeapPage(s))
<1> DEFINE f == HeapFrame(s)
           h == NextHeapPage(s)
           k == kmalloc(s)
           none == [t \in Tables |-> NULL]
           r == [k EXCEPT !.own[Storage] = {h}, !.page_directory[Storage] = none]
<1>1. /\ Good(k, out) /\ f \in s.free_frame_list /\ f \in Frames
      /\ h \in HeapPages /\ s.heap[h] = NULL
      /\ k.free_frame_list = s.free_frame_list \ {f}
      /\ k.heap = [s.heap EXCEPT ![h] = f]
      /\ k.page_directory = s.page_directory /\ k.panic = s.panic
      /\ \A c \in Spaces, q \in UserPages : MappedAt(k, c, q) = MappedAt(s, c, q)
  BY Kmalloc
<1>2. r = create_frames_storage(s)
  BY DEF create_frames_storage
<1> HIDE DEF f, h, k
<1>3. k \in Mem /\ s \in Mem /\ none \in [Tables -> Frames \cup {NULL}] /\ Storage \in Spaces
  BY <1>1, NotNumbers DEF Good
<1>4. \A t \in Tables : none[t] = NULL
  OBVIOUS
<1> HIDE DEF none
<1>5. /\ r \in Mem /\ r.own[Storage] = {h} /\ r.free_frame_list = k.free_frame_list
      /\ r.frames_info = k.frames_info /\ r.contents = k.contents /\ r.heap = k.heap
      /\ r.page_directory = [k.page_directory EXCEPT ![Storage] = none]
      /\ r.panic = k.panic
  BY <1>1, <1>3 DEF Mem
<1> HIDE DEF r
<1>6. \A d \in Spaces, t \in Tables :
        r.page_directory[d][t] = IF d = Storage THEN NULL ELSE k.page_directory[d][t]
  BY <1>3, <1>4, <1>5, MemFields
<1>7. \A d \in Envs, q \in UserPages : MappedAt(r, d, q) = MappedAt(k, d, q)
  BY <1>5, <1>6, NotNumbers, PageTypes DEF MappedAt, TableOf
<1>8. \A g \in Frames : References(r, g) = References(k, g)
  BY <1>5, <1>7, MappingsStay, SameHeap, CountedSame
<1>9. Counted(r, out) /\ HeapApart(r)
  BY <1>1, <1>5, <1>8 DEF Good, Counted, HeapApart
<1>10. TablesOK(r)
  <2> SUFFICES ASSUME NEW d \in Spaces, NEW t \in Tables, r.page_directory[d][t] # NULL
               PROVE  TableOK(r, d, t, r.page_directory[d][t])
    BY DEF TablesOK
  <2> DEFINE g == r.page_directory[d][t]
  <2>1. g = k.page_directory[d][t] /\ g # NULL
    BY <1>6
  <2>2. TableOK(k, d, t, g)
    BY <1>1, <2>1 DEF Good, TablesOK
  <2> HIDE DEF g
  <2>3. \A c \in Spaces, u \in Tables : r.page_directory[c][u] = g => c = d /\ u = t
    <3>1. \A c \in Spaces, u \in Tables : k.page_directory[c][u] = g => c = d /\ u = t
      BY <2>2 DEF TableOK
    <3>2. \A c \in Spaces, u \in Tables :
            r.page_directory[c][u] = g => k.page_directory[c][u] = g
      BY <1>6, <2>1
    <3>3. QED
      BY <3>1, <3>2
  <2>4. TableOK(r, d, t, g)
    BY <1>5, <2>2, <2>3 DEF TableOK
  <2>5. QED
    BY <2>4 DEF g
<1>11. Good(r, out)
  BY <1>5, <1>9, <1>10 DEF Good
<1>12. \A g \in HeapPages : r.heap[g] = IF g = h THEN f ELSE s.heap[g]
  BY <1>1, <1>3, <1>5, MemFields
<1>13. \A d \in Spaces, t \in Tables :
         r.page_directory[d][t] = IF d = Storage THEN NULL ELSE s.page_directory[d][t]
  BY <1>1, <1>6
<1>14. \A d \in Envs, q \in UserPages : MappedAt(r, d, q) = MappedAt(s, d, q)
  BY <1>1, <1>7, NotNumbers
<1>15. StorageMade(s, r, out, f, h)
  BY <1>1, <1>5, <1>11, <1>12, <1>13, <1>14 DEF StorageMade
<1>16. QED
  BY <1>2, <1>15 DEF f, h

\* The frame f is the frame of page 0 of the object.
FrameAdded(s, r, out, f) ==
  /\ Good(r, out) /\ Grows(s, r) /\ r.panic = s.panic
  /\ \A d \in Spaces, q \in UserPages :
       MappedAt(r, d, q) = IF d = Storage /\ q = 0 THEN f ELSE MappedAt(s, d, q)

LEMMA AddFrame ==
  ASSUME NEW s, NEW out, Good(s, out), Room(s, Storage, 0), NEW f \in Frames
  PROVE  FrameAdded(s, add_frame_to_storage(s, f, 0), out, f)
<1> DEFINE t == WithTable(s, Storage, 0)
           r == SetEntry(t, Storage, 0, f)
<1>1. Storage \in Spaces /\ 0 \in UserPages
  BY NotNumbers, PagesKnown
<1>2. /\ Good(t, out) /\ Grows(s, t) /\ t.panic = s.panic
      /\ TableOf(t, Storage, 0) # NULL
      /\ \A c \in Spaces, q \in UserPages : MappedAt(t, c, q) = MappedAt(s, c, q)
  BY <1>1, TableForPage
<1>3. r = add_frame_to_storage(s, f, 0)
  BY DEF add_frame_to_storage
<1> HIDE DEF t
<1>4. t \in Mem /\ TablesOK(t) /\ HeapApart(t) /\ Counted(t, out) /\ f \in Frames \cup {NULL}
  BY <1>2 DEF Good
<1>5. /\ r \in Mem /\ TablesOK(r)
      /\ r.free_frame_list = t.free_frame_list /\ r.frames_info = t.frames_info
      /\ r.heap = t.heap /\ r.page_directory = t.page_directory
      /\ r.own = t.own /\ r.panic = t.panic
      /\ \A c \in Spaces, q \in UserPages :
           MappedAt(r, c, q) = IF c = Storage /\ q = 0 THEN f ELSE MappedAt(t, c, q)
  BY <1>1, <1>2, <1>4, SetEntryKeeps
<1> HIDE DEF r
<1>6. \A d \in Envs, q \in UserPages : MappedAt(r, d, q) = MappedAt(t, d, q)
  BY <1>5, NotNumbers
<1>7. \A g \in Frames : References(r, g) = References(t, g)
  BY <1>5, <1>6, MappingsStay, SameHeap, CountedSame
<1>8. Counted(r, out) /\ HeapApart(r)
  BY <1>4, <1>5, <1>7 DEF Counted, HeapApart
<1>9. Grows(s, r)
  <2>1. FreeHeapPages(r) = FreeHeapPages(t)
    BY <1>5 DEF FreeHeapPages
  <2>2. QED
    BY <1>2, <1>5, <2>1 DEF Grows
<1>10. \A c \in Spaces, q \in UserPages :
         MappedAt(r, c, q) = IF c = Storage /\ q = 0 THEN f ELSE MappedAt(s, c, q)
  BY <1>2, <1>5
<1>11. FrameAdded(s, r, out, f)
  BY <1>2, <1>5, <1>8, <1>9, <1>10 DEF FrameAdded, Good
<1>12. QED
  BY <1>3, <1>11

\* Nobody has the object any more.
LEMMA NoLongerShared ==
  ASSUME NEW s, NEW r, NEW out, NEW w, NEW b \in BOOLEAN, User(s, b), Resident(s, w, b),
         \A c \in Envs : w[c] \subseteq Pages,
         MappingsOf(s, SharedFrame(s)) = {}, ObjectFreed(s, r, out)
  PROVE  Accounted(r, out, w, NULL)
<1>1. /\ Good(r, out)
      /\ \A h \in HeapPages : r.heap[h] = s.heap[h] \/ r.heap[h] = NULL
      /\ \A d \in Envs, q \in UserPages : MappedAt(r, d, q) = MappedAt(s, d, q)
  BY DEF ObjectFreed
<1>2. Private(s) /\ Apart(s, b)
  BY DEF User
<1>3. Private(r)
  BY <1>1, <1>2, PagesKnown DEF Private
<1>4. \A d \in Envs, q \in UserPages : MappedAt(s, d, q) # SharedFrame(s)
  <2>1. ASSUME NEW d \in Envs, NEW q \in UserPages, MappedAt(s, d, q) = SharedFrame(s)
        PROVE  <<d, q>> \in MappingsOf(s, SharedFrame(s))
    BY <2>1 DEF MappingsOf
  <2>2. QED
    BY <2>1
<1>5. Apart(r, FALSE)
  BY <1>1, <1>2, <1>4 DEF Apart
<1>6. Resident(r, w, FALSE)
  BY <1>1, PagesKnown DEF Resident
<1>7. User(r, NULL # NULL) /\ Resident(r, w, NULL # NULL)
  BY <1>3, <1>5, <1>6 DEF User
<1>8. SharesCounted(r, NULL)
  BY DEF SharesCounted
<1>9. QED
  BY <1>1, <1>7, <1>8 DEF Accounted

LEMMA FreeSharedKeeps ==
  ASSUME SpaceInv, NEW e \in Envs, NEW p \in Pages, freeSharedObject(e, p)
  PROVE  SpaceInv'
<1> DEFINE F == SharedFrame(mem)
           b == shares # NULL
           u == unmap_frame(mem, e, p)
           r == RemoveTables(u, e, {p})
<1>1. /\ Accounted(mem, lost, ws, shares) /\ mem \in Mem /\ ~mem.panic /\ Good(mem, lost)
      /\ \A c \in Envs : ws[c] \subseteq Pages
  BY InSpaceInv
<1>2. ws \in [Envs -> SUBSET Pages] /\ lost \subseteq Frames /\ StatusOK(status)
      /\ shares \in Nat \cup {NULL}
  BY TypesOfSpace DEF SpaceInv
<1>3. p \in UserPages /\ e \in Spaces /\ {p} \in SUBSET Pages
  BY PagesKnown, NotNumbers
<1>4. shares # NULL /\ MappedAt(mem, e, p) # NULL /\ MappedAt(mem, e, p) = F
  BY MappedHere DEF freeSharedObject
<1>5. /\ mem' = (IF shares = 1 THEN free_share_object(r) ELSE r)
      /\ shares' = (IF shares = 1 THEN NULL ELSE shares - 1)
      /\ status' = status /\ ws' = ws /\ lost' = lost /\ Releases
  BY DEF freeSharedObject
<1>6. /\ User(mem, b) /\ Resident(mem, ws, b) /\ b \in BOOLEAN
      /\ shares \in Nat \ {0} /\ shares = Cardinality(MappingsOf(mem, F))
  BY <1>1, <1>2, <1>4 DEF Accounted, SharesCounted
<1>7. b <=> shares # NULL
  OBVIOUS
<1>8. F = SharedFrame(mem)
  OBVIOUS
<1> HIDE DEF b, F
<1>9. /\ Good(u, lost) /\ mem.free_frame_list \subseteq u.free_frame_list
      /\ u.heap = mem.heap /\ u.page_directory = mem.page_directory
      /\ u.own = mem.own /\ u.panic = mem.panic
      /\ \A c \in Spaces, q \in UserPages :
           MappedAt(u, c, q) = IF c = e /\ q = p THEN NULL ELSE MappedAt(mem, c, q)
  BY <1>1, <1>3, UnmapAny
<1> HIDE DEF u
<1>10. Tidied(u, r, lost, Spaces)
  BY <1>3, <1>9, RemoveTablesTidies
<1> HIDE DEF r
<1>11. /\ Good(r, lost) /\ r \in Mem /\ r.panic = FALSE
       /\ \A c \in Spaces, q \in UserPages :
            MappedAt(r, c, q) = IF c = e /\ q = p THEN NULL ELSE MappedAt(mem, c, q)
  BY <1>1, <1>9, <1>10, MemFields DEF Tidied, Good
<1>12. Moves(mem, r, {})
  <2>1. Moves(u, r, {})
    BY <1>10 DEF Tidied
  <2>2. QED
    BY <1>9, <2>1 DEF Moves, IsTable
<1>13. SharedFrame(r) = F
  BY <1>8, <1>11, PagesKnown, NotNumbers DEF SharedFrame
<1>14. \A c \in Envs, q \in UserPages :
         MappedAt(r, c, q) = IF c = e /\ q = p THEN NULL ELSE MappedAt(mem, c, q)
  BY <1>11, NotNumbers
<1>15. User(r, b)
  <2>1. 0 \in UserPages /\ NewEntry(mem, b, 0, NULL, {})
    BY PagesKnown DEF NewEntry
  <2>2. \A c \in Envs, q \in UserPages :
          MappedAt(r, c, q) = MappedAt(mem, c, q) \/ MappedAt(r, c, q) = NULL
    BY <1>14
  <2>3. b => SharedFrame(r) = SharedFrame(mem)
    BY <1>8, <1>13
  <2>4. QED
    BY <1>6, <1>12, <2>1, <2>2, <2>3, UserMoves
<1>16. Resident(r, ws, b)
  <2> SUFFICES ASSUME NEW c \in Envs, NEW q \in ws[c]
               PROVE  MappedAt(r, c, q) # NULL /\ MappedAt(r, c, q) # F
    BY <1>13 DEF Resident
  <2>1. q \in UserPages /\ MappedAt(mem, c, q) # NULL /\ MappedAt(mem, c, q) # F
    BY <1>1, <1>4, <1>6, <1>7, <1>8, PagesKnown DEF Resident
  <2>2. MappedAt(r, c, q) = MappedAt(mem, c, q)
    BY <1>4, <1>14, <2>1
  <2>3. QED
    BY <2>1, <2>2
<1>17. Cardinality(MappingsOf(r, F)) = shares - 1
  <2>1. F # NULL
    BY <1>4
  <2>2. QED
    BY <1>3, <1>4, <1>6, <1>14, <2>1, MappingChanges
<1>18. CASE shares = 1
  <2> DEFINE v == free_share_object(r)
  <2>1. MappingsOf(r, SharedFrame(r)) = {}
    BY <1>13, <1>17, <1>18, CountTypes, FS_EmptySet
  <2>2. StoragePage(r)
    BY <1>4, <1>7, <1>15 DEF User, Stored
  <2>3. ObjectFreed(r, v, lost)
    BY <1>11, <2>2, FreeObject
  <2> HIDE DEF v
  <2>4. Accounted(v, lost, ws, NULL)
    BY <1>1, <1>6, <1>15, <1>16, <2>1, <2>3, NoLongerShared
  <2>5. mem' = v /\ shares' = NULL
    BY <1>5, <1>18 DEF v
  <2>6. v \in Mem /\ v.panic = FALSE
    BY <1>11, <2>3 DEF ObjectFreed, Good
  <2>7. QED
    BY <1>1, <1>2, <1>5, <2>4, <2>5, <2>6, ToSpaceInv
<1>19. CASE shares # 1
  <2> DEFINE n == shares - 1
  <2>1. n \in Nat /\ n # 0 /\ n # NULL
    BY <1>6, <1>19, SpaceAssumption
  <2>2. mem' = r /\ shares' = n
    BY <1>5, <1>19
  <2>3. n = Cardinality(MappingsOf(r, F))
    BY <1>17
  <2> HIDE DEF n
  <2>4. b <=> n # NULL
    BY <1>4, <1>7, <2>1
  <2>5. User(r, n # NULL) /\ Resident(r, ws, n # NULL)
    BY <1>6, <1>15, <1>16, <2>4
  <2>6. SharesCounted(r, n)
    BY <1>13, <2>1, <2>3 DEF SharesCounted
  <2>7. Accounted(r, lost, ws, n)
    BY <1>11, <2>5, <2>6 DEF Accounted
  <2>8. QED
    BY <1>1, <1>2, <1>5, <1>11, <2>1, <2>2, <2>7, ToSpaceInv
<1>20. QED
  BY <1>18, <1>19

\* Without an object, a new frame f at p becomes the object's.
LEMMA NowShared ==
  ASSUME NEW s, NEW out, NEW w, NEW n, Accounted(s, out, w, n), n = NULL,
         \A c \in Envs : w[c] \subseteq Pages, StoragePage(s),
         NEW e \in Envs, NEW p \in Pages, p \notin w[e],
         MappedAt(s, e, p) # NULL, MappedAt(s, e, p) = SharedFrame(s)
  PROVE  Accounted(s, out, w, 1)
<1> DEFINE F == SharedFrame(s)
<1>1. Good(s, out) /\ Private(s) /\ Apart(s, FALSE) /\ Resident(s, w, FALSE)
  <2>1. Good(s, out) /\ User(s, n # NULL) /\ Resident(s, w, n # NULL)
    BY DEF Accounted
  <2>2. (n # NULL) = FALSE
    OBVIOUS
  <2>3. QED
    BY <2>1, <2>2 DEF User
<1>2. p \in UserPages /\ WSPage \in UserPages /\ WSPage # p
  BY PagesKnown
<1>3. MappedAt(s, e, p) = F /\ F # NULL
  OBVIOUS
<1>4. \A c \in Envs, q \in UserPages : MappedAt(s, c, q) = F <=> c = e /\ q = p
  BY <1>1, <1>2, <1>3 DEF Apart
<1>5. F = SharedFrame(s)
  OBVIOUS
<1> HIDE DEF F
<1>6. \A h \in HeapPages : s.heap[h] # F
  BY <1>1, <1>3 DEF Private
<1>7. \A c \in Envs : MappedAt(s, c, WSPage) # F
  BY <1>2, <1>4
<1>8. Stored(s)
  BY <1>3, <1>5, <1>6, <1>7 DEF Stored
<1>9. Apart(s, TRUE)
  BY <1>1 DEF Apart
<1>10. User(s, TRUE)
  BY <1>1, <1>8, <1>9 DEF User
<1>11. Resident(s, w, TRUE)
  <2> SUFFICES ASSUME NEW c \in Envs, NEW q \in w[c]
               PROVE  MappedAt(s, c, q) # NULL /\ MappedAt(s, c, q) # F
    BY <1>5 DEF Resident
  <2>1. q \in UserPages /\ ~(c = e /\ q = p)
    BY PagesKnown
  <2>2. QED
    BY <1>1, <1>4, <2>1 DEF Resident
<1>12. Cardinality(MappingsOf(s, F)) = 1
  <2>1. <<e, p>> \in MappingsOf(s, F)
    BY <1>2, <1>3 DEF MappingsOf
  <2>2. \A k \in MappingsOf(s, F) : k = <<e, p>>
    BY <1>4 DEF MappingsOf
  <2>3. MappingsOf(s, F) = {<<e, p>>}
    BY <2>1, <2>2
  <2>4. QED
    BY <2>3, FS_Singleton
<1>13. 1 # NULL
  BY SpaceAssumption
<1>14. SharesCounted(s, 1)
  BY <1>5, <1>12 DEF SharesCounted
<1>15. (1 # NULL) = TRUE
  BY <1>13
<1>16. User(s, 1 # NULL) /\ Resident(s, w, 1 # NULL)
  BY <1>10, <1>11, <1>15
<1>17. QED
  BY <1>1, <1>14, <1>16 DEF Accounted

\* The storage of a new object disturbs nobody.
LEMMA StorageDisturbs ==
  ASSUME NEW s, NEW r, NEW out, NEW w, NEW n, Accounted(s, out, w, n), n = NULL,
         \A c \in Envs : w[c] \subseteq Pages, NEW f, NEW h, StorageMade(s, r, out, f, h)
  PROVE  Accounted(r, out, w, n)
<1>1. Good(s, out) /\ Private(s) /\ Apart(s, FALSE) /\ Resident(s, w, FALSE)
  <2>1. Good(s, out) /\ User(s, n # NULL) /\ Resident(s, w, n # NULL)
    BY DEF Accounted
  <2>2. (n # NULL) = FALSE
    OBVIOUS
  <2>3. QED
    BY <2>1, <2>2 DEF User
<1>2. /\ Good(r, out) /\ f \in s.free_frame_list
      /\ \A g \in HeapPages : r.heap[g] = IF g = h THEN f ELSE s.heap[g]
      /\ \A d \in Envs, q \in UserPages : MappedAt(r, d, q) = MappedAt(s, d, q)
  BY DEF StorageMade
<1>3. \A d \in Envs, q \in UserPages : MappedAt(s, d, q) # f
  BY <1>1, <1>2, FreeFrames DEF Good, Mem
<1>4. Private(r)
  BY <1>1, <1>2, <1>3, PagesKnown DEF Private
<1>5. Apart(r, FALSE) /\ Resident(r, w, FALSE)
  BY <1>1, <1>2, PagesKnown DEF Apart, Resident
<1>6. User(r, FALSE)
  BY <1>4, <1>5 DEF User
<1>7. (n # NULL) = FALSE
  OBVIOUS
<1>8. User(r, n # NULL) /\ Resident(r, w, n # NULL)
  BY <1>5, <1>6, <1>7
<1>9. SharesCounted(r, n)
  BY DEF SharesCounted
<1>10. QED
  BY <1>2, <1>8, <1>9 DEF Accounted

\* Its directory is a page of the heap for as long as memory only grows.
LEMMA StoragePageStays ==
  ASSUME NEW s, NEW r, NEW out, Good(s, out), NEW h \in HeapPages, s.own[Storage] = {h},
         s.heap[h] # NULL, ~IsTable(s, s.heap[h]), r.own = s.own, NEW new,
         \A g \in HeapPages : r.heap[g] = s.heap[g] \/ s.heap[g] = NULL,
         \A d \in Spaces, t \in Tables :
           r.page_directory[d][t] = s.page_directory[d][t] \/ r.page_directory[d][t] \in new,
         new \subseteq s.free_frame_list
  PROVE  r.own[Storage] = {h} /\ r.heap[h] = s.heap[h] /\ ~IsTable(r, s.heap[h])
<1> DEFINE f == s.heap[h]
<1>1. s.heap \in [HeapPages -> Frames \cup {NULL}]
  BY MemFields DEF Good
<1>2. f \in Frames
  BY <1>1
<1>3. f \notin s.free_frame_list
  BY <1>2, FrameInHeap
<1>4. ~IsTable(r, f)
  BY <1>3 DEF IsTable
<1>5. QED
  BY <1>4

LEMMA MapNewGives ==
  ASSUME NEW s, NEW out, Good(s, out), ~s.panic, NEW e \in Envs, NEW p \in UserPages,
         PageFrame(s) \in s.free_frame_list, s.free_frame_list \ {PageFrame(s)} # {},
         FreeHeapPages(s) # {}
  PROVE  NowMapped(s, MapNew(s, e, p), out, e, p, PageFrame(s))
<1> DEFINE f == PageFrame(s)
           a == allocate_frame(s, f)
<1>1. f \in s.free_frame_list /\ s.free_frame_list \ {f} # {} /\ ~HeapFull(s, e, p)
  BY DEF HeapFull
<1>2. MapNew(s, e, p) = Given(map_frame(a, e, f, p), f)
  BY DEF MapNew
<1> HIDE DEF f
<1>3. ASSUME NEW loading \in BOOLEAN, ~loading
      PROVE  NowMapped(s, Given(map_frame(a, e, f, p), f), out, e, p, f)
  <2> DEFINE u == IF loading THEN loadtime_map_frame(a, e, f, p) ELSE map_frame(a, e, f, p)
  <2>1. u = map_frame(a, e, f, p)
    BY <1>3
  <2>2. NowMapped(s, Given(u, f), out, e, p, f)
    <3>1. loading => MappedAt(s, e, p) = NULL
      BY <1>3
    <3> HIDE <1>3
    <3>2. QED
      BY <1>1, <3>1, MapGiven
  <2>3. QED
    BY <2>1, <2>2
<1>4. NowMapped(s, Given(map_frame(a, e, f, p), f), out, e, p, f)
  BY <1>3
<1>5. QED
  BY <1>2, <1>4 DEF f

\* What is left of a set after taking two or three.
LEMMA AfterTwo ==
  ASSUME NEW S, IsFiniteSet(S), Cardinality(S) >= 2 + 1
  PROVE  S # {} /\ \A x, y : S \ {x} # {} /\ (S \ {x}) \ {y} # {}
<1>1. S # {}
  BY Fewer
<1>2. ASSUME NEW x, NEW y
      PROVE  S \ {x} # {} /\ (S \ {x}) \ {y} # {}
  <2> DEFINE A == S \ {x}
             B == A \ {y}
  <2>1. IsFiniteSet(A) /\ Cardinality(A) >= 1 + 1
    BY Fewer
  <2> HIDE DEF A
  <2>2. A # {} /\ IsFiniteSet(B) /\ Cardinality(B) >= 1
    BY <2>1, Fewer
  <2> HIDE DEF B
  <2>3. B # {}
    BY <2>2, Holds
  <2>4. QED
    BY <2>2, <2>3 DEF A, B
<1>3. QED
  BY <1>1, <1>2

LEMMA AfterThree ==
  ASSUME NEW S, IsFiniteSet(S), Cardinality(S) >= 3 + 1
  PROVE  /\ S # {}
         /\ \A x, y, z : S \ {x} # {} /\ (S \ {x}) \ {y} # {} /\ ((S \ {x}) \ {y}) \ {z} # {}
<1>1. S # {}
  BY Fewer
<1>2. ASSUME NEW x
      PROVE  /\ S \ {x} # {}
             /\ \A y, z : (S \ {x}) \ {y} # {} /\ ((S \ {x}) \ {y}) \ {z} # {}
  <2> DEFINE A == S \ {x}
  <2>1. 3 \in Nat /\ IsFiniteSet(A) /\ Cardinality(A) >= 3
    <3>1. \A n \in Nat : Cardinality(S) >= n + 1 => IsFiniteSet(A) /\ Cardinality(A) >= n
      BY Fewer
    <3>2. QED
      BY <3>1
  <2> HIDE DEF A
  <2>2. A # {} /\ \A y, z : A \ {y} # {} /\ (A \ {y}) \ {z} # {}
    BY <2>1, AfterTwo
  <2>3. QED
    BY <2>2 DEF A
<1>3. QED
  BY <1>1, <1>2

LEMMA CreateSharedKeeps ==
  ASSUME SpaceInv, NEW e \in Envs, NEW p \in Pages, createSharedObject(e, p)
  PROVE  SpaceInv'
<1> DEFINE s1 == create_frames_storage(mem)
           f0 == HeapFrame(mem)
           h0 == NextHeapPage(mem)
           f == PageFrame(s1)
           s2 == MapNew(s1, e, p)
           s3 == add_frame_to_storage(s2, f, 0)
<1>1. /\ Accounted(mem, lost, ws, shares) /\ mem \in Mem /\ ~mem.panic /\ Good(mem, lost)
      /\ \A c \in Envs : ws[c] \subseteq Pages
      /\ IsFiniteSet(mem.free_frame_list) /\ IsFiniteSet(FreeHeapPages(mem))
  BY InSpaceInv
<1>2. ws \in [Envs -> SUBSET Pages] /\ lost \subseteq Frames /\ StatusOK(status)
  BY TypesOfSpace DEF SpaceInv
<1>3. p \in UserPages /\ e \in Spaces /\ Storage \in Spaces /\ 0 \in UserPages
  BY PagesKnown, NotNumbers
<1>4. shares = NULL /\ MappedAt(mem, e, p) = NULL
  BY MappedHere DEF createSharedObject
<1>5. /\ mem' = s3 /\ shares' = 1 /\ status' = status /\ ws' = ws /\ lost' = lost /\ Keeps
  BY DEF createSharedObject
<1>6. /\ mem.free_frame_list # {}
      /\ \A x, y, z : mem.free_frame_list \ {x} # {} /\ (mem.free_frame_list \ {x}) \ {y} # {}
                      /\ ((mem.free_frame_list \ {x}) \ {y}) \ {z} # {}
  <2>1. Cardinality(mem.free_frame_list) >= 3 + 1
    BY DEF createSharedObject, FramesFree
  <2>2. QED
    BY <1>1, <2>1, AfterThree
<1>7. /\ FreeHeapPages(mem) # {}
      /\ \A x, y : FreeHeapPages(mem) \ {x} # {} /\ (FreeHeapPages(mem) \ {x}) \ {y} # {}
  <2>1. Cardinality(FreeHeapPages(mem)) >= 2 + 1
    BY DEF createSharedObject, HeapFree
  <2>2. QED
    BY <1>1, <2>1, AfterTwo
<1>8. StorageMade(mem, s1, lost, f0, h0)
  BY <1>1, <1>6, <1>7, CreateStorage
<1> HIDE DEF s1, f0, h0
<1>9. /\ Good(s1, lost) /\ s1 \in Mem /\ ~s1.panic /\ s1.own[Storage] = {h0}
      /\ f0 \in mem.free_frame_list /\ s1.free_frame_list = mem.free_frame_list \ {f0}
      /\ h0 \in HeapPages /\ mem.heap[h0] = NULL
      /\ \A g \in HeapPages : s1.heap[g] = IF g = h0 THEN f0 ELSE mem.heap[g]
      /\ \A d \in Spaces, t \in Tables :
           s1.page_directory[d][t] = IF d = Storage THEN NULL ELSE mem.page_directory[d][t]
      /\ \A d \in Envs, q \in UserPages : MappedAt(s1, d, q) = MappedAt(mem, d, q)
  BY <1>1, <1>8 DEF StorageMade, Good
<1>10. f0 \in Frames /\ f0 # NULL /\ ~IsTable(mem, f0)
  BY <1>1, <1>9, NotNumbers, FreeFrames, MemFields
<1>11. s1.heap[h0] = f0 /\ ~IsTable(s1, f0)
  BY <1>9, <1>10 DEF IsTable
<1>12. Accounted(s1, lost, ws, shares)
  BY <1>1, <1>4, <1>8, StorageDisturbs
<1>13. /\ f \in s1.free_frame_list /\ s1.free_frame_list \ {f} # {}
       /\ \A y : (s1.free_frame_list \ {f}) \ {y} # {}
  <2>1. f \in s1.free_frame_list
    BY <1>6, <1>9, FreePageFrame
  <2> HIDE DEF f
  <2>2. QED
    BY <1>6, <1>9, <2>1
<1>14. FreeHeapPages(s1) # {} /\ \A y : FreeHeapPages(s1) \ {y} # {}
  <2>1. FreeHeapPages(s1) = FreeHeapPages(mem) \ {h0}
    BY <1>9, <1>10 DEF FreeHeapPages
  <2>2. QED
    BY <1>7, <2>1
<1>15. NowMapped(s1, s2, lost, e, p, f)
  BY <1>3, <1>9, <1>13, <1>14, MapNewGives
<1>16. NewMapped(s1, s2, lost, ws, ws, shares, e, p)
  <2>1. shares # NULL => MappedAt(s1, e, p) # SharedFrame(s1)
    BY <1>4
  <2>2. \A c \in Envs : \A q \in ws[c] : q \in ws[c] \/ (c = e /\ q = p)
    OBVIOUS
  <2>3. QED
    BY <1>1, <1>9, <1>12, <1>13, <2>1, <2>2, MapNewPage
<1> HIDE DEF s2, f
<1>17. /\ Good(s2, lost) /\ ~s2.panic /\ TakesFrom(s1, s2, s1.free_frame_list \ {f})
       /\ Accounted(s2, lost, ws, shares)
       /\ \A c \in Spaces, q \in UserPages :
            MappedAt(s2, c, q) = IF c = e /\ q = p THEN f ELSE MappedAt(s1, c, q)
  BY <1>15, <1>16 DEF NowMapped, NewMapped
<1>18. f \in Frames /\ f # NULL
  BY <1>9, <1>13, NotNumbers, MemFields
<1>19. Room(s2, Storage, 0)
  <2>1. s2.free_frame_list # {}
    <3>1. PICK g : s1.free_frame_list \ {f, g} \subseteq s2.free_frame_list
      BY <1>15 DEF NowMapped
    <3>2. (s1.free_frame_list \ {f}) \ {g} # {}
      BY <1>13
    <3>3. QED
      BY <3>1, <3>2
  <2>2. FreeHeapPages(s2) # {}
    <3>1. PICK h : FreeHeapPages(s1) \ {h} \subseteq FreeHeapPages(s2)
      BY <1>15 DEF NowMapped
    <3>2. QED
      BY <1>14, <3>1
  <2>3. QED
    BY <2>1, <2>2 DEF Room
<1>20. /\ s2.own[Storage] = {h0} /\ s2.heap[h0] = f0 /\ ~IsTable(s2, f0)
  <2>1. /\ s2.own = s1.own
        /\ \A g \in HeapPages : s2.heap[g] = s1.heap[g] \/ s1.heap[g] = NULL
        /\ \A d \in Spaces, t \in Tables :
             \/ s2.page_directory[d][t] = s1.page_directory[d][t]
             \/ s2.page_directory[d][t] \in s1.free_frame_list \ {f}
    BY <1>17 DEF TakesFrom
  <2> DEFINE new == s1.free_frame_list \ {f}
  <2>2. new \subseteq s1.free_frame_list
    OBVIOUS
  <2>3. \A d \in Spaces, t \in Tables :
          s2.page_directory[d][t] = s1.page_directory[d][t] \/ s2.page_directory[d][t] \in new
    BY <2>1
  <2>4. s1.heap[h0] # NULL /\ ~IsTable(s1, s1.heap[h0])
    BY <1>10, <1>11
  <2> HIDE DEF new
  <2>5. s2.own[Storage] = {h0} /\ s2.heap[h0] = s1.heap[h0] /\ ~IsTable(s2, s1.heap[h0])
    BY <1>9, <2>1, <2>2, <2>3, <2>4, StoragePageStays
  <2>6. QED
    BY <1>11, <2>5
<1>21. FrameAdded(s2, s3, lost, f)
  BY <1>17, <1>18, <1>19, AddFrame
<1> HIDE DEF s3
<1>22. /\ Good(s3, lost) /\ s3 \in Mem /\ s3.panic = FALSE /\ Grows(s2, s3)
       /\ \A d \in Spaces, q \in UserPages :
            MappedAt(s3, d, q) = IF d = Storage /\ q = 0 THEN f ELSE MappedAt(s2, d, q)
  <2>1. s3 \in Mem /\ s3.panic = s2.panic
    BY <1>21 DEF FrameAdded, Good
  <2>2. s3.panic \in BOOLEAN
    BY <2>1, MemFields
  <2>3. QED
    BY <1>17, <1>21, <2>1, <2>2 DEF FrameAdded
<1>23. Accounted(s3, lost, ws, shares)
  <2> DEFINE new == s2.free_frame_list
  <2>1. Moves(s2, s3, new)
    BY <1>22 DEF Moves, Grows
  <2>2. \A g \in new : Fresh(s2, shares # NULL, g)
    BY <1>17, FreeIsFresh
  <2>3. \A c \in Envs, q \in UserPages : MappedAt(s3, c, q) = MappedAt(s2, c, q)
    BY <1>22, NotNumbers
  <2>4. shares # NULL => SharedFrame(s3) = SharedFrame(s2)
    BY <1>4
  <2> HIDE DEF new
  <2>5. QED
    BY <1>1, <1>17, <1>22, <2>1, <2>2, <2>3, <2>4, AccountedSame
<1>24. StoragePage(s3)
  <2>1. /\ s3.own = s2.own
        /\ \A g \in HeapPages : s3.heap[g] = s2.heap[g] \/ s2.heap[g] = NULL
        /\ \A d \in Spaces, t \in Tables :
             \/ s3.page_directory[d][t] = s2.page_directory[d][t]
             \/ s3.page_directory[d][t] \in s2.free_frame_list
    BY <1>22 DEF Grows
  <2> DEFINE new == s2.free_frame_list
  <2>2. new \subseteq s2.free_frame_list
    OBVIOUS
  <2>3. \A d \in Spaces, t \in Tables :
          s3.page_directory[d][t] = s2.page_directory[d][t] \/ s3.page_directory[d][t] \in new
    BY <2>1
  <2>4. s2.heap[h0] # NULL /\ ~IsTable(s2, s2.heap[h0])
    BY <1>10, <1>20
  <2> HIDE DEF new
  <2>5. s3.own[Storage] = {h0} /\ s3.heap[h0] = s2.heap[h0] /\ ~IsTable(s3, s2.heap[h0])
    BY <1>9, <1>17, <1>20, <2>1, <2>2, <2>3, <2>4, StoragePageStays
  <2>6. QED
    BY <1>9, <2>4, <2>5 DEF StoragePage
<1>25. MappedAt(s3, e, p) = f /\ SharedFrame(s3) = f
  BY <1>3, <1>17, <1>22, NotNumbers DEF SharedFrame
<1>26. p \notin ws[e]
  BY <1>1, <1>4 DEF Accounted, Resident
<1>27. Accounted(s3, lost, ws, 1)
  BY <1>1, <1>4, <1>18, <1>23, <1>24, <1>25, <1>26, NowShared
<1>28. Accounted(mem', lost', ws', shares') /\ mem' \in Mem /\ mem'.panic = FALSE
       /\ shares' \in Nat \cup {NULL}
  BY <1>5, <1>22, <1>27
<1>29. QED
  BY <1>1, <1>2, <1>5, <1>28, ToSpaceInv

LEMMA InitializeKeeps ==
  ASSUME SpaceInv, NEW e \in Envs, initialize_environment(e)
  PROVE  SpaceInv'
<1> DEFINE d == kmalloc(mem)
           w == kmalloc(d)
           f1 == HeapFrame(mem)
           h1 == NextHeapPage(mem)
           f2 == HeapFrame(d)
           h2 == NextHeapPage(d)
           s == map_frame(w, e, f2, WSPage)
           r == [s EXCEPT !.own[e] = {h1, h2}]
           free == mem.free_frame_list
<1>1. /\ Accounted(mem, lost, ws, shares) /\ mem \in Mem /\ ~mem.panic /\ Good(mem, lost)
      /\ \A c \in Envs : ws[c] \subseteq Pages
      /\ IsFiniteSet(free) /\ IsFiniteSet(FreeHeapPages(mem))
  BY InSpaceInv
<1>2. ws \in [Envs -> SUBSET Pages] /\ lost \subseteq Frames /\ StatusOK(status)
      /\ shares \in Nat \cup {NULL}
  BY TypesOfSpace DEF SpaceInv
<1>3. WSPage \in UserPages /\ WSPage \notin Pages /\ e \in Spaces /\ e # Storage
  BY PagesKnown, NotNumbers
<1>4. free # {} /\ \A x, y : free \ {x} # {} /\ (free \ {x}) \ {y} # {}
  <2>1. Cardinality(free) >= 2 + 1
    BY DEF initialize_environment, FramesFree
  <2>2. QED
    BY <1>1, <2>1, AfterTwo
<1>5. /\ FreeHeapPages(mem) # {}
      /\ \A x, y : FreeHeapPages(mem) \ {x} # {} /\ (FreeHeapPages(mem) \ {x}) \ {y} # {}
  <2>1. Cardinality(FreeHeapPages(mem)) >= 2 + 1
    BY DEF initialize_environment, HeapFree
  <2>2. QED
    BY <1>1, <2>1, AfterTwo
<1>6. \A x \in free : Fresh(mem, shares # NULL, x)
  BY <1>1, FreeIsFresh
<1>7. /\ Good(d, lost) /\ f1 \in free /\ f1 \in Frames /\ h1 \in HeapPages /\ mem.heap[h1] = NULL
      /\ d.free_frame_list = free \ {f1} /\ d.heap = [mem.heap EXCEPT ![h1] = f1]
      /\ d.page_directory = mem.page_directory /\ d.own = mem.own /\ d.panic = mem.panic
      /\ \A c \in Spaces, q \in UserPages : MappedAt(d, c, q) = MappedAt(mem, c, q)
  BY <1>1, <1>4, <1>5, Kmalloc
<1>8. mem' = r
  <2>1. d.heap \in [HeapPages -> Frames \cup {NULL}]
    BY <1>7, MemFields DEF Good
  <2>2. kheap_physical_address(w, h2) = w.heap[h2]
    BY DEF kheap_physical_address
  <2>3. w.heap[h2] = f2
    <3>1. d.free_frame_list # {} /\ FreeHeapPages(d) # {}
      <4>1. mem.heap \in [HeapPages -> Frames \cup {NULL}]
        BY <1>1, MemFields
      <4>2. FreeHeapPages(d) = FreeHeapPages(mem) \ {h1}
        BY <1>7, <4>1, NotNumbers DEF FreeHeapPages
      <4>3. QED
        BY <1>4, <1>5, <1>7, <4>2
    <3>2. h2 \in HeapPages /\ w.heap = [d.heap EXCEPT ![h2] = f2]
      BY <1>7, <3>1, Kmalloc
    <3>3. QED
      BY <2>1, <3>2
  <2>4. mem' = [map_frame(w, e, kheap_physical_address(w, h2), WSPage) EXCEPT !.own[e] = {h1, h2}]
    BY DEF initialize_environment
  <2>5. QED
    BY <2>2, <2>3, <2>4
<1>9. /\ status' = [status EXCEPT ![e] = "loading"]
      /\ ws' = ws /\ shares' = shares /\ lost' = lost /\ Keeps
  BY DEF initialize_environment
<1> HIDE DEF d, f1, h1, free
<1>10. FreeHeapPages(d) = FreeHeapPages(mem) \ {h1}
  <2>1. mem.heap \in [HeapPages -> Frames \cup {NULL}]
    BY <1>1, MemFields
  <2>2. QED
    BY <1>7, <2>1, NotNumbers DEF FreeHeapPages
<1>11. d \in Mem /\ d.free_frame_list # {} /\ FreeHeapPages(d) # {}
  BY <1>4, <1>5, <1>7, <1>10 DEF Good
<1>12. /\ Good(w, lost) /\ f2 \in d.free_frame_list /\ f2 \in Frames /\ h2 \in HeapPages
       /\ d.heap[h2] = NULL
       /\ w.free_frame_list = d.free_frame_list \ {f2} /\ w.heap = [d.heap EXCEPT ![h2] = f2]
       /\ w.page_directory = d.page_directory /\ w.own = d.own /\ w.panic = d.panic
       /\ \A c \in Spaces, q \in UserPages : MappedAt(w, c, q) = MappedAt(d, c, q)
  BY <1>7, <1>11, Kmalloc
<1> HIDE DEF w, f2, h2
<1>13. /\ f2 \in free /\ f2 \notin w.free_frame_list /\ w.free_frame_list \subseteq free
       /\ ~w.panic /\ w.page_directory = mem.page_directory /\ w.own = mem.own
  BY <1>1, <1>7, <1>12
<1>14. w.free_frame_list # {} /\ FreeHeapPages(w) # {}
  <2>1. d.heap \in [HeapPages -> Frames \cup {NULL}]
    BY <1>11, MemFields
  <2>2. FreeHeapPages(w) = FreeHeapPages(d) \ {h2}
    BY <1>12, <2>1, NotNumbers DEF FreeHeapPages
  <2>3. QED
    BY <1>4, <1>5, <1>7, <1>10, <1>12, <2>2
<1>15. Room(w, e, WSPage)
  BY <1>14 DEF Room
<1>16. /\ ~IsTable(mem, f2) /\ f2 \notin lost
       /\ \A c \in Envs, q \in UserPages : MappedAt(mem, c, q) # f2
  <2>1. f2 \in mem.free_frame_list
    BY <1>13 DEF free
  <2>2. f2 \notin mem.free_frame_list \cap lost
    BY <1>1, <1>12 DEF Good, Counted
  <2>3. QED
    BY <1>1, <1>12, <2>1, <2>2, FreeFrames
<1>17. ~IsTable(w, f2)
  BY <1>13, <1>16 DEF IsTable
<1>18. f2 # MappedAt(w, e, WSPage)
  BY <1>3, <1>7, <1>12, <1>16
<1>19. MapsAt(w, s, lost \ {f2}, e, WSPage, f2)
  BY <1>3, <1>12, <1>13, <1>15, <1>17, <1>18, MapFrame
<1> HIDE DEF s
<1>20. /\ Good(s, lost) /\ Grows(w, s) /\ ~s.panic /\ s \in Mem
       /\ \A c \in Spaces, q \in UserPages :
            MappedAt(s, c, q) = IF c = e /\ q = WSPage THEN f2 ELSE MappedAt(w, c, q)
  <2>1. lost \ {f2} = lost
    BY <1>16
  <2>2. QED
    BY <1>19, <2>1 DEF MapsAt, Good
<1>21. Moves(mem, s, free)
  <2>1. mem.heap \in [HeapPages -> Frames \cup {NULL}] /\ d.heap \in [HeapPages -> Frames \cup {NULL}]
    BY <1>1, <1>11, MemFields
  <2>2. \A g \in HeapPages :
          w.heap[g] = IF g = h2 THEN f2 ELSE IF g = h1 THEN f1 ELSE mem.heap[g]
    BY <1>7, <1>12, <2>1
  <2>3. h1 # h2 /\ mem.heap[h2] = NULL
    BY <1>7, <1>12, <2>1, NotNumbers
  <2>4. f1 # NULL /\ f2 # NULL
    BY <1>7, <1>12, NotNumbers
  <2>5. \A g \in HeapPages :
          \/ s.heap[g] = w.heap[g]
          \/ w.heap[g] = NULL /\ s.heap[g] \in w.free_frame_list
    BY <1>20 DEF Grows
  <2>6. \A g \in HeapPages :
          s.heap[g] = mem.heap[g] \/ (mem.heap[g] = NULL /\ s.heap[g] \in free)
    BY <1>7, <1>13, <2>2, <2>3, <2>4, <2>5
  <2>7. \A c \in Spaces, t \in Tables :
          s.page_directory[c][t] = mem.page_directory[c][t] \/ s.page_directory[c][t] \in free
    BY <1>13, <1>20 DEF Grows
  <2>8. s.own = mem.own
    BY <1>13, <1>20 DEF Grows
  <2>9. QED
    BY <2>6, <2>7, <2>8 DEF Moves
<1>22. Accounted(s, lost, ws, shares)
  <2>1. \A c \in Spaces, q \in UserPages :
          MappedAt(s, c, q) = IF c = e /\ q = WSPage THEN f2 ELSE MappedAt(mem, c, q)
    BY <1>7, <1>12, <1>20
  <2>2. shares # NULL => MappedAt(mem, e, WSPage) # SharedFrame(mem)
    BY <1>1 DEF Accounted, User, Stored
  <2>3. Fresh(mem, shares # NULL, f2)
    BY <1>6, <1>13
  <2>4. \A c \in Envs : \A q \in ws[c] : q \in ws[c] \/ (c = e /\ q = WSPage)
    OBVIOUS
  <2>5. WSPage \in Pages => f2 \notin free
    BY <1>3
  <2>6. QED
    BY <1>1, <1>3, <1>6, <1>20, <1>21, <2>1, <2>2, <2>3, <2>4, <2>5, AccountedMapped
<1>23. /\ r \in Mem /\ r.free_frame_list = s.free_frame_list /\ r.frames_info = s.frames_info
       /\ r.contents = s.contents /\ r.heap = s.heap /\ r.page_directory = s.page_directory
       /\ r.own[Storage] = s.own[Storage] /\ r.panic = s.panic
  BY <1>3, <1>7, <1>12, <1>20, NotNumbers DEF Mem
<1> HIDE DEF r
<1>24. Good(r, lost) /\ \A c \in Spaces, q \in UserPages : MappedAt(r, c, q) = MappedAt(s, c, q)
  BY <1>20, <1>23, OwnAndPanic
<1>25. Moves(s, r, {}) /\ SharedFrame(r) = SharedFrame(s)
  BY <1>23, <1>24, PagesKnown, NotNumbers DEF Moves, SharedFrame
<1>26. \A c \in Envs, q \in UserPages : MappedAt(r, c, q) = MappedAt(s, c, q)
  BY <1>24, NotNumbers
<1>27. Accounted(r, lost, ws, shares)
  BY <1>1, <1>22, <1>24, <1>25, <1>26, AccountedSame
<1>28. r.panic = FALSE /\ StatusOK(status')
  <2>1. r.panic \in BOOLEAN
    BY <1>23, MemFields
  <2>2. QED
    BY <1>2, <1>9, <1>20, <1>23, <2>1 DEF StatusOK
<1>29. QED
  BY <1>1, <1>2, <1>8, <1>9, <1>23, <1>27, <1>28, ToSpaceInv

-----------------------------------------------------------------------------
LEMMA SpaceInitKeeps ==
  ASSUME SpaceInit
  PROVE  SpaceInv
<1>1. /\ mem.free_frame_list = Frames
      /\ mem.frames_info = [f \in Frames |-> initialize_frame_info]
      /\ mem.contents = [f \in Frames |-> [i \in Index |-> Junk]]
      /\ mem.heap = [h \in HeapPages |-> NULL]
      /\ mem.page_directory = [d \in Spaces |-> [t \in Tables |-> NULL]]
      /\ mem.own = [d \in Spaces |-> {}] /\ mem.panic = FALSE
  BY DEF SpaceInit
<1>2. mem \in Mem
  <2>1. initialize_frame_info \in Infos
    BY DEF initialize_frame_info, Infos, VAs
  <2>2. [i \in Index |-> Junk] \in Entries
    BY DEF Entries
  <2>3. mem.frames_info \in [Frames -> Infos] /\ mem.contents \in [Frames -> Entries]
    BY <1>1, <2>1, <2>2
  <2>4. /\ mem.heap \in [HeapPages -> Frames \cup {NULL}]
        /\ mem.page_directory \in [Spaces -> [Tables -> Frames \cup {NULL}]]
        /\ mem.own \in [Spaces -> SUBSET HeapPages]
    BY <1>1
  <2>5. mem = [free_frame_list |-> mem.free_frame_list, frames_info |-> mem.frames_info,
               contents |-> mem.contents, heap |-> mem.heap,
               page_directory |-> mem.page_directory, own |-> mem.own, panic |-> mem.panic]
    BY DEF SpaceInit
  <2>6. QED
    BY <1>1, <2>3, <2>4, <2>5 DEF Mem
<1>3. /\ StatusOK(status) /\ ws \in [Envs -> SUBSET Pages] /\ shares = NULL /\ lost = {}
      /\ releases \in 0..MaxReleases
  BY SpaceAssumption DEF SpaceInit, StatusOK
<1>4. SpaceTypeOK
  BY <1>1, <1>2, <1>3, TypesOfSpace
<1>5. /\ \A d \in Spaces, t \in Tables : mem.page_directory[d][t] = NULL
      /\ \A h \in HeapPages : mem.heap[h] = NULL
      /\ \A f \in Frames : mem.frames_info[f] = initialize_frame_info
  BY <1>1
<1>6. \A d \in Spaces, q \in UserPages : MappedAt(mem, d, q) = NULL
  BY <1>5, PageTypes DEF MappedAt, TableOf
<1>7. Good(mem, lost)
  <2>1. \A f \in Frames : References(mem, f) = 0
    BY <1>5, <1>6, NotUsed, NotNumbers
  <2>2. Counted(mem, lost)
    BY <1>1, <1>3, <1>5, <2>1 DEF Counted, initialize_frame_info
  <2>3. HeapApart(mem) /\ TablesOK(mem)
    BY <1>5 DEF HeapApart, TablesOK
  <2>4. QED
    BY <1>2, <2>2, <2>3 DEF Good
<1>8. (shares # NULL) = FALSE
  BY <1>3
<1>9. User(mem, FALSE) /\ Resident(mem, ws, FALSE)
  <2>1. Private(mem) /\ Apart(mem, FALSE)
    BY <1>6, NotNumbers, PagesKnown DEF Private, Apart
  <2>2. \A e \in Envs : ws[e] = {}
    BY DEF SpaceInit
  <2>3. QED
    BY <2>1, <2>2 DEF User, Resident
<1>10. User(mem, shares # NULL) /\ Resident(mem, ws, shares # NULL)
  BY <1>8, <1>9
<1>11. SharesCounted(mem, shares)
  BY <1>3 DEF SharesCounted
<1>12. QED
  BY <1>4, <1>7, <1>10, <1>11 DEF SpaceInv, Accounted

LEMMA SpaceNextKeeps ==
  ASSUME SpaceInv, [SpaceNext]_spaceVars
  PROVE  SpaceInv'
<1>1. CASE SpaceNext
  <2>1. PICK e \in Envs :
          \/ initialize_environment(e) \/ Start(e) \/ env_free(e)
          \/ \E range \in Ranges : freeMem(e, range)
          \/ \E p \in Pages :
               \/ LoadPage(e, p) \/ table_fault_handler(e, p) \/ command_allocuserpage(e, p)
               \/ createSharedObject(e, p) \/ getSharedObject(e, p) \/ freeSharedObject(e, p)
               \/ \E b \in BOOLEAN : PlacePage(e, p, b) \/ __sys_allocate_page(e, p, b)
               \/ \E victim \in ws[e], b \in BOOLEAN : ReplacePage(e, p, victim, b)
    BY <1>1 DEF SpaceNext
  <2>2. CASE initialize_environment(e)
    BY <2>2, InitializeKeeps
  <2>3. CASE Start(e)
    BY <2>3, StartKeeps
  <2>4. CASE env_free(e)
    BY <2>4, EnvFreeKeeps
  <2>5. CASE \E range \in Ranges : freeMem(e, range)
    BY <2>5, FreeMemKeeps
  <2>6. ASSUME NEW p \in Pages, LoadPage(e, p) PROVE SpaceInv'
    BY <2>6, LoadPageKeeps
  <2>7. ASSUME NEW p \in Pages, table_fault_handler(e, p) PROVE SpaceInv'
    BY <2>7, TableFaultKeeps
  <2>8. ASSUME NEW p \in Pages, command_allocuserpage(e, p) PROVE SpaceInv'
    BY <2>8, AllocUserPageKeeps
  <2>9. ASSUME NEW p \in Pages, createSharedObject(e, p) PROVE SpaceInv'
    BY <2>9, CreateSharedKeeps
  <2>10. ASSUME NEW p \in Pages, getSharedObject(e, p) PROVE SpaceInv'
    BY <2>10, GetSharedKeeps
  <2>11. ASSUME NEW p \in Pages, freeSharedObject(e, p) PROVE SpaceInv'
    BY <2>11, FreeSharedKeeps
  <2>12. ASSUME NEW p \in Pages, NEW b \in BOOLEAN, PlacePage(e, p, b) PROVE SpaceInv'
    BY <2>12, PlacePageKeeps
  <2>13. ASSUME NEW p \in Pages, NEW b \in BOOLEAN, __sys_allocate_page(e, p, b) PROVE SpaceInv'
    BY <2>13, AllocatePageKeeps
  <2>14. ASSUME NEW p \in Pages, NEW victim \in ws[e], NEW b \in BOOLEAN,
                ReplacePage(e, p, victim, b)
         PROVE  SpaceInv'
    BY <2>14, ReplacePageKeeps
  <2>15. QED
    BY <2>1, <2>2, <2>3, <2>4, <2>5, <2>6, <2>7, <2>8, <2>9, <2>10, <2>11, <2>12, <2>13, <2>14
<1>2. CASE UNCHANGED spaceVars
  <2>1. /\ mem' = mem /\ status' = status /\ ws' = ws /\ shares' = shares /\ lost' = lost
        /\ Keeps
    BY <1>2 DEF spaceVars, Keeps
  <2>2. SpaceTypeOK /\ Accounted(mem, lost, ws, shares) /\ \A c \in Envs : ws[c] \subseteq Pages
    BY InSpaceInv DEF SpaceInv
  <2>3. /\ mem \in Mem /\ mem.panic = FALSE /\ StatusOK(status)
        /\ ws \in [Envs -> SUBSET Pages] /\ shares \in Nat \cup {NULL} /\ lost \subseteq Frames
    BY <2>2, TypesOfSpace
  <2>4. QED
    BY <2>1, <2>2, <2>3, ToSpaceInv
<1>3. QED
  BY <1>1, <1>2

-----------------------------------------------------------------------------
(***************************************************************************)
(* What the invariant says in the words of the properties.                 *)
(***************************************************************************)
\* get_frame_info finds what is mapped.
LEMMA Found ==
  ASSUME SpaceInv
  PROVE  \A d \in Spaces, p \in UserPages : get_frame_info(mem, d, p) = MappedAt(mem, d, p)
BY InSpaceInv, Lookup

LEMMA InvReferences ==
  ASSUME SpaceInv
  PROVE  ReferencesExact
<1>1. \A e \in Envs, p \in UserPages : get_frame_info(mem, e, p) = MappedAt(mem, e, p)
  BY Found, NotNumbers
<1>2. \A k \in Envs \X UserPages : k[1] \in Envs /\ k[2] \in UserPages
  OBVIOUS
<1>3. \A f \in Frames : Mappings(f) = MappingsOf(mem, f)
  <2>1. \A f \in Frames : Mappings(f) = {k \in Envs \X UserPages : get_frame_info(mem, k[1], k[2]) = f}
    BY DEF Mappings, UserPages
  <2>2. QED
    BY <1>1, <1>2, <2>1 DEF MappingsOf
<1>4. Counted(mem, lost)
  BY InSpaceInv DEF Good
<1>5. QED
  BY <1>3, <1>4 DEF ReferencesExact, Counted, References, HeapPagesOf

LEMMA InvTables ==
  ASSUME SpaceInv
  PROVE  TablesFound /\ TablesClean
<1>1. \A k \in TablesInUse :
        /\ k[1] \in Spaces /\ k[2] \in Tables /\ TableFrame(k) # NULL
        /\ TableFrame(k) = mem.page_directory[k[1]][k[2]] /\ k = <<k[1], k[2]>>
  BY DEF TablesInUse, TableFrame
<1>2. \A k \in TablesInUse : TableOK(mem, k[1], k[2], TableFrame(k))
  BY <1>1, InSpaceInv DEF TablesOK
<1>3. TablesFound
  <2> SUFFICES ASSUME NEW k \in TablesInUse
               PROVE  /\ mem.frames_info[TableFrame(k)].va \in HeapPages
                      /\ mem.heap[mem.frames_info[TableFrame(k)].va] = TableFrame(k)
                      /\ \A j \in TablesInUse : j # k => TableFrame(j) # TableFrame(k)
    BY DEF TablesFound
  <2>1. \A j \in TablesInUse : TableFrame(j) = TableFrame(k) => j = k
    <3> SUFFICES ASSUME NEW j \in TablesInUse, TableFrame(j) = TableFrame(k)
                 PROVE  j = k
      OBVIOUS
    <3>1. j[1] = k[1] /\ j[2] = k[2]
      BY <1>1, <1>2 DEF TableOK
    <3>2. QED
      BY <1>1, <3>1
  <2>2. QED
    BY <1>2, <2>1 DEF TableOK
<1>4. TablesClean
  BY <1>2 DEF TablesClean, TableOK
<1>5. QED
  BY <1>3, <1>4

LEMMA InvPrivate ==
  ASSUME SpaceInv
  PROVE  FramesPrivate
<1>1. Private(mem) /\ Apart(mem, shares # NULL)
  BY InSpaceInv DEF Accounted, User
<1>2. \A e \in Envs, p \in Pages : get_frame_info(mem, e, p) = MappedAt(mem, e, p)
  BY Found, NotNumbers, PagesKnown
<1>3. get_frame_from_storage(mem, 0) = SharedFrame(mem)
  BY SharedFrameFound
<1> SUFFICES ASSUME NEW e \in Envs, NEW p \in Mapped(e)
             PROVE  /\ \A h \in HeapPages : mem.heap[h] # get_frame_info(mem, e, p)
                    /\ \A g \in Envs : \A q \in Mapped(g) :
                         <<g, q>> # <<e, p>>
                           /\ get_frame_info(mem, g, q) = get_frame_info(mem, e, p) =>
                         shares # NULL
                           /\ get_frame_info(mem, e, p) = get_frame_from_storage(mem, 0)
  BY DEF FramesPrivate
<1>4. p \in Pages /\ MappedAt(mem, e, p) # NULL
  BY <1>2 DEF Mapped
<1>5. \A h \in HeapPages : mem.heap[h] # MappedAt(mem, e, p)
  BY <1>1, <1>4 DEF Private
<1>6. ASSUME NEW g \in Envs, NEW q \in Mapped(g), <<g, q>> # <<e, p>>,
             MappedAt(mem, g, q) = MappedAt(mem, e, p)
      PROVE  shares # NULL /\ MappedAt(mem, e, p) = SharedFrame(mem)
  <2>1. q \in Pages /\ q \in UserPages /\ p \in UserPages /\ ~(e = g /\ p = q)
    BY <1>4, <1>6, PagesKnown DEF Mapped
  <2>2. QED
    BY <1>1, <1>4, <1>6, <2>1 DEF Apart
<1>7. \A g \in Envs : \A q \in Mapped(g) : get_frame_info(mem, g, q) = MappedAt(mem, g, q)
  BY <1>2 DEF Mapped
<1>8. QED
  BY <1>2, <1>3, <1>4, <1>5, <1>6, <1>7

(***************************************************************************)
(* Whatever programs and the prompt do, in any order: the counts of        *)
(* references, the directories, the pages of the kernel heap and the       *)
(* working sets fit together, for every number of environments, pages,     *)
(* frames and heap pages (kern/memory_manager.c).                          *)
(***************************************************************************)
THEOREM SpaceInvariant == SpaceSpec => []SpaceInv
<1>1. SpaceInit => SpaceInv
  BY SpaceInitKeeps
<1>2. SpaceInv /\ [SpaceNext]_spaceVars => SpaceInv'
  BY SpaceNextKeeps
<1>3. QED
  BY <1>1, <1>2, PTL DEF SpaceSpec

(***************************************************************************)
(* The references of a frame are the entries that map it, a frame without  *)
(* any is free or was lost, and the kernel finds every page table.         *)
(***************************************************************************)
THEOREM SpaceAccounted == SpaceSpec => []MemoryAccounted
<1>1. SpaceInv => MemoryAccounted
  BY InvReferences, InvTables DEF MemoryAccounted, SpaceInv
<1>2. QED
  BY <1>1, SpaceInvariant, PTL

(***************************************************************************)
(* No program reaches the kernel's heap or what another program has, but   *)
(* for the shared object, and no table starts with what its frame held     *)
(* before.                                                                 *)
(***************************************************************************)
THEOREM SpaceApart == SpaceSpec => []ProgramsApart
<1>1. SpaceInv => ProgramsApart
  BY InvPrivate, InvTables DEF ProgramsApart
<1>2. QED
  BY <1>1, SpaceInvariant, PTL
=============================================================================
