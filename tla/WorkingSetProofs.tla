--------------------------- MODULE WorkingSetProofs ---------------------------
(***************************************************************************)
(* Demand paging keeps what a program stores, stays within the working set *)
(* and replaces pages in the order in which they came: the proof for every *)
(* size of the areas, of the working set and of the page file.             *)
(***************************************************************************)
EXTENDS WorkingSet, FiniteSetTheorems, TLAPS

\* A page has at most one entry, and a page with an entry is mapped and legal.
EntriesOK ==
  /\ InWorkingSet \subseteq Resident \cap Legal
  /\ \A i, j \in Entry : ptr_pageWorkingSet[i] = ptr_pageWorkingSet[j]
                           /\ ptr_pageWorkingSet[i] # NULL => i = j

\* The blocks a program holds share no page.
BlocksOK == \A b, c \in blocks : b # c => Pages(b) \cap Pages(c) = {}

\* What is legal is in the page file, unless there was no room for it or nobody has
\* touched it yet; what is not legal is not.
BackedOK ==
  /\ Image \subseteq InPageFile /\ InPageFile \subseteq Legal
  /\ \A p \in Legal : \/ p \in InPageFile \cup unbacked
                      \/ p \in Stack \ Resident /\ written[p] = Junk

\* A page that was not modified is in the page file as it is in memory; a page that
\* is no longer legal still holds what is stored in it.
ContentsOK ==
  /\ Coherent
  /\ \A p \in (Legal \cap Resident) \ (unbacked \cup modified) :
       written[p] # Junk => page_file[p] = written[p]
  /\ \A p \in Page \ Legal :
       written[p] # Junk => memory[p] = written[p] /\ p \in modified

\* As long as nothing has been freed, the entries fill up in order.
FilledInOrder ==
  frees = 0 =>
    /\ Resident = InWorkingSet
    /\ \/ \A j \in Entry : ptr_pageWorkingSet[j] # NULL
       \/ \A j \in Entry : ptr_pageWorkingSet[j] # NULL <=> j < page_last_WS_index

\* The inductive invariant of demand paging.
WorkingSetInv == /\ TypeOK /\ EntriesOK /\ BlocksOK /\ BackedOK /\ ContentsOK
                 /\ TablesFollowPages /\ KilledOnlyIfInvalid /\ FilledInOrder

\* A number below m is its own remainder, and adding m does not change a remainder.
LEMMA Remainders ==
  ASSUME NEW m \in Nat \ {0}, NEW x \in Int
  PROVE  /\ x % m \in 0..m - 1
         /\ x \in 0..m - 1 => x % m = x /\ (x + m) % m = x
OBVIOUS

\* The entries are the numbers below the size of the working set.
LEMMA Sizes ==
  /\ page_WS_max_size \in Nat \ {0} /\ NPTENTRIES \in Nat \ {0}
  /\ Entry = 0..page_WS_max_size - 1 /\ 0 \in Entry /\ Entry \subseteq Nat
  /\ Page \subseteq Nat /\ NULL \notin Page /\ NULL \notin Data /\ NULL # Junk
  /\ 0 \in Data /\ Junk \notin Data
  /\ Image \subseteq Page /\ Heap \subseteq Page /\ Stack \subseteq Page
  /\ Image \cap Heap = {} /\ Stack \cap Heap = {} /\ Image \cap Stack = {}
  /\ Unloaded \subseteq Image /\ IsFiniteSet(Page) /\ MaxFrees \in Nat
<1>1. /\ page_WS_max_size \in Nat \ {0} /\ NPTENTRIES \in Nat \ {0}
      /\ Page \subseteq Nat /\ NULL \notin Page /\ NULL \notin Data /\ NULL # Junk
      /\ 0 \in Data /\ Junk \notin Data
      /\ Unloaded \subseteq Image /\ IsFiniteSet(Page) /\ MaxFrees \in Nat
  BY WorkingSetAssumption
<1>2. Image \subseteq Page /\ Heap \subseteq Page /\ Stack \subseteq Page
  BY DEF Page
<1>3. Entry = 0..page_WS_max_size - 1 /\ 0 \in Entry /\ Entry \subseteq Nat
  BY <1>1 DEF Entry
<1>4. Image \cap Heap = {} /\ Stack \cap Heap = {} /\ Image \cap Stack = {}
  <2>1. /\ \A p \in Image, q \in Heap : p < q
        /\ \A p \in Image \cup Heap, q \in Stack : p < q
    BY WorkingSetAssumption
  <2>2. \A p \in Page : ~(p < p)
    BY <1>1
  <2>3. QED
    BY <1>2, <2>1, <2>2
<1>5. QED
  BY <1>1, <1>2, <1>3, <1>4

\* The working set counts as full when every entry holds a page.
LEMMA FullWorkingSet ==
  /\ env_page_ws_get_size = page_WS_max_size
       => \A j \in Entry : ptr_pageWorkingSet[j] # NULL
  /\ env_page_ws_get_size < page_WS_max_size
       => \E j \in Entry : ptr_pageWorkingSet[j] = NULL
<1> DEFINE U == {j \in Entry : ptr_pageWorkingSet[j] # NULL}
<1>1. IsFiniteSet(Entry) /\ Cardinality(Entry) = page_WS_max_size
  <2>1. PICK m \in Nat \ {0} : m = page_WS_max_size
    BY Sizes
  <2>2. IsFiniteSet(0..m - 1) /\ Cardinality(0..m - 1) = (m - 1) - 0 + 1
    BY FS_Interval
  <2>3. QED
    BY <2>1, <2>2, Sizes
<1>2. U \in SUBSET Entry
  OBVIOUS
<1>3. Cardinality(U) = Cardinality(Entry) => U = Entry
  BY <1>1, <1>2, FS_Subset
<1>4. U = Entry => Cardinality(U) = page_WS_max_size
  BY <1>1
<1>5. env_page_ws_get_size = Cardinality(U)
  BY DEF env_page_ws_get_size
<1>6. env_page_ws_get_size < page_WS_max_size => U # Entry
  BY <1>4, <1>5, Sizes
<1>7. QED
  BY <1>1, <1>3, <1>5, <1>6

\* The program image, the stack and what malloc gave are pages.
LEMMA LegalPages ==
  ASSUME blocks \subseteq Block
  PROVE  /\ Legal \subseteq Page /\ Image \subseteq Legal /\ Stack \subseteq Legal
         /\ \A b \in Block : Pages(b) \subseteq Heap
         /\ \A p \in Legal : p \in Image \/ p \in Stack \/ \E b \in blocks : p \in Pages(b)
BY Sizes DEF Legal, Block

\* Page p is loaded, after the pages of "gone" were saved and unmapped.
PageComes(p, gone) ==
  /\ \A q \in Page \ {p} :
       /\ q \in gone => memory'[q] = NULL
       /\ q \notin gone => memory'[q] = memory[q]
       /\ q \in gone \cap modified \cap InPageFile => page_file'[q] = memory[q]
       /\ q \notin gone \cap modified \cap InPageFile => page_file'[q] = page_file[q]
  /\ modified' = modified \ (gone \cup {p})
  /\ \/ /\ p \in InPageFile
        /\ memory'[p] = page_file[p] /\ page_file'[p] = page_file[p]
        /\ unbacked' = unbacked
     \/ /\ p \in Stack \ InPageFile /\ memory'[p] = Junk
        /\ \/ page_file'[p] \in {0, Junk} /\ unbacked' = unbacked
           \/ page_file'[p] = NULL /\ unbacked' = unbacked \cup {p}

\* PlacePage loads a page and unmaps none.
LEMMA PlaceComes ==
  ASSUME TypeOK, NEW p \in Page, PlacePage(p)
  PROVE  /\ memory' \in [Page -> Data \cup {Junk, NULL}]
         /\ page_file' \in [Page -> Data \cup {Junk, NULL}]
         /\ PageComes(p, {})
<1>1. /\ memory \in [Page -> Data \cup {Junk, NULL}]
      /\ page_file \in [Page -> Data \cup {Junk, NULL}]
  BY DEF TypeOK
<1>2. modified' = modified \ {p}
  BY DEF PlacePage
<1>3. CASE /\ p \in InPageFile
           /\ memory' = [memory EXCEPT ![p] = page_file[p]]
           /\ UNCHANGED <<page_file, unbacked>>
  BY <1>1, <1>2, <1>3 DEF PageComes
<1>4. CASE /\ p \in Stack \ InPageFile
           /\ memory' = [memory EXCEPT ![p] = Junk]
           /\ page_file' = IF PageFileFull THEN page_file ELSE [page_file EXCEPT ![p] = Junk]
           /\ unbacked' = IF PageFileFull THEN unbacked \cup {p} ELSE unbacked
  <2>1. page_file[p] = NULL
    BY <1>4 DEF InPageFile
  <2>2. memory' \in [Page -> Data \cup {Junk, NULL}]
    BY <1>1, <1>4
  <2>3. CASE PageFileFull
    BY <1>1, <1>2, <1>4, <2>1, <2>2, <2>3 DEF PageComes
  <2>4. CASE ~PageFileFull
    BY <1>1, <1>2, <1>4, <2>2, <2>4 DEF PageComes
  <2>5. QED
    BY <2>3, <2>4
<1>5. QED
  BY <1>3, <1>4 DEF PlacePage

\* ReplacePage loads a page and unmaps the one whose entry it takes.
LEMMA ReplaceComes ==
  ASSUME TypeOK, NEW p \in Page, ReplacePage(p),
         ptr_pageWorkingSet[page_last_WS_index] \in Page \ {p}
  PROVE  /\ memory' \in [Page -> Data \cup {Junk, NULL}]
         /\ page_file' \in [Page -> Data \cup {Junk, NULL}]
         /\ PageComes(p, {ptr_pageWorkingSet[page_last_WS_index]})
<1> DEFINE v == ptr_pageWorkingSet[page_last_WS_index]
           saved == pf_update_env_page(v)
<1>1. /\ memory \in [Page -> Data \cup {Junk, NULL}]
      /\ page_file \in [Page -> Data \cup {Junk, NULL}]
  BY DEF TypeOK
<1>2. /\ modified' = modified \ {v, p}
      /\ \/ /\ p \in InPageFile
            /\ memory' = [memory EXCEPT ![v] = NULL, ![p] = page_file[p]]
            /\ page_file' = saved
            /\ UNCHANGED unbacked
         \/ /\ p \in Stack \ InPageFile
            /\ memory' = [memory EXCEPT ![v] = NULL, ![p] = Junk]
            /\ page_file' = IF PageFileFull THEN saved ELSE [saved EXCEPT ![p] = 0]
            /\ unbacked' = IF PageFileFull THEN unbacked \cup {p} ELSE unbacked
  BY DEF ReplacePage
<1>3. v \in Page /\ v # p
  OBVIOUS
<1>4. /\ saved \in [Page -> Data \cup {Junk, NULL}]
      /\ v \in modified \cap InPageFile => saved[v] = memory[v]
      /\ v \notin modified \cap InPageFile => saved[v] = page_file[v]
      /\ \A q \in Page : q # v => saved[q] = page_file[q]
  BY <1>1, <1>3 DEF pf_update_env_page
<1> HIDE DEF v, saved
<1>5. CASE /\ p \in InPageFile
           /\ memory' = [memory EXCEPT ![v] = NULL, ![p] = page_file[p]]
           /\ page_file' = saved
           /\ UNCHANGED unbacked
  <2>1. /\ memory' \in [Page -> Data \cup {Junk, NULL}]
        /\ memory'[p] = page_file[p] /\ memory'[v] = NULL
        /\ \A q \in Page : q # p /\ q # v => memory'[q] = memory[q]
    BY <1>1, <1>3, <1>5
  <2>2. PageComes(p, {v})
    BY <1>2, <1>3, <1>4, <1>5, <2>1 DEF PageComes
  <2>3. QED
    BY <1>4, <1>5, <2>1, <2>2 DEF v
<1>6. CASE /\ p \in Stack \ InPageFile
           /\ memory' = [memory EXCEPT ![v] = NULL, ![p] = Junk]
           /\ page_file' = IF PageFileFull THEN saved ELSE [saved EXCEPT ![p] = 0]
           /\ unbacked' = IF PageFileFull THEN unbacked \cup {p} ELSE unbacked
  <2>1. /\ memory' \in [Page -> Data \cup {Junk, NULL}]
        /\ memory'[p] = Junk /\ memory'[v] = NULL
        /\ \A q \in Page : q # p /\ q # v => memory'[q] = memory[q]
    BY <1>1, <1>3, <1>6
  <2>2. page_file[p] = NULL /\ saved[p] = page_file[p]
    BY <1>3, <1>4, <1>6 DEF InPageFile
  <2>3. /\ page_file' \in [Page -> Data \cup {Junk, NULL}]
        /\ \A q \in Page : q # p => page_file'[q] = saved[q]
        /\ \/ page_file'[p] \in {0, Junk} /\ unbacked' = unbacked
           \/ page_file'[p] = NULL /\ unbacked' = unbacked \cup {p}
    BY <1>4, <1>6, <2>2, Sizes
  <2>4. PageComes(p, {v})
    BY <1>2, <1>3, <1>4, <1>6, <2>1, <2>3 DEF PageComes
  <2>5. QED
    BY <2>1, <2>3, <2>4 DEF v
<1>7. QED
  BY <1>2, <1>5, <1>6

\* What a page fault of p does: the page of its entry gives way only when the
\* working set is full.
LEMMA HandlerLoads ==
  ASSUME WorkingSetInv, NEW p \in Page, page_fault_handler(p)
  PROVE  /\ memory' \in [Page -> Data \cup {Junk, NULL}]
         /\ page_file' \in [Page -> Data \cup {Junk, NULL}]
         /\ p \notin Resident /\ p \notin InWorkingSet
         /\ page_last_WS_index \in Entry
         /\ ptr_pageWorkingSet' = [ptr_pageWorkingSet EXCEPT ![page_last_WS_index] = p]
         /\ page_last_WS_index' = (page_last_WS_index + 1) % page_WS_max_size
         /\ \/ /\ PageComes(p, {})
               /\ \E j \in Entry : ptr_pageWorkingSet[j] = NULL
            \/ /\ ptr_pageWorkingSet[page_last_WS_index] \in InWorkingSet
               /\ PageComes(p, {ptr_pageWorkingSet[page_last_WS_index]})
               /\ \A j \in Entry : ptr_pageWorkingSet[j] # NULL
               /\ env_page_ws_get_size = page_WS_max_size
<1>1. /\ TypeOK /\ EntriesOK /\ p \notin Resident
      /\ page_last_WS_index \in Entry
      /\ ptr_pageWorkingSet \in [Entry -> Page \cup {NULL}]
  BY DEF WorkingSetInv, TypeOK, page_fault_handler
<1>2. p \notin InWorkingSet
  BY <1>1 DEF EntriesOK
<1>3. /\ ptr_pageWorkingSet' = [ptr_pageWorkingSet EXCEPT ![page_last_WS_index] = p]
      /\ page_last_WS_index' = (page_last_WS_index + 1) % page_WS_max_size
  BY DEF page_fault_handler, env_page_ws_set_entry
<1>4. CASE PlacePage(p)
  <2>1. \E j \in Entry : ptr_pageWorkingSet[j] = NULL
    BY <1>4, FullWorkingSet DEF PlacePage
  <2>2. QED
    BY <1>1, <1>2, <1>3, <1>4, <2>1, PlaceComes
<1>5. CASE ReplacePage(p)
  <2>1. env_page_ws_get_size = page_WS_max_size
    BY <1>5 DEF ReplacePage
  <2>2. \A j \in Entry : ptr_pageWorkingSet[j] # NULL
    BY <2>1, FullWorkingSet
  <2>3. ptr_pageWorkingSet[page_last_WS_index] \in InWorkingSet
    BY <1>1, <2>2 DEF InWorkingSet
  <2>4. ptr_pageWorkingSet[page_last_WS_index] \in Page \ {p}
    BY <1>1, <1>2, <2>2, <2>3
  <2>5. QED
    BY <1>1, <1>2, <1>3, <1>5, <2>1, <2>2, <2>3, <2>4, ReplaceComes
<1>6. QED
  BY <1>4, <1>5 DEF page_fault_handler

\* Loading a page, after saving those that give way, keeps all contents.
LEMMA ContentsSurviveFault ==
  ASSUME WorkingSetInv, NEW p \in Page, p \notin Resident, NEW gone \in SUBSET InWorkingSet,
         memory' \in [Page -> Data \cup {Junk, NULL}],
         page_file' \in [Page -> Data \cup {Junk, NULL}],
         PageComes(p, gone), UNCHANGED <<blocks, written>>
  PROVE  /\ Legal' = Legal
         /\ Resident' = (Resident \ gone) \cup {p}
         /\ InPageFile \subseteq InPageFile' /\ InPageFile' \subseteq InPageFile \cup {p}
         /\ p \in Legal /\ gone \subseteq Legal \cap Page
         /\ modified' \subseteq Page /\ unbacked' \subseteq Page
         /\ BackedOK' /\ ContentsOK'
<1>1. /\ TypeOK /\ EntriesOK /\ BackedOK /\ ContentsOK /\ blocks \subseteq Block
      /\ memory \in [Page -> Data \cup {Junk, NULL}]
      /\ page_file \in [Page -> Data \cup {Junk, NULL}]
      /\ modified \subseteq Page /\ unbacked \subseteq Page
      /\ blocks' = blocks /\ written' = written
  BY DEF WorkingSetInv, TypeOK
<1>2. /\ Legal' = Legal /\ Legal \subseteq Page
      /\ Image \subseteq Legal /\ Stack \subseteq Legal
  BY <1>1, LegalPages DEF Legal
<1>3. /\ gone \subseteq Legal /\ gone \subseteq Resident /\ gone \subseteq Page /\ p \notin gone
  BY <1>1, <1>2 DEF EntriesOK
<1>4. /\ \A q \in Page : q \in Resident <=> memory[q] # NULL
      /\ \A q \in Page : q \in Resident' <=> memory'[q] # NULL
      /\ \A q \in Page : q \in InPageFile <=> page_file[q] # NULL
      /\ \A q \in Page : q \in InPageFile' <=> page_file'[q] # NULL
      /\ Resident \subseteq Page /\ Resident' \subseteq Page
      /\ InPageFile \subseteq Page /\ InPageFile' \subseteq Page
  BY DEF Resident, InPageFile
<1>5. /\ \A q \in Page : q # p /\ q \in gone => memory'[q] = NULL
      /\ \A q \in Page : q # p /\ q \notin gone => memory'[q] = memory[q]
      /\ \A q \in Page : q # p /\ q \in gone /\ q \in modified /\ q \in InPageFile =>
           page_file'[q] = memory[q]
      /\ \A q \in Page : q # p /\ ~(q \in gone /\ q \in modified /\ q \in InPageFile) =>
           page_file'[q] = page_file[q]
      /\ modified' = modified \ (gone \cup {p})
  BY DEF PageComes
<1>6. \/ /\ p \in InPageFile
         /\ memory'[p] = page_file[p] /\ page_file'[p] = page_file[p]
         /\ unbacked' = unbacked
      \/ /\ p \in Stack \ InPageFile /\ memory'[p] = Junk
         /\ \/ page_file'[p] \in {0, Junk} /\ unbacked' = unbacked
            \/ page_file'[p] = NULL /\ unbacked' = unbacked \cup {p}
  BY DEF PageComes
<1>7. /\ memory'[p] # NULL /\ p \in Legal
      /\ p \in InPageFile => p \in InPageFile'
      /\ unbacked \subseteq unbacked' /\ unbacked' \subseteq unbacked \cup {p}
      /\ p \in InPageFile' \cup unbacked'
  <2>1. InPageFile \subseteq Legal
    BY <1>1 DEF BackedOK
  <2>2. Junk # NULL /\ 0 # NULL
    BY Sizes
  <2>3. QED
    BY <1>2, <1>4, <1>6, <2>1, <2>2
<1>8. Resident' = (Resident \ gone) \cup {p}
  BY <1>4, <1>5, <1>7
<1>9. InPageFile \subseteq InPageFile' /\ InPageFile' \subseteq InPageFile \cup {p}
  BY <1>3, <1>4, <1>5, <1>7
<1>10. BackedOK'
  <2>1. Image \subseteq InPageFile'
    BY <1>1, <1>9 DEF BackedOK
  <2>2. InPageFile' \subseteq Legal'
    BY <1>1, <1>2, <1>7, <1>9 DEF BackedOK
  <2>3. ASSUME NEW q \in Legal
        PROVE  \/ q \in InPageFile' \cup unbacked'
               \/ q \in Stack \ Resident' /\ written'[q] = Junk
    <3>1. CASE q = p
      BY <1>7, <3>1
    <3>2. CASE q # p
      <4>1. q \in InPageFile \cup unbacked \/ (q \in Stack \ Resident /\ written[q] = Junk)
        BY <1>1 DEF BackedOK
      <4>2. QED
        BY <1>1, <1>7, <1>8, <1>9, <3>2, <4>1
    <3>3. QED
      BY <3>1, <3>2
  <2>4. QED
    BY <1>2, <2>1, <2>2, <2>3 DEF BackedOK
<1>11. ASSUME p \notin unbacked', written[p] # Junk
       PROVE  /\ p \in InPageFile /\ page_file[p] = written[p]
              /\ memory'[p] = written[p] /\ page_file'[p] = written[p]
  <2>1. p \in InPageFile
    <3>1. p \in InPageFile \cup unbacked
      BY <1>1, <1>7, <1>11 DEF BackedOK
    <3>2. QED
      BY <1>7, <1>11, <3>1
  <2>2. page_file[p] = written[p]
    BY <1>1, <1>7, <1>11 DEF ContentsOK, Coherent
  <2>3. QED
    BY <1>6, <2>1, <2>2
<1>12. Coherent'
  <2> SUFFICES ASSUME NEW q \in Legal', q \notin unbacked', written'[q] # Junk
               PROVE  /\ q \in Resident' => written'[q] = memory'[q]
                      /\ q \notin Resident' => written'[q] = page_file'[q]
    BY DEF Coherent
  <2>1. q \in Legal /\ q \in Page /\ q \notin unbacked /\ written[q] # Junk
    BY <1>1, <1>2, <1>7
  <2>2. CASE q = p
    BY <1>1, <1>8, <1>11, <2>1, <2>2
  <2>3. CASE q # p /\ q \in gone
    <3>1. q \in Resident /\ q \notin Resident' /\ written[q] = memory[q]
      BY <1>1, <1>3, <1>8, <2>1, <2>3 DEF ContentsOK, Coherent
    <3>2. q \in InPageFile
      BY <1>1, <2>1 DEF BackedOK
    <3>3. page_file'[q] = written[q]
      <4>1. CASE q \in modified
        BY <1>5, <2>1, <2>3, <3>1, <3>2, <4>1
      <4>2. CASE q \notin modified
        <5>1. page_file[q] = written[q]
          BY <1>1, <2>1, <3>1, <4>2 DEF ContentsOK
        <5>2. QED
          BY <1>5, <2>1, <2>3, <4>2, <5>1
      <4>3. QED
        BY <4>1, <4>2
    <3>4. QED
      BY <1>1, <3>1, <3>3
  <2>4. CASE q # p /\ q \notin gone
    <3>1. /\ q \in Resident' <=> q \in Resident
          /\ memory'[q] = memory[q] /\ page_file'[q] = page_file[q]
      BY <1>5, <1>8, <2>1, <2>4
    <3>2. /\ q \in Resident => written[q] = memory[q]
          /\ q \notin Resident => written[q] = page_file[q]
      BY <1>1, <2>1 DEF ContentsOK, Coherent
    <3>3. QED
      BY <1>1, <3>1, <3>2
  <2>5. QED
    BY <2>2, <2>3, <2>4
<1>13. ASSUME NEW q \in Legal, q \in Resident', q \notin unbacked', q \notin modified',
              written[q] # Junk
       PROVE  page_file'[q] = written[q]
  <2>1. CASE q = p
    BY <1>11, <1>13, <2>1
  <2>2. CASE q # p
    <3>1. /\ q \in Page /\ q \in Resident /\ q \notin gone /\ q \notin unbacked
          /\ q \notin modified
      BY <1>2, <1>5, <1>7, <1>8, <1>13, <2>2
    <3>2. page_file[q] = written[q]
      BY <1>1, <1>13, <3>1 DEF ContentsOK
    <3>3. QED
      BY <1>5, <2>2, <3>1, <3>2
  <2>3. QED
    BY <2>1, <2>2
<1>14. ASSUME NEW q \in Page \ Legal, written[q] # Junk
       PROVE  memory'[q] = written[q] /\ q \in modified'
  <2>1. q # p /\ q \notin gone
    BY <1>3, <1>7
  <2>2. memory[q] = written[q] /\ q \in modified
    BY <1>1, <1>14 DEF ContentsOK
  <2>3. QED
    BY <1>5, <2>1, <2>2
<1>15. ContentsOK'
  BY <1>1, <1>2, <1>12, <1>13, <1>14 DEF ContentsOK
<1>16. modified' \subseteq Page /\ unbacked' \subseteq Page
  BY <1>1, <1>5, <1>7
<1>17. QED
  BY <1>2, <1>3, <1>7, <1>8, <1>9, <1>10, <1>15, <1>16

\* The working set after p took the entry of x: p is in it, x no longer.
LEMMA EntryTaken ==
  ASSUME WorkingSetInv, NEW p \in Page, p \notin InWorkingSet,
         page_last_WS_index \in Entry,
         ptr_pageWorkingSet' = [ptr_pageWorkingSet EXCEPT ![page_last_WS_index] = p],
         page_last_WS_index' = (page_last_WS_index + 1) % page_WS_max_size
  PROVE  /\ ptr_pageWorkingSet' \in [Entry -> Page \cup {NULL}]
         /\ page_last_WS_index' \in Entry
         /\ InWorkingSet' = (InWorkingSet \ {ptr_pageWorkingSet[page_last_WS_index]}) \cup {p}
         /\ \A i, j \in Entry : ptr_pageWorkingSet'[i] = ptr_pageWorkingSet'[j]
                                  /\ ptr_pageWorkingSet'[i] # NULL => i = j
<1> DEFINE x == page_last_WS_index
           w == ptr_pageWorkingSet
           v == ptr_pageWorkingSet'
<1>1. /\ w \in [Entry -> Page \cup {NULL}]
      /\ \A i, j \in Entry : w[i] = w[j] /\ w[i] # NULL => i = j
  BY DEF WorkingSetInv, TypeOK, EntriesOK
<1>2. v \in [Entry -> Page \cup {NULL}] /\ v[x] = p /\ p # NULL
      /\ \A j \in Entry : j # x => v[j] = w[j]
  BY <1>1, Sizes
<1>3. page_last_WS_index' \in Entry
  <2>1. PICK m \in Nat \ {0}, y \in Int : m = page_WS_max_size /\ y = x + 1
    BY Sizes
  <2>2. y % m \in 0..m - 1
    BY Remainders
  <2>3. QED
    BY <2>1, <2>2, Sizes
<1>4. /\ \A q : q \in InWorkingSet <=> q # NULL /\ \E j \in Entry : w[j] = q
      /\ \A q : q \in InWorkingSet' <=> q # NULL /\ \E j \in Entry : v[j] = q
  BY DEF InWorkingSet
<1> HIDE DEF x, w, v
<1>5. x \in Entry
  BY DEF x
<1>6. \A q : q \in InWorkingSet' <=> q = p \/ (q \in InWorkingSet /\ q # w[x])
  BY <1>1, <1>2, <1>4, <1>5
<1>7. \A j \in Entry : w[j] # p
  BY <1>2, <1>4
<1>8. \A i, j \in Entry : v[i] = v[j] /\ v[i] # NULL => i = j
  BY <1>1, <1>2, <1>5, <1>7
<1>9. QED
  BY <1>2, <1>3, <1>6, <1>8 DEF v, w, x

\* Page tables follow the pages through a page fault.
LEMMA TablesSurviveFault ==
  ASSUME TablesFollowPages, NEW p, NEW gone,
         gone \subseteq Legal, Legal' = Legal, Resident' = (Resident \ gone) \cup {p},
         InPageFile' \subseteq InPageFile \cup {p},
         tables' = tables \cup {TableOf(p)}, disk_tables' = disk_tables \cup {TableOf(p)}
  PROVE  TablesFollowPages'
<1>1. /\ TablesOf(Resident) \subseteq tables /\ TablesOf(InPageFile) \subseteq disk_tables
      /\ tables \subseteq TablesOf(Resident \cup Legal)
  BY DEF TablesFollowPages
<1>2. \A S : \A t : t \in TablesOf(S) <=> \E q \in S : t = TableOf(q)
  BY DEF TablesOf
<1>3. \A q \in Resident' : TableOf(q) \in tables'
  BY <1>1, <1>2
<1>4. \A q \in InPageFile' : TableOf(q) \in disk_tables'
  BY <1>1, <1>2
<1>5. \A t \in tables' : \E q \in Resident' \cup Legal' : t = TableOf(q)
  BY <1>1, <1>2
<1>6. QED
  BY <1>3, <1>4, <1>5 DEF TablesFollowPages, TablesOf

\* page_fault_handler keeps the invariant.
LEMMA FaultKeeps ==
  ASSUME WorkingSetInv, NEW p \in Page, page_fault_handler(p)
  PROVE  WorkingSetInv'
<1> DEFINE x == ptr_pageWorkingSet[page_last_WS_index]
<1>1. /\ TypeOK /\ EntriesOK /\ BlocksOK /\ TablesFollowPages /\ KilledOnlyIfInvalid
      /\ FilledInOrder
  BY DEF WorkingSetInv
<1>2. /\ tables' = tables \cup {TableOf(p)} /\ disk_tables' = disk_tables \cup {TableOf(p)}
      /\ blocks' = blocks /\ written' = written /\ killed' = killed /\ frees' = frees
      /\ killed = NULL
  BY DEF page_fault_handler, Running
<1>3. /\ memory' \in [Page -> Data \cup {Junk, NULL}]
      /\ page_file' \in [Page -> Data \cup {Junk, NULL}]
      /\ p \notin Resident /\ p \notin InWorkingSet
      /\ page_last_WS_index \in Entry
      /\ ptr_pageWorkingSet' = [ptr_pageWorkingSet EXCEPT ![page_last_WS_index] = p]
      /\ page_last_WS_index' = (page_last_WS_index + 1) % page_WS_max_size
  BY HandlerLoads
<1>4. PICK gone \in SUBSET InWorkingSet :
        /\ PageComes(p, gone)
        /\ \/ gone = {} /\ \E j \in Entry : ptr_pageWorkingSet[j] = NULL
           \/ gone = {x} /\ \A j \in Entry : ptr_pageWorkingSet[j] # NULL
  BY HandlerLoads
<1>5. /\ Legal' = Legal
      /\ Resident' = (Resident \ gone) \cup {p}
      /\ InPageFile \subseteq InPageFile' /\ InPageFile' \subseteq InPageFile \cup {p}
      /\ p \in Legal /\ gone \subseteq Legal \cap Page
      /\ modified' \subseteq Page /\ unbacked' \subseteq Page
      /\ BackedOK' /\ ContentsOK'
  BY <1>2, <1>3, <1>4, ContentsSurviveFault
<1>6. /\ ptr_pageWorkingSet' \in [Entry -> Page \cup {NULL}]
      /\ page_last_WS_index' \in Entry
      /\ InWorkingSet' = (InWorkingSet \ {x}) \cup {p}
      /\ \A i, j \in Entry : ptr_pageWorkingSet'[i] = ptr_pageWorkingSet'[j]
                               /\ ptr_pageWorkingSet'[i] # NULL => i = j
  BY <1>3, EntryTaken
<1>7. TablesFollowPages'
  BY <1>1, <1>2, <1>5, TablesSurviveFault
<1>8. TypeOK'
  <2>1. TableOf(p) \in TablesOf(Page)
    BY DEF TablesOf
  <2>2. tables' \subseteq TablesOf(Page) /\ disk_tables' \subseteq TablesOf(Page)
    BY <1>1, <1>2, <2>1 DEF TypeOK
  <2>3. QED
    BY <1>1, <1>2, <1>3, <1>5, <1>6, <2>2 DEF TypeOK
<1>9. EntriesOK'
  <2>1. InWorkingSet' \subseteq Resident' \cap Legal'
    BY <1>1, <1>4, <1>5, <1>6 DEF EntriesOK
  <2>2. QED
    BY <1>6, <2>1 DEF EntriesOK
<1>10. BlocksOK'
  BY <1>1, <1>2 DEF BlocksOK
<1>11. KilledOnlyIfInvalid'
  <2>1. NULL \notin Legal
    BY <1>1, LegalPages, Sizes DEF TypeOK
  <2>2. QED
    BY <1>2, <1>5, <2>1 DEF KilledOnlyIfInvalid
<1>12. ASSUME frees' = 0
       PROVE  /\ Resident' = InWorkingSet'
              /\ \/ \A j \in Entry : ptr_pageWorkingSet'[j] # NULL
                 \/ \A j \in Entry : ptr_pageWorkingSet'[j] # NULL
                                       <=> j < page_last_WS_index'
  <2>1. /\ Resident = InWorkingSet
        /\ \/ \A j \in Entry : ptr_pageWorkingSet[j] # NULL
           \/ \A j \in Entry : ptr_pageWorkingSet[j] # NULL <=> j < page_last_WS_index
    BY <1>1, <1>2, <1>12 DEF FilledInOrder
  <2>2. /\ ptr_pageWorkingSet'[page_last_WS_index] = p /\ p # NULL
        /\ \A j \in Entry : j # page_last_WS_index =>
             ptr_pageWorkingSet'[j] = ptr_pageWorkingSet[j]
    BY <1>1, <1>3, Sizes DEF TypeOK
  <2>3. CASE gone = {x} /\ \A j \in Entry : ptr_pageWorkingSet[j] # NULL
    <3>1. Resident' = InWorkingSet'
      BY <1>5, <1>6, <2>1, <2>3
    <3>2. \A j \in Entry : ptr_pageWorkingSet'[j] # NULL
      BY <2>2, <2>3
    <3>3. QED
      BY <3>1, <3>2
  <2>4. CASE gone = {} /\ \E j \in Entry : ptr_pageWorkingSet[j] = NULL
    <3>1. \A j \in Entry : ptr_pageWorkingSet[j] # NULL <=> j < page_last_WS_index
      BY <2>1, <2>4
    <3>2. PICK k \in Nat, m \in Nat \ {0} : /\ k = page_last_WS_index
                                            /\ m = page_WS_max_size /\ Entry = 0..m - 1
      BY <1>3, Sizes
    <3>3. x = NULL
      BY <1>3, <3>1, <3>2
    <3>4. Resident' = InWorkingSet'
      <4>1. x \notin InWorkingSet
        BY <3>3 DEF InWorkingSet
      <4>2. QED
        BY <1>5, <1>6, <2>1, <2>4, <4>1
    <3>5. \A j \in Entry : ptr_pageWorkingSet'[j] # NULL <=> j < k + 1
      BY <1>3, <2>2, <3>1, <3>2
    <3>6. CASE k + 1 \in 0..m - 1
      <4>1. page_last_WS_index' = k + 1
        <5>1. PICK y \in Int : y = k + 1 /\ y \in 0..m - 1
          BY <3>6
        <5>2. y % m = y
          BY <5>1, Remainders
        <5>3. page_last_WS_index' = y % m
          BY <1>3, <3>2, <5>1
        <5>4. QED
          BY <5>1, <5>2, <5>3
      <4>2. QED
        BY <3>4, <3>5, <4>1
    <3>7. CASE k + 1 \notin 0..m - 1
      <4>1. \A j \in Entry : j < k + 1
        BY <3>2, <3>7
      <4>2. QED
        BY <3>4, <3>5, <4>1
    <3>8. QED
      BY <3>6, <3>7
  <2>5. QED
    BY <1>4, <2>3, <2>4
<1>13. FilledInOrder'
  BY <1>12 DEF FilledInOrder
<1>14. QED
  BY <1>5, <1>7, <1>8, <1>9, <1>10, <1>11, <1>13 DEF WorkingSetInv

\* A store keeps the invariant: it marks the page, so that it will be saved.
LEMMA WriteKeeps ==
  ASSUME WorkingSetInv, NEW p \in Page, NEW v \in Data, Write(p, v)
  PROVE  WorkingSetInv'
<1>1. /\ TypeOK /\ EntriesOK /\ BlocksOK /\ BackedOK /\ ContentsOK /\ TablesFollowPages
      /\ KilledOnlyIfInvalid /\ FilledInOrder
  BY DEF WorkingSetInv
<1>2. /\ p \in Resident
      /\ memory' = [memory EXCEPT ![p] = v] /\ written' = [written EXCEPT ![p] = v]
      /\ modified' = modified \cup {p}
      /\ ptr_pageWorkingSet' = ptr_pageWorkingSet
      /\ page_last_WS_index' = page_last_WS_index /\ page_file' = page_file
      /\ tables' = tables /\ disk_tables' = disk_tables /\ blocks' = blocks
      /\ unbacked' = unbacked /\ killed' = killed /\ frees' = frees
  BY DEF Write
<1>3. /\ memory \in [Page -> Data \cup {Junk, NULL}] /\ written \in [Page -> Data \cup {Junk}]
      /\ memory' \in [Page -> Data \cup {Junk, NULL}]
      /\ written' \in [Page -> Data \cup {Junk}]
      /\ memory'[p] = v /\ written'[p] = v /\ v # NULL /\ v # Junk
      /\ \A q \in Page : q # p => memory'[q] = memory[q] /\ written'[q] = written[q]
  BY <1>1, <1>2, Sizes DEF TypeOK
<1>4. Resident' = Resident
  BY <1>2, <1>3 DEF Resident
<1>5. /\ InPageFile' = InPageFile /\ Legal' = Legal /\ InWorkingSet' = InWorkingSet
      /\ Legal \subseteq Page
  BY <1>1, <1>2, LegalPages DEF InPageFile, Legal, InWorkingSet, TypeOK
<1>6. TypeOK'
  BY <1>1, <1>2, <1>3 DEF TypeOK
<1>7. EntriesOK' /\ BlocksOK' /\ TablesFollowPages' /\ KilledOnlyIfInvalid'
  BY <1>1, <1>2, <1>4, <1>5
     DEF EntriesOK, BlocksOK, TablesFollowPages, KilledOnlyIfInvalid
<1>8. FilledInOrder'
  BY <1>1, <1>2, <1>4, <1>5 DEF FilledInOrder
<1>9. BackedOK'
  <2>1. ASSUME NEW q \in Legal
        PROVE  q \in InPageFile \cup unbacked \/ (q \in Stack \ Resident /\ written'[q] = Junk)
    BY <1>1, <1>2, <1>3, <1>5 DEF BackedOK
  <2>2. QED
    BY <1>1, <1>2, <1>4, <1>5, <2>1 DEF BackedOK
<1>10. Coherent'
  <2> SUFFICES ASSUME NEW q \in Legal', q \notin unbacked', written'[q] # Junk
               PROVE  /\ q \in Resident' => written'[q] = memory'[q]
                      /\ q \notin Resident' => written'[q] = page_file'[q]
    BY DEF Coherent
  <2>1. CASE q = p
    BY <1>2, <1>3, <1>4, <2>1
  <2>2. CASE q # p
    <3>1. q \in Page /\ memory'[q] = memory[q] /\ written'[q] = written[q]
      BY <1>3, <1>5, <2>2
    <3>2. /\ q \in Resident => written[q] = memory[q]
          /\ q \notin Resident => written[q] = page_file[q]
      BY <1>1, <1>2, <1>5, <3>1 DEF ContentsOK, Coherent
    <3>3. QED
      BY <1>2, <1>4, <3>1, <3>2
  <2>3. QED
    BY <2>1, <2>2
<1>11. ContentsOK'
  <2>1. ASSUME NEW q \in (Legal \cap Resident) \ (unbacked \cup modified'), written'[q] # Junk
        PROVE  page_file[q] = written'[q]
    BY <1>1, <1>2, <1>3, <1>5, <2>1 DEF ContentsOK
  <2>2. ASSUME NEW q \in Page \ Legal, written'[q] # Junk
        PROVE  memory'[q] = written'[q] /\ q \in modified'
    BY <1>1, <1>2, <1>3, <2>2 DEF ContentsOK
  <2>3. QED
    BY <1>2, <1>4, <1>5, <1>10, <2>1, <2>2 DEF ContentsOK
<1>12. QED
  BY <1>6, <1>7, <1>8, <1>9, <1>11 DEF WorkingSetInv

\* An environment is ended only for an access that nothing backs.
LEMMA AccessKeeps ==
  ASSUME WorkingSetInv, NEW p \in Page, InvalidAccess(p)
  PROVE  WorkingSetInv'
<1>1. /\ TypeOK /\ EntriesOK /\ BlocksOK /\ BackedOK /\ ContentsOK /\ TablesFollowPages
      /\ KilledOnlyIfInvalid /\ FilledInOrder
  BY DEF WorkingSetInv
<1>2. /\ p \notin Resident /\ p \notin InPageFile \cup Stack /\ killed' = p
      /\ memory' = memory /\ written' = written /\ modified' = modified
      /\ ptr_pageWorkingSet' = ptr_pageWorkingSet
      /\ page_last_WS_index' = page_last_WS_index /\ page_file' = page_file
      /\ tables' = tables /\ disk_tables' = disk_tables /\ blocks' = blocks
      /\ unbacked' = unbacked /\ frees' = frees
  BY DEF InvalidAccess
<1>3. /\ Resident' = Resident /\ InPageFile' = InPageFile /\ Legal' = Legal
      /\ InWorkingSet' = InWorkingSet
  BY <1>2 DEF Resident, InPageFile, Legal, InWorkingSet
<1>4. TypeOK'
  BY <1>1, <1>2 DEF TypeOK
<1>5. KilledOnlyIfInvalid'
  <2>1. p \in Legal => p \in unbacked /\ p \in Heap
    <3>1. ASSUME p \in Legal PROVE p \in unbacked /\ p \notin Image /\ p \notin Stack
      BY <1>1, <1>2, <3>1 DEF BackedOK
    <3>2. ASSUME p \in Legal PROVE p \in Heap
      BY <1>1, <3>1, <3>2, LegalPages DEF TypeOK
    <3>3. QED
      BY <3>1, <3>2
  <2>2. QED
    BY <1>2, <1>3, <2>1 DEF KilledOnlyIfInvalid
<1>6. Coherent'
  BY <1>1, <1>2, <1>3 DEF ContentsOK, Coherent
<1>7. EntriesOK' /\ BlocksOK' /\ BackedOK' /\ ContentsOK' /\ TablesFollowPages'
  BY <1>1, <1>2, <1>3, <1>6 DEF EntriesOK, BlocksOK, BackedOK, ContentsOK, TablesFollowPages
<1>8. FilledInOrder'
  BY <1>1, <1>2, <1>3 DEF FilledInOrder
<1>9. QED
  BY <1>4, <1>5, <1>7, <1>8 DEF WorkingSetInv

\* malloc's new pages are in the page file, or noted as those it had no frame for.
LEMMA AllocateKeeps ==
  ASSUME WorkingSetInv, NEW b \in Block, allocateMem(b)
  PROVE  WorkingSetInv'
<1> DEFINE B == Pages(b)
<1>1. /\ TypeOK /\ EntriesOK /\ BlocksOK /\ BackedOK /\ ContentsOK /\ TablesFollowPages
      /\ KilledOnlyIfInvalid /\ FilledInOrder
  BY DEF WorkingSetInv
<1>2. /\ blocks' = blocks \cup {b} /\ disk_tables' = disk_tables \cup TablesOf(B)
      /\ \A c \in blocks : B \cap Pages(c) = {}
      /\ memory' = memory /\ written' = written /\ modified' = modified
      /\ ptr_pageWorkingSet' = ptr_pageWorkingSet
      /\ page_last_WS_index' = page_last_WS_index
      /\ tables' = tables /\ killed' = killed /\ frees' = frees /\ killed = NULL
  BY DEF allocateMem, Running
<1>3. /\ B \subseteq Heap /\ B \subseteq Page /\ blocks \subseteq Block
      /\ Legal \subseteq Page /\ Image \subseteq Legal /\ Stack \subseteq Legal
      /\ \A p \in Legal : p \in Image \/ p \in Stack \/ \E c \in blocks : p \in Pages(c)
  BY <1>1, LegalPages, Sizes DEF TypeOK
<1>4. PICK added \in SUBSET (B \ InPageFile) :
        /\ page_file' = [p \in Page |-> IF p \in added THEN Junk ELSE page_file[p]]
        /\ unbacked' = unbacked \cup ((B \ InPageFile) \ added)
  <2> DEFINE missing == B \ InPageFile
             room    == PageFileFrames - Cardinality(InPageFile)
             added   == IF Cardinality(missing) <= room THEN missing
                        ELSE {p \in missing : Cardinality({q \in missing : q <= p}) <= room}
  <2>1. added \in SUBSET missing
    OBVIOUS
  <2>2. /\ page_file' = [p \in Page |-> IF p \in added THEN Junk ELSE page_file[p]]
        /\ unbacked' = unbacked \cup (missing \ added)
    BY DEF allocateMem, pf_add_empty_env_pages
  <2>3. QED
    BY <2>1, <2>2
<1> HIDE DEF B
<1>5. /\ page_file \in [Page -> Data \cup {Junk, NULL}]
      /\ page_file' \in [Page -> Data \cup {Junk, NULL}]
      /\ \A p \in added : page_file'[p] = Junk
      /\ \A p \in Page : p \notin added => page_file'[p] = page_file[p]
  <2>1. page_file \in [Page -> Data \cup {Junk, NULL}]
    BY <1>1 DEF TypeOK
  <2>2. QED
    BY <1>3, <1>4, <2>1
<1>6. InPageFile' = InPageFile \cup added
  BY <1>3, <1>5, Sizes DEF InPageFile
<1>7. Resident' = Resident /\ InWorkingSet' = InWorkingSet
  BY <1>2 DEF Resident, InWorkingSet
<1>8. Legal' = Legal \cup B /\ Legal \cap B = {}
  <2>1. Legal' = Legal \cup B
    BY <1>2 DEF Legal, B
  <2>2. ASSUME NEW p \in Legal PROVE p \notin B
    BY <1>2, <1>3, Sizes
  <2>3. QED
    BY <2>1, <2>2
<1>9. InPageFile \subseteq Legal /\ B \cap InPageFile = {} /\ B \subseteq InPageFile' \cup unbacked'
      /\ unbacked' \subseteq Page /\ unbacked \subseteq unbacked'
      /\ \A p \in Legal : p \in unbacked' => p \in unbacked
  BY <1>1, <1>3, <1>4, <1>6, <1>8 DEF BackedOK, TypeOK
<1>10. TypeOK'
  <2>1. disk_tables' \subseteq TablesOf(Page)
    BY <1>1, <1>2, <1>3 DEF TypeOK, TablesOf
  <2>2. blocks' \subseteq Block
    BY <1>2, <1>3
  <2>3. QED
    BY <1>1, <1>2, <1>5, <1>9, <2>1, <2>2 DEF TypeOK
<1>11. EntriesOK'
  BY <1>1, <1>2, <1>7, <1>8 DEF EntriesOK
<1>12. BlocksOK'
  BY <1>1, <1>2 DEF BlocksOK, B
<1>13. BackedOK'
  <2>1. Image \subseteq InPageFile' /\ InPageFile' \subseteq Legal'
    BY <1>1, <1>4, <1>6, <1>8 DEF BackedOK
  <2>2. ASSUME NEW p \in Legal'
        PROVE  p \in InPageFile' \cup unbacked' \/ (p \in Stack \ Resident /\ written[p] = Junk)
    <3>1. CASE p \in B
      BY <1>9, <3>1
    <3>2. CASE p \in Legal
      BY <1>1, <1>6, <1>9, <3>2 DEF BackedOK
    <3>3. QED
      BY <1>8, <3>1, <3>2
  <2>3. QED
    BY <1>2, <1>7, <2>1, <2>2 DEF BackedOK
<1>14. Coherent'
  <2> SUFFICES ASSUME NEW p \in Legal', p \notin unbacked', written'[p] # Junk
               PROVE  /\ p \in Resident' => written'[p] = memory'[p]
                      /\ p \notin Resident' => written'[p] = page_file'[p]
    BY DEF Coherent
  <2>1. CASE p \in B
    <3>1. memory[p] = written[p] /\ p \in Page
      BY <1>1, <1>2, <1>3, <1>8, <2>1 DEF ContentsOK
    <3>2. memory[p] # NULL
      BY <1>1, <3>1, Sizes DEF TypeOK
    <3>3. QED
      BY <1>2, <1>7, <3>1, <3>2 DEF Resident
  <2>2. CASE p \in Legal
    <3>1. p \notin unbacked /\ p \in Page /\ p \notin B
      BY <1>3, <1>8, <1>9, <2>2
    <3>2. page_file'[p] = page_file[p]
      BY <1>4, <1>5, <3>1
    <3>3. /\ p \in Resident => written[p] = memory[p]
          /\ p \notin Resident => written[p] = page_file[p]
      BY <1>1, <1>2, <2>2, <3>1 DEF ContentsOK, Coherent
    <3>4. QED
      BY <1>2, <1>7, <3>2, <3>3
  <2>3. QED
    BY <1>8, <2>1, <2>2
<1>15. ContentsOK'
  <2>1. ASSUME NEW p \in Legal', p \in Resident, p \notin unbacked', p \notin modified,
               written[p] # Junk
        PROVE  page_file'[p] = written[p]
    <3>1. p \notin B
      BY <1>1, <1>3, <1>8, <2>1 DEF ContentsOK
    <3>2. p \in Legal /\ p \in Page /\ p \notin unbacked /\ page_file'[p] = page_file[p]
      BY <1>3, <1>4, <1>5, <1>8, <1>9, <2>1, <3>1
    <3>3. QED
      BY <1>1, <2>1, <3>2 DEF ContentsOK
  <2>2. ASSUME NEW p \in Page \ Legal', written[p] # Junk
        PROVE  memory[p] = written[p] /\ p \in modified
    BY <1>1, <1>8, <2>2 DEF ContentsOK
  <2>3. QED
    BY <1>2, <1>7, <1>14, <2>1, <2>2 DEF ContentsOK
<1>16. TablesFollowPages'
  <2>1. /\ TablesOf(Resident) \subseteq tables /\ TablesOf(InPageFile) \subseteq disk_tables
        /\ tables \subseteq TablesOf(Resident \cup Legal)
    BY <1>1 DEF TablesFollowPages
  <2>2. \A S : \A t : t \in TablesOf(S) <=> \E q \in S : t = TableOf(q)
    BY DEF TablesOf
  <2>3. TablesOf(InPageFile') \subseteq disk_tables'
    BY <1>2, <1>4, <1>6, <2>1, <2>2
  <2>4. tables \subseteq TablesOf(Resident \cup Legal')
    BY <1>8, <2>1, <2>2
  <2>5. QED
    BY <1>2, <1>7, <2>1, <2>3, <2>4 DEF TablesFollowPages
<1>17. KilledOnlyIfInvalid'
  BY <1>2, <1>3, <1>8, Sizes DEF KilledOnlyIfInvalid
<1>18. FilledInOrder'
  BY <1>1, <1>2, <1>7 DEF FilledInOrder
<1>19. QED
  BY <1>10, <1>11, <1>12, <1>13, <1>15, <1>16, <1>17, <1>18 DEF WorkingSetInv

\* free takes from memory, page file and working set the pages it finds there.
LEMMA FreeKeeps ==
  ASSUME WorkingSetInv, NEW b \in Block, freeMem(b)
  PROVE  WorkingSetInv'
<1> DEFINE B == Pages(b)
           gone == B \cap InWorkingSet
           cleared == {j \in Entry : ptr_pageWorkingSet[j] \in B}
           below == {j \in cleared : j < page_last_WS_index}
<1>1. /\ TypeOK /\ EntriesOK /\ BlocksOK /\ BackedOK /\ ContentsOK /\ TablesFollowPages
      /\ KilledOnlyIfInvalid
  BY DEF WorkingSetInv
<1>2. /\ b \in blocks /\ blocks' = blocks \ {b} /\ killed = NULL /\ killed' = killed
      /\ frees < MaxFrees /\ frees' = frees + 1 /\ disk_tables' = disk_tables
      /\ modified' = modified \ gone /\ unbacked' = unbacked \ B
      /\ tables' = tables \ EmptyTables(b, Resident \ gone)
  BY DEF freeMem, Running
<1>3. /\ page_file' = [p \in Page |-> IF p \in B THEN NULL ELSE page_file[p]]
      /\ memory' = [p \in Page |-> IF p \in gone THEN NULL ELSE memory[p]]
      /\ written' = [p \in Page |-> IF p \in B THEN Junk ELSE written[p]]
  BY DEF freeMem
<1>4. /\ ptr_pageWorkingSet' =
           [j \in Entry |-> IF j \in cleared THEN NULL ELSE ptr_pageWorkingSet[j]]
      /\ page_last_WS_index' \in IF below = {} THEN {page_last_WS_index}
                                 ELSE {j \in below : \A k \in below : j <= k}
  BY DEF freeMem
<1>5. /\ B \subseteq Heap /\ B \subseteq Page /\ blocks \subseteq Block
      /\ Legal \subseteq Page /\ Image \subseteq Legal /\ Stack \subseteq Legal
      /\ \A p \in Legal : p \in Image \/ p \in Stack \/ \E c \in blocks : p \in Pages(c)
  BY <1>1, LegalPages, Sizes DEF TypeOK
<1>6. /\ ptr_pageWorkingSet' \in [Entry -> Page \cup {NULL}]
      /\ page_last_WS_index' \in Entry
      /\ \A j \in Entry : ptr_pageWorkingSet[j] \in B => ptr_pageWorkingSet'[j] = NULL
      /\ \A j \in Entry : ptr_pageWorkingSet[j] \notin B =>
           ptr_pageWorkingSet'[j] = ptr_pageWorkingSet[j]
  BY <1>1, <1>4 DEF TypeOK
<1> HIDE DEF B, cleared, below
<1>7. InWorkingSet' = InWorkingSet \ B
  <2>1. /\ \A q : q \in InWorkingSet <=> q # NULL /\ \E j \in Entry : ptr_pageWorkingSet[j] = q
        /\ \A q : q \in InWorkingSet' <=> q # NULL /\ \E j \in Entry : ptr_pageWorkingSet'[j] = q
    BY DEF InWorkingSet
  <2>2. QED
    BY <1>6, <2>1
<1>8. /\ page_file \in [Page -> Data \cup {Junk, NULL}]
      /\ memory \in [Page -> Data \cup {Junk, NULL}] /\ written \in [Page -> Data \cup {Junk}]
      /\ InWorkingSet \subseteq Page
  BY <1>1, <1>5 DEF TypeOK, EntriesOK
<1>9. /\ page_file' \in [Page -> Data \cup {Junk, NULL}]
      /\ \A p \in B : page_file'[p] = NULL
      /\ \A p \in Page : p \notin B => page_file'[p] = page_file[p]
  BY <1>3, <1>5, <1>8
<1>10. /\ memory' \in [Page -> Data \cup {Junk, NULL}]
       /\ \A p \in gone : memory'[p] = NULL
       /\ \A p \in Page : p \notin gone => memory'[p] = memory[p]
  BY <1>3, <1>5, <1>8
<1>11. /\ written' \in [Page -> Data \cup {Junk}]
       /\ \A p \in B : written'[p] = Junk
       /\ \A p \in Page : p \notin B => written'[p] = written[p]
  BY <1>3, <1>5, <1>8
<1>12. Resident' = Resident \ gone /\ InPageFile' = InPageFile \ B
  BY <1>5, <1>8, <1>9, <1>10 DEF Resident, InPageFile
<1>13. Legal' = Legal \ B
  <2>1. \A c \in blocks : c # b => B \cap Pages(c) = {}
    BY <1>1, <1>2 DEF BlocksOK, B
  <2>2. Legal' = Image \cup Stack \cup UNION {Pages(c) : c \in blocks \ {b}}
    BY <1>2 DEF Legal
  <2>3. Legal = Image \cup Stack \cup UNION {Pages(c) : c \in blocks}
    BY DEF Legal
  <2>4. Image \cap B = {} /\ Stack \cap B = {}
    BY <1>5, Sizes
  <2>5. QED
    BY <2>1, <2>2, <2>3, <2>4 DEF B
<1> HIDE DEF gone
<1>14. TypeOK'
  <2>1. frees' \in 0..MaxFrees
    BY <1>1, <1>2, Sizes DEF TypeOK
  <2>2. QED
    BY <1>1, <1>2, <1>6, <1>9, <1>10, <1>11, <2>1 DEF TypeOK
<1>15. EntriesOK'
  <2>1. InWorkingSet' \subseteq Resident' \cap Legal'
    BY <1>1, <1>7, <1>12, <1>13 DEF EntriesOK, gone
  <2>2. \A i, j \in Entry : ptr_pageWorkingSet'[i] = ptr_pageWorkingSet'[j]
                              /\ ptr_pageWorkingSet'[i] # NULL => i = j
    BY <1>1, <1>6 DEF EntriesOK
  <2>3. QED
    BY <2>1, <2>2 DEF EntriesOK
<1>16. BlocksOK'
  BY <1>1, <1>2 DEF BlocksOK
<1>17. BackedOK'
  <2>1. Image \subseteq InPageFile' /\ InPageFile' \subseteq Legal'
    BY <1>1, <1>5, <1>12, <1>13, Sizes DEF BackedOK
  <2>2. ASSUME NEW p \in Legal'
        PROVE  p \in InPageFile' \cup unbacked' \/ (p \in Stack \ Resident' /\ written'[p] = Junk)
    <3>1. p \in Legal /\ p \notin B /\ p \in Page
      BY <1>5, <1>13
    <3>2. p \in InPageFile \cup unbacked \/ (p \in Stack \ Resident /\ written[p] = Junk)
      BY <1>1, <3>1 DEF BackedOK
    <3>3. QED
      BY <1>2, <1>11, <1>12, <3>1, <3>2
  <2>3. QED
    BY <2>1, <2>2 DEF BackedOK
<1>18. \A p \in Legal' : /\ p \in Legal /\ p \in Page /\ p \notin B /\ p \notin gone
                         /\ written'[p] = written[p] /\ memory'[p] = memory[p]
                         /\ page_file'[p] = page_file[p]
                         /\ p \in unbacked' <=> p \in unbacked
                         /\ p \in modified' <=> p \in modified
                         /\ p \in Resident' <=> p \in Resident
  <2>1. \A p \in Legal' : p \in Legal /\ p \in Page /\ p \notin B /\ p \notin gone
    BY <1>5, <1>13 DEF gone
  <2>2. QED
    BY <1>2, <1>9, <1>10, <1>11, <1>12, <2>1
<1>19. Coherent'
  <2> SUFFICES ASSUME NEW p \in Legal', p \notin unbacked', written'[p] # Junk
               PROVE  /\ p \in Resident' => written'[p] = memory'[p]
                      /\ p \notin Resident' => written'[p] = page_file'[p]
    BY DEF Coherent
  <2>1. /\ p \in Resident => written[p] = memory[p]
        /\ p \notin Resident => written[p] = page_file[p]
    BY <1>1, <1>18 DEF ContentsOK, Coherent
  <2>2. QED
    BY <1>18, <2>1
<1>20. ContentsOK'
  <2>1. ASSUME NEW p \in Legal', p \in Resident', p \notin unbacked', p \notin modified',
               written'[p] # Junk
        PROVE  page_file'[p] = written'[p]
    BY <1>1, <1>18, <2>1 DEF ContentsOK
  <2>2. ASSUME NEW p \in Page \ Legal', written'[p] # Junk
        PROVE  memory'[p] = written'[p] /\ p \in modified'
    <3>1. p \notin B /\ p \notin Legal
      BY <1>11, <1>13, <2>2
    <3>2. p \notin gone
      BY <3>1 DEF gone
    <3>3. QED
      BY <1>1, <1>2, <1>10, <1>11, <2>2, <3>1, <3>2 DEF ContentsOK
  <2>3. QED
    BY <1>19, <2>1, <2>2 DEF ContentsOK
<1>21. TablesFollowPages'
  <2>1. /\ TablesOf(Resident) \subseteq tables /\ TablesOf(InPageFile) \subseteq disk_tables
        /\ tables \subseteq TablesOf(Resident \cup Legal)
    BY <1>1 DEF TablesFollowPages
  <2>2. \A S : \A t : t \in TablesOf(S) <=> \E q \in S : t = TableOf(q)
    BY DEF TablesOf
  <2>3. tables' = tables \ (TablesOf(B) \ TablesOf(Resident'))
    BY <1>2, <1>12 DEF EmptyTables, B
  <2>4. TablesOf(Resident') \subseteq tables'
    BY <1>12, <2>1, <2>2, <2>3
  <2>5. TablesOf(InPageFile') \subseteq disk_tables'
    BY <1>2, <1>12, <2>1, <2>2
  <2>6. ASSUME NEW t \in tables' PROVE t \in TablesOf(Resident' \cup Legal')
    <3>1. PICK q \in Resident \cup Legal : t = TableOf(q)
      BY <2>1, <2>2, <2>3
    <3>2. CASE q \in B
      <4>1. t \in TablesOf(B)
        BY <2>2, <3>1, <3>2
      <4>2. t \in TablesOf(Resident')
        BY <2>3, <4>1
      <4>3. QED
        BY <2>2, <4>2
    <3>3. CASE q \notin B
      <4>1. q \in Resident' \cup Legal'
        BY <1>12, <1>13, <3>1, <3>3 DEF gone
      <4>2. QED
        BY <2>2, <3>1, <4>1
    <3>4. QED
      BY <3>2, <3>3
  <2>7. QED
    BY <2>4, <2>5, <2>6 DEF TablesFollowPages
<1>22. KilledOnlyIfInvalid'
  BY <1>2, <1>5, <1>13, Sizes DEF KilledOnlyIfInvalid
<1>23. FilledInOrder'
  <2>1. frees' # 0
    BY <1>1, <1>2, Sizes DEF TypeOK
  <2>2. QED
    BY <2>1 DEF FilledInOrder
<1>24. QED
  BY <1>14, <1>15, <1>16, <1>17, <1>20, <1>21, <1>22, <1>23 DEF WorkingSetInv

\* Counting the smaller members numbers a finite set of naturals from 0 on, in order.
LEMMA RanksNumber ==
  ASSUME NEW S \in SUBSET Nat, IsFiniteSet(S), NEW n, n = Cardinality(S),
         NEW f, f = [p \in S |-> Cardinality({q \in S : q < p})]
  PROVE  /\ n \in Nat /\ f \in [S -> 0..n - 1]
         /\ \A p, q \in S : p < q => f[p] < f[q]
         /\ \A p, q \in S : f[p] = f[q] => p = q
         /\ \A j \in 0..n - 1 : \E p \in S : f[p] = j
<1> DEFINE B(p) == {q \in S : q < p}
<1>1. n \in Nat
  BY FS_CardinalityType
<1>2. \A p \in S : IsFiniteSet(B(p)) /\ f[p] = Cardinality(B(p)) /\ f[p] \in Nat
  <2>1. ASSUME NEW p \in S PROVE IsFiniteSet(B(p)) /\ Cardinality(B(p)) \in Nat
    <3>1. B(p) \in SUBSET S
      OBVIOUS
    <3>2. IsFiniteSet(B(p))
      BY <3>1, FS_Subset
    <3>3. QED
      BY <3>2, FS_CardinalityType
  <2>2. QED
    BY <2>1
<1>3. ASSUME NEW T \in SUBSET S, NEW p \in S, p \notin T, IsFiniteSet(T)
      PROVE  Cardinality(T) \in Nat /\ Cardinality(T) < n
  <2>1. Cardinality(T) <= n /\ (n = Cardinality(T) => S = T)
    BY FS_Subset
  <2>2. Cardinality(T) \in Nat
    BY <1>3, FS_CardinalityType
  <2>3. QED
    BY <1>1, <1>3, <2>1, <2>2
<1>4. f \in [S -> 0..n - 1]
  <2>1. ASSUME NEW p \in S PROVE f[p] \in Nat /\ f[p] < n
    <3>1. B(p) \in SUBSET S /\ p \notin B(p)
      OBVIOUS
    <3>2. QED
      BY <1>2, <1>3, <3>1
  <2>2. QED
    BY <1>1, <2>1
<1>5. \A p, q \in S : p < q => f[p] < f[q]
  <2> SUFFICES ASSUME NEW p \in S, NEW q \in S, p < q
               PROVE  f[p] < f[q]
    OBVIOUS
  <2>1. B(p) \in SUBSET B(q) /\ p \in B(q) /\ p \notin B(p)
    <3>1. p \in Nat /\ q \in Nat /\ \A r \in S : r \in Nat
      OBVIOUS
    <3>2. \A r \in S : r < p => r < q
      BY <3>1
    <3>3. ~(p < p)
      BY <3>1
    <3>4. QED
      BY <3>2, <3>3, Zenon
  <2>2. Cardinality(B(p)) <= Cardinality(B(q))
        /\ (Cardinality(B(q)) = Cardinality(B(p)) => B(q) = B(p))
    BY <1>2, <2>1, FS_Subset
  <2>3. f[p] \in Nat /\ f[q] \in Nat /\ f[p] <= f[q] /\ f[p] # f[q]
    BY <1>2, <2>1, <2>2
  <2>4. QED
    BY <2>3
<1>6. \A p, q \in S : f[p] = f[q] => p = q
  <2> SUFFICES ASSUME NEW p \in S, NEW q \in S, f[p] = f[q], p # q
               PROVE  FALSE
    OBVIOUS
  <2>1. p < q \/ q < p
    OBVIOUS
  <2>2. f[p] < f[q] \/ f[q] < f[p]
    BY <1>5, <2>1
  <2>3. f[p] \in Nat /\ f[q] \in Nat
    BY <1>2
  <2>4. QED
    BY <2>2, <2>3
<1>7. \A j \in 0..n - 1 : \E p \in S : f[p] = j
  <2>1. f \in Injection(S, 0..n - 1)
    BY <1>4, <1>6 DEF Injection, IsInjective
  <2>2. IsFiniteSet(0..n - 1) /\ Cardinality(0..n - 1) = n
    <3>1. n - 1 \in Int /\ 0 \in Int
      BY <1>1
    <3>2. IsFiniteSet(0..n - 1) /\ Cardinality(0..n - 1) = IF 0 > n - 1 THEN 0 ELSE (n - 1) - 0 + 1
      BY <3>1, FS_Interval
    <3>3. QED
      BY <1>1, <3>2
  <2>3. f \in Surjection(S, 0..n - 1)
    BY <2>1, <2>2, FS_Injection
  <2>4. QED
    BY <2>3 DEF Surjection
<1>8. QED
  BY <1>1, <1>4, <1>5, <1>6, <1>7

\* The stack has a highest page.
LEMMA StackHasTop ==
  TopOfStack \in Stack
<1> DEFINE n == Cardinality(Stack)
           f == [p \in Stack |-> Cardinality({q \in Stack : q < p})]
<1>1. Stack \in SUBSET Nat /\ IsFiniteSet(Stack) /\ Stack # {}
  <2>1. Stack \in SUBSET Page
    BY Sizes
  <2>2. IsFiniteSet(Stack)
    BY <2>1, Sizes, FS_Subset
  <2>3. QED
    BY <2>1, <2>2, Sizes, WorkingSetAssumption
<1>a. n = Cardinality(Stack) /\ f = [p \in Stack |-> Cardinality({q \in Stack : q < p})]
  OBVIOUS
<1> HIDE DEF n, f
<1>2. /\ n \in Nat /\ f \in [Stack -> 0..n - 1]
      /\ \A p, q \in Stack : p < q => f[p] < f[q]
      /\ \A j \in 0..n - 1 : \E p \in Stack : f[p] = j
  BY <1>1, <1>a, RanksNumber
<1>3. n # 0
  BY <1>1, FS_EmptySet DEF n
<1>4. PICK p \in Stack : f[p] = n - 1
  BY <1>2, <1>3
<1>5. ASSUME NEW q \in Stack PROVE q <= p
  <2>1. f[q] \in 0..n - 1 /\ n \in Nat
    BY <1>2
  <2>2. ~(n - 1 < f[q])
    BY <2>1
  <2>3. ~(p < q)
    BY <1>2, <1>4, <2>2
  <2>4. p \in Nat /\ q \in Nat
    BY <1>1
  <2>5. QED
    BY <2>3, <2>4
<1>6. \E t \in Stack : \A q \in Stack : q <= t
  BY <1>4, <1>5
<1>7. QED
  BY <1>6 DEF TopOfStack

\* env_create loads at most all but one entry's worth of image pages, and the entries
\* below the number it loaded have one page each.
LEMMA LoadedCounts ==
  ASSUME NEW last, last = Cardinality(Loaded)
  PROVE  /\ last \in 0..page_WS_max_size - 1
         /\ Loaded \subseteq Image \ Unloaded
         /\ \A p \in Loaded : Rank(p) \in 0..last - 1
         /\ \A p, q \in Loaded : Rank(p) = Rank(q) => p = q
         /\ \A j \in 0..last - 1 : \E p \in Loaded : Rank(p) = j
<1> DEFINE S == Image \ Unloaded
           n == Cardinality(S)
           f == [p \in S |-> Cardinality({q \in S : q < p})]
<1>1. S \in SUBSET Nat /\ IsFiniteSet(S)
  <2>1. S \in SUBSET Page
    BY Sizes
  <2>2. IsFiniteSet(S)
    BY <2>1, Sizes, FS_Subset
  <2>3. QED
    BY <2>1, <2>2, Sizes
<1>2. \A p \in S : f[p] = Rank(p)
  BY DEF Rank
<1>3. PICK m \in Nat : m = page_WS_max_size - 1
  BY Sizes
<1>4. /\ Loaded \in SUBSET S
      /\ \A p \in S : p \in Loaded <=> f[p] < m
  BY <1>2, <1>3 DEF Loaded
<1>a. n = Cardinality(S) /\ f = [p \in S |-> Cardinality({q \in S : q < p})]
  OBVIOUS
<1> HIDE DEF S, n, f
<1>5. /\ n \in Nat /\ f \in [S -> 0..n - 1]
      /\ \A p, q \in S : f[p] = f[q] => p = q
      /\ \A j \in 0..n - 1 : \E p \in S : f[p] = j
  BY <1>1, <1>a, RanksNumber
<1> DEFINE k == IF n <= m THEN n ELSE m
           g == [p \in Loaded |-> f[p]]
<1>6. k \in Nat /\ k <= n /\ k <= m /\ (k = n \/ k = m)
  BY <1>3, <1>5
<1> HIDE DEF k
<1>7. g \in [Loaded -> 0..k - 1] /\ \A p \in Loaded : g[p] = f[p]
  <2>1. ASSUME NEW p \in Loaded PROVE f[p] \in 0..k - 1
    <3>1. f[p] \in 0..n - 1 /\ f[p] < m
      BY <1>4, <1>5
    <3>2. QED
      BY <1>3, <1>5, <1>6, <3>1
  <2>2. QED
    BY <2>1
<1>8. \A j \in 0..k - 1 : \E p \in Loaded : g[p] = j
  <2> SUFFICES ASSUME NEW j \in 0..k - 1
               PROVE  \E p \in Loaded : g[p] = j
    OBVIOUS
  <2>1. j \in 0..n - 1 /\ j < m
    BY <1>3, <1>5, <1>6
  <2>2. PICK p \in S : f[p] = j
    BY <1>5, <2>1
  <2>3. QED
    BY <1>4, <1>7, <2>1, <2>2
<1> HIDE DEF g
<1>9. Cardinality(Loaded) = k
  <2>1. \A p, q \in Loaded : g[p] = g[q] => p = q
    BY <1>4, <1>5, <1>7
  <2>2. g \in Injection(Loaded, 0..k - 1)
    BY <1>7, <2>1 DEF Injection, IsInjective
  <2>3. g \in Surjection(Loaded, 0..k - 1)
    BY <1>7, <1>8 DEF Surjection
  <2>4. 0 \in Int /\ k - 1 \in Int
    BY <1>6
  <2>5. IsFiniteSet(0..k - 1) /\ Cardinality(0..k - 1) = IF 0 > k - 1 THEN 0 ELSE (k - 1) - 0 + 1
    BY <2>4, FS_Interval
  <2>6. Cardinality(0..k - 1) = k
    BY <1>6, <2>5
  <2>7. Cardinality(Loaded) = Cardinality(0..k - 1)
    BY <2>2, <2>3, <2>5, FS_Injection
  <2>8. QED
    BY <2>6, <2>7
<1>10. last = k /\ last \in 0..page_WS_max_size - 1
  BY <1>3, <1>6, <1>9, Sizes
<1>11. QED
  BY <1>2, <1>4, <1>5, <1>7, <1>8, <1>10 DEF S

\* env_create leaves the image on disk and the first part of it, and the stack page,
\* in memory, each with its entry.
LEMMA InitKeeps ==
  ASSUME Init
  PROVE  WorkingSetInv
<1> DEFINE last == Cardinality(Loaded)
           W == Loaded \cup {TopOfStack}
           D == Image \cup {TopOfStack}
<1>1. /\ ptr_pageWorkingSet = [j \in Entry |-> CASE j < last -> CHOOSE p \in Loaded : Rank(p) = j
                                                [] j = last -> TopOfStack
                                                [] j > last -> NULL]
      /\ page_last_WS_index = (last + 1) % page_WS_max_size
      /\ memory = [p \in Page |-> IF p \in W THEN 0 ELSE NULL]
      /\ page_file = [p \in Page |-> IF p \in D THEN 0 ELSE NULL]
      /\ written = [p \in Page |-> IF p \in D THEN 0 ELSE Junk]
  BY DEF Init
<1>2. /\ modified = {TopOfStack} /\ tables = TablesOf(W) /\ disk_tables = TablesOf(D)
      /\ blocks = {} /\ unbacked = {} /\ killed = NULL /\ frees = 0
  BY DEF Init
<1>3. /\ last \in Entry /\ Loaded \subseteq Image /\ Loaded \subseteq Page
      /\ \A p \in Loaded : Rank(p) \in 0..last - 1
      /\ \A p, q \in Loaded : Rank(p) = Rank(q) => p = q
      /\ \A j \in 0..last - 1 : \E p \in Loaded : Rank(p) = j
  BY LoadedCounts, Sizes
<1>4. TopOfStack \in Stack /\ TopOfStack \in Page /\ TopOfStack \notin Image
      /\ TopOfStack \notin Loaded
  BY <1>3, StackHasTop, Sizes
<1>5. /\ W \subseteq D /\ D \subseteq Page
  BY <1>3, <1>4, Sizes
<1>6. Legal = Image \cup Stack
  BY <1>2 DEF Legal
<1> HIDE DEF last, W, D
<1>7. Resident = W /\ InPageFile = D
  BY <1>1, <1>5, Sizes DEF Resident, InPageFile
<1>8. /\ \A j \in Entry : j < last => ptr_pageWorkingSet[j] \in Loaded
                                      /\ Rank(ptr_pageWorkingSet[j]) = j
      /\ ptr_pageWorkingSet[last] = TopOfStack
      /\ \A j \in Entry : j > last => ptr_pageWorkingSet[j] = NULL
  <2>1. last \in Nat /\ Entry \subseteq Nat
    BY <1>3, Sizes
  <2>2. ASSUME NEW j \in Entry, j < last
        PROVE  ptr_pageWorkingSet[j] \in Loaded /\ Rank(ptr_pageWorkingSet[j]) = j
    <3>1. ptr_pageWorkingSet[j] = CHOOSE p \in Loaded : Rank(p) = j
      BY <1>1, <2>1, <2>2
    <3>2. \E p \in Loaded : Rank(p) = j
      BY <1>3, <2>1, <2>2
    <3>3. QED
      BY <3>1, <3>2
  <2>3. ptr_pageWorkingSet[last] = TopOfStack
    BY <1>1, <1>3, <2>1
  <2>4. ASSUME NEW j \in Entry, j > last PROVE ptr_pageWorkingSet[j] = NULL
    BY <1>1, <2>1, <2>4
  <2>5. QED
    BY <2>2, <2>3, <2>4
<1>9. /\ \A j \in Entry : ptr_pageWorkingSet[j] \in W \cup {NULL}
      /\ \A j \in Entry : ptr_pageWorkingSet[j] # NULL <=> j <= last
  <2>1. last \in Nat /\ Entry \subseteq Nat /\ NULL \notin Page
    BY <1>3, Sizes
  <2>2. ASSUME NEW j \in Entry
        PROVE  /\ ptr_pageWorkingSet[j] \in W \cup {NULL}
               /\ ptr_pageWorkingSet[j] # NULL <=> j <= last
    <3>1. CASE j < last
      BY <1>3, <1>8, <2>1, <3>1 DEF W
    <3>2. CASE j = last
      BY <1>4, <1>8, <2>1, <3>2 DEF W
    <3>3. CASE j > last
      BY <1>8, <2>1, <3>3
    <3>4. QED
      BY <2>1, <3>1, <3>2, <3>3
  <2>3. QED
    BY <2>2
<1>10. \A i, j \in Entry : ptr_pageWorkingSet[i] = ptr_pageWorkingSet[j]
                             /\ ptr_pageWorkingSet[i] # NULL => i = j
  <2> SUFFICES ASSUME NEW i \in Entry, NEW j \in Entry,
                      ptr_pageWorkingSet[i] = ptr_pageWorkingSet[j],
                      ptr_pageWorkingSet[i] # NULL
               PROVE  i = j
    OBVIOUS
  <2>1. i \in Nat /\ j \in Nat /\ last \in Nat /\ i <= last /\ j <= last
    BY <1>3, <1>9, Sizes
  <2>2. i < last => ptr_pageWorkingSet[i] # TopOfStack
    BY <1>4, <1>8
  <2>3. j < last => ptr_pageWorkingSet[j] # TopOfStack
    BY <1>4, <1>8
  <2>4. i = last <=> j = last
    BY <1>8, <2>1, <2>2, <2>3
  <2>5. i < last /\ j < last => i = j
    BY <1>8
  <2>6. QED
    BY <2>1, <2>4, <2>5
<1>11. InWorkingSet = W
  <2>1. \A q : q \in InWorkingSet <=> q # NULL /\ \E j \in Entry : ptr_pageWorkingSet[j] = q
    BY DEF InWorkingSet
  <2>2. ASSUME NEW q \in Loaded PROVE \E j \in Entry : ptr_pageWorkingSet[j] = q
    <3>1. PICK j \in 0..last - 1 : Rank(q) = j
      BY <1>3
    <3>2. j \in Entry /\ j < last
      BY <1>3, Sizes
    <3>3. ptr_pageWorkingSet[j] = q
      BY <1>3, <1>8, <3>1, <3>2
    <3>4. QED
      BY <3>2, <3>3
  <2>3. W \subseteq InWorkingSet
    BY <1>3, <1>4, <1>8, <2>1, <2>2, Sizes DEF W
  <2>4. InWorkingSet \subseteq W
    BY <1>9, <2>1
  <2>5. QED
    BY <2>3, <2>4
<1>12. page_last_WS_index \in Entry
       /\ \/ \A j \in Entry : ptr_pageWorkingSet[j] # NULL
          \/ \A j \in Entry : ptr_pageWorkingSet[j] # NULL <=> j < page_last_WS_index
  <2>1. PICK m \in Nat \ {0} : m = page_WS_max_size
    BY Sizes
  <2>2. PICK k \in Nat : k = last /\ k < m
    BY <1>3, <2>1, Sizes
  <2>3. page_last_WS_index = (k + 1) % m /\ Entry = 0..m - 1
    BY <1>1, <2>1, <2>2, Sizes
  <2>4. page_last_WS_index \in 0..m - 1 /\ (k + 1 < m => page_last_WS_index = k + 1)
    <3>1. PICK x \in Int : x = k + 1
      OBVIOUS
    <3>2. x % m \in 0..m - 1 /\ (x \in 0..m - 1 => x % m = x)
      BY Remainders
    <3>3. QED
      BY <2>2, <2>3, <3>1, <3>2
  <2>5. \A j \in Entry : ptr_pageWorkingSet[j] # NULL <=> j <= k
    BY <1>9, <2>2
  <2>6. CASE k + 1 = m
    BY <2>3, <2>4, <2>5, <2>6
  <2>7. CASE k + 1 < m
    BY <2>3, <2>4, <2>5, <2>7
  <2>8. QED
    BY <2>2, <2>3, <2>4, <2>6, <2>7
<1>13. TypeOK
  <2>1. ptr_pageWorkingSet \in [Entry -> Page \cup {NULL}]
    <3>1. \A j \in Entry : ptr_pageWorkingSet[j] \in Page \cup {NULL}
      BY <1>5, <1>9
    <3>2. QED
      BY <1>1, <3>1
  <2>2. tables \subseteq TablesOf(Page) /\ disk_tables \subseteq TablesOf(Page)
    BY <1>2, <1>5 DEF TablesOf
  <2>3. frees \in 0..MaxFrees
    BY <1>2, Sizes
  <2>4. /\ memory \in [Page -> Data \cup {Junk, NULL}]
        /\ page_file \in [Page -> Data \cup {Junk, NULL}]
        /\ written \in [Page -> Data \cup {Junk}]
    BY <1>1, Sizes
  <2>5. QED
    BY <1>2, <1>4, <1>12, <2>1, <2>2, <2>3, <2>4 DEF TypeOK
<1>14. EntriesOK
  BY <1>3, <1>4, <1>6, <1>7, <1>10, <1>11 DEF EntriesOK, W
<1>15. BackedOK
  <2>1. Image \subseteq InPageFile /\ InPageFile \subseteq Legal
    BY <1>4, <1>6, <1>7 DEF D
  <2>2. ASSUME NEW p \in Legal, p \notin InPageFile
        PROVE  p \in Stack \ Resident /\ written[p] = Junk
    BY <1>1, <1>5, <1>6, <1>7, <2>2, Sizes DEF D
  <2>3. QED
    BY <2>1, <2>2 DEF BackedOK
<1>16. \A p \in Page : /\ written[p] # Junk => p \in D /\ written[p] = 0
                       /\ p \in D => page_file[p] = 0
                       /\ p \in W => memory[p] = 0
  BY <1>1
<1>17. ContentsOK
  <2>1. D \subseteq Legal /\ Legal \subseteq Page
    BY <1>4, <1>6, Sizes DEF D
  <2>2. Coherent
    BY <1>7, <1>16, <2>1 DEF Coherent
  <2>3. QED
    BY <1>7, <1>16, <2>1, <2>2 DEF ContentsOK
<1>18. TablesFollowPages
  BY <1>2, <1>7 DEF TablesFollowPages, TablesOf
<1>19. KilledOnlyIfInvalid
  BY <1>2, <1>6, Sizes DEF KilledOnlyIfInvalid
<1>20. BlocksOK /\ FilledInOrder
  BY <1>2, <1>7, <1>11, <1>12 DEF BlocksOK, FilledInOrder
<1>21. QED
  BY <1>13, <1>14, <1>15, <1>17, <1>18, <1>19, <1>20 DEF WorkingSetInv

\* Every step of demand paging keeps the invariant.
LEMMA NextKeeps ==
  ASSUME WorkingSetInv, [Next]_vars
  PROVE  WorkingSetInv'
<1>1. CASE \E p \in Page : page_fault_handler(p)
  BY <1>1, FaultKeeps
<1>2. CASE \E p \in Page : InvalidAccess(p)
  BY <1>2, AccessKeeps
<1>3. CASE \E p \in Page, v \in Data : Write(p, v)
  BY <1>3, WriteKeeps
<1>4. CASE \E b \in Block : allocateMem(b)
  BY <1>4, AllocateKeeps
<1>5. CASE \E b \in Block : freeMem(b)
  BY <1>5, FreeKeeps
<1>6. CASE UNCHANGED vars
  <2>1. /\ Resident' = Resident /\ InPageFile' = InPageFile /\ InWorkingSet' = InWorkingSet
        /\ Legal' = Legal
    BY <1>6 DEF vars, Resident, InPageFile, InWorkingSet, Legal
  <2>2. /\ TypeOK' /\ EntriesOK' /\ BlocksOK' /\ BackedOK'
        /\ TablesFollowPages' /\ KilledOnlyIfInvalid' /\ FilledInOrder'
    BY <1>6, <2>1 DEF WorkingSetInv, vars, TypeOK, EntriesOK, BlocksOK, BackedOK,
                      TablesFollowPages, KilledOnlyIfInvalid, FilledInOrder
  <2>3. Coherent'
    BY <1>6, <2>1 DEF WorkingSetInv, vars, ContentsOK, Coherent
  <2>4. ContentsOK'
    BY <1>6, <2>1, <2>3 DEF WorkingSetInv, vars, ContentsOK
  <2>5. QED
    BY <2>2, <2>4 DEF WorkingSetInv
<1>7. QED
  BY <1>1, <1>2, <1>3, <1>4, <1>5, <1>6 DEF Next

\* The invariant holds in every state of every behaviour.
LEMMA AlwaysInv ==
  Spec => []WorkingSetInv
BY InitKeeps, NextKeeps, PTL DEF Spec

\* The working set, its index, the pages and the tables of an environment always hold
\* values of their types (trap.c, memory_manager.c): the index is always an entry.
THEOREM PagingTyped == Spec => []TypeOK
<1>1. WorkingSetInv => TypeOK
  BY DEF WorkingSetInv
<1>2. QED
  BY <1>1, AlwaysInv, PTL

\* Through page faults, write-backs, malloc and free, a page holds what the program
\* last stored in it, unless the page file was full when it came to be written.
THEOREM StoredIsKept == Spec => []Coherent
<1>1. WorkingSetInv => Coherent
  BY DEF WorkingSetInv, ContentsOK
<1>2. QED
  BY <1>1, AlwaysInv, PTL

\* A mapped page has its table and a page on disk its disk table, and freeMem leaves no
\* table behind that neither a mapped page nor a legal one uses.
THEOREM TablesMatchPages == Spec => []TablesFollowPages
<1>1. WorkingSetInv => TablesFollowPages
  BY DEF WorkingSetInv
<1>2. QED
  BY <1>1, AlwaysInv, PTL

\* page_fault_handler ends an environment only for an access it may not make, or for a
\* page of malloc's for which the page file had no frame.
THEOREM OnlyInvalidKilled == Spec => []KilledOnlyIfInvalid
<1>1. WorkingSetInv => KilledOnlyIfInvalid
  BY DEF WorkingSetInv
<1>2. QED
  BY <1>1, AlwaysInv, PTL

\* Until the first freeMem the mapped pages are those of the working set, each in one
\* entry: page_fault_handler keeps an environment within its limit.
THEOREM WithinWorkingSet == Spec => []ResidentIsWorkingSet
<1>1. WorkingSetInv => ResidentIsWorkingSet
  BY DEF WorkingSetInv, EntriesOK, FilledInOrder, ResidentIsWorkingSet
<1>2. QED
  BY <1>1, AlwaysInv, PTL

\* In a ring of m, j is some steps on from x and one step less from y.
Nearer(m, x, y, j) ==
  \E k \in 0..m - 1 : k > 0 /\ (x + k) % m = j /\ (y + (k - 1)) % m = j

\* Every place of a ring but the first is one step nearer to the place after the first.
LEMMA RingPlaces ==
  ASSUME NEW m \in Nat \ {0}, NEW x \in 0..m - 1, NEW j \in 0..m - 1, j # x,
         NEW y, y = (x + 1) % m
  PROVE  Nearer(m, x, y, j)
<1> SUFFICES \E k \in 0..m - 1 : k > 0 /\ (x + k) % m = j /\ (y + (k - 1)) % m = j
  BY DEF Nearer
<1>1. CASE j > x
  <2>1. PICK k \in 0..m - 1 : k = j - x
    BY <1>1
  <2>2. y = x + 1
    <3>1. PICK z \in 0..m - 1 : z = x + 1
      BY <1>1
    <3>2. z \in Int
      OBVIOUS
    <3>3. z % m = z
      BY <3>2, Remainders
    <3>4. QED
      BY <3>1, <3>3
  <2>3. x + k = j /\ y + (k - 1) = j /\ k > 0
    BY <1>1, <2>1, <2>2
  <2>4. j % m = j
    BY Remainders
  <2>5. QED
    BY <2>3, <2>4
<1>2. CASE j < x
  <2>1. PICK k \in 0..m - 1 : k = (j - x) + m
    BY <1>2
  <2>2. x + k = j + m /\ k > 0
    BY <1>2, <2>1
  <2>3. j % m = j /\ (j + m) % m = j
    BY Remainders
  <2>4. CASE x + 1 < m
    <3>1. y = x + 1
      <4>1. PICK z \in 0..m - 1 : z = x + 1
        BY <2>4
      <4>2. z \in Int
        OBVIOUS
      <4>3. z % m = z
        BY <4>2, Remainders
      <4>4. QED
        BY <4>1, <4>3
    <3>2. y + (k - 1) = j + m
      BY <2>1, <3>1
    <3>3. QED
      BY <2>2, <2>3, <3>2
  <2>5. CASE x + 1 = m
    <3>1. y = 0
      <4>1. PICK z \in 0..m - 1 : z = 0 /\ x + 1 = z + m
        BY <2>5
      <4>2. z \in Int
        OBVIOUS
      <4>3. (z + m) % m = z
        BY <4>2, Remainders
      <4>4. QED
        BY <4>1, <4>3
    <3>2. y + (k - 1) = j
      BY <2>1, <2>5, <3>1
    <3>3. QED
      BY <2>2, <2>3, <3>2
  <2>6. QED
    BY <2>4, <2>5
<1>3. QED
  BY <1>1, <1>2

\* A page fault unmaps at most the page whose entry it takes, and the others move up.
LEMMA FaultTakesFirst ==
  ASSUME WorkingSetInv, frees = 0, NEW q \in Page, page_fault_handler(q), NEW p \in Resident
  PROVE  /\ p \notin Resident' => Resident \subseteq InWorkingSet
                                  /\ Ring(0) = p
                                  /\ env_page_ws_get_size = page_WS_max_size
         /\ p \in Resident' => \E k \in Entry : Ring(k) = p /\ k > 0 /\ Ring(k - 1)' = p
<1> DEFINE x == page_last_WS_index
           ws == ptr_pageWorkingSet
<1>1. /\ memory' \in [Page -> Data \cup {Junk, NULL}]
      /\ page_file' \in [Page -> Data \cup {Junk, NULL}]
      /\ q \notin Resident
      /\ x \in Entry
      /\ ws' = [ws EXCEPT ![x] = q]
      /\ x' = (x + 1) % page_WS_max_size
      /\ \/ /\ PageComes(q, {})
            /\ \E j \in Entry : ws[j] = NULL
         \/ /\ ws[x] \in InWorkingSet
            /\ PageComes(q, {ws[x]})
            /\ \A j \in Entry : ws[j] # NULL
            /\ env_page_ws_get_size = page_WS_max_size
  BY HandlerLoads
<1>2. /\ Resident = InWorkingSet /\ NULL \notin Resident
      /\ ws \in [Entry -> Page \cup {NULL}]
      /\ \/ \A j \in Entry : ws[j] # NULL
         \/ \A j \in Entry : ws[j] # NULL <=> j < x
  BY Sizes DEF WorkingSetInv, FilledInOrder, TypeOK, Resident
<1>3. UNCHANGED <<blocks, written>>
  BY DEF page_fault_handler
<1>4. PICK gone \in SUBSET InWorkingSet :
        /\ PageComes(q, gone)
        /\ gone = {} => \E j \in Entry : ws[j] = NULL
        /\ gone # {} => gone = {ws[x]} /\ env_page_ws_get_size = page_WS_max_size
        /\ gone = {} \/ gone = {ws[x]}
  BY <1>1
<1>5. Resident' = (Resident \ gone) \cup {q}
  BY <1>1, <1>3, <1>4, ContentsSurviveFault
<1>6. PICK m \in Nat \ {0} : m = page_WS_max_size
  BY Sizes
<1>7. Entry = 0..m - 1
  BY <1>6, Sizes
<1>8. \A k : Ring(k) = ws[(x + k) % m] /\ Ring(k)' = ws'[(x' + k) % m]
  BY <1>6 DEF Ring
<1> HIDE DEF x, ws
<1>9. p \notin Resident' => Resident \subseteq InWorkingSet /\ Ring(0) = p
                            /\ env_page_ws_get_size = page_WS_max_size
  <2>1. x + 0 = x /\ x % m = x
    <3>1. x \in Int /\ x \in 0..m - 1
      BY <1>1, <1>7
    <3>2. x % m = x
      BY <3>1, Remainders
    <3>3. QED
      BY <3>1, <3>2
  <2>2. Ring(0) = ws[x]
    BY <1>8, <2>1
  <2>3. QED
    BY <1>2, <1>4, <1>5, <2>2
<1>10. ASSUME p \in Resident' PROVE \E k \in Entry : Ring(k) = p /\ k > 0 /\ Ring(k - 1)' = p
  <2>1. PICK j \in Entry : ws[j] = p /\ p # NULL
    BY <1>2 DEF InWorkingSet, ws
  <2>2. j # x
    <3>1. CASE gone = {}
      <4>1. ws[x] = NULL
        BY <1>1, <1>2, <1>4, <1>7, <3>1
      <4>2. QED
        BY <2>1, <4>1
    <3>2. CASE gone = {ws[x]}
      BY <1>1, <1>5, <1>10, <2>1, <3>2
    <3>3. QED
      BY <1>4, <3>1, <3>2
  <2>3. ws'[j] = p
    BY <1>1, <1>2, <2>1, <2>2
  <2>4. \E k \in 0..m - 1 : k > 0 /\ (x + k) % m = j /\ (x' + (k - 1)) % m = j
    <3>1. x \in 0..m - 1 /\ j \in 0..m - 1 /\ x' = (x + 1) % m
      BY <1>1, <1>6, <1>7
    <3>2. PICK y : y = x'
      OBVIOUS
    <3>3. PICK i : i = x
      OBVIOUS
    <3>4. m \in Nat \ {0} /\ i \in 0..m - 1 /\ j \in 0..m - 1 /\ j # i /\ y = (i + 1) % m
      BY <1>6, <2>2, <3>1, <3>2, <3>3
    <3>5. Nearer(m, i, y, j)
      BY <3>4, RingPlaces
    <3>6. QED
      BY <3>2, <3>3, <3>5 DEF Nearer
  <2>5. QED
    BY <1>7, <1>8, <2>1, <2>3, <2>4
<1>11. QED
  BY <1>9, <1>10

\* First in, first out, until the first freeMem: page_fault_handler takes the entry of
\* the page that has been in the working set longest, and brings the others one nearer.
THEOREM OldestGoesFirst == Spec => FirstInFirstOut
<1>1. ASSUME WorkingSetInv, [Next]_vars, frees' = 0, NEW p \in Resident
      PROVE  /\ p \notin Resident' => Resident \subseteq InWorkingSet
                                      /\ Ring(0) = p
                                      /\ env_page_ws_get_size = page_WS_max_size
             /\ p \in Resident' /\ ~(Resident' \subseteq Resident) =>
                  \E k \in Entry : Ring(k) = p /\ k > 0 /\ Ring(k - 1)' = p
  <2>1. TypeOK
    BY <1>1 DEF WorkingSetInv
  <2>2. CASE \E q \in Page : page_fault_handler(q)
    <3>1. PICK q \in Page : page_fault_handler(q)
      BY <2>2
    <3>2. frees = 0
      BY <1>1, <3>1 DEF page_fault_handler
    <3>3. QED
      BY <1>1, <3>1, <3>2, FaultTakesFirst
  <2>3. CASE Resident' = Resident
    BY <1>1, <2>3
  <2>4. CASE \E q \in Page, v \in Data : Write(q, v)
    <3>1. PICK q \in Page, v \in Data : Write(q, v)
      BY <2>4
    <3>2. memory \in [Page -> Data \cup {Junk, NULL}] /\ memory' = [memory EXCEPT ![q] = v]
          /\ q \in Resident /\ v # NULL
      BY <2>1, <3>1, Sizes DEF TypeOK, Write
    <3>3. Resident' = Resident
      BY <3>2 DEF Resident
    <3>4. QED
      BY <2>3, <3>3
  <2>5. CASE \/ \E q \in Page : InvalidAccess(q)
             \/ \E b \in Block : allocateMem(b)
             \/ UNCHANGED vars
    <3>1. memory' = memory
      BY <2>5 DEF InvalidAccess, allocateMem, vars
    <3>2. QED
      BY <2>3, <3>1 DEF Resident
  <2>6. CASE \E b \in Block : freeMem(b)
    <3>1. frees' = frees + 1
      BY <2>6 DEF freeMem
    <3>2. frees \in Nat
      BY <2>1, Sizes DEF TypeOK
    <3>3. QED
      BY <1>1, <3>1, <3>2
  <2>7. QED
    BY <1>1, <2>2, <2>4, <2>5, <2>6 DEF Next
<1>2. WorkingSetInv /\ [Next]_vars =>
        (frees' = 0 =>
           \A p \in Resident :
             /\ p \notin Resident' => Resident \subseteq InWorkingSet
                                      /\ Ring(0) = p
                                      /\ env_page_ws_get_size = page_WS_max_size
             /\ p \in Resident' /\ ~(Resident' \subseteq Resident) =>
                  \E k \in Entry : Ring(k) = p /\ k > 0 /\ Ring(k - 1)' = p)
  BY <1>1
<1>3. QED
  BY <1>2, AlwaysInv, PTL DEF Spec, FirstInFirstOut
=============================================================================
