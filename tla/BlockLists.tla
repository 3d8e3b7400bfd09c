----------------------------- MODULE BlockLists -----------------------------
(***************************************************************************)
(* The lists of free and taken blocks that the kernel heap (kern/kheap.c)  *)
(* and the heap of every program (lib/uheap.c) are built from.  A block is *)
(* a record of its first page and its size in pages; the two copies of the *)
(* code differ only in the order in which they try the cases.              *)
(***************************************************************************)
EXTENDS Integers, Sequences, SequencesExt

Pages(a, n) == a..a + n - 1

End(b) == b.start + b.size

\* How many blocks the scan for address a passes: it stops at the first block
\* that starts above a.
Passed(q, a) ==
  CHOOSE k \in 0..Len(q) : /\ \A i \in 1..k : q[i].start <= a
                           /\ k < Len(q) => q[k + 1].start > a

insert_sorted(q, b) ==
  IF b.start <= Head(q).start THEN <<b>> \o q
  ELSE IF b.start >= Last(q).start THEN Append(q, b)
  ELSE InsertAt(q, Passed(q, b.start) + 1, b)

\* Mutant: a block between two free ones joins only the second.
MutJoinsNextOnly(q, b) ==
  LET k == Passed(q, b.start)
  IN  IF k < Len(q) /\ End(b) = q[k + 1].start
      THEN [q EXCEPT ![k + 1] = [start |-> b.start, size |-> @.size + b.size]]
      ELSE IF k > 0 /\ End(q[k]) = b.start THEN [q EXCEPT ![k].size = @ + b.size]
      ELSE insert_sorted(q, b)

\* Coalescing_heap: the freed block joins the free blocks it touches.
Coalesced(q, b) ==
  LET k == Passed(q, b.start)
      joinsPre == k > 0 /\ End(q[k]) = b.start
      joinsNext == k < Len(q) /\ End(b) = q[k + 1].start
  IN  IF joinsPre /\ joinsNext
      THEN RemoveAt([q EXCEPT ![k].size = @ + b.size + q[k + 1].size], k + 1)
      ELSE IF joinsNext
      THEN [q EXCEPT ![k + 1] = [start |-> b.start, size |-> @.size + b.size]]
      ELSE IF joinsPre THEN [q EXCEPT ![k].size = @ + b.size]
      ELSE insert_sorted(q, b)

\* Mutant: the free block shrinks at its end although its start was taken.
MutStartNotMoved(q, i, n) ==
  IF q[i].size = n THEN RemoveAt(q, i) ELSE [q EXCEPT ![i].size = @ - n]

\* The first n pages of the i-th free block are taken.
Cut(q, i, n) ==
  IF q[i].size = n THEN RemoveAt(q, i)
  ELSE [q EXCEPT ![i] = [start |-> @.start + n, size |-> @.size - n]]
=============================================================================
