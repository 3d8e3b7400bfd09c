--------------------------- MODULE MCSystemTests ---------------------------
EXTENDS SystemTests

\* Modifiers, two readers and the serial line; the history; the cursor inside
\* the line; Delete; a line that is full.
MCSessions ==
  {<<{"a", "Shift", "RightCtrl", "CapsLock", "Enter", "serial", "program"}, 5>>,
   <<{"a", "Backspace", "Enter", "Up", "Down", "program"}, 5>>,
   <<{"a", "Left", "Right", "Backspace", "Enter"}, 6>>,
   <<{"a", "Left", "Delete", "Enter"}, 6>>,
   <<{"a", "Backspace"}, 7>>}

MCNumbers == -120..120

\* A program whose text starts inside a page and ends inside another, with data
\* and bss, and one named "tpp" whose text ends with a page and that has only bss.
MCPrograms ==
  LET stabs == [va |-> 4, size_in_file |-> 5, size_in_memory |-> 5, ptr_start |-> 1]
      text(file) == [va |-> 13, size_in_file |-> file, size_in_memory |-> file,
                     ptr_start |-> 31]
      data(file, size) == [va |-> 20, size_in_file |-> file, size_in_memory |-> size,
                           ptr_start |-> 61]
  IN  {[segments |-> <<stabs, text(6), data(3, 10)>>, isTpp |-> FALSE],
       [segments |-> <<stabs, text(7), data(0, 6)>>, isTpp |-> TRUE]}

\* The kernel ends somewhere in a page, with a page, or as near to 4 MB as is
\* allowed, and memory was cleared at power on or not.
MCImages ==
  {[end |-> e[1], stack |-> e[2], unset |-> u] :
     e \in {<<1500000, 300>>, <<2097152, 504>>, <<3000001, 700>>, <<4194303, 600>>,
            <<4194304, 1016>>}, u \in {NULL, Junk}}

\* 4, 16 and 64 MB, the 512 MB of .bochsrc, nearly 4 GB, which is the most, and
\* so much that detect_memory's sum wraps around.
MCMemories ==
  {[ext |-> 3072, other |-> 0], [ext |-> 15360, other |-> 0], [ext |-> 64512, other |-> 0],
   [ext |-> 64512, other |-> 7936], [ext |-> 65535, other |-> 65279],
   [ext |-> 65535, other |-> 65535]}
=============================================================================
