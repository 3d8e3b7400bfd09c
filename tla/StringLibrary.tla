--------------------------- MODULE StringLibrary ---------------------------
(***************************************************************************)
(* lib/string.c, called by the kernel and by programs: one call of one     *)
(* routine on a small memory, of which a pointer is an index and in which  *)
(* 0 ends a string.                                                        *)
(***************************************************************************)
EXTENDS Integers, Sequences, SequencesExt

CONSTANTS Letters,         \* bytes other than 0 that memory holds
          MemorySize,      \* bound: bytes of memory
          Numbers,         \* what ltostr is given
          MAX_ARGUMENTS    \* of strsplit

ASSUME StringAssumption ==
  /\ Letters \subseteq 1..255 /\ MemorySize \in Nat \ {0} /\ Numbers \subseteq Int
  /\ MAX_ARGUMENTS \in Nat \ {0}

VARIABLES bytes,     \* the memory
          before,    \* the memory before the call
          call,      \* the routine and its arguments
          result     \* what it returned

stringVars == <<bytes, before, call, result>>

Index == 0..MemorySize - 1

-----------------------------------------------------------------------------
(* The routines.  Those that write give the memory after the call.         *)

\* The string that starts at s, if its end is in memory.
IsString(m, s) == \E e \in Index : e >= s /\ m[e] = 0

strlen(m, s) == LET n[k \in Nat] == IF m[s + k] = 0 THEN k ELSE n[k + 1] IN n[0]

strnlen(m, s, size) ==
  LET n[k \in 0..size] == IF k = size THEN k ELSE IF m[s + k] = 0 THEN k ELSE n[k + 1] IN n[0]

\* One byte after the other, each read from memory as it is by then.
Moved(m, dst, src, order) ==
  FoldLeft(LAMBDA n, k : [n EXCEPT ![dst + k] = n[src + k]], m, order)

Upwards(n) == [k \in 1..n |-> k - 1]

memcpy(m, dst, src, n) == Moved(m, dst, src, Upwards(n))

MutOnlyUpwards(m, dst, src, n) == Moved(m, dst, src, Upwards(n))

memmove(m, dst, src, n) ==
  Moved(m, dst, src, IF src < dst /\ src + n > dst THEN Reverse(Upwards(n)) ELSE Upwards(n))

memset(m, v, c, n) == FoldLeft(LAMBDA k, p : [k EXCEPT ![v + p] = c], m, Upwards(n))

strcpy(m, dst, src) ==
  LET copy[k \in Nat, n \in [Index -> 0..255]] ==
        LET after == [n EXCEPT ![dst + k] = n[src + k]]
        IN  IF after[dst + k] = 0 THEN after ELSE copy[k + 1, after]
  IN  copy[0, m]

strncpy(m, dst, src, size) ==
  LET copy[i \in 0..size, s \in Nat, n \in [Index -> 0..255]] ==
        IF i = size THEN n
        ELSE copy[i + 1, IF n[s] # 0 THEN s + 1 ELSE s, [n EXCEPT ![dst + i] = n[s]]]
  IN  copy[0, src, m]

strlcpy(m, dst, src, size) ==
  LET n == strnlen(m, src, size - 1)
  IN  IF size = 0 THEN m ELSE [memcpy(m, dst, src, n) EXCEPT ![dst + n] = 0]

\* The first place where the strings differ or end.
strcmp(m, p, q) ==
  LET at[k \in Nat] == IF m[p + k] # 0 /\ m[p + k] = m[q + k] THEN at[k + 1]
                       ELSE m[p + k] - m[q + k]
  IN  at[0]

strncmp(m, p, q, n) ==
  LET at[k \in 0..n] == IF k = n THEN 0
                        ELSE IF m[p + k] # 0 /\ m[p + k] = m[q + k] THEN at[k + 1]
                        ELSE m[p + k] - m[q + k]
  IN  at[0]

memcmp(m, v1, v2, n) ==
  LET at[k \in 0..n] == IF k = n THEN 0
                        ELSE IF m[v1 + k] # m[v2 + k] THEN m[v1 + k] - m[v2 + k] ELSE at[k + 1]
  IN  at[0]

\* The address of the first c in the string, or of its end.
strfind(m, s, c) ==
  LET at[k \in Nat] == IF m[s + k] \in {0, c} THEN s + k ELSE at[k + 1] IN at[0]

\* 0 - 1 is the null pointer.
strchr(m, s, c) == LET p == strfind(m, s, c) IN IF m[p] = 0 THEN 0 - 1 ELSE p

memfind(m, s, c, n) ==
  LET at[k \in 0..n] == IF k = n THEN s + n ELSE IF m[s + k] = c THEN s + k ELSE at[k + 1]
  IN  at[0]

strcconcat(m, str1, str2, final) ==
  LET len1 == strlen(m, str1)
      len2 == strlen(m, str2)
      both == memcpy(memcpy(m, final, str1, len1), final + len1, str2, len2)
  IN  [both EXCEPT ![final + len1 + len2] = 0]

\* The arguments found from position s on, when argv are found already.
strsplit(m, s, split) ==
  LET from[p \in Nat, n \in [Index -> 0..255], argv \in Seq(Index)] ==
        CASE n[p] \in split -> from[p + 1, [n EXCEPT ![p] = 0], argv]
          [] n[p] = 0 -> [returned |-> 1, argv |-> argv, memory |-> n]
          [] n[p] \notin split \cup {0} /\ Len(argv) = MAX_ARGUMENTS - 1 ->
               [returned |-> 0, argv |-> argv, memory |-> n]
          [] OTHER ->
               LET end[k \in Nat] == IF n[k] \in split \cup {0} THEN k ELSE end[k + 1]
               IN  from[end[p], n, Append(argv, p)]
  IN  from[s, m, <<>>]

\* The value of a digit in any base up to 36; 99 if it is none.
Digit(c) == CASE c \in 48..57 -> c - 48 [] c \in 97..122 -> c - 87 [] c \in 65..90 -> c - 55
              [] OTHER -> 99

\* Digits from place s of m on; overflow is out of the numbers here.
Digits(m, s, base) ==
  LET val[k \in Nat, v \in Int] ==
        IF Digit(m[s + k]) >= base THEN v ELSE val[k + 1, v * base + Digit(m[s + k])]
  IN  val[0, 0]

strtol(m, s, base) ==
  LET blanks[k \in Nat] == IF m[k] \in {32, 9} THEN blanks[k + 1] ELSE k
      sign  == blanks[s]
      start == IF m[sign] \in {43, 45} THEN sign + 1 ELSE sign
      hex   == base \in {0, 16} /\ m[start] = 48 /\ m[start + 1] = 120
      value == CASE hex -> Digits(m, start + 2, 16)
                 [] ~hex /\ base = 0 /\ m[start] = 48 -> Digits(m, start + 1, 8)
                 [] OTHER -> Digits(m, start, IF base = 0 THEN 10 ELSE base)
  IN  IF m[sign] = 45 THEN 0 - value ELSE value

\* The digits of a number, the last one first: the loop looks at the next digit
\* to see whether there is one, and stops at a 0.
Remainders(value) ==
  LET mods[v \in Nat] ==
        <<48 + (v % 10)>> \o (IF (v \div 10) % 10 # 0 THEN mods[v \div 10] ELSE <<>>)
  IN  mods[value]

ltostr(m, value, str) ==
  LET text == (IF value < 0 THEN <<45>> ELSE <<>>)
                \o Reverse(Remainders(IF value < 0 THEN 0 - value ELSE value)) \o <<0>>
  IN  [a \in Index |-> IF a - str + 1 \in DOMAIN text THEN text[a - str + 1] ELSE m[a]]

-----------------------------------------------------------------------------
(* A call.                                                                 *)

Returned(routine, args, memory, value) ==
  /\ call' = [routine |-> routine, args |-> args]
  /\ before' = bytes /\ bytes' = memory /\ result' = value

\* Where n bytes fit.
InMemory(a, n) == a + n <= MemorySize

CallMove ==
  \E dst, src \in Index, n \in 1..MemorySize :
    /\ InMemory(dst, n) /\ InMemory(src, n)
    /\ \/ Returned("memmove", <<dst, src, n>>, memmove(bytes, dst, src, n), dst)
       \/ Returned("memcpy", <<dst, src, n>>, memcpy(bytes, dst, src, n), dst)
       \/ Returned("memcmp", <<dst, src, n>>, bytes, memcmp(bytes, dst, src, n))

CallFill ==
  \E s \in Index, n \in 1..MemorySize, c \in Letters :
    /\ InMemory(s, n)
    /\ \/ Returned("memset", <<s, c, n>>, memset(bytes, s, c, n), s)
       \/ Returned("memfind", <<s, c, n>>, bytes, memfind(bytes, s, c, n))

CallCompare ==
  \E p, q \in Index :
    /\ IsString(bytes, p) /\ IsString(bytes, q)
    /\ \/ Returned("strcmp", <<p, q>>, bytes, strcmp(bytes, p, q))
       \/ \E n \in 0..MemorySize :
            Returned("strncmp", <<p, q, n>>, bytes, strncmp(bytes, p, q, n))

\* The strings and what is written do not overlap.
CallCopy ==
  \E dst, src \in Index :
    /\ IsString(bytes, src) /\ src < dst /\ src + strlen(bytes, src) < dst
    /\ \/ /\ InMemory(dst, strlen(bytes, src) + 1)
          /\ Returned("strcpy", <<dst, src>>, strcpy(bytes, dst, src), dst)
       \/ \E n \in 0..MemorySize :
            /\ InMemory(dst, n)
            /\ \/ Returned("strncpy", <<dst, src, n>>, strncpy(bytes, dst, src, n), dst)
               \/ Returned("strlcpy", <<dst, src, n>>, strlcpy(bytes, dst, src, n),
                           IF n = 0 THEN 0 ELSE strnlen(bytes, src, n - 1))

CallConcat ==
  \E str1, str2, final \in Index :
    /\ \A s \in {str1, str2} : IsString(bytes, s) /\ s + strlen(bytes, s) < final
    /\ InMemory(final, strlen(bytes, str1) + strlen(bytes, str2) + 1)
    /\ Returned("strcconcat", <<str1, str2, final>>, strcconcat(bytes, str1, str2, final), 0)

CallScan ==
  \E s \in Index, c \in Letters :
    /\ IsString(bytes, s)
    /\ \/ Returned("strchr", <<s, c>>, bytes, strchr(bytes, s, c))
       \/ LET split == strsplit(bytes, s, {c})
          IN  Returned("strsplit", <<s, c>>, split.memory,
                       [argv |-> split.argv, returned |-> split.returned])

CallNumber ==
  \E value \in Numbers :
    /\ \A a \in Index : bytes[a] = 0
    /\ Returned("ltostr", <<value>>, ltostr(bytes, value, 0), 0)

StringInit == bytes \in [Index -> Letters \cup {0}] /\ before = bytes /\ call = <<>> /\ result = 0

StringNext == /\ call = <<>>
              /\ \/ CallMove \/ CallFill \/ CallCompare \/ CallCopy \/ CallConcat
                 \/ CallScan \/ CallNumber

-----------------------------------------------------------------------------
(* Properties.                                                             *)

\* The string that starts at s, as a sequence.
Text(m, s) == LET n == CHOOSE n \in 0..MemorySize - s - 1 :
                         m[s + n] = 0 /\ \A k \in 0..n - 1 : m[s + k] # 0
              IN  [k \in 1..n |-> m[s + k - 1]]

Bytes(m, s, n) == [k \in 1..n |-> m[s + k - 1]]

Prefix(text, n) == SubSeq(text, 1, IF n < Len(text) THEN n ELSE Len(text))

\* Memory outside the n bytes at s is as before the call.
OnlyChanged(s, n) == \A a \in Index \ (s..s + n - 1) : bytes[a] = before[a]

\* The order of dictionaries; d is a difference that was returned.
Ordered(s, t, d) ==
  LET first == CHOOSE k \in 1..Len(s) + Len(t) + 1 :
                 /\ \A j \in 1..k - 1 : j <= Len(s) /\ j <= Len(t) /\ s[j] = t[j]
                 /\ k > Len(s) \/ k > Len(t) \/ s[k] # t[k]
      less  == first > Len(s) \/ (first <= Len(t) /\ s[first] < t[first])
  IN  IF s = t THEN d = 0 ELSE IF less THEN d < 0 ELSE d > 0

\* The words of a text and where they start.
Starts(text, c) ==
  {k \in 1..Len(text) : text[k] # c /\ (k = 1 \/ text[k - 1] = c)}

MovedRight(args) ==
  /\ Bytes(bytes, args[1], args[3]) = Bytes(before, args[2], args[3])
  /\ OnlyChanged(args[1], args[3])

SplitRight(args) ==
  LET starts == SetToSortSeq({args[1] + k - 1 : k \in Starts(Text(before, args[1]), args[2])},
                             LAMBDA a, b : a < b)
      found  == Prefix(starts, MAX_ARGUMENTS - 1)
  IN  /\ result.argv = found
      /\ result.returned = IF Len(starts) < MAX_ARGUMENTS THEN 1 ELSE 0
      /\ result.returned = 1 => \A k \in DOMAIN found :
           /\ IsString(bytes, found[k])
           /\ ToSet(Text(bytes, found[k])) \cap {args[2]} = {}

\* ltostr gets a number with a 0 before its last digit wrong.
Writable(value) ==
  \A p \in {10, 100, 1000} : value >= p \/ -value >= p =>
     ((IF value < 0 THEN -value ELSE value) \div p) % 10 # 0

(***************************************************************************)
(* The routines do what their callers take for granted: memmove moves what *)
(* overlaps, in either direction, and memcpy what it moves downwards, as   *)
(* the console does when it scrolls; copies end where they should, the     *)
(* comparisons order strings, strsplit finds the words of a command line   *)
(* and ends each of them, and ltostr writes numbers that strtol reads      *)
(* back, so that the semaphores that tst_air names after its customers are *)
(* different ones.                                                         *)
(***************************************************************************)
LibraryRight ==
  call # <<>> =>
    LET a == call.args
    IN  CASE call.routine = "memmove" -> MovedRight(a)
          [] call.routine = "memcpy" ->
               a[1] <= a[2] \/ a[2] + a[3] <= a[1] => MovedRight(a)
          [] call.routine = "memcmp" ->
               Ordered(Bytes(bytes, a[1], a[3]), Bytes(bytes, a[2], a[3]), result)
          [] call.routine = "memset" ->
               ToSet(Bytes(bytes, a[1], a[3])) = {a[2]} /\ OnlyChanged(a[1], a[3])
          [] call.routine = "memfind" ->
               /\ a[2] \notin ToSet(Bytes(bytes, a[1], result - a[1]))
               /\ result = a[1] + a[3] \/ bytes[result] = a[2]
          [] call.routine = "strcmp" ->
               Ordered(Text(bytes, a[1]), Text(bytes, a[2]), result)
          [] call.routine = "strncmp" ->
               Ordered(Prefix(Text(bytes, a[1]), a[3]), Prefix(Text(bytes, a[2]), a[3]), result)
          [] call.routine = "strcpy" ->
               /\ Text(bytes, a[1]) = Text(before, a[2])
               /\ OnlyChanged(a[1], Len(Text(before, a[2])) + 1)
          [] call.routine = "strncpy" ->
               LET text == Text(before, a[2])
               IN  /\ \A k \in 1..a[3] :
                        bytes[a[1] + k - 1] = IF k <= Len(text) THEN text[k] ELSE 0
                   /\ OnlyChanged(a[1], a[3])
          [] call.routine = "strlcpy" ->
               /\ a[3] > 0 => /\ Text(bytes, a[1]) = Prefix(Text(before, a[2]), a[3] - 1)
                              /\ Len(Text(bytes, a[1])) = result
               /\ OnlyChanged(a[1], a[3])
          [] call.routine = "strcconcat" ->
               Text(bytes, a[3]) = Text(before, a[1]) \o Text(before, a[2])
          [] call.routine = "strchr" ->
               LET text == Text(bytes, a[1])
               IN  IF a[2] \notin ToSet(text) THEN result = 0 - 1
                   ELSE bytes[result] = a[2] /\ a[2] \notin ToSet(Bytes(bytes, a[1], result - a[1]))
          [] call.routine = "strsplit" -> SplitRight(a)
          [] call.routine = "ltostr" -> Writable(a[1]) => strtol(bytes, 0, 10) = a[1]
=============================================================================
