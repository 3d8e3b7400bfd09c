------------------------------ MODULE Console ------------------------------
(***************************************************************************)
(* The console of the kernel (kern/console.c): the keyboard driver with    *)
(* its modifiers, the ring of characters that were typed ahead, the serial *)
(* line and the text screen.  Bytes and characters are numbers, as in the  *)
(* code.                                                                   *)
(***************************************************************************)
EXTENDS Integers, Sequences, SequencesExt

CONSTANTS CONSBUFSIZE,         \* length of the ring
          CRT_ROWS, CRT_COLS,  \* the screen
          PromptLength         \* characters of the prompt, 5 in the code

ASSUME ConsoleAssumption ==
  /\ CONSBUFSIZE \in Nat \ {0, 1}
  /\ CRT_ROWS \in Nat \ {0, 1} /\ CRT_COLS \in Nat \ {0} /\ PromptLength \in 0..CRT_COLS

VARIABLES kbd,     \* bytes the keyboard controller holds
          uart,    \* the character the serial port has received, if any
          shift,   \* the flags of kbd_proc_data
          cons,    \* the ring: buf, rpos, wpos
          screen   \* crt_buf, crt_pos and text_length

consoleVars == <<kbd, uart, shift, cons, screen>>

Devices == [kbd |-> kbd, uart |-> uart, shift |-> shift, cons |-> cons, screen |-> screen]

CRT_SIZE == CRT_ROWS * CRT_COLS

\* The code writes 1920 for the first cell of the last row of its 25 by 80 screen.
LastRow == CRT_SIZE - CRT_COLS

\* The code touches some cells behind the visible ones, whose contents nobody
\* knows.
Cell == 0..CRT_SIZE + PromptLength + 1

Unknown == 0 - 1

Blank == 32

KEY_HOME == \hE0
KEY_END == \hE1
KEY_UP == \hE2
KEY_DN == \hE3
KEY_LF == \hE4
KEY_RT == \hE5
KEY_PGUP == \hE6
KEY_PGDN == \hE7
KEY_INS == \hE8
KEY_DEL == \hE9

-----------------------------------------------------------------------------
(* Text-mode output.  s is a screen.                                       *)

Scrolled(s) ==
  IF s.crt_pos < CRT_SIZE THEN s
  ELSE [s EXCEPT !.crt_pos = @ - CRT_COLS,
                 !.crt_buf = [k \in Cell |-> IF k < LastRow THEN @[k + CRT_COLS]
                                             ELSE IF k < CRT_SIZE THEN Blank ELSE @[k]]]

BackSpace(s) ==
  IF s.crt_pos > 0 THEN [s EXCEPT !.crt_pos = @ - 1, !.crt_buf[s.crt_pos - 1] = Blank] ELSE s

NewLine(s) == [s EXCEPT !.crt_pos = @ + CRT_COLS - (@ % CRT_COLS), !.text_length = 0]

Written(s, c) ==
  [s EXCEPT !.crt_buf[s.crt_pos] = c, !.crt_pos = @ + 1,
            !.text_length = IF s.crt_pos + 1 > LastRow + @ THEN @ + 1 ELSE @]

cga_putc(s, c) ==
  Scrolled(CASE c = 8 -> BackSpace(s)
             [] c = 10 -> NewLine(s)
             [] c = 9 -> FoldLeft(LAMBDA t, space : Scrolled(Written(t, space)), s,
                                  [k \in 1..5 |-> Blank])
             [] c = 13 -> [s EXCEPT !.crt_pos = @ - (@ % CRT_COLS)]
             [] c = KEY_LF -> IF s.crt_pos > 0 THEN [s EXCEPT !.crt_pos = @ - 1] ELSE s
             [] c = KEY_RT -> IF s.crt_pos < CRT_SIZE THEN [s EXCEPT !.crt_pos = @ + 1] ELSE s
             [] OTHER -> Written(s, c))

cputchars(s, text) == FoldLeft(cga_putc, s, text)

-----------------------------------------------------------------------------
(* The keyboard.                                                           *)

\* What the keys send when they are pressed; a release has the top bit set.
Scan == [a |-> <<\h1E>>, digit |-> <<\h08>>, Enter |-> <<\h1C>>, Backspace |-> <<\h0E>>,
         Shift |-> <<\h2A>>, LeftCtrl |-> <<\h1D>>, RightCtrl |-> <<\hE0, \h1D>>,
         CapsLock |-> <<\h3A>>, NumLock |-> <<\h45>>, Up |-> <<\hE0, \h48>>,
         Down |-> <<\hE0, \h50>>, Left |-> <<\hE0, \h4B>>, Right |-> <<\hE0, \h4D>>,
         Delete |-> <<\hE0, \h53>>]

shiftcode(data) == CASE data \in {\h1D, \h9D} -> {"CTL"}
                     [] data \in {\h2A, \h36} -> {"SHIFT"}
                     [] data \in {\h38, \hB8} -> {"ALT"}
                     [] OTHER -> {}

togglecode(data) == CASE data = \h3A -> {"CAPSLOCK"}
                      [] data = \h45 -> {"NUMLOCK"}
                      [] data = \h46 -> {"SCROLLLOCK"}
                      [] OTHER -> {}

\* The maps, from scan code 0 on.
normalmap ==
  <<0, 27, 49, 50, 51, 52, 53, 54, 55, 56, 57, 48, 45, 61, 8, 9, 113, 119,
    101, 114, 116, 121, 117, 105, 111, 112, 91, 93, 10, 0, 97, 115, 100, 102,
    103, 104, 106, 107, 108, 59, 39, 96, 0, 92, 122, 120, 99, 118, 98, 110,
    109, 44, 46, 47, 0, 42, 0, 32, 0, 0, 0, 0, 0, 0, 0, 0, 0, 0, 0, 0, 0, 55,
    56, 57, 45, 52, 53, 54, 43, 49, 50, 51, 48, 46>>

shiftmap ==
  <<0, 27, 33, 64, 35, 36, 37, 94, 38, 42, 40, 41, 95, 43, 8, 9, 81, 87, 69,
    82, 84, 89, 85, 73, 79, 80, 123, 125, 10, 0, 65, 83, 68, 70, 71, 72, 74,
    75, 76, 58, 34, 126, 0, 124, 90, 88, 67, 86, 66, 78, 77, 60, 62, 63, 0,
    42, 0, 32, 0, 0, 0, 0, 0, 0, 0, 0, 0, 0, 0, 0, 0, 55, 56, 57, 45, 52, 53,
    54, 43, 49, 50, 51, 48, 46>>

\* For / it is '/' - '@', which the byte holds modulo 256.
ctlmap ==
  <<0, 0, 0, 0, 0, 0, 0, 0, 0, 0, 0, 0, 0, 0, 0, 0, 17, 23, 5, 18, 20, 25,
    21, 9, 15, 16, 0, 0, 13, 0, 1, 19, 4, 6, 7, 8, 10, 11, 12, 0, 0, 0, 0, 28,
    26, 24, 3, 22, 2, 14, 13, 0, 0, 239, 0, 0, 0, 255>>

\* The keys with two bytes, which every map has; Enter and / of the key pad.
Extended(flags, data) ==
  CASE data = \h97 -> KEY_HOME [] data = \hC8 -> KEY_UP   [] data = \hC9 -> KEY_PGUP
    [] data = \hCB -> KEY_LF   [] data = \hCD -> KEY_RT   [] data = \hCF -> KEY_END
    [] data = \hD0 -> KEY_DN   [] data = \hD1 -> KEY_PGDN [] data = \hD2 -> KEY_INS
    [] data = \hD3 -> KEY_DEL
    [] data = \h9C -> IF "CTL" \in flags THEN 0 ELSE 10
    [] data = \hB5 -> IF "CTL" \in flags THEN 239 ELSE 47
    [] OTHER -> 0

charcode(flags, data) ==
  LET keymap == IF "CTL" \in flags THEN ctlmap
                ELSE IF "SHIFT" \in flags THEN shiftmap ELSE normalmap
  IN  IF data < Len(keymap) THEN keymap[data + 1] ELSE Extended(flags, data)

Capitalised(flags, c) == IF "CAPSLOCK" \notin flags THEN c
                         ELSE IF c \in 97..122 THEN c - 32
                         ELSE IF c \in 65..90 THEN c + 32 ELSE c

\* Delete changes the screen right here: it works on the last row only, and not
\* at the end of the text.
DeleteIgnored(s) == s.text_length = 0 \/ s.crt_pos = LastRow + s.text_length

Deleted(s) ==
  LET last == LastRow + PromptLength + s.text_length - 1
  IN  [s EXCEPT !.text_length = @ - 1,
                !.crt_buf = [k \in Cell |-> IF k \in s.crt_pos..last THEN @[k + 1] ELSE @[k]]]

MutEscapeKept(d, byte) ==
  [c |-> 0, after |-> [d EXCEPT !.shift = @ \ shiftcode(IF "E0ESC" \in @ THEN byte ELSE byte - 128)]]

\* Each takes a byte from the keyboard of d and gives the character c it makes,
\* 0 if none.
KeyReleased(d, byte) ==
  LET data == IF "E0ESC" \in d.shift THEN byte ELSE byte - 128
  IN  [c |-> 0, after |-> [d EXCEPT !.shift = @ \ (shiftcode(data) \cup {"E0ESC"})]]

KeyPressed(d, byte) ==
  LET data  == IF "E0ESC" \in d.shift THEN byte + 128 ELSE byte
      down  == (d.shift \ {"E0ESC"}) \cup shiftcode(data)
      flags == (down \ togglecode(data)) \cup (togglecode(data) \ down)
      c     == charcode(flags, data)
  IN  IF c = KEY_DEL
      THEN IF DeleteIgnored(d.screen) THEN [c |-> 0, after |-> [d EXCEPT !.shift = flags]]
           ELSE [c |-> c, after |-> [d EXCEPT !.shift = flags, !.screen = Deleted(@)]]
      ELSE [c |-> IF (flags = {"NUMLOCK"} /\ c \in 48..57) \/ c = 255 THEN 0
                  ELSE Capitalised(flags, c),
            after |-> [d EXCEPT !.shift = flags]]

kbd_proc_data(d, byte) ==
  LET left == [d EXCEPT !.kbd = Tail(@)]
  IN  IF byte = \hE0 THEN [c |-> 0, after |-> [left EXCEPT !.shift = @ \cup {"E0ESC"}]]
      ELSE IF byte >= 128 THEN KeyReleased(left, byte) ELSE KeyPressed(left, byte)

-----------------------------------------------------------------------------
(* The ring.                                                               *)

Next_pos(pos) == IF pos + 1 = CONSBUFSIZE THEN 0 ELSE pos + 1

Put(d, c) == IF c = 0 THEN d
             ELSE [d EXCEPT !.cons.buf[d.cons.wpos] = c, !.cons.wpos = Next_pos(@)]

Got(read) == Put(read.after, read.c)

kbd_intr(d) == FoldLeft(LAMBDA e, byte : Got(kbd_proc_data(e, byte)), d, d.kbd)

serial_intr(d) == IF d.uart = <<>> THEN d ELSE [Put(d, d.uart[1]) EXCEPT !.uart = <<>>]

FromRing(d) == IF d.cons.rpos = d.cons.wpos THEN [c |-> 0, after |-> d]
            ELSE [c |-> d.cons.buf[d.cons.rpos],
                  after |-> [d EXCEPT !.cons.rpos = Next_pos(@)]]

\* For the kernel: everything that waits is put in the ring first.
cons_getc(d) == FromRing(kbd_intr(serial_intr(d)))

\* For programs: one byte of each device, and a character only when the byte of
\* the keyboard made one, not necessarily that character.
cons_getc2(d) ==
  LET typed == IF d.kbd = <<>> THEN [c |-> 0, after |-> serial_intr(d)]
               ELSE kbd_proc_data(serial_intr(d), Head(d.kbd))
  IN  IF typed.c = 0 THEN typed ELSE FromRing(Got(typed))

Contents(r) == [k \in 1..(r.wpos - r.rpos) % CONSBUFSIZE |-> r.buf[(r.rpos + k - 1) % CONSBUFSIZE]]

ConsoleAtBoot ==
  [kbd |-> <<>>, uart |-> <<>>, shift |-> {},
   cons |-> [buf |-> [k \in 0..CONSBUFSIZE - 1 |-> 0], rpos |-> 0, wpos |-> 0],
   screen |-> [crt_buf |-> [k \in Cell |-> IF k < CRT_SIZE THEN Blank ELSE Unknown],
               crt_pos |-> 0, text_length |-> 0]]
=============================================================================
