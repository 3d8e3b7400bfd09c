---------------------------- MODULE CommandLine ----------------------------
(***************************************************************************)
(* The command prompt's line editor with its history                       *)
(* (command_prompt_readline, kern/command_prompt.c) and the programs that  *)
(* read lines from the same console (lib/readline.c).  The user types      *)
(* ahead of whoever reads.                                                 *)
(*                                                                         *)
(* Not modelled: completion with Tab, whose first decision reads           *)
(* variables nobody has initialised.                                       *)
(***************************************************************************)
EXTENDS Console, FiniteSets

CONSTANTS BUFLEN,
          HISTORY_MAX,   \* last index of command_history
          Sessions,      \* bound: what the user may press in a session, and how often
          KbdBytes       \* bound: bytes the keyboard holds before the user waits

ASSUME CommandLineAssumption ==
  /\ BUFLEN \in Nat \ {0} /\ HISTORY_MAX \in Nat \ {0}
  /\ KbdBytes \in Nat /\ CONSBUFSIZE > KbdBytes \div 2 + 1
  /\ \A session \in Sessions : /\ session[1] \subseteq DOMAIN Scan \cup {"serial", "program"}
                               /\ session[2] \in 0..BUFLEN

VARIABLES keys,              \* those of this session
          pressed,           \* modifiers held down
          caps,              \* whether Caps Lock is on
          events,            \* how often the user will still press something
          unread,            \* what the user meant and nobody has read yet
          overrun,           \* more characters were put in the ring than it holds
          reader,            \* who reads: the prompt or a program
          buf, i, lastIndex, \* of command_prompt_readline
          commandidx, command_history, last_command_idx,
          torn               \* the line was changed in a way the editor gets wrong

userVars == <<keys, pressed, caps, events, unread, overrun>>

editorVars == <<buf, i, lastIndex, commandidx, command_history, last_command_idx, torn>>

promptVars == <<consoleVars, userVars, reader, editorVars>>

Modifiers == {"Shift", "LeftCtrl", "RightCtrl"}

Serial == 115

-----------------------------------------------------------------------------
(* The user.                                                               *)

\* What a key means to the user who holds these modifiers; 0 is nothing.
Meaning(key) ==
  LET control == pressed \cap {"LeftCtrl", "RightCtrl"} # {}
      shifted == "Shift" \in pressed
  IN  CASE key = "a" -> IF control THEN 1 ELSE IF shifted # caps THEN 65 ELSE 97
        [] key = "Enter" -> IF control THEN 13 ELSE 10
        [] key = "Backspace" -> IF control THEN 0 ELSE 8
        [] key = "Up" -> KEY_UP [] key = "Down" -> KEY_DN
        [] key = "Left" -> KEY_LF [] key = "Right" -> KEY_RT
        [] OTHER -> 0

Break(key) == [k \in 1..Len(Scan[key]) |-> IF k = Len(Scan[key]) THEN Scan[key][k] + 128
                                           ELSE Scan[key][k]]

Sent(bytes) == /\ Len(kbd) + Len(bytes) <= KbdBytes
               /\ kbd' = kbd \o bytes
               /\ events > 0 /\ events' = events - 1
               /\ UNCHANGED <<uart, shift, cons, screen, keys, overrun, reader, editorVars>>

Tap(key) ==
  /\ key \in keys \ (Modifiers \cup {"serial", "program"})
  /\ Sent(Scan[key] \o Break(key))
  /\ unread' = IF Meaning(key) = 0 THEN unread ELSE Append(unread, Meaning(key))
  /\ caps' = (caps # (key = "CapsLock"))
  /\ UNCHANGED pressed

Press(key) == /\ key \in keys \cap (Modifiers \ pressed)
              /\ Sent(Scan[key]) /\ pressed' = pressed \cup {key} /\ UNCHANGED <<caps, unread>>

Release(key) == /\ key \in pressed
                /\ Sent(Break(key)) /\ pressed' = pressed \ {key} /\ UNCHANGED <<caps, unread>>

\* A character arrives on the serial line.
Receive == /\ "serial" \in keys /\ uart = <<>>
           /\ uart' = <<Serial>> /\ events > 0 /\ events' = events - 1
           /\ UNCHANGED <<kbd, shift, cons, screen, keys, pressed, caps, unread, overrun,
                          reader, editorVars>>

-----------------------------------------------------------------------------
(* Reading.                                                                *)

\* A call of cons_getc or cons_getc2 has returned; s is the screen after it.
Returns(got, s) ==
  LET after == got.after
      added == (after.cons.wpos - cons.wpos) % CONSBUFSIZE
      held  == Len(Contents(cons)) + added
  IN  /\ kbd' = after.kbd /\ uart' = after.uart /\ shift' = after.shift /\ cons' = after.cons
      /\ screen' = s
      /\ overrun' = (overrun \/ held >= CONSBUFSIZE)
      /\ unread' = IF got.c # 0 /\ unread # <<>> /\ got.c = Head(unread) THEN Tail(unread)
                   ELSE unread
      /\ UNCHANGED <<keys, pressed, caps, events>>

EmptyLine == [k \in 0..BUFLEN - 1 |-> 0]

\* The characters of a line, up to the first 0.
Line(line) == LET n == CHOOSE k \in 0..BUFLEN - 1 : line[k] = 0 /\ \A j \in 0..k - 1 : line[j] # 0
              IN  [k \in 1..n |-> line[k - 1]]

LineOf(text) == [k \in 0..BUFLEN - 1 |-> IF k < Len(text) THEN text[k + 1] ELSE 0]

\* What lies before and behind command_history is read in two places; nobody
\* knows what it is.
History(index) == IF index \in 0..HISTORY_MAX THEN {command_history[index]}
                  ELSE {EmptyLine, LineOf(<<63>>)}

Prompt == [k \in 1..PromptLength |-> 62]

-----------------------------------------------------------------------------
(* The characters the prompt's editor handles; d is what cons_getc gave.   *)

\* At the head of the loop.
LastIndex == IF i > lastIndex THEN i ELSE lastIndex

Erased(s, n) == cputchars(s, [k \in 1..n |-> 8])

MutEraseOneLess(d, index) ==
  \E line \in History(index) :
    /\ buf' = LineOf(Line(line)) /\ i' = Len(Line(line)) /\ lastIndex' = i'
    /\ Returns(d, cputchars(Erased(d.after.screen, i - 1), Line(line)))

clearandwritecommand(d, index) ==
  \E line \in History(index) :
    /\ buf' = LineOf(Line(line)) /\ i' = Len(Line(line)) /\ lastIndex' = i'
    /\ Returns(d, cputchars(Erased(d.after.screen, i), Line(line)))

UpArrow(d) ==
  /\ d.c = KEY_UP
  /\ commandidx' = IF commandidx > 0 THEN commandidx - 1 ELSE 0
  /\ clearandwritecommand(d, commandidx')
  /\ torn' = (torn \/ buf[i] # 0)
  /\ UNCHANGED <<command_history, last_command_idx, reader>>

DownArrow(d) ==
  /\ d.c = KEY_DN
  /\ commandidx' = IF commandidx < last_command_idx THEN commandidx + 1 ELSE commandidx
  /\ IF last_command_idx >= 0 THEN clearandwritecommand(d, commandidx')
     ELSE /\ Returns(d, d.after.screen) /\ lastIndex' = LastIndex /\ UNCHANGED <<buf, i>>
  /\ torn' = (torn \/ (last_command_idx >= 0 /\ buf[i] # 0))
  /\ UNCHANGED <<command_history, last_command_idx, reader>>

LeftArrow(d) ==
  /\ d.c = KEY_LF
  /\ IF i > 0 THEN i' = i - 1 /\ Returns(d, cga_putc(d.after.screen, d.c))
     ELSE UNCHANGED i /\ Returns(d, d.after.screen)
  /\ lastIndex' = LastIndex
  /\ UNCHANGED <<buf, commandidx, command_history, last_command_idx, torn, reader>>

RightArrow(d) ==
  /\ d.c = KEY_RT
  /\ IF i < LastIndex THEN i' = i + 1 /\ Returns(d, cga_putc(d.after.screen, d.c))
     ELSE UNCHANGED i /\ Returns(d, d.after.screen)
  /\ lastIndex' = LastIndex
  /\ torn' = (torn \/ i \in Len(Line(buf))..LastIndex - 1)
  /\ UNCHANGED <<buf, commandidx, command_history, last_command_idx, reader>>

\* The driver has deleted on the screen already, maybe before the cursor was here.
DeleteKey(d) ==
  /\ d.c = KEY_DEL /\ i > 0
  /\ buf' = [k \in 0..BUFLEN - 1 |-> IF k \in i..LastIndex /\ k < BUFLEN - 1 THEN buf[k + 1]
                                     ELSE buf[k]]
  /\ lastIndex' = LastIndex - 1
  /\ torn' = \/ torn
             \/ Contents(cons) # <<>> \/ Len(kbd) # Len(Scan["Delete"] \o Break("Delete"))
             \/ screen.text_length + PromptLength >= CRT_COLS
  /\ Returns(d, d.after.screen)
  /\ UNCHANGED <<i, commandidx, command_history, last_command_idx, reader>>

\* Also Delete at the start of the line.
Printable(d) ==
  /\ d.c >= Blank /\ d.c \notin {KEY_UP, KEY_DN, KEY_LF, KEY_RT} /\ ~(d.c = KEY_DEL /\ i > 0)
  /\ i < BUFLEN - 1
  /\ buf' = [buf EXCEPT ![i] = d.c] /\ i' = i + 1 /\ lastIndex' = LastIndex + 1
  /\ Returns(d, cga_putc(d.after.screen, d.c))
  /\ torn' = (torn \/ d.c = KEY_DEL)
  /\ UNCHANGED <<commandidx, command_history, last_command_idx, reader>>

\* The character before the cursor becomes the one at the cursor.
BackSpaceKey(d) ==
  /\ d.c = 8 /\ i > 0
  /\ buf' = [buf EXCEPT ![i - 1] = buf[i]] /\ i' = i - 1 /\ lastIndex' = LastIndex
  /\ Returns(d, cga_putc(d.after.screen, d.c))
  /\ torn' = (torn \/ buf[i] # 0)
  /\ UNCHANGED <<commandidx, command_history, last_command_idx, reader>>

Remembered(line) ==
  IF last_command_idx = HISTORY_MAX
  THEN /\ command_history' = [k \in 0..HISTORY_MAX |-> IF k = HISTORY_MAX THEN line
                                                       ELSE command_history[k + 1]]
       /\ UNCHANGED last_command_idx
  ELSE \E last \in History(last_command_idx) :
         IF last = line THEN UNCHANGED <<command_history, last_command_idx>>
         ELSE /\ last_command_idx' = last_command_idx + 1
              /\ command_history' = [command_history EXCEPT ![last_command_idx'] = line]

\* The line is executed, which may start a program that asks for a line;
\* otherwise the kernel prompts for the next one.
EnterKey(d) ==
  /\ d.c \in {10, 13}
  /\ Remembered([buf EXCEPT ![LastIndex] = 0])
  /\ buf' = EmptyLine /\ i' = 0 /\ lastIndex' = 0 /\ torn' = (d.c = 13)
  /\ commandidx' = last_command_idx' + 1
  /\ Returns(d, cputchars(cga_putc(d.after.screen, d.c), Prompt))
  /\ reader' \in {"prompt"} \cup (keys \cap {"program"})

\* No character, a control character, or the line is full.
Ignored(d) ==
  /\ \/ d.c \in 0..31 \ {8, 10, 13}
     \/ d.c = 8 /\ i = 0
     \/ /\ d.c >= Blank /\ d.c \notin {KEY_UP, KEY_DN, KEY_LF, KEY_RT} /\ i = BUFLEN - 1
        /\ ~(d.c = KEY_DEL /\ i > 0)
  /\ Devices # d.after
  /\ Returns(d, d.after.screen)
  /\ lastIndex' = (IF d.c = 0 THEN lastIndex ELSE LastIndex)
  /\ UNCHANGED <<buf, i, commandidx, command_history, last_command_idx, torn, reader>>

command_prompt_readline ==
  /\ reader = "prompt"
  /\ LET d == cons_getc(Devices)
     IN  \/ UpArrow(d) \/ DownArrow(d) \/ LeftArrow(d) \/ RightArrow(d) \/ DeleteKey(d)
         \/ Printable(d) \/ BackSpaceKey(d) \/ EnterKey(d) \/ Ignored(d)

-----------------------------------------------------------------------------
(* A program reads a line (readline, atomic_readline of lib/readline.c);   *)
(* its buffer and its index are buf and i too, for the prompt waits.       *)

PrintableRead(d) ==
  /\ d.c >= Blank /\ i < BUFLEN - 1
  /\ buf' = [buf EXCEPT ![i] = d.c] /\ i' = i + 1
  /\ Returns(d, cga_putc(d.after.screen, d.c))
  /\ torn' = (torn \/ d.c \in {KEY_LF, KEY_RT})
  /\ UNCHANGED reader

BackSpaceRead(d) ==
  /\ d.c = 8 /\ i > 0 /\ i' = i - 1
  /\ Returns(d, cga_putc(d.after.screen, d.c))
  /\ UNCHANGED <<buf, torn, reader>>

\* The program reads another line, or ends and the kernel prompts again.
EnterRead(d) ==
  /\ d.c \in {10, 13}
  /\ i' = 0 /\ buf' = EmptyLine /\ torn' = (d.c = 13)
  /\ Returns(d, cputchars(cga_putc(d.after.screen, d.c), Prompt))
  /\ reader' \in {"program", "prompt"}

IgnoredRead(d) ==
  /\ \/ d.c \in 0..31 \ {8, 10, 13}
     \/ d.c = 8 /\ i = 0
     \/ d.c >= Blank /\ i = BUFLEN - 1
  /\ Devices # d.after
  /\ Returns(d, d.after.screen)
  /\ UNCHANGED <<buf, i, torn, reader>>

\* With one call of sys_cgetc, which getchar of lib/console.c repeats.
readline ==
  /\ reader = "program"
  /\ LET d == cons_getc2(Devices)
     IN  PrintableRead(d) \/ BackSpaceRead(d) \/ EnterRead(d) \/ IgnoredRead(d)
  /\ UNCHANGED <<lastIndex, commandidx, command_history, last_command_idx>>

-----------------------------------------------------------------------------
AtRest ==
  /\ kbd = ConsoleAtBoot.kbd /\ uart = ConsoleAtBoot.uart /\ shift = ConsoleAtBoot.shift
  /\ cons = ConsoleAtBoot.cons /\ screen = cputchars(ConsoleAtBoot.screen, Prompt)
  /\ pressed = {} /\ caps = FALSE
  /\ unread = <<>> /\ overrun = FALSE /\ reader = "prompt"
  /\ buf = EmptyLine /\ i = 0 /\ lastIndex = 0 /\ torn = FALSE
  /\ commandidx = 0 /\ last_command_idx = 0 - 1
  /\ command_history = [k \in 0..HISTORY_MAX |-> EmptyLine]

PromptInit ==
  AtRest /\ \E session \in Sessions : keys = session[1] /\ events = session[2]

PromptNext == \/ \E key \in keys : Tap(key) \/ Press(key) \/ Release(key)
              \/ Receive
              \/ command_prompt_readline
              \/ readline

PromptSpec == PromptInit /\ [][PromptNext]_promptVars

-----------------------------------------------------------------------------
(* Properties.                                                             *)

(***************************************************************************)
(* What the user typed is what is read, in that order and with the         *)
(* modifiers that were held then, however long it waited in the keyboard   *)
(* and in the ring and whoever reads: once the keyboard is empty, the      *)
(* characters from the keyboard that still wait in the ring are those the  *)
(* user meant and nobody has read.  It holds as long as no character is    *)
(* put in a full ring; Delete is left out, because the driver drops it or  *)
(* not by where the cursor is at that moment.                              *)
(***************************************************************************)
TypedIsRead ==
  kbd = <<>> /\ ~overrun /\ "Delete" \notin keys =>
    SelectSeq(Contents(cons), LAMBDA c : c # Serial) = unread

\* What the reader will use: the prompt takes its buffer up to the first 0.
Entered == IF reader = "prompt" THEN Line(buf) ELSE [k \in 1..i |-> buf[k - 1]]

(***************************************************************************)
(* The line that Enter will give to the kernel or to a program is the one  *)
(* the screen shows: behind the prompt stands the line, with the cursor at *)
(* its place in it, and nothing of an older and longer line is left behind *)
(* it, whatever was typed, overwritten, erased, deleted and taken from the *)
(* history, also when the line goes on in the next row or the screen       *)
(* scrolls.  It ends to hold (torn) when Backspace is used in the middle   *)
(* of a line, when the cursor goes beyond the end of the text, when the    *)
(* history is used in the middle of a line, when a Delete was typed ahead, *)
(* at the start of the line or with an almost full row, when a program is  *)
(* sent an arrow, and with Ctrl-Enter, which stays in its row.             *)
(***************************************************************************)
LineIsShown ==
  ~torn /\ (\A c \in ToSet(Contents(cons)) : c # KEY_DEL) =>
    LET text  == Prompt \o Entered
        start == screen.crt_pos - PromptLength - i
    IN  \A cell \in 0..CRT_SIZE - 1 : cell >= start =>
          screen.crt_buf[cell] = IF cell < start + Len(text) THEN text[cell - start + 1]
                                 ELSE Blank
=============================================================================
