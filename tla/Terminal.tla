------------------------------ MODULE Terminal ------------------------------
(***************************************************************************)
(* The text screen of tty.c, printed on by the main flow and, in between   *)
(* any two of its steps, by keyboard_handler.  The main flow also flashes  *)
(* it, which saves, blanks and restores it around a wait for the timer.    *)
(*                                                                         *)
(* Every store of the main flow to term_x, term_y, the screen or a port of *)
(* the CRT controller is a step, and so is the load before an increment:   *)
(* the build keeps the variables in memory and nothing masks interrupts    *)
(* around term_putchar.  Where C leaves the order of two loads open, as    *)
(* for the arguments of term_putentry and the position of the cursor, they *)
(* are in one step: a key between them would misplace one character or the *)
(* cursor, as a key right after them does.  The handler runs to its end    *)
(* with interrupts off.  The loops of term_scroll and of flash_screen over *)
(* the screen are one step each, and colours are left out.                 *)
(***************************************************************************)
EXTENDS Integers, Sequences

CONSTANTS
  VGA_WIDTH, VGA_HEIGHT,
  BASE,       \* the values of a register of the CRT controller: 256
  Letters,    \* the characters from ' ' up, but the blank
  LENGTH,     \* bound on the characters the main flow prints
  KEYS,       \* bound on the characters the user types
  FLASHES     \* bound on the calls of flash_screen: arch_init makes one

ASSUME TerminalAssumption ==
  /\ VGA_WIDTH \in Nat \ {0, 1} /\ VGA_HEIGHT \in Nat \ {0}
  /\ BASE \in Nat \ {0} /\ VGA_WIDTH * VGA_HEIGHT <= BASE * BASE
  /\ LENGTH \in Nat /\ KEYS \in Nat /\ FLASHES \in Nat
  /\ Letters \intersect {" ", "\n", "\r", "\t"} = {}

\* The tab stands for the characters below ' ' that print nothing.
Chars == Letters \union {"\n", "\r", "\t"}

\* Cells past the screen that a write can reach within the bounds.
CELLS == (VGA_HEIGHT + 1) * VGA_WIDTH + KEYS
Cells == 0..(CELLS - 1)
Screen == 0..(VGA_WIDTH * VGA_HEIGHT - 1)

VARIABLES
  term_x, term_y,
  term_buf,   \* the characters in the VGA memory
  crt,        \* the CRT controller: the index, and registers 14 and 15
  temp_area,  \* the screen that flash_screen saved
  pc, char,   \* where the main flow is in term_putchar, and with what
  r, pos,     \* a value it has loaded; csr_pos
  text,       \* history: the text printed and typed, row by row
  struck,     \* history: a key interrupted the last putchar of the main flow
  raced,      \* history: a key interrupted a putchar, or a flash after its save
  prints,     \* bound: the characters the main flow printed
  keys,       \* bound: the keys typed
  flashes     \* bound: the calls of flash_screen

main == <<pc, char, r, pos>>
flash == <<temp_area, flashes>>
history == <<text, struck, raced, prints, keys>>
vars == <<term_x, term_y, term_buf, crt, main, flash, history>>

\* What was printed and typed as a text: rows of VGA_WIDTH, and the column of
\* the next character in the last one.
BlankRow == [x \in 0..(VGA_WIDTH - 1) |-> " "]

NewRow(t) == [rows |-> Append(t.rows, BlankRow), x |-> 0]

Written(t, c) ==
  CASE c = "\n" -> NewRow(t)
    [] c = "\r" -> [t EXCEPT !.x = 0]
    [] c = "\t" -> t
    [] OTHER ->
       LET put == [rows |-> [t.rows EXCEPT ![Len(t.rows)][t.x] = c], x |-> t.x + 1]
       IN IF put.x = VGA_WIDTH THEN NewRow(put) ELSE put

Init ==
  /\ term_x = 0 /\ term_y = 0
  /\ term_buf = [i \in Cells |-> " "]
  /\ crt = [index |-> 15, hi |-> 0, lo |-> 0]
  /\ pc = "idle" /\ char = " " /\ r = 0 /\ pos = 0
  /\ temp_area = [i \in Screen |-> " "] /\ flashes = 0
  /\ text = [rows |-> <<BlankRow>>, x |-> 0]
  /\ struck = FALSE /\ raced = FALSE /\ prints = 0 /\ keys = 0

-----------------------------------------------------------------------------
(* What the routines do, on the screen and the values given.               *)

term_putentry(buf, c, x, y) == [buf EXCEPT ![y * VGA_WIDTH + x] = c]

Scrolled(buf) ==
  [i \in Cells |-> IF i + VGA_WIDTH \in Screen THEN buf[i + VGA_WIDTH]
                   ELSE IF i \in Screen THEN " "
                   ELSE buf[i]]

\* Whether the row is one too many, and whether the column is (in the faulty
\* variant, one late).
ScrollsOff(y) == y >= VGA_HEIGHT
WrapsLate(x) == x > VGA_WIDTH
Wraps(x) == x = VGA_WIDTH

Location(x, y) == y * VGA_WIDTH + x

\* update_cursor: outb(0x3D4) chooses a register, outb(0x3D5) writes it.
Out(c, port, value) ==
  CASE port = "0x3D4" -> [c EXCEPT !.index = value]
    [] port = "0x3D5" /\ c.index = 14 -> [c EXCEPT !.hi = value % BASE]
    [] port = "0x3D5" /\ c.index = 15 -> [c EXCEPT !.lo = value % BASE]

ChoosesOnce(p) ==
  <<<<"0x3D4", 14>>, <<"0x3D5", p \div BASE>>, <<"0x3D4", 14>>, <<"0x3D5", p>>>>
CursorWrites(p) ==
  <<<<"0x3D4", 14>>, <<"0x3D5", p \div BASE>>, <<"0x3D4", 15>>, <<"0x3D5", p>>>>

\* All of them at once.
CursorSet(c, w) ==
  LET out(port, n) == Out(port, w[n][1], w[n][2])
  IN out(out(out(out(c, 1), 2), 3), 4)

Cursor(c) == c.hi * BASE + c.lo

-----------------------------------------------------------------------------
(* term_putchar in the main flow.                                          *)

Goto(from, to) == pc = from /\ pc' = to

Putchar(c) ==
  /\ prints < LENGTH
  /\ Goto("idle", CASE c = "\n" -> "load_y" [] c = "\r" -> "x=0"
                    [] c = "\t" -> "scroll" [] OTHER -> "putentry")
  /\ char' = c
  /\ text' = Written(text, c)
  /\ struck' = FALSE /\ prints' = prints + 1
  /\ UNCHANGED <<term_x, term_y, term_buf, crt, r, pos, flash, raced, keys>>

Putentry ==
  /\ Goto("putentry", "load_x")
  /\ term_buf' = term_putentry(term_buf, char, term_x, term_y)
  /\ UNCHANGED <<term_x, term_y, crt, char, r, pos, flash, history>>

\* ++term_x == VGA_WIDTH
LoadX ==
  /\ Goto("load_x", "store_x")
  /\ r' = term_x + 1
  /\ UNCHANGED <<term_x, term_y, term_buf, crt, char, pos, flash, history>>

StoreX ==
  /\ Goto("store_x", IF Wraps(r) THEN "x=0" ELSE "scroll")
  /\ term_x' = r
  /\ UNCHANGED <<term_y, term_buf, crt, char, r, pos, flash, history>>

\* ++term_y, before term_x = 0 for a newline and after it at the right edge.
LoadY ==
  /\ Goto("load_y", "store_y")
  /\ r' = term_y + 1
  /\ UNCHANGED <<term_x, term_y, term_buf, crt, char, pos, flash, history>>

StoreY ==
  /\ Goto("store_y", IF char = "\n" THEN "x=0" ELSE "scroll")
  /\ term_y' = r
  /\ UNCHANGED <<term_x, term_buf, crt, char, r, pos, flash, history>>

ZeroX ==
  /\ Goto("x=0", IF char \in {"\n", "\r"} THEN "scroll" ELSE "load_y")
  /\ term_x' = 0
  /\ UNCHANGED <<term_y, term_buf, crt, char, r, pos, flash, history>>

\* term_scroll, where it has nothing to do and where it scrolls.
TermScroll ==
  /\ Goto("scroll", IF ScrollsOff(term_y) THEN "scroll_x=0" ELSE "csr_pos")
  /\ term_buf' = IF ScrollsOff(term_y) THEN Scrolled(term_buf) ELSE term_buf
  /\ UNCHANGED <<term_x, term_y, crt, char, r, pos, flash, history>>

ScrollX ==
  /\ Goto("scroll_x=0", "scroll_y=24")
  /\ term_x' = 0
  /\ UNCHANGED <<term_y, term_buf, crt, char, r, pos, flash, history>>

ScrollY ==
  /\ Goto("scroll_y=24", "csr_pos")
  /\ term_y' = VGA_HEIGHT - 1
  /\ UNCHANGED <<term_x, term_buf, crt, char, r, pos, flash, history>>

\* update_cursor: r counts the ports written.
CsrPos ==
  /\ Goto("csr_pos", "outb")
  /\ pos' = Location(term_x, term_y)
  /\ r' = 0
  /\ UNCHANGED <<term_x, term_y, term_buf, crt, char, flash, history>>

Outb ==
  /\ pc = "outb"
  /\ LET w == CursorWrites(pos)
     IN /\ crt' = Out(crt, w[r + 1][1], w[r + 1][2])
        /\ pc' = IF r + 1 = Len(w) THEN "idle" ELSE "outb"
        /\ r' = IF r + 1 = Len(w) THEN 0 ELSE r + 1
  /\ UNCHANGED <<term_x, term_y, term_buf, char, pos, flash, history>>

-----------------------------------------------------------------------------
(* flash_screen in the main flow, around timer_wait(3).                    *)

flash_screen ==
  /\ flashes < FLASHES
  /\ Goto("idle", "save")
  /\ flashes' = flashes + 1
  /\ UNCHANGED <<term_x, term_y, term_buf, crt, char, r, pos, temp_area, history>>

Save ==
  /\ Goto("save", "blank")
  /\ temp_area' = [i \in Screen |-> term_buf[i]]
  /\ UNCHANGED <<term_x, term_y, term_buf, crt, char, r, pos, flashes, history>>

Blank ==
  /\ Goto("blank", "restore")
  /\ term_buf' = [i \in Cells |-> IF i \in Screen THEN " " ELSE term_buf[i]]
  /\ UNCHANGED <<term_x, term_y, crt, char, r, pos, flash, history>>

\* The cells that the second memcpy reaches (in the faulty variant, without the
\* size of a cell in its length).
CopiesHalf(i) == 2 * i < VGA_WIDTH * VGA_HEIGHT
Copies(i) == i \in Screen

Restore ==
  /\ Goto("restore", "idle")
  /\ term_buf' = [i \in Cells |-> IF Copies(i) THEN temp_area[i] ELSE term_buf[i]]
  /\ UNCHANGED <<term_x, term_y, crt, char, r, pos, flash, history>>

-----------------------------------------------------------------------------
\* A key: keyboard_handler prints its character in one piece.
Key(c) ==
  /\ keys < KEYS
  /\ LET visible == c \in Letters
         wraps == visible /\ Wraps(term_x + 1)
         y == IF c = "\n" \/ wraps THEN term_y + 1 ELSE term_y
         buf == IF visible THEN term_putentry(term_buf, c, term_x, term_y) ELSE term_buf
     IN /\ term_buf' = IF ScrollsOff(y) THEN Scrolled(buf) ELSE buf
        /\ term_x' = CASE ScrollsOff(y) \/ wraps \/ c \in {"\n", "\r"} -> 0
                       [] visible /\ ~wraps /\ ~ScrollsOff(y) -> term_x + 1
                       [] OTHER -> term_x
        /\ term_y' = IF ScrollsOff(y) THEN VGA_HEIGHT - 1 ELSE y
        /\ crt' = CursorSet(crt, CursorWrites(Location(term_x', term_y')))
  /\ text' = Written(text, c)
  /\ struck' = (pc # "idle")
  /\ raced' = (raced \/ pc \notin {"idle", "save"})
  /\ keys' = keys + 1
  /\ UNCHANGED <<main, flash, prints>>

Main ==
  \/ \E c \in Chars : Putchar(c)
  \/ Putentry \/ LoadX \/ StoreX \/ LoadY \/ StoreY \/ ZeroX
  \/ TermScroll \/ ScrollX \/ ScrollY \/ CsrPos \/ Outb
  \/ flash_screen \/ Save \/ Blank \/ Restore

Next == Main \/ \E c \in Chars : Key(c)

Spec == Init /\ [][Next]_vars

-----------------------------------------------------------------------------
(* What the screen shows of the text: its last VGA_HEIGHT rows.            *)

\* How many rows are no longer seen.
Top(t) == IF Len(t.rows) > VGA_HEIGHT THEN Len(t.rows) - VGA_HEIGHT ELSE 0

Shown(t, x, y) ==
  IF Top(t) + y + 1 <= Len(t.rows) THEN t.rows[Top(t) + y + 1][x] ELSE " "

-----------------------------------------------------------------------------
\* Between two characters the next one goes on the screen, however many keys
\* interrupted the ones before: a lost update of term_x or term_y never leaves
\* them past the edge.
InsideWhenIdle == pc = "idle" => term_x < VGA_WIDTH /\ term_y < VGA_HEIGHT

\* A putchar that no key interrupts, and a key between two putchars, put the
\* cursor where the next character goes, even after an interrupted one left
\* the registers of the CRT controller half written.
CursorHeals == pc = "idle" /\ ~struck => Cursor(crt) = Location(term_x, term_y)

\* As long as no key was typed inside a putchar, or in a flash once the screen was
\* saved, the screen shows the end of the text printed and typed, row by row,
\* through every wrap, scroll and flash.
ScreenShowsText ==
  pc = "idle" /\ ~raced =>
    /\ \A x \in 0..(VGA_WIDTH - 1), y \in 0..(VGA_HEIGHT - 1) :
         term_buf[Location(x, y)] = Shown(text, x, y)
    /\ Location(term_x, term_y) = Location(text.x, Len(text.rows) - 1 - Top(text))
=============================================================================
