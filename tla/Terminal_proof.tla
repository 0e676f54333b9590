--------------------------- MODULE Terminal_proof ---------------------------
(***************************************************************************)
(* Proofs about Terminal, for every size of the screen, every set of       *)
(* characters and any number of characters, keys and flashes.              *)
(*                                                                         *)
(* Three invariants, one upon the other: where term_x and term_y can be at *)
(* every step of term_putchar, what the CRT controller holds as long as no *)
(* key interrupted the last putchar, and what the screen will show when    *)
(* the putchar or the flash in progress has ended.                         *)
(***************************************************************************)
EXTENDS Terminal, TLAPS

Steps ==
  {"idle", "putentry", "load_x", "store_x", "load_y", "store_y", "x=0", "scroll",
   "scroll_x=0", "scroll_y=24", "csr_pos", "outb", "save", "blank", "restore"}

InFlash == {"save", "blank", "restore"}
Scrolling == {"scroll", "scroll_x=0", "scroll_y=24"}

\* The character in progress is one that is seen, where its cell is written and
\* where term_x is reset because of it.
Seen == char \notin {"\n", "\r"}

\* term_x is past the edge only between its increment and its reset.
Column == term_x < VGA_WIDTH \/ (pc = "x=0" /\ Seen)

\* term_y is past the edge only between its increment and the end of term_scroll.
Row ==
  \/ term_y < VGA_HEIGHT
  \/ term_y = VGA_HEIGHT /\ (pc \in Scrolling \/ (pc = "x=0" /\ char = "\n"))

\* What was loaded is one more than a position on the screen, or counts ports.
Loaded ==
  /\ pc = "store_x" => r \in 1..VGA_WIDTH
  /\ pc = "store_y" => r \in 1..VGA_HEIGHT
  /\ pc = "outb" => r \in 0..3

Crts == [index : {14, 15}, hi : Nat, lo : Nat]

PositionInv ==
  /\ pc \in Steps /\ term_x \in Nat /\ term_y \in Nat /\ r \in Nat /\ pos \in Nat
  /\ pc \in {"putentry", "load_x", "store_x"} => char \in Letters
  /\ Column /\ Row /\ Loaded
  /\ crt \in Crts

-----------------------------------------------------------------------------
(* What is left of a putchar.                                              *)

\* term_scroll; then the step to the next row at the right edge, too; then all
\* of term_putchar, from the start.
ScrollEnd(buf, x, y) ==
  IF ScrollsOff(y) THEN [buf |-> Scrolled(buf), x |-> 0, y |-> VGA_HEIGHT - 1]
  ELSE [buf |-> buf, x |-> x, y |-> y]

AdvanceEnd(buf, x, y) ==
  IF Wraps(x) THEN ScrollEnd(buf, 0, y + 1) ELSE ScrollEnd(buf, x, y)

PutEnd(buf, x, y, c) ==
  CASE c = "\n" -> ScrollEnd(buf, 0, y + 1)
    [] c = "\r" -> ScrollEnd(buf, 0, y)
    [] c = "\t" -> ScrollEnd(buf, x, y)
    [] OTHER -> AdvanceEnd(term_putentry(buf, c, x, y), x + 1, y)

\* The screen and the position once the main flow is between two characters
\* again, if no key interrupts it.
End ==
  CASE pc = "putentry" ->
         AdvanceEnd(term_putentry(term_buf, char, term_x, term_y), term_x + 1, term_y)
    [] pc = "load_x" -> AdvanceEnd(term_buf, term_x + 1, term_y)
    [] pc = "store_x" -> AdvanceEnd(term_buf, r, term_y)
    [] pc = "x=0" -> ScrollEnd(term_buf, 0, IF Seen THEN term_y + 1 ELSE term_y)
    [] pc = "load_y" -> ScrollEnd(term_buf, IF char = "\n" THEN 0 ELSE term_x, term_y + 1)
    [] pc = "store_y" -> ScrollEnd(term_buf, IF char = "\n" THEN 0 ELSE term_x, r)
    [] pc = "scroll" -> ScrollEnd(term_buf, term_x, term_y)
    [] pc = "scroll_x=0" -> [buf |-> term_buf, x |-> 0, y |-> VGA_HEIGHT - 1]
    [] pc = "scroll_y=24" -> [buf |-> term_buf, x |-> term_x, y |-> VGA_HEIGHT - 1]
    [] pc = "restore" ->
         [buf |-> [i \in Cells |-> IF Copies(i) THEN temp_area[i] ELSE term_buf[i]],
          x |-> term_x, y |-> term_y]
    [] OTHER -> [buf |-> term_buf, x |-> term_x, y |-> term_y]

-----------------------------------------------------------------------------
(* The invariants about the cursor and the screen.                         *)

\* The registers of the CRT controller, unless a key interrupted the putchar.
CursorInv ==
  ~struck =>
    /\ pc \in InFlash \union {"idle"} => Cursor(crt) = Location(term_x, term_y)
    /\ pc = "outb" =>
         /\ pos = Location(term_x, term_y)
         /\ r \in {1, 2} => crt.index = 14
         /\ r \in {2, 3} => crt.hi = (pos \div BASE) % BASE
         /\ r = 3 => crt.index = 15

Glyphs == Letters \union {" "}
Rows == [0..(VGA_WIDTH - 1) -> Glyphs]
Texts == [rows : Seq(Rows) \ {<<>>}, x : 0..(VGA_WIDTH - 1)]

\* The rows of the screen are the last ones of the text, and row y is where the
\* last one is.
ShowsRows(buf, y, t) ==
  /\ y = Len(t.rows) - 1 - Top(t)
  /\ \A cx \in 0..(VGA_WIDTH - 1), cy \in 0..(VGA_HEIGHT - 1) :
       buf[Location(cx, cy)] = Shown(t, cx, cy)

Shows(e, t) == e.x = t.x /\ ShowsRows(e.buf, e.y, t)

ScreenInv ==
  ~raced =>
    /\ term_buf \in [Cells -> Glyphs] /\ temp_area \in [Screen -> Glyphs]
    /\ text \in Texts
    /\ Shows(End, text)
    /\ pc = "blank" => \A i \in Screen : temp_area[i] = term_buf[i]

-----------------------------------------------------------------------------
(* The position.                                                           *)

\* The sizes are positive.
LEMMA ConstantFacts ==
  /\ VGA_WIDTH \in Nat /\ VGA_WIDTH > 1 /\ VGA_HEIGHT \in Nat /\ VGA_HEIGHT > 0
  /\ BASE \in Nat /\ BASE > 0
<1>1. VGA_WIDTH \in Nat \ {0, 1} /\ VGA_HEIGHT \in Nat \ {0} /\ BASE \in Nat \ {0}
  BY TerminalAssumption
<1> QED
  BY <1>1

\* No letter is the blank or a control character.
LEMMA LetterFacts == \A c \in Letters : c \notin {" ", "\n", "\r", "\t"}
BY TerminalAssumption

\* A putchar that nothing interrupts ends inside the screen, from any row, if it
\* starts inside it.
LEMMA PutEndInside ==
  ASSUME NEW buf, NEW x \in Nat, NEW y \in Nat, NEW c \in Chars
  PROVE  /\ PutEnd(buf, x, y, c).x \in Nat /\ PutEnd(buf, x, y, c).y \in Nat
         /\ PutEnd(buf, x, y, c).y < VGA_HEIGHT
         /\ x < VGA_WIDTH => PutEnd(buf, x, y, c).x < VGA_WIDTH
<1>1. ASSUME NEW b, NEW xx \in Nat, NEW yy \in Nat
      PROVE  /\ ScrollEnd(b, xx, yy).x \in {0, xx} /\ ScrollEnd(b, xx, yy).y \in Nat
             /\ ScrollEnd(b, xx, yy).y < VGA_HEIGHT
  <2>1. CASE ScrollsOff(yy)
    BY <2>1, ConstantFacts DEF ScrollEnd
  <2>2. CASE ~ScrollsOff(yy)
    BY <2>2, ConstantFacts DEF ScrollEnd, ScrollsOff
  <2> QED
    BY <2>1, <2>2
<1>2. ASSUME NEW b
      PROVE  /\ AdvanceEnd(b, x + 1, y).x \in Nat /\ AdvanceEnd(b, x + 1, y).y \in Nat
             /\ AdvanceEnd(b, x + 1, y).y < VGA_HEIGHT
             /\ x < VGA_WIDTH => AdvanceEnd(b, x + 1, y).x < VGA_WIDTH
  <2>1. CASE Wraps(x + 1)
    <3>1. AdvanceEnd(b, x + 1, y) = ScrollEnd(b, 0, y + 1)
      BY <2>1 DEF AdvanceEnd
    <3> QED
      BY <1>1, <3>1, ConstantFacts
  <2>2. CASE ~Wraps(x + 1)
    <3>1. AdvanceEnd(b, x + 1, y) = ScrollEnd(b, x + 1, y)
      BY <2>2 DEF AdvanceEnd
    <3> QED
      BY <1>1, <2>2, <3>1, ConstantFacts DEF Wraps
  <2> QED
    BY <2>1, <2>2
<1>3. CASE c = "\n"
  BY <1>1, <1>3, ConstantFacts DEF PutEnd
<1>4. CASE c = "\r"
  BY <1>1, <1>4, ConstantFacts DEF PutEnd
<1>5. CASE c = "\t"
  BY <1>1, <1>5, ConstantFacts DEF PutEnd
<1>6. CASE c \notin {"\n", "\r", "\t"}
  BY <1>2, <1>6 DEF PutEnd
<1> QED
  BY <1>3, <1>4, <1>5, <1>6

\* A key does a whole putchar at once.
LEMMA KeyPuts ==
  ASSUME NEW c \in Chars, Key(c), term_x \in Nat, term_y \in Nat
  PROVE  /\ term_buf' = PutEnd(term_buf, term_x, term_y, c).buf
         /\ term_x' = PutEnd(term_buf, term_x, term_y, c).x
         /\ term_y' = PutEnd(term_buf, term_x, term_y, c).y
         /\ crt' = CursorSet(crt, CursorWrites(Location(term_x', term_y')))
<1> DEFINE put == term_putentry(term_buf, c, term_x, term_y)
<1>1. CASE c \notin Letters
  <2>1. c \in {"\n", "\r", "\t"}
    BY <1>1 DEF Chars
  <2>2. CASE c = "\n"
    BY <1>1, <2>2 DEF Key, PutEnd, ScrollEnd
  <2>3. CASE c = "\r"
    BY <1>1, <2>3 DEF Key, PutEnd, ScrollEnd
  <2>4. CASE c = "\t"
    BY <1>1, <2>4 DEF Key, PutEnd, ScrollEnd
  <2> QED
    BY <2>1, <2>2, <2>3, <2>4
<1>2. CASE c \in Letters
  <2>1. c \notin {"\n", "\r", "\t"}
    BY <1>2, LetterFacts
  <2>2. CASE Wraps(term_x + 1)
    <3>1. PutEnd(term_buf, term_x, term_y, c) = ScrollEnd(put, 0, term_y + 1)
      BY <2>1, <2>2 DEF PutEnd, AdvanceEnd
    <3> HIDE DEF put
    <3>2. /\ term_buf' = IF ScrollsOff(term_y + 1) THEN Scrolled(put) ELSE put
          /\ term_x' = 0
          /\ term_y' = IF ScrollsOff(term_y + 1) THEN VGA_HEIGHT - 1 ELSE term_y + 1
          /\ crt' = CursorSet(crt, CursorWrites(Location(term_x', term_y')))
      BY <1>2, <2>2 DEF Key, put
    <3> QED
      BY <3>1, <3>2 DEF ScrollEnd
  <2>3. CASE ~Wraps(term_x + 1)
    <3>1. PutEnd(term_buf, term_x, term_y, c) = ScrollEnd(put, term_x + 1, term_y)
      BY <2>1, <2>3 DEF PutEnd, AdvanceEnd
    <3> HIDE DEF put
    <3>2. /\ term_buf' = IF ScrollsOff(term_y) THEN Scrolled(put) ELSE put
          /\ term_x' = IF ScrollsOff(term_y) THEN 0 ELSE term_x + 1
          /\ term_y' = IF ScrollsOff(term_y) THEN VGA_HEIGHT - 1 ELSE term_y
          /\ crt' = CursorSet(crt, CursorWrites(Location(term_x', term_y')))
      BY <1>2, <2>1, <2>3 DEF Key, put
    <3> QED
      BY <3>1, <3>2 DEF ScrollEnd
  <2> QED
    BY <2>2, <2>3
<1> QED
  BY <1>1, <1>2

\* A location is a number.
LEMMA LocationNat == \A x, y \in Nat : Location(x, y) \in Nat
<1>1. \A m, n \in Nat : m * n \in Nat
  BY SMT
<1> QED
  BY <1>1, ConstantFacts DEF Location

\* The four writes of update_cursor, and what each does to the controller.
LEMMA CursorWritesFacts ==
  ASSUME NEW p \in Nat
  PROVE  /\ Len(CursorWrites(p)) = 4
         /\ CursorWrites(p)[1] = <<"0x3D4", 14>>
         /\ CursorWrites(p)[2] = <<"0x3D5", p \div BASE>>
         /\ CursorWrites(p)[3] = <<"0x3D4", 15>>
         /\ CursorWrites(p)[4] = <<"0x3D5", p>>
BY DEF CursorWrites

\* A write to the controller.
LEMMA OutFacts ==
  ASSUME NEW c \in Crts, NEW v \in Nat
  PROVE  /\ Out(c, "0x3D4", v) = [c EXCEPT !.index = v]
         /\ c.index = 14 => Out(c, "0x3D5", v) = [c EXCEPT !.hi = v % BASE]
         /\ c.index = 15 => Out(c, "0x3D5", v) = [c EXCEPT !.lo = v % BASE]
         /\ v % BASE \in Nat
<1>1. Out(c, "0x3D4", v) = [c EXCEPT !.index = v]
  BY DEF Out
<1>2. ASSUME c.index = 14 PROVE Out(c, "0x3D5", v) = [c EXCEPT !.hi = v % BASE]
  BY <1>2 DEF Out
<1>3. ASSUME c.index = 15 PROVE Out(c, "0x3D5", v) = [c EXCEPT !.lo = v % BASE]
  BY <1>3 DEF Out
<1>4. v % BASE \in Nat
  BY ConstantFacts
<1> QED
  BY <1>1, <1>2, <1>3, <1>4

\* All of update_cursor, whatever was in the registers.
LEMMA CursorSetFacts ==
  ASSUME NEW c \in Crts, NEW p \in Nat
  PROVE  CursorSet(c, CursorWrites(p)) =
           [index |-> 15, hi |-> (p \div BASE) % BASE, lo |-> p % BASE]
<1> DEFINE c1 == Out(c, "0x3D4", 14)
           c2 == Out(c1, "0x3D5", p \div BASE)
           c3 == Out(c2, "0x3D4", 15)
           c4 == Out(c3, "0x3D5", p)
<1>1. CursorSet(c, CursorWrites(p)) = c4
  BY CursorWritesFacts DEF CursorSet
<1>2. p \div BASE \in Nat
  BY ConstantFacts, SMT
<1>3. c1 = [c EXCEPT !.index = 14] /\ c1 \in Crts /\ c1.index = 14
  <2>1. c1 = [c EXCEPT !.index = 14]
    BY OutFacts
  <2> HIDE DEF c1
  <2> QED
    BY <2>1 DEF Crts
<1> HIDE DEF c1
<1>4. c2 = [c1 EXCEPT !.hi = (p \div BASE) % BASE] /\ (p \div BASE) % BASE \in Nat
  BY <1>2, <1>3, OutFacts
<1>5. c2 \in Crts /\ c2.index = 14 /\ c2.hi = (p \div BASE) % BASE
  <2> HIDE DEF c2
  <2> QED
    BY <1>3, <1>4 DEF Crts
<1> HIDE DEF c2
<1>6. c3 = [c2 EXCEPT !.index = 15]
  BY <1>5, OutFacts
<1>7. c3 \in Crts /\ c3.index = 15 /\ c3.hi = (p \div BASE) % BASE
  <2> HIDE DEF c3
  <2> QED
    BY <1>5, <1>6 DEF Crts
<1> HIDE DEF c3
<1>8. c4 = [c3 EXCEPT !.lo = p % BASE]
  BY <1>7, OutFacts
<1> HIDE DEF c4
<1> QED
  BY <1>1, <1>7, <1>8 DEF Crts

\* At the start the position is the corner of the screen.
LEMMA InitPosition == Init => PositionInv
<1> SUFFICES ASSUME Init PROVE PositionInv
  OBVIOUS
<1>1. pc = "idle" /\ term_x = 0 /\ term_y = 0 /\ r = 0 /\ pos = 0
  BY DEF Init
<1>2. crt \in Crts
  BY DEF Init, Crts
<1>3. Column /\ Row /\ Loaded
  BY <1>1, ConstantFacts DEF Column, Row, Loaded
<1> QED
  BY <1>1, <1>2, <1>3 DEF PositionInv, Steps

\* A key leaves the position inside the screen, or term_x where the main flow is
\* about to reset it.
LEMMA KeyPosition ==
  ASSUME PositionInv, NEW c \in Chars, Key(c)
  PROVE  PositionInv'
<1>1. UNCHANGED <<pc, char, r, pos>>
  BY DEF Key, main
<1>2. /\ term_x' \in Nat /\ term_y' \in Nat /\ term_y' < VGA_HEIGHT
      /\ term_x < VGA_WIDTH => term_x' < VGA_WIDTH
  BY KeyPuts, PutEndInside DEF PositionInv
<1>3. crt' \in Crts
  <2> DEFINE p == Location(term_x', term_y')
  <2>1. p \in Nat
    BY <1>2, LocationNat
  <2>2. crt' = CursorSet(crt, CursorWrites(p))
    BY KeyPuts DEF PositionInv
  <2> HIDE DEF p
  <2>3. crt' = [index |-> 15, hi |-> (p \div BASE) % BASE, lo |-> p % BASE]
    BY <2>1, <2>2, CursorSetFacts DEF PositionInv
  <2>4. (p \div BASE) % BASE \in Nat /\ p % BASE \in Nat
    BY <2>1, ConstantFacts, SMT
  <2> QED
    BY <2>3, <2>4 DEF Crts
<1>4. Column' /\ Row' /\ Loaded'
  BY <1>1, <1>2 DEF PositionInv, Column, Row, Loaded, Seen
<1> QED
  BY <1>1, <1>2, <1>3, <1>4 DEF PositionInv

\* A step of the main flow that leaves the controller alone.
LEMMA MainPosition ==
  ASSUME PositionInv, Main, ~Outb
  PROVE  PositionInv'
<1> USE DEF PositionInv, Goto, Steps, Scrolling, main, flash, history
<1>1. CASE \E c \in Chars : Putchar(c)
  <2> PICK c \in Chars : Putchar(c)
    BY <1>1
  <2>1. /\ pc = "idle" /\ char' = c /\ UNCHANGED <<term_x, term_y, crt, r, pos>>
        /\ pc' = CASE c = "\n" -> "load_y" [] c = "\r" -> "x=0"
                   [] c = "\t" -> "scroll" [] OTHER -> "putentry"
    BY DEF Putchar
  <2>2. /\ pc' \in {"load_y", "x=0", "scroll", "putentry"}
        /\ pc' = "putentry" => c \in Letters
    BY <2>1 DEF Chars
  <2>3. term_x < VGA_WIDTH /\ term_y < VGA_HEIGHT
    BY <2>1 DEF Column, Row
  <2> QED
    BY <2>1, <2>2, <2>3 DEF Column, Row, Loaded
<1>2. CASE Putentry
  BY <1>2 DEF Putentry, Column, Row, Loaded
<1>3. CASE LoadX
  BY <1>3, ConstantFacts DEF LoadX, Column, Row, Loaded
<1>4. CASE StoreX
  <2>1. /\ pc = "store_x" /\ pc' = (IF Wraps(r) THEN "x=0" ELSE "scroll") /\ term_x' = r
        /\ UNCHANGED <<term_y, crt, char, r, pos>>
    BY <1>4 DEF StoreX
  <2>2. char \in Letters /\ Seen'
    BY <2>1, LetterFacts DEF Seen
  <2>3. r \in 1..VGA_WIDTH /\ (~Wraps(r) => r < VGA_WIDTH)
    BY <2>1, ConstantFacts DEF Loaded, Wraps
  <2> QED
    BY <2>1, <2>2, <2>3 DEF Column, Row, Loaded
<1>5. CASE LoadY
  <2>1. /\ pc = "load_y" /\ pc' = "store_y" /\ r' = term_y + 1
        /\ UNCHANGED <<term_x, term_y, crt, char, pos>>
    BY <1>5 DEF LoadY
  <2>2. r' \in Nat /\ r' \in 1..VGA_HEIGHT
    BY <2>1, ConstantFacts DEF Row
  <2> QED
    BY <2>1, <2>2 DEF Column, Row, Loaded
<1>6. CASE StoreY
  <2>1. /\ pc = "store_y" /\ pc' = (IF char = "\n" THEN "x=0" ELSE "scroll") /\ term_y' = r
        /\ UNCHANGED <<term_x, crt, char, r, pos>>
    BY <1>6 DEF StoreY
  <2>2. r \in 1..VGA_HEIGHT /\ (r < VGA_HEIGHT \/ r = VGA_HEIGHT)
    BY <2>1, ConstantFacts DEF Loaded
  <2> QED
    BY <2>1, <2>2 DEF Column, Row, Loaded
<1>7. CASE ZeroX
  BY <1>7, ConstantFacts DEF ZeroX, Column, Row, Loaded, Seen
<1>8. CASE TermScroll
  BY <1>8, ConstantFacts DEF TermScroll, ScrollsOff, Column, Row, Loaded
<1>9. CASE ScrollX
  BY <1>9, ConstantFacts DEF ScrollX, Column, Row, Loaded
<1>10. CASE ScrollY
  BY <1>10, ConstantFacts DEF ScrollY, Column, Row, Loaded
<1>11. CASE CsrPos
  <2>1. pos' \in Nat
    BY <1>11, LocationNat DEF CsrPos
  <2> QED
    BY <1>11, <2>1 DEF CsrPos, Column, Row, Loaded
<1>12. CASE flash_screen \/ Save \/ Blank \/ Restore
  BY <1>12 DEF flash_screen, Save, Blank, Restore, Column, Row, Loaded
<1> QED
  BY <1>1, <1>2, <1>3, <1>4, <1>5, <1>6, <1>7, <1>8, <1>9, <1>10, <1>11, <1>12 DEF Main

\* The four steps of update_cursor, by the number of ports written.
LEMMA OutbFacts ==
  ASSUME PositionInv, Outb
  PROVE  /\ r = 0 => crt' = [crt EXCEPT !.index = 14] /\ r' = 1 /\ pc' = "outb"
         /\ r = 1 /\ crt.index = 14 => crt' = [crt EXCEPT !.hi = (pos \div BASE) % BASE]
         /\ r = 1 => r' = 2 /\ pc' = "outb"
         /\ r = 2 => crt' = [crt EXCEPT !.index = 15] /\ r' = 3 /\ pc' = "outb"
         /\ r = 3 /\ crt.index = 15 => crt' = [crt EXCEPT !.lo = pos % BASE]
         /\ r = 3 => r' = 0 /\ pc' = "idle"
         /\ r \in 0..3 /\ crt' \in Crts
<1> USE DEF PositionInv
<1>1. /\ pc = "outb"
      /\ crt' = Out(crt, CursorWrites(pos)[r + 1][1], CursorWrites(pos)[r + 1][2])
      /\ pc' = IF r + 1 = 4 THEN "idle" ELSE "outb"
      /\ r' = IF r + 1 = 4 THEN 0 ELSE r + 1
  BY CursorWritesFacts DEF Outb
<1>2. r \in 0..3
  BY <1>1 DEF Loaded
<1>3. pos \div BASE \in Nat /\ pos % BASE \in Nat /\ (pos \div BASE) % BASE \in Nat
  BY ConstantFacts, SMT
<1>4. CASE r = 0
  <2>1. crt' = [crt EXCEPT !.index = 14] /\ r' = 1 /\ pc' = "outb"
    BY <1>1, <1>4, CursorWritesFacts, OutFacts
  <2> QED
    BY <1>4, <2>1 DEF Crts
<1>5. CASE r = 1
  <2>1. crt' = Out(crt, "0x3D5", pos \div BASE) /\ r' = 2 /\ pc' = "outb"
    BY <1>1, <1>5, CursorWritesFacts
  <2>2. /\ crt.index = 14 => crt' = [crt EXCEPT !.hi = (pos \div BASE) % BASE]
        /\ crt.index = 15 => crt' = [crt EXCEPT !.lo = (pos \div BASE) % BASE]
    BY <1>3, <2>1, OutFacts
  <2>3. crt.index \in {14, 15}
    BY DEF Crts
  <2>4. crt' \in Crts
    BY <1>3, <2>2, <2>3 DEF Crts
  <2> QED
    BY <1>5, <2>1, <2>2, <2>4
<1>6. CASE r = 2
  <2>1. crt' = [crt EXCEPT !.index = 15] /\ r' = 3 /\ pc' = "outb"
    BY <1>1, <1>6, CursorWritesFacts, OutFacts
  <2> QED
    BY <1>6, <2>1 DEF Crts
<1>7. CASE r = 3
  <2>1. crt' = Out(crt, "0x3D5", pos) /\ r' = 0 /\ pc' = "idle"
    BY <1>1, <1>7, CursorWritesFacts
  <2>2. /\ crt.index = 14 => crt' = [crt EXCEPT !.hi = pos % BASE]
        /\ crt.index = 15 => crt' = [crt EXCEPT !.lo = pos % BASE]
    BY <2>1, OutFacts
  <2>3. crt.index \in {14, 15}
    BY DEF Crts
  <2>4. crt' \in Crts
    BY <1>3, <2>2, <2>3 DEF Crts
  <2> QED
    BY <1>7, <2>1, <2>2, <2>4
<1> QED
  BY <1>2, <1>4, <1>5, <1>6, <1>7

\* The position is where it should be after every step.
LEMMA NextPosition == PositionInv /\ [Next]_vars => PositionInv'
<1> SUFFICES ASSUME PositionInv, [Next]_vars PROVE PositionInv'
  OBVIOUS
<1>1. CASE Main /\ ~Outb
  BY <1>1, MainPosition
<1>2. CASE Outb
  <2>1. UNCHANGED <<term_x, term_y, char, pos>> /\ pc = "outb"
    BY <1>2 DEF Outb
  <2>2. /\ r \in 0..3 /\ crt' \in Crts /\ r' \in 0..3 /\ pc' \in {"outb", "idle"}
    BY <1>2, OutbFacts
  <2> QED
    BY <2>1, <2>2 DEF PositionInv, Steps, Scrolling, Column, Row, Loaded
<1>3. CASE \E c \in Chars : Key(c)
  BY <1>3, KeyPosition
<1>4. CASE UNCHANGED vars
  BY <1>4 DEF vars, main, PositionInv, Column, Row, Loaded, Seen
<1> QED
  BY <1>1, <1>2, <1>3, <1>4 DEF Next

-----------------------------------------------------------------------------
(* The cursor.                                                             *)

\* The two registers hold every position on the screen.
LEMMA RegistersHold ==
  ASSUME NEW x \in Nat, NEW y \in Nat, x < VGA_WIDTH, y < VGA_HEIGHT
  PROVE  ((Location(x, y) \div BASE) % BASE) * BASE + (Location(x, y) % BASE) = Location(x, y)
<1> DEFINE p == Location(x, y)
<1>1. p \in Nat
  BY LocationNat
<1>2. p < BASE * BASE
  <2>1. VGA_WIDTH * VGA_HEIGHT <= BASE * BASE
    BY TerminalAssumption
  <2>2. \A m, n \in Nat : m < n => m * VGA_WIDTH + VGA_WIDTH <= n * VGA_WIDTH
    BY ConstantFacts, SMT
  <2>3. \A m, n \in Nat : m * n \in Nat /\ m * n = n * m
    BY SMT
  <2>4. y * VGA_WIDTH + VGA_WIDTH <= VGA_HEIGHT * VGA_WIDTH
    BY <2>2, ConstantFacts
  <2>5. /\ y * VGA_WIDTH \in Nat /\ BASE * BASE \in Nat
        /\ VGA_HEIGHT * VGA_WIDTH = VGA_WIDTH * VGA_HEIGHT /\ VGA_WIDTH * VGA_HEIGHT \in Nat
    BY <2>3, ConstantFacts
  <2> HIDE DEF p
  <2>6. p = y * VGA_WIDTH + x
    BY DEF p, Location
  <2> QED
    BY <2>1, <2>4, <2>5, <2>6, ConstantFacts
<1> HIDE DEF p
<1> DEFINE q == p \div BASE
           rest == p % BASE
<1>3. q \in Nat /\ rest \in Nat /\ p = q * BASE + rest
  BY <1>1, ConstantFacts, SMT
<1> HIDE DEF q, rest
<1>4. q < BASE
  <2> SUFFICES ASSUME q >= BASE PROVE FALSE
    BY <1>3, ConstantFacts
  <2>1. \A m, n \in Nat : m <= n => m * BASE <= n * BASE
    BY ConstantFacts, SMT
  <2>2. BASE * BASE <= q * BASE
    BY <1>3, <2>1, ConstantFacts
  <2>3. \A m, n \in Nat : m * n \in Nat
    BY SMT
  <2>4. BASE * BASE \in Nat /\ q * BASE \in Nat
    BY <1>3, <2>3, ConstantFacts
  <2> QED
    BY <1>2, <1>3, <2>2, <2>4
<1>5. q % BASE = q
  BY <1>3, <1>4, ConstantFacts, SMT
<1>6. (q % BASE) * BASE + rest = p
  BY <1>3, <1>5
<1> QED
  BY <1>6 DEF p, q, rest

\* At the start the cursor is in the corner.
LEMMA InitCursor == Init => CursorInv
<1>2. Init => term_x = 0 /\ term_y = 0 /\ pc = "idle"
  BY DEF Init
<1>3. Init => crt.hi = 0 /\ crt.lo = 0
  <2>1. Init => crt = [index |-> 15, hi |-> 0, lo |-> 0]
    BY DEF Init
  <2> QED
    BY <2>1
<1>1. 0 * BASE + 0 = 0 /\ 0 * VGA_WIDTH + 0 = 0
  BY ConstantFacts, SMT
<1> QED
  BY <1>1, <1>2, <1>3 DEF CursorInv, Cursor, Location

\* The cursor is where it should be unless a key came in between.
LEMMA NextCursor == PositionInv /\ PositionInv' /\ CursorInv /\ [Next]_vars => CursorInv'
<1> SUFFICES ASSUME PositionInv, PositionInv', CursorInv, [Next]_vars PROVE CursorInv'
  OBVIOUS
<1> USE DEF Goto, flash, history, main, InFlash
<1>1. CASE \E c \in Chars : Key(c)
  <2> PICK c \in Chars : Key(c)
    BY <1>1
  <2>1. struck' = (pc # "idle") /\ pc' = pc
    BY DEF Key
  <2>2. CASE pc = "idle"
    <3> DEFINE p == Location(term_x', term_y')
    <3>1. term_x' \in Nat /\ term_y' \in Nat /\ term_x' < VGA_WIDTH /\ term_y' < VGA_HEIGHT
      BY <2>1, <2>2 DEF PositionInv, Column, Row, Scrolling
    <3>2. p \in Nat
      BY <3>1, LocationNat
    <3>3. ((p \div BASE) % BASE) * BASE + (p % BASE) = p
      BY <3>1, RegistersHold
    <3>4. crt' = CursorSet(crt, CursorWrites(p))
      BY KeyPuts DEF PositionInv
    <3> HIDE DEF p
    <3>5. crt' = [index |-> 15, hi |-> (p \div BASE) % BASE, lo |-> p % BASE]
      BY <3>2, <3>4, CursorSetFacts DEF PositionInv
    <3>6. Cursor(crt') = p
      BY <3>3, <3>5 DEF Cursor
    <3> QED
      BY <2>1, <2>2, <3>6 DEF CursorInv, p
  <2>3. CASE pc # "idle"
    BY <2>1, <2>3 DEF CursorInv
  <2> QED
    BY <2>2, <2>3
<1>2. CASE \E c \in Chars : Putchar(c)
  <2> PICK c \in Chars : Putchar(c)
    BY <1>2
  <2>1. pc' = CASE c = "\n" -> "load_y" [] c = "\r" -> "x=0"
               [] c = "\t" -> "scroll" [] OTHER -> "putentry"
    BY DEF Putchar
  <2>2. pc' \in {"load_y", "x=0", "scroll", "putentry"}
    BY <2>1
  <2> QED
    BY <2>2 DEF CursorInv
<1>3. CASE \/ Putentry \/ LoadX \/ StoreX \/ LoadY \/ StoreY \/ ZeroX
           \/ TermScroll \/ ScrollX \/ ScrollY
  <2>1. pc' \notin InFlash \union {"idle", "outb"}
    BY <1>3 DEF Putentry, LoadX, StoreX, LoadY, StoreY, ZeroX, TermScroll, ScrollX, ScrollY
  <2> QED
    BY <2>1 DEF CursorInv
<1>4. CASE CsrPos
  BY <1>4 DEF CsrPos, CursorInv
<1>5. CASE Outb
  <2>1. UNCHANGED <<term_x, term_y, pos, struck>> /\ pc = "outb"
    BY <1>5 DEF Outb
  <2> SUFFICES ASSUME ~struck PROVE CursorInv'
    BY <2>1 DEF CursorInv
  <2>2. /\ pos = Location(term_x, term_y)
        /\ r \in {1, 2} => crt.index = 14
        /\ r \in {2, 3} => crt.hi = (pos \div BASE) % BASE
        /\ r = 3 => crt.index = 15
    BY <2>1 DEF CursorInv
  <2>3. term_x \in Nat /\ term_y \in Nat /\ term_x < VGA_WIDTH /\ term_y < VGA_HEIGHT
    BY <2>1 DEF PositionInv, Column, Row, Scrolling
  <2>4. r \in 0..3 /\ crt \in Crts
    BY <1>5, OutbFacts DEF PositionInv
  <2>5. CASE r = 0
    BY <1>5, <2>1, <2>2, <2>4, <2>5, OutbFacts DEF CursorInv, Crts
  <2>6. CASE r = 1
    BY <1>5, <2>1, <2>2, <2>4, <2>6, OutbFacts DEF CursorInv, Crts
  <2>7. CASE r = 2
    BY <1>5, <2>1, <2>2, <2>4, <2>7, OutbFacts DEF CursorInv, Crts
  <2>8. CASE r = 3
    <3>1. crt' = [crt EXCEPT !.lo = pos % BASE] /\ pc' = "idle"
      BY <1>5, <2>2, <2>8, OutbFacts
    <3>2. crt'.lo = pos % BASE /\ crt'.hi = (pos \div BASE) % BASE
      BY <2>2, <2>4, <2>8, <3>1 DEF Crts
    <3>3. ((pos \div BASE) % BASE) * BASE + (pos % BASE) = pos
      BY <2>2, <2>3, RegistersHold
    <3>4. Cursor(crt') = Location(term_x', term_y')
      BY <2>1, <2>2, <3>2, <3>3 DEF Cursor
    <3> QED
      BY <3>1, <3>4 DEF CursorInv
  <2> QED
    BY <2>4, <2>5, <2>6, <2>7, <2>8
<1>6. CASE flash_screen \/ Save \/ Blank \/ Restore
  <2>1. UNCHANGED <<term_x, term_y, crt, struck>> /\ pc \in InFlash \union {"idle"}
        /\ pc' \in InFlash \union {"idle"}
    BY <1>6 DEF flash_screen, Save, Blank, Restore
  <2> QED
    BY <2>1 DEF CursorInv
<1>7. CASE UNCHANGED vars
  BY <1>7 DEF vars, CursorInv
<1> QED
  BY <1>1, <1>2, <1>3, <1>4, <1>5, <1>6, <1>7 DEF Next, Main

-----------------------------------------------------------------------------
(* Cells and rows.                                                         *)

\* Different positions have different cells.
LEMMA LocationInjective ==
  ASSUME NEW x1 \in 0..(VGA_WIDTH - 1), NEW y1 \in Nat,
         NEW x2 \in 0..(VGA_WIDTH - 1), NEW y2 \in Nat, Location(x1, y1) = Location(x2, y2)
  PROVE  x1 = x2 /\ y1 = y2
<1>1. \A m, n \in Nat : m < n => m * VGA_WIDTH + VGA_WIDTH <= n * VGA_WIDTH
  BY ConstantFacts, SMT
<1>2. \A m \in Nat : m * VGA_WIDTH \in Nat
  BY ConstantFacts, SMT
<1>3. y1 * VGA_WIDTH + x1 = y2 * VGA_WIDTH + x2
  BY DEF Location
<1>4. y1 = y2
  BY <1>1, <1>2, <1>3, ConstantFacts
<1> QED
  BY <1>2, <1>3, <1>4, ConstantFacts

\* The cells of the rows that are seen are the screen, and the next row's cell
\* is VGA_WIDTH further.
LEMMA LocationFacts ==
  ASSUME NEW x \in 0..(VGA_WIDTH - 1), NEW y \in Nat
  PROVE  /\ Location(x, y) \in Screen <=> y < VGA_HEIGHT
         /\ y < VGA_HEIGHT => Location(x, y) \in Cells
         /\ Location(x, y) + VGA_WIDTH = Location(x, y + 1)
         /\ Location(x, y) \in Nat
<1> DEFINE row == y * VGA_WIDTH
           all == VGA_HEIGHT * VGA_WIDTH
<1>1. \A m, n \in Nat : m < n => m * VGA_WIDTH + VGA_WIDTH <= n * VGA_WIDTH
  BY ConstantFacts, SMT
<1>2. \A m, n \in Nat : m * n \in Nat /\ m * n = n * m
  BY SMT
<1>3. row \in Nat /\ all \in Nat /\ VGA_WIDTH * VGA_HEIGHT = all
  BY <1>2, ConstantFacts
<1>4. (y + 1) * VGA_WIDTH = row + VGA_WIDTH /\ (VGA_HEIGHT + 1) * VGA_WIDTH = all + VGA_WIDTH
  BY ConstantFacts, SMT
<1>5. y < VGA_HEIGHT => row + VGA_WIDTH <= all
  BY <1>1, ConstantFacts
<1>6. y >= VGA_HEIGHT => row >= all
  <2>1. CASE y = VGA_HEIGHT
    BY <1>3, <2>1
  <2>2. CASE y > VGA_HEIGHT
    <3>1. all + VGA_WIDTH <= row
      BY <1>1, <2>2, ConstantFacts
    <3> QED
      BY <1>3, <3>1, ConstantFacts
  <2> QED
    BY <2>1, <2>2, ConstantFacts
<1>7. Location(x, y) = row + x /\ Location(x, y + 1) = (y + 1) * VGA_WIDTH + x
  BY DEF Location
<1> HIDE DEF row, all
<1>8. Screen = 0..(all - 1) /\ Cells = 0..(((all + VGA_WIDTH) + KEYS) - 1)
  <2>1. Screen = 0..(VGA_WIDTH * VGA_HEIGHT - 1)
    BY DEF Screen
  <2>2. Cells = 0..(((VGA_HEIGHT + 1) * VGA_WIDTH + KEYS) - 1)
    BY DEF Cells, CELLS
  <2> QED
    BY <1>3, <1>4, <2>1, <2>2
<1>9. KEYS \in Nat
  BY TerminalAssumption
<1> QED
  BY <1>3, <1>4, <1>5, <1>6, <1>7, <1>8, <1>9, ConstantFacts

\* A cell of the screen is a cell.
LEMMA ScreenCells == Screen \subseteq Cells
<1> DEFINE all == VGA_HEIGHT * VGA_WIDTH
<1>1. all \in Nat /\ VGA_WIDTH * VGA_HEIGHT = all /\ (VGA_HEIGHT + 1) * VGA_WIDTH = all + VGA_WIDTH
  BY ConstantFacts, SMT
<1> HIDE DEF all
<1>2. Screen = 0..(all - 1) /\ Cells = 0..(((all + VGA_WIDTH) + KEYS) - 1)
  <2>1. Screen = 0..(VGA_WIDTH * VGA_HEIGHT - 1)
    BY DEF Screen
  <2>2. Cells = 0..(((VGA_HEIGHT + 1) * VGA_WIDTH + KEYS) - 1)
    BY DEF Cells, CELLS
  <2> QED
    BY <1>1, <2>1, <2>2
<1>3. KEYS \in Nat
  BY TerminalAssumption
<1> QED
  BY <1>1, <1>2, <1>3, ConstantFacts

\* The last row of a text is seen.
LEMMA LastRowSeen ==
  ASSUME NEW t, NEW y \in Nat, NEW n \in Nat, n = Len(t.rows), n >= 1,
         y = n - 1 - Top(t)
  PROVE  /\ y < VGA_HEIGHT /\ Top(t) \in Nat
         /\ n < VGA_HEIGHT => Top(t) = 0 /\ y + 1 < VGA_HEIGHT
         /\ n >= VGA_HEIGHT => y = VGA_HEIGHT - 1 /\ Top(t) = n - VGA_HEIGHT
<1>1. CASE n > VGA_HEIGHT
  <2>1. Top(t) = n - VGA_HEIGHT
    BY <1>1 DEF Top
  <2> QED
    BY <1>1, <2>1, ConstantFacts
<1>2. CASE ~(n > VGA_HEIGHT)
  <2>1. Top(t) = 0
    BY <1>2 DEF Top
  <2> QED
    BY <1>2, <2>1, ConstantFacts
<1> QED
  BY <1>1, <1>2

\* What a sequence is after Append.
LEMMA AppendFacts ==
  ASSUME NEW S, NEW s \in Seq(S), NEW e \in S
  PROVE  /\ Append(s, e) \in Seq(S) /\ Len(Append(s, e)) = Len(s) + 1 /\ Append(s, e) # <<>>
         /\ Append(s, e)[Len(s) + 1] = e
         /\ \A k \in 1..Len(s) : Append(s, e)[k] = s[k]
OBVIOUS

\* What is shown is a matter of the rows.
LEMMA SameRows ==
  ASSUME NEW t, NEW u, t.rows = u.rows, NEW buf, NEW y, ShowsRows(buf, y, t)
  PROVE  ShowsRows(buf, y, u)
<1>1. Top(u) = Top(t)
  BY DEF Top
<1>2. \A cx, cy : Shown(u, cx, cy) = Shown(t, cx, cy)
  BY <1>1 DEF Shown
<1> QED
  BY <1>1, <1>2 DEF ShowsRows

\* A blank row is a row.
LEMMA BlankRowFacts == BlankRow \in Rows /\ \A x \in 0..(VGA_WIDTH - 1) : BlankRow[x] = " "
BY DEF BlankRow, Rows, Glyphs

\* A new row of the text is a new row on the screen: below the last one, or, as
\* that is at the bottom, one that scrolling makes.
LEMMA NewRowShows ==
  ASSUME NEW buf \in [Cells -> Glyphs], NEW y \in Nat, NEW t,
         t.rows \in Seq(Rows) \ {<<>>}, ShowsRows(buf, y, t)
  PROVE  /\ ScrollEnd(buf, 0, y + 1).x = 0
         /\ ShowsRows(ScrollEnd(buf, 0, y + 1).buf, ScrollEnd(buf, 0, y + 1).y, NewRow(t))
         /\ NewRow(t) \in Texts
<1> DEFINE n == Len(t.rows)
           new == NewRow(t)
<1>1. n \in Nat /\ n >= 1
  BY SMT
<1>2. /\ y = n - 1 - Top(t)
      /\ \A cx \in 0..(VGA_WIDTH - 1), cy \in 0..(VGA_HEIGHT - 1) :
           buf[Location(cx, cy)] = Shown(t, cx, cy)
  BY DEF ShowsRows
<1>3. /\ y < VGA_HEIGHT /\ Top(t) \in Nat
      /\ n < VGA_HEIGHT => Top(t) = 0 /\ y + 1 < VGA_HEIGHT
      /\ n >= VGA_HEIGHT => y = VGA_HEIGHT - 1 /\ Top(t) = n - VGA_HEIGHT
  BY <1>1, <1>2, LastRowSeen
<1>4. /\ new.rows = Append(t.rows, BlankRow) /\ new.x = 0
      /\ new = [rows |-> Append(t.rows, BlankRow), x |-> 0]
  BY DEF NewRow
<1>5. /\ Len(new.rows) = n + 1 /\ new.rows[n + 1] = BlankRow
      /\ \A k \in 1..n : new.rows[k] = t.rows[k]
      /\ new.rows \in Seq(Rows) /\ new.rows # <<>>
  <2> DEFINE app == Append(t.rows, BlankRow)
  <2>1. /\ app \in Seq(Rows) /\ Len(app) = n + 1 /\ app # <<>> /\ app[n + 1] = BlankRow
        /\ \A k \in 1..n : app[k] = t.rows[k]
    <3> DEFINE rs == t.rows
    <3>1. rs \in Seq(Rows) /\ BlankRow \in Rows
      BY BlankRowFacts
    <3> HIDE DEF rs
    <3>2. /\ Append(rs, BlankRow) \in Seq(Rows) /\ Len(Append(rs, BlankRow)) = Len(rs) + 1
          /\ Append(rs, BlankRow) # <<>> /\ Append(rs, BlankRow)[Len(rs) + 1] = BlankRow
          /\ \A k \in 1..Len(rs) : Append(rs, BlankRow)[k] = rs[k]
      BY <3>1, AppendFacts
    <3> QED
      BY <3>2 DEF rs
  <2> HIDE DEF app, n
  <2>2. new.rows = app
    BY <1>4 DEF app
  <2> HIDE DEF new
  <2> QED
    BY <2>1, <2>2
<1>6. new \in Texts
  BY <1>4, <1>5, ConstantFacts DEF Texts
<1> HIDE DEF n, new
<1>7. CASE n < VGA_HEIGHT
  <2>1. ScrollEnd(buf, 0, y + 1) = [buf |-> buf, x |-> 0, y |-> y + 1]
    BY <1>3, <1>7, ConstantFacts DEF ScrollEnd, ScrollsOff
  <2>2. Top(new) = 0
    BY <1>1, <1>5, <1>7, ConstantFacts DEF Top
  <2>3. ASSUME NEW cx \in 0..(VGA_WIDTH - 1), NEW cy \in 0..(VGA_HEIGHT - 1)
        PROVE  buf[Location(cx, cy)] = Shown(new, cx, cy)
    <3>1. buf[Location(cx, cy)] = Shown(t, cx, cy)
      BY <1>2
    <3>2. cy + 1 \in Nat /\ Top(new) + cy + 1 = cy + 1 /\ Top(t) + cy + 1 = cy + 1
      BY <1>3, <1>7, <2>2, ConstantFacts
    <3>3. CASE cy + 1 <= n
      <4>1. Shown(t, cx, cy) = t.rows[cy + 1][cx]
        BY <3>2, <3>3 DEF Shown, n
      <4>2. Shown(new, cx, cy) = new.rows[cy + 1][cx]
        <5>1. cy + 1 <= n + 1
          BY <1>1, <3>2, <3>3
        <5> QED
          BY <1>5, <3>2, <5>1 DEF Shown
      <4>3. cy + 1 \in 1..n
        BY <1>1, <3>2, <3>3, ConstantFacts
      <4> QED
        BY <1>5, <3>1, <4>1, <4>2, <4>3
    <3>4. CASE ~(cy + 1 <= n)
      <4>1. Shown(t, cx, cy) = " "
        BY <3>2, <3>4 DEF Shown, n
      <4>2. CASE cy + 1 = n + 1
        <5>1. Shown(new, cx, cy) = new.rows[n + 1][cx]
          <6>1. n + 1 = Top(new) + cy + 1 /\ n + 1 <= Len(new.rows)
            BY <1>1, <1>5, <3>2, <4>2
          <6> QED
            <7>1. Top(new) + cy + 1 = n + 1 /\ Top(new) + cy + 1 <= Len(new.rows)
              BY <6>1
            <7>2. Shown(new, cx, cy) = new.rows[Top(new) + cy + 1][cx]
              BY <7>1 DEF Shown
            <7> QED
              BY <7>1, <7>2, Zenon
        <5> QED
          BY <1>5, <3>1, <4>1, <5>1, BlankRowFacts
      <4>3. CASE cy + 1 # n + 1
        <5>1. ~(cy + 1 <= n + 1)
          BY <1>1, <3>2, <3>4, <4>3
        <5>2. Shown(new, cx, cy) = " "
          BY <1>5, <3>2, <5>1 DEF Shown
        <5> QED
          BY <3>1, <4>1, <5>2
      <4> QED
        BY <4>2, <4>3
    <3> QED
      BY <3>3, <3>4
  <2>4. y + 1 = Len(new.rows) - 1 - Top(new)
    BY <1>1, <1>2, <1>3, <1>5, <1>7, <2>2 DEF n
  <2>5. ShowsRows(buf, y + 1, new)
    BY <2>3, <2>4 DEF ShowsRows
  <2> QED
    BY <1>6, <2>1, <2>5 DEF new
<1>8. CASE ~(n < VGA_HEIGHT)
  <2>1. ScrollEnd(buf, 0, y + 1) = [buf |-> Scrolled(buf), x |-> 0, y |-> VGA_HEIGHT - 1]
    BY <1>1, <1>3, <1>8, ConstantFacts DEF ScrollEnd, ScrollsOff
  <2>2. Top(new) = n + 1 - VGA_HEIGHT /\ Top(t) = n - VGA_HEIGHT
    BY <1>1, <1>3, <1>5, <1>8, ConstantFacts DEF Top
  <2>3. ASSUME NEW cx \in 0..(VGA_WIDTH - 1), NEW cy \in 0..(VGA_HEIGHT - 1)
        PROVE  Scrolled(buf)[Location(cx, cy)] = Shown(new, cx, cy)
    <3> DEFINE loc == Location(cx, cy)
    <3>1. cy \in Nat /\ cy < VGA_HEIGHT
      BY ConstantFacts
    <3>2. loc \in Cells /\ loc \in Screen /\ loc + VGA_WIDTH = Location(cx, cy + 1)
      BY <3>1, LocationFacts
    <3>3. Location(cx, cy + 1) \in Screen <=> cy + 1 < VGA_HEIGHT
      BY <3>1, LocationFacts
    <3> HIDE DEF loc
    <3>4. Scrolled(buf)[loc] = IF cy + 1 < VGA_HEIGHT THEN buf[Location(cx, cy + 1)] ELSE " "
      BY <3>2, <3>3 DEF Scrolled
    <3>5. Top(new) + cy + 1 = n + 1 - VGA_HEIGHT + cy + 1 /\ Top(t) + (cy + 1) + 1 = Top(new) + cy + 1
      BY <1>1, <2>2, <3>1, ConstantFacts
    <3>6. Top(new) + cy + 1 <= n + 1 /\ Top(new) + cy + 1 \in 1..(n + 1)
      BY <1>1, <1>8, <3>1, <3>5, ConstantFacts
    <3>7. Shown(new, cx, cy) = new.rows[Top(new) + cy + 1][cx]
      BY <1>5, <3>6 DEF Shown
    <3>8. CASE cy + 1 < VGA_HEIGHT
      <4>1. Scrolled(buf)[loc] = Shown(t, cx, cy + 1)
        <5>1. cy + 1 \in 0..(VGA_HEIGHT - 1)
          BY <3>1, <3>8, ConstantFacts
        <5> QED
          BY <1>2, <3>4, <3>8, <5>1
      <4>2. Top(new) + cy + 1 \in 1..n
        BY <1>1, <1>8, <3>1, <3>5, <3>6, <3>8, ConstantFacts
      <4>3. Top(t) + (cy + 1) + 1 <= n
        BY <1>1, <3>5, <4>2
      <4>4. Shown(t, cx, cy + 1) = t.rows[Top(new) + cy + 1][cx]
        BY <3>5, <4>3 DEF Shown, n
      <4> QED
        BY <1>5, <3>7, <4>1, <4>2, <4>4 DEF loc
    <3>9. CASE ~(cy + 1 < VGA_HEIGHT)
      <4>1. Top(new) + cy + 1 = n + 1
        BY <1>1, <3>1, <3>5, <3>9, ConstantFacts
      <4> QED
        BY <1>5, <3>4, <3>7, <3>9, <4>1, BlankRowFacts DEF loc
    <3> QED
      BY <3>8, <3>9
  <2>4. VGA_HEIGHT - 1 = Len(new.rows) - 1 - Top(new)
    BY <1>1, <1>5, <2>2, ConstantFacts
  <2>5. ShowsRows(Scrolled(buf), VGA_HEIGHT - 1, new)
    BY <2>3, <2>4 DEF ShowsRows
  <2> QED
    BY <1>6, <2>1, <2>5 DEF new
<1> QED
  BY <1>7, <1>8

\* The rows with a letter where the next character goes.
Lettered(t, c) == [t.rows EXCEPT ![Len(t.rows)][t.x] = c]

\* A letter goes to its cell, and nothing else on the screen changes.
LEMMA LetterShows ==
  ASSUME NEW buf \in [Cells -> Glyphs], NEW y \in Nat, NEW t \in Texts, NEW c \in Letters,
         ShowsRows(buf, y, t),
         NEW put, put.rows = Lettered(t, c)
  PROVE  /\ ShowsRows(term_putentry(buf, c, t.x, y), y, put)
         /\ put.rows \in Seq(Rows) \ {<<>>}
         /\ term_putentry(buf, c, t.x, y) \in [Cells -> Glyphs]
<1> DEFINE n == Len(t.rows)
           new == term_putentry(buf, c, t.x, y)
<1>1. /\ t.rows \in Seq(Rows) \ {<<>>} /\ t.x \in 0..(VGA_WIDTH - 1)
      /\ n \in Nat /\ n >= 1 /\ n \in 1..n
  BY SMT DEF Texts
<1>2. /\ y = n - 1 - Top(t)
      /\ \A cx \in 0..(VGA_WIDTH - 1), cy \in 0..(VGA_HEIGHT - 1) :
           buf[Location(cx, cy)] = Shown(t, cx, cy)
  BY DEF ShowsRows
<1>3. y < VGA_HEIGHT /\ Top(t) \in Nat
  BY <1>1, <1>2, LastRowSeen
<1>4. new = [buf EXCEPT ![Location(t.x, y)] = c] /\ Location(t.x, y) \in Cells
  BY <1>1, <1>3, LocationFacts DEF term_putentry, Location
<1>5. new \in [Cells -> Glyphs]
  BY <1>4 DEF Glyphs
<1>6. /\ t.rows \in [1..n -> Rows] /\ put.rows = [t.rows EXCEPT ![n][t.x] = c]
      /\ t.rows[n] \in [0..(VGA_WIDTH - 1) -> Glyphs]
  BY <1>1 DEF Rows, Lettered
<1> DEFINE row == [t.rows[n] EXCEPT ![t.x] = c]
<1>7. row \in Rows /\ \A cx \in 0..(VGA_WIDTH - 1) : row[cx] = IF cx = t.x THEN c ELSE t.rows[n][cx]
  BY <1>1, <1>6 DEF Rows, Glyphs
<1>8. put.rows = [t.rows EXCEPT ![n] = row]
  BY <1>6
<1> HIDE DEF row, n, new
<1>9. /\ put.rows \in Seq(Rows) /\ Len(put.rows) = n /\ put.rows # <<>>
      /\ \A k \in 1..n : put.rows[k] = IF k = n THEN row ELSE t.rows[k]
  <2>1. put.rows \in [1..n -> Rows]
    BY <1>6, <1>7, <1>8
  <2>2. put.rows \in Seq(Rows) /\ Len(put.rows) = n
    BY <1>1, <2>1
  <2>3. \A k \in 1..n : put.rows[k] = IF k = n THEN row ELSE t.rows[k]
    BY <1>6, <1>8
  <2> QED
    BY <1>1, <2>2, <2>3
<1>10. Top(put) = Top(t)
  BY <1>9 DEF Top, n
<1>11. ASSUME NEW cx \in 0..(VGA_WIDTH - 1), NEW cy \in 0..(VGA_HEIGHT - 1)
       PROVE  new[Location(cx, cy)] = Shown(put, cx, cy)
  <2> DEFINE k == Top(t) + cy + 1
  <2>1. cy \in Nat /\ cy < VGA_HEIGHT /\ k \in Nat /\ k >= 1
    BY <1>3, ConstantFacts
  <2>2. Location(cx, cy) \in Cells
    BY <2>1, LocationFacts
  <2>3. buf[Location(cx, cy)] = Shown(t, cx, cy)
    BY <1>2
  <2>4. k = n <=> cy = y
    BY <1>1, <1>2, <1>3, <2>1
  <2>5. /\ Shown(t, cx, cy) = IF k <= n THEN t.rows[k][cx] ELSE " "
        /\ Shown(put, cx, cy) = IF k <= n THEN put.rows[k][cx] ELSE " "
    BY <1>9, <1>10 DEF Shown, n
  <2> HIDE DEF k
  <2>6. CASE cy = y /\ cx = t.x
    <3>1. new[Location(cx, cy)] = c
      BY <1>4, <2>2, <2>6
    <3>2. Shown(put, cx, cy) = row[cx] /\ row[cx] = c
      <4>1. k = n /\ n \in 1..n /\ k <= n
        BY <1>1, <2>4, <2>6
      <4> QED
        BY <1>1, <1>7, <1>9, <2>5, <2>6, <4>1
    <3> QED
      BY <3>1, <3>2
  <2>7. CASE ~(cy = y /\ cx = t.x)
    <3>1. Location(cx, cy) # Location(t.x, y)
      BY <1>1, <2>1, <2>7, LocationInjective
    <3>2. new[Location(cx, cy)] = buf[Location(cx, cy)]
      BY <1>4, <2>2, <3>1
    <3>3. Shown(put, cx, cy) = Shown(t, cx, cy)
      <4>1. CASE k <= n
        <5>1. k \in 1..n
          BY <1>1, <2>1, <4>1
        <5>2. CASE k = n
          <6>1. put.rows[k] = row /\ cx # t.x
            BY <1>9, <2>4, <2>7, <5>1, <5>2
          <6>2. row[cx] = t.rows[n][cx]
            BY <1>7, <6>1
          <6> QED
            BY <2>5, <4>1, <5>2, <6>1, <6>2
        <5>3. CASE k # n
          BY <1>9, <2>5, <5>1, <5>3
        <5> QED
          BY <5>2, <5>3
      <4>2. CASE ~(k <= n)
        BY <2>5, <4>2
      <4> QED
        BY <4>1, <4>2
    <3> QED
      BY <2>3, <3>2, <3>3
  <2> QED
    BY <2>6, <2>7
<1>12. ShowsRows(new, y, put)
  BY <1>2, <1>9, <1>10, <1>11 DEF ShowsRows, n
<1> QED
  BY <1>5, <1>9, <1>12 DEF new

\* A putchar that nothing interrupts adds its character to what is shown.
LEMMA PutShows ==
  ASSUME NEW buf \in [Cells -> Glyphs], NEW x \in Nat, NEW y \in Nat, NEW t \in Texts,
         NEW c \in Chars, x = t.x, ShowsRows(buf, y, t)
  PROVE  Shows(PutEnd(buf, x, y, c), Written(t, c)) /\ Written(t, c) \in Texts
<1>1. /\ t.rows \in Seq(Rows) \ {<<>>} /\ t.x \in 0..(VGA_WIDTH - 1)
      /\ t = [rows |-> t.rows, x |-> t.x]
  BY DEF Texts
<1>2. ~ScrollsOff(y)
  <2>1. y = Len(t.rows) - 1 - Top(t)
    BY DEF ShowsRows
  <2>2. Len(t.rows) \in Nat /\ Len(t.rows) >= 1
    BY <1>1, SMT
  <2>3. y < VGA_HEIGHT
    BY <2>1, <2>2, LastRowSeen
  <2> QED
    BY <2>3, ConstantFacts DEF ScrollsOff
<1>3. \A b, xx : ScrollEnd(b, xx, y) = [buf |-> b, x |-> xx, y |-> y]
  BY <1>2 DEF ScrollEnd
<1>4. CASE c = "\n"
  <2>1. PutEnd(buf, x, y, c) = ScrollEnd(buf, 0, y + 1) /\ Written(t, c) = NewRow(t)
    BY <1>4 DEF PutEnd, Written
  <2>2. NewRow(t).x = 0
    BY DEF NewRow
  <2> QED
    BY <1>1, <2>1, <2>2, NewRowShows DEF Shows
<1>5. CASE c = "\r"
  <2>1. PutEnd(buf, x, y, c) = [buf |-> buf, x |-> 0, y |-> y] /\ Written(t, c) = [t EXCEPT !.x = 0]
    BY <1>3, <1>5 DEF PutEnd, Written
  <2>2. Written(t, c).rows = t.rows /\ Written(t, c).x = 0 /\ Written(t, c) \in Texts
    BY <1>1, <2>1, ConstantFacts DEF Texts
  <2>3. ShowsRows(buf, y, Written(t, c))
    BY <2>2, SameRows
  <2> QED
    BY <2>1, <2>2, <2>3 DEF Shows
<1>6. CASE c = "\t"
  <2>1. PutEnd(buf, x, y, c) = [buf |-> buf, x |-> x, y |-> y] /\ Written(t, c) = t
    BY <1>3, <1>6 DEF PutEnd, Written
  <2> QED
    BY <2>1 DEF Shows
<1>7. CASE c \notin {"\n", "\r", "\t"}
  <2> DEFINE put == [rows |-> [t.rows EXCEPT ![Len(t.rows)][t.x] = c], x |-> t.x + 1]
             new == term_putentry(buf, c, x, y)
  <2>1. c \in Letters
    BY <1>7 DEF Chars
  <2>2. /\ PutEnd(buf, x, y, c) = AdvanceEnd(new, x + 1, y)
        /\ Written(t, c) = IF put.x = VGA_WIDTH THEN NewRow(put) ELSE put
    BY <1>7 DEF PutEnd, Written
  <2>3. put.x = x + 1 /\ put = [rows |-> put.rows, x |-> x + 1]
        /\ put.rows = [t.rows EXCEPT ![Len(t.rows)][t.x] = c]
    OBVIOUS
  <2> HIDE DEF put
  <2>a. new = term_putentry(buf, c, t.x, y) /\ put.rows = Lettered(t, c)
    BY <2>3 DEF Lettered
  <2> HIDE DEF new
  <2>4. ShowsRows(new, y, put) /\ put.rows \in Seq(Rows) \ {<<>>} /\ new \in [Cells -> Glyphs]
    <3>1. ShowsRows(term_putentry(buf, c, t.x, y), y, put) /\ put.rows \in Seq(Rows) \ {<<>>}
          /\ term_putentry(buf, c, t.x, y) \in [Cells -> Glyphs]
      BY <2>1, <2>a, LetterShows
    <3> QED
      BY <2>a, <3>1
  <2>5. CASE Wraps(x + 1)
    <3>1. PutEnd(buf, x, y, c) = ScrollEnd(new, 0, y + 1) /\ Written(t, c) = NewRow(put)
      BY <2>2, <2>3, <2>5 DEF AdvanceEnd, Wraps
    <3>2. NewRow(put).x = 0
      BY DEF NewRow
    <3> QED
      BY <2>4, <3>1, <3>2, NewRowShows DEF Shows
  <2>6. CASE ~Wraps(x + 1)
    <3>1. PutEnd(buf, x, y, c) = [buf |-> new, x |-> x + 1, y |-> y] /\ Written(t, c) = put
      BY <1>3, <2>2, <2>3, <2>6 DEF AdvanceEnd, Wraps
    <3>2. x + 1 \in 0..(VGA_WIDTH - 1)
      BY <1>1, <2>6, ConstantFacts DEF Wraps
    <3>3. put \in Texts
      BY <2>3, <2>4, <3>2 DEF Texts
    <3> QED
      BY <2>3, <2>4, <3>1, <3>3 DEF Shows
  <2> QED
    BY <2>5, <2>6
<1> QED
  BY <1>4, <1>5, <1>6, <1>7

-----------------------------------------------------------------------------
(* The screen.                                                             *)

\* The routines leave characters in the cells.
LEMMA CellsTyped ==
  ASSUME NEW buf \in [Cells -> Glyphs]
  PROVE  /\ Scrolled(buf) \in [Cells -> Glyphs]
         /\ \A c \in Letters : \A x, y : term_putentry(buf, c, x, y) \in [Cells -> Glyphs]
         /\ \A b \in [Cells -> Glyphs] : \A x, y : ScrollEnd(b, x, y).buf \in {b, Scrolled(b)}
<1>1. ASSUME NEW i \in Cells
      PROVE  (IF i + VGA_WIDTH \in Screen THEN buf[i + VGA_WIDTH]
              ELSE IF i \in Screen THEN " " ELSE buf[i]) \in Glyphs
  BY ScreenCells DEF Glyphs
<1>2. Scrolled(buf) \in [Cells -> Glyphs]
  BY <1>1 DEF Scrolled
<1>3. \A c \in Letters : \A x, y : term_putentry(buf, c, x, y) \in [Cells -> Glyphs]
  BY DEF term_putentry, Glyphs
<1>4. \A b \in [Cells -> Glyphs] : \A x, y : ScrollEnd(b, x, y).buf \in {b, Scrolled(b)}
  BY DEF ScrollEnd
<1> QED
  BY <1>2, <1>3, <1>4

\* So does a whole putchar.
LEMMA PutEndTyped ==
  ASSUME NEW buf \in [Cells -> Glyphs], NEW x \in Nat, NEW y \in Nat, NEW c \in Chars
  PROVE  PutEnd(buf, x, y, c).buf \in [Cells -> Glyphs]
<1>1. CASE c \in {"\n", "\r", "\t"}
  <2>1. \/ PutEnd(buf, x, y, c) = ScrollEnd(buf, 0, y + 1)
        \/ PutEnd(buf, x, y, c) = ScrollEnd(buf, 0, y)
        \/ PutEnd(buf, x, y, c) = ScrollEnd(buf, x, y)
    BY <1>1 DEF PutEnd
  <2> QED
    BY <2>1, CellsTyped
<1>2. CASE c \notin {"\n", "\r", "\t"}
  <2> DEFINE new == term_putentry(buf, c, x, y)
  <2>1. c \in Letters
    BY <1>2 DEF Chars
  <2>2. new \in [Cells -> Glyphs]
    BY <2>1, CellsTyped
  <2>3. PutEnd(buf, x, y, c) = AdvanceEnd(new, x + 1, y)
    BY <1>2 DEF PutEnd
  <2> HIDE DEF new
  <2>4. \/ AdvanceEnd(new, x + 1, y) = ScrollEnd(new, 0, y + 1)
        \/ AdvanceEnd(new, x + 1, y) = ScrollEnd(new, x + 1, y)
    BY DEF AdvanceEnd
  <2> QED
    BY <2>2, <2>3, <2>4, CellsTyped
<1> QED
  BY <1>1, <1>2

\* At the start the screen is blank, and so is the text.
LEMMA InitScreen == Init => ScreenInv
<1> SUFFICES ASSUME Init PROVE ScreenInv
  OBVIOUS
<1>1. /\ pc = "idle" /\ term_x = 0 /\ term_y = 0 /\ term_buf = [i \in Cells |-> " "]
      /\ temp_area = [i \in Screen |-> " "] /\ text = [rows |-> <<BlankRow>>, x |-> 0]
  BY DEF Init
<1>2. End = [buf |-> term_buf, x |-> 0, y |-> 0]
  BY <1>1 DEF End
<1>3. term_buf \in [Cells -> Glyphs] /\ temp_area \in [Screen -> Glyphs]
  BY <1>1 DEF Glyphs
<1>4. text \in Texts /\ Len(text.rows) = 1 /\ text.rows[1] = BlankRow
  <2>1. \A row \in Rows : /\ <<row>> \in Seq(Rows) /\ <<row>> # <<>>
                           /\ Len(<<row>>) = 1 /\ <<row>>[1] = row
    OBVIOUS
  <2>2. text.rows = <<BlankRow>>
    BY <1>1
  <2>3. 0 \in 0..(VGA_WIDTH - 1)
    BY ConstantFacts
  <2>4. text \in Texts
    BY <1>1, <2>1, <2>2, <2>3, BlankRowFacts DEF Texts
  <2> QED
    BY <2>1, <2>2, <2>4, BlankRowFacts
<1>5. Top(text) = 0
  BY <1>4, ConstantFacts DEF Top
<1>6. ASSUME NEW cx \in 0..(VGA_WIDTH - 1), NEW cy \in 0..(VGA_HEIGHT - 1)
      PROVE  term_buf[Location(cx, cy)] = Shown(text, cx, cy)
  <2>1. cy \in Nat /\ cy < VGA_HEIGHT
    BY ConstantFacts
  <2>2. term_buf[Location(cx, cy)] = " "
    BY <1>1, <2>1, LocationFacts
  <2>3. CASE cy = 0
    <3>1. Top(text) + cy + 1 = 1
      BY <1>5, <2>3
    <3>2. Shown(text, cx, cy) = text.rows[1][cx]
      <4>1. Top(text) + cy + 1 <= Len(text.rows)
        BY <1>4, <3>1
      <4>2. Shown(text, cx, cy) = text.rows[Top(text) + cy + 1][cx]
        BY <4>1 DEF Shown
      <4> QED
        BY <3>1, <4>2, Zenon
    <3> QED
      BY <1>4, <2>2, <3>2, BlankRowFacts
  <2>4. CASE cy # 0
    <3>1. ~(Top(text) + cy + 1 <= 1)
      BY <1>5, <2>1, <2>4
    <3> QED
      BY <1>4, <2>2, <3>1 DEF Shown
  <2> QED
    BY <2>3, <2>4
<1>7. ShowsRows(term_buf, 0, text)
  BY <1>4, <1>5, <1>6 DEF ShowsRows
<1>8. Shows(End, text)
  BY <1>1, <1>2, <1>7 DEF Shows
<1> QED
  BY <1>1, <1>3, <1>4, <1>8 DEF ScreenInv

\* Where nothing is left of a putchar or a flash, the screen is at its end.
LEMMA EndFacts ==
  /\ pc \in {"idle", "save", "blank", "csr_pos", "outb"} =>
       End = [buf |-> term_buf, x |-> term_x, y |-> term_y]
  /\ pc = "putentry" =>
       End = AdvanceEnd(term_putentry(term_buf, char, term_x, term_y), term_x + 1, term_y)
  /\ pc = "load_x" => End = AdvanceEnd(term_buf, term_x + 1, term_y)
  /\ pc = "store_x" => End = AdvanceEnd(term_buf, r, term_y)
  /\ pc = "x=0" => End = ScrollEnd(term_buf, 0, IF Seen THEN term_y + 1 ELSE term_y)
  /\ pc = "load_y" => End = ScrollEnd(term_buf, IF char = "\n" THEN 0 ELSE term_x, term_y + 1)
  /\ pc = "store_y" => End = ScrollEnd(term_buf, IF char = "\n" THEN 0 ELSE term_x, r)
  /\ pc = "scroll" => End = ScrollEnd(term_buf, term_x, term_y)
  /\ pc = "scroll_x=0" => End = [buf |-> term_buf, x |-> 0, y |-> VGA_HEIGHT - 1]
  /\ pc = "scroll_y=24" => End = [buf |-> term_buf, x |-> term_x, y |-> VGA_HEIGHT - 1]
  /\ pc = "restore" =>
       End = [buf |-> [i \in Cells |-> IF Copies(i) THEN temp_area[i] ELSE term_buf[i]],
              x |-> term_x, y |-> term_y]
BY DEF End

\* A step inside a putchar brings its end nearer and does not change it.
LEMMA InsidePutchar ==
  ASSUME \/ Putentry \/ LoadX \/ StoreX \/ LoadY \/ StoreY \/ ZeroX
         \/ TermScroll \/ ScrollX \/ ScrollY \/ CsrPos \/ Outb,
         PositionInv
  PROVE  /\ End' = End /\ pc' # "blank" /\ UNCHANGED <<temp_area, text, raced>>
         /\ term_buf \in [Cells -> Glyphs] => term_buf' \in [Cells -> Glyphs]
<1> USE DEF Goto, flash, history
<1>1. CASE Putentry
  <2>1. /\ pc = "putentry" /\ pc' = "load_x"
        /\ term_buf' = term_putentry(term_buf, char, term_x, term_y)
        /\ UNCHANGED <<term_x, term_y, temp_area, text, raced>>
    BY <1>1 DEF Putentry
  <2>2. term_buf \in [Cells -> Glyphs] => term_buf' \in [Cells -> Glyphs]
    BY <2>1, CellsTyped DEF PositionInv
  <2> QED
    BY <2>1, <2>2 DEF End
<1>2. CASE LoadX
  BY <1>2 DEF LoadX, End
<1>3. CASE StoreX
  <2>1. /\ pc = "store_x" /\ pc' = (IF Wraps(r) THEN "x=0" ELSE "scroll") /\ term_x' = r
        /\ UNCHANGED <<term_y, term_buf, char, r, temp_area, text, raced>>
    BY <1>3 DEF StoreX
  <2>2. Seen'
    BY <2>1, LetterFacts DEF PositionInv, Seen
  <2>3. End = AdvanceEnd(term_buf, r, term_y)
    BY <2>1, EndFacts
  <2>4. CASE Wraps(r)
    BY <2>1, <2>2, <2>3, <2>4 DEF End, AdvanceEnd
  <2>5. CASE ~Wraps(r)
    BY <2>1, <2>3, <2>5 DEF End, AdvanceEnd
  <2> QED
    BY <2>1, <2>4, <2>5
<1>4. CASE LoadY
  BY <1>4 DEF LoadY, End
<1>5. CASE StoreY
  <2>1. /\ pc = "store_y" /\ pc' = (IF char = "\n" THEN "x=0" ELSE "scroll") /\ term_y' = r
        /\ UNCHANGED <<term_x, term_buf, char, r, temp_area, text, raced>>
    BY <1>5 DEF StoreY
  <2>2. CASE char = "\n"
    BY <2>1, <2>2 DEF End, Seen
  <2>3. CASE char # "\n"
    BY <2>1, <2>3 DEF End
  <2> QED
    BY <2>1, <2>2, <2>3
<1>6. CASE ZeroX
  <2>1. /\ pc = "x=0" /\ pc' = (IF char \in {"\n", "\r"} THEN "scroll" ELSE "load_y")
        /\ term_x' = 0
        /\ UNCHANGED <<term_y, term_buf, char, r, temp_area, text, raced>>
    BY <1>6 DEF ZeroX
  <2>2. CASE Seen
    BY <2>1, <2>2 DEF End, Seen
  <2>3. CASE ~Seen
    BY <2>1, <2>3 DEF End, Seen
  <2> QED
    BY <2>1, <2>2, <2>3
<1>7. CASE TermScroll
  <2>1. /\ pc = "scroll" /\ pc' = (IF ScrollsOff(term_y) THEN "scroll_x=0" ELSE "csr_pos")
        /\ term_buf' = IF ScrollsOff(term_y) THEN Scrolled(term_buf) ELSE term_buf
        /\ UNCHANGED <<term_x, term_y, temp_area, text, raced>>
    BY <1>7 DEF TermScroll
  <2>2. End = ScrollEnd(term_buf, term_x, term_y)
    BY <2>1, EndFacts
  <2>3. CASE ScrollsOff(term_y)
    BY <2>1, <2>2, <2>3, CellsTyped DEF End, ScrollEnd
  <2>4. CASE ~ScrollsOff(term_y)
    BY <2>1, <2>2, <2>4 DEF End, ScrollEnd
  <2> QED
    BY <2>3, <2>4
<1>8. CASE ScrollX
  BY <1>8 DEF ScrollX, End
<1>9. CASE ScrollY
  BY <1>9 DEF ScrollY, End
<1>10. CASE CsrPos
  BY <1>10 DEF CsrPos, End
<1>11. CASE Outb
  <2>1. /\ pc = "outb" /\ pc' \in {"idle", "outb"}
        /\ UNCHANGED <<term_x, term_y, term_buf, temp_area, text, raced>>
    BY <1>11 DEF Outb
  <2> QED
    BY <2>1 DEF End
<1> QED
  BY <1>1, <1>2, <1>3, <1>4, <1>5, <1>6, <1>7, <1>8, <1>9, <1>10, <1>11

\* What the steps of a flash do to the screen is undone by its last, as long as
\* no key comes after the first.
LEMMA FlashScreen ==
  ASSUME ScreenInv, ~raced, flash_screen \/ Save \/ Blank \/ Restore
  PROVE  ScreenInv'
<1> USE DEF Goto, flash, history
<1>1. /\ term_buf \in [Cells -> Glyphs] /\ temp_area \in [Screen -> Glyphs]
      /\ text \in Texts /\ Shows(End, text)
      /\ pc = "blank" => \A i \in Screen : temp_area[i] = term_buf[i]
  BY DEF ScreenInv
<1>2. UNCHANGED <<term_x, term_y, text, raced>>
  BY DEF flash_screen, Save, Blank, Restore
<1>3. CASE flash_screen
  <2>1. pc = "idle" /\ pc' = "save" /\ UNCHANGED <<term_buf, temp_area>>
    BY <1>3 DEF flash_screen
  <2>2. End' = End
    BY <1>2, <2>1 DEF End
  <2> QED
    BY <1>1, <1>2, <2>1, <2>2 DEF ScreenInv
<1>4. CASE Save
  <2>1. /\ pc = "save" /\ pc' = "blank" /\ UNCHANGED term_buf
        /\ temp_area' = [i \in Screen |-> term_buf[i]]
    BY <1>4 DEF Save
  <2>2. End' = End
    BY <1>2, <2>1 DEF End
  <2>3. temp_area' \in [Screen -> Glyphs] /\ \A i \in Screen : temp_area'[i] = term_buf'[i]
    BY <1>1, <2>1, ScreenCells
  <2> QED
    BY <1>1, <1>2, <2>1, <2>2, <2>3 DEF ScreenInv
<1>5. CASE Blank
  <2>1. /\ pc = "blank" /\ pc' = "restore" /\ UNCHANGED temp_area
        /\ term_buf' = [i \in Cells |-> IF i \in Screen THEN " " ELSE term_buf[i]]
    BY <1>5 DEF Blank
  <2>2. term_buf' \in [Cells -> Glyphs]
    BY <1>1, <2>1 DEF Glyphs
  <2>3. End' = [buf |-> [i \in Cells |-> IF Copies(i) THEN temp_area'[i] ELSE term_buf'[i]],
                x |-> term_x', y |-> term_y']
    BY <2>1 DEF End
  <2>4. [i \in Cells |-> IF Copies(i) THEN temp_area'[i] ELSE term_buf'[i]] = term_buf
    <3>1. ASSUME NEW i \in Cells
          PROVE  (IF Copies(i) THEN temp_area'[i] ELSE term_buf'[i]) = term_buf[i]
      BY <1>1, <2>1 DEF Copies
    <3> QED
      BY <1>1, <3>1
  <2>5. End = [buf |-> term_buf, x |-> term_x, y |-> term_y]
    BY <2>1 DEF End
  <2>6. End' = End
    BY <1>2, <2>3, <2>4, <2>5
  <2> QED
    BY <1>1, <1>2, <2>1, <2>2, <2>6 DEF ScreenInv
<1>6. CASE Restore
  <2>1. /\ pc = "restore" /\ pc' = "idle" /\ UNCHANGED temp_area
        /\ term_buf' = [i \in Cells |-> IF Copies(i) THEN temp_area[i] ELSE term_buf[i]]
    BY <1>6 DEF Restore
  <2>2. term_buf' \in [Cells -> Glyphs]
    BY <1>1, <2>1 DEF Copies
  <2>3. End' = End
    BY <1>2, <2>1 DEF End
  <2> QED
    BY <1>1, <1>2, <2>1, <2>2, <2>3 DEF ScreenInv
<1> QED
  BY <1>3, <1>4, <1>5, <1>6

\* Once a key raced the main flow, it did.
LEMMA RacedStays == raced /\ [Next]_vars => raced'
<1> SUFFICES ASSUME raced, [Next]_vars PROVE raced'
  OBVIOUS
<1>1. CASE \E c \in Chars : Key(c)
  BY <1>1 DEF Key
<1>2. CASE \E c \in Chars : Putchar(c)
  BY <1>2 DEF Putchar
<1>3. CASE \/ Putentry \/ LoadX \/ StoreX \/ LoadY \/ StoreY \/ ZeroX
           \/ TermScroll \/ ScrollX \/ ScrollY \/ CsrPos \/ Outb
           \/ flash_screen \/ Save \/ Blank \/ Restore
  BY <1>3 DEF Putentry, LoadX, StoreX, LoadY, StoreY, ZeroX, TermScroll, ScrollX, ScrollY,
              CsrPos, Outb, flash_screen, Save, Blank, Restore, history
<1>4. CASE UNCHANGED vars
  BY <1>4 DEF vars, history
<1> QED
  BY <1>1, <1>2, <1>3, <1>4 DEF Next, Main

\* What the screen will show at the end is the text, after every step.
LEMMA NextScreen == PositionInv /\ ScreenInv /\ [Next]_vars => ScreenInv'
<1> SUFFICES ASSUME PositionInv, ScreenInv, [Next]_vars, ~raced, ~raced' PROVE ScreenInv'
  BY RacedStays DEF ScreenInv
<1>1. /\ term_buf \in [Cells -> Glyphs] /\ temp_area \in [Screen -> Glyphs]
      /\ text \in Texts /\ Shows(End, text) /\ term_x \in Nat /\ term_y \in Nat
  BY DEF ScreenInv, PositionInv
<1>2. ASSUME NEW c \in Chars, pc \in {"idle", "save"}
      PROVE  /\ Shows(PutEnd(term_buf, term_x, term_y, c), Written(text, c))
             /\ Written(text, c) \in Texts
  <2>1. End = [buf |-> term_buf, x |-> term_x, y |-> term_y]
    BY <1>2, EndFacts
  <2>2. term_x = text.x /\ ShowsRows(term_buf, term_y, text)
    BY <1>1, <2>1 DEF Shows
  <2> QED
    BY <1>1, <2>2, PutShows
<1>3. CASE \E c \in Chars : Key(c)
  <2> PICK c \in Chars : Key(c)
    BY <1>3
  <2>1. /\ pc \in {"idle", "save"} /\ pc' = pc /\ UNCHANGED temp_area
        /\ text' = Written(text, c)
    BY DEF Key, main, flash
  <2> DEFINE e == PutEnd(term_buf, term_x, term_y, c)
  <2>2. term_buf' = e.buf /\ term_x' = e.x /\ term_y' = e.y
    BY <1>1, KeyPuts
  <2>3. Shows(e, text') /\ text' \in Texts
    BY <1>2, <2>1
  <2>4. term_buf' \in [Cells -> Glyphs]
    BY <1>1, <2>2, PutEndTyped
  <2> HIDE DEF e
  <2>5. End' = [buf |-> e.buf, x |-> e.x, y |-> e.y]
    BY <2>1, <2>2 DEF End
  <2>6. Shows(End', text')
    BY <2>3, <2>5 DEF Shows
  <2> QED
    BY <1>1, <2>1, <2>3, <2>4, <2>6 DEF ScreenInv
<1>4. CASE \E c \in Chars : Putchar(c)
  <2> PICK c \in Chars : Putchar(c)
    BY <1>4
  <2>1. /\ pc = "idle" /\ char' = c /\ text' = Written(text, c)
        /\ pc' = CASE c = "\n" -> "load_y" [] c = "\r" -> "x=0"
                   [] c = "\t" -> "scroll" [] OTHER -> "putentry"
        /\ UNCHANGED <<term_x, term_y, term_buf, temp_area>>
    BY DEF Putchar, Goto, flash
  <2>2. End' = PutEnd(term_buf, term_x, term_y, c) /\ pc' # "blank"
    <3>1. CASE c = "\n"
      BY <2>1, <3>1 DEF End, PutEnd
    <3>2. CASE c = "\r"
      BY <2>1, <3>2 DEF End, PutEnd, Seen
    <3>3. CASE c = "\t"
      BY <2>1, <3>3 DEF End, PutEnd
    <3>4. CASE c \notin {"\n", "\r", "\t"}
      <4>1. pc' = "putentry"
        BY <2>1, <3>4
      <4> QED
        BY <2>1, <3>4, <4>1 DEF End, PutEnd
    <3> QED
      BY <3>1, <3>2, <3>3, <3>4
  <2>3. Shows(End', text') /\ text' \in Texts
    BY <1>2, <2>1, <2>2
  <2> QED
    BY <1>1, <2>1, <2>2, <2>3 DEF ScreenInv
<1>5. CASE \/ Putentry \/ LoadX \/ StoreX \/ LoadY \/ StoreY \/ ZeroX
           \/ TermScroll \/ ScrollX \/ ScrollY \/ CsrPos \/ Outb
  BY <1>1, <1>5, InsidePutchar DEF ScreenInv
<1>6. CASE flash_screen \/ Save \/ Blank \/ Restore
  BY <1>6, FlashScreen
<1>7. CASE UNCHANGED vars
  <2>1. UNCHANGED <<pc, char, r, term_x, term_y, term_buf, temp_area, text, raced>>
    BY <1>7 DEF vars, main, flash, history
  <2>2. End' = End
    BY <2>1 DEF End, Seen
  <2> QED
    BY <2>1, <2>2 DEF ScreenInv
<1> QED
  BY <1>3, <1>4, <1>5, <1>6, <1>7 DEF Next, Main

-----------------------------------------------------------------------------
(* The theorems.                                                           *)

\* The invariants hold in every reachable state.
THEOREM Invariants == Spec => [](PositionInv /\ CursorInv /\ ScreenInv)
<1>1. Init => PositionInv /\ CursorInv /\ ScreenInv
  BY InitPosition, InitCursor, InitScreen
<1>2. PositionInv /\ CursorInv /\ ScreenInv /\ [Next]_vars
        => (PositionInv /\ CursorInv /\ ScreenInv)'
  BY NextPosition, NextCursor, NextScreen
<1> QED
  BY <1>1, <1>2, PTL DEF Spec

\* Between two characters the next one goes on the screen, however many keys
\* interrupted the ones before (tty.c:88-115, keyboard.c:184-194).
THEOREM Inside == Spec => []InsideWhenIdle
<1>1. PositionInv => InsideWhenIdle
  BY DEF PositionInv, InsideWhenIdle, Column, Row, Scrolling
<1> QED
  BY <1>1, Invariants, PTL

\* A putchar without a key inside it, and a key between two, put the cursor
\* where the next character goes (tty.c:14-21).
THEOREM CursorFollows == Spec => []CursorHeals
<1>1. CursorInv => CursorHeals
  BY DEF CursorInv, CursorHeals
<1> QED
  BY <1>1, Invariants, PTL

\* Until a key interrupts a putchar or a flash, the screen shows the end of the
\* text, through every wrap, scroll and flash (tty.c:23-115, debug.c:14-38).
THEOREM ScreenIsText == Spec => []ScreenShowsText
<1>1. ScreenInv => ScreenShowsText
  <2> SUFFICES ASSUME ScreenInv, pc = "idle", ~raced PROVE ScreenShowsText
    BY DEF ScreenShowsText
  <2>1. Shows(End, text) /\ End = [buf |-> term_buf, x |-> term_x, y |-> term_y]
    BY EndFacts DEF ScreenInv
  <2>2. term_x = text.x /\ ShowsRows(term_buf, term_y, text)
    BY <2>1 DEF Shows
  <2> QED
    BY <2>2 DEF ShowsRows, ScreenShowsText
<1> QED
  BY <1>1, Invariants, PTL
=============================================================================
