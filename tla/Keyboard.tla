------------------------------ MODULE Keyboard ------------------------------
(***************************************************************************)
(* The modifier state of kernel/arch/i386/keyboard.c: a user works the     *)
(* keys, each stroke and each release is one scancode, and                 *)
(* keyboard_handler folds the scancodes into flags.                        *)
(*                                                                         *)
(* flags is the set of the bits that are 1.  The prefix 0xE0 of the right  *)
(* control and alt keys is a release of no key to the handler, so these    *)
(* keys are told from the left ones by nothing; the fake shifts that some  *)
(* keyboards send around the grey keys are left out.  paused is pause_flag *)
(* as the handler finds it; Interrupts has its part in pause.c.            *)
(***************************************************************************)
EXTENDS Naturals

CONSTANT Letters  \* keys whose scancode has a character

LSHIFT == "lshift"
RSHIFT == "rshift"
CTRL   == "ctrl"
ALT    == "alt"
CAPS   == "caps"
NUM    == "num"
SCROLL == "scroll"

Locks == {CAPS, NUM, SCROLL}

Modifiers == {"left shift", "right shift", "left ctrl", "right ctrl",
              "left alt", "right alt"}

Keys == Modifiers \union Locks \union Letters

\* keyboard_handler's switch takes the modifiers and the locks out first.
ASSUME LettersAssumption == Letters \intersect (Modifiers \union Locks) = {}

\* The bit of flags that a key's scancode works on.
Bit == [k \in Keys \ Letters |->
          CASE k = "left shift"  -> LSHIFT
            [] k = "right shift" -> RSHIFT
            [] k \in {"left ctrl", "right ctrl"} -> CTRL
            [] k \in {"left alt", "right alt"}   -> ALT
            [] OTHER -> k]

KeysOf(bit) == {k \in Keys \ Letters : Bit[k] = bit}

VARIABLES
  down,   \* the keys the user holds down
  flags,  \* the bits of flags
  layer,  \* the table the last character came from
  paused  \* the kernel waits in pause() for a key

keyboard == <<down, flags, layer, paused>>

KeyboardInit == down = {} /\ flags = {} /\ layer = "none" /\ paused = FALSE

-----------------------------------------------------------------------------
(* keyboard_handler.                                                       *)

\* The bits that the release of a key clears: flags &= 0xF7, 0xFA, 0xFD,
\* 0xFE.  0xFA clears two bits.
ClearedCtrlAltSwapped(k) ==
  CASE Bit[k] = CTRL -> {ALT} [] Bit[k] = ALT -> {CTRL} [] OTHER -> {Bit[k]}
ClearedBothShifts(k) == IF k \in KeysOf(LSHIFT) THEN {LSHIFT, RSHIFT} ELSE {Bit[k]}
Cleared(k) == IF k = "right shift" THEN {RSHIFT, ALT} ELSE {Bit[k]}

\* The bits after a stroke: a modifier is set, a lock toggled.
AfterStroke(f, k) ==
  CASE k \in Letters -> f
    [] k \in Locks -> (f \ {k}) \union ({k} \ f)
    [] OTHER -> f \union {Bit[k]}

Shift(f) == f \intersect {LSHIFT, RSHIFT} # {}

\* The character of a stroke comes from the table that the shift and the caps
\* lock together choose.
Table(f) == IF Shift(f) # (CAPS \in f) THEN "kbdus_shift" ELSE "kbdus"

\* A key goes down, or is held down until the keyboard repeats its scancode.
\* While the kernel is in pause() the stroke ends the pause and prints nothing.
Stroke(k) ==
  /\ down' = down \union {k}
  /\ flags' = AfterStroke(flags, k)
  /\ \/ /\ paused
        /\ paused' = FALSE
        /\ UNCHANGED layer
     \/ /\ ~paused
        /\ layer' = Table(flags')
        /\ UNCHANGED paused

Release(k) ==
  /\ k \in down
  /\ down' = down \ {k}
  /\ flags' = flags \ (IF k \in Letters \union Locks THEN {} ELSE Cleared(k))
  /\ UNCHANGED <<layer, paused>>

\* The kernel calls pause() and spins until a stroke.
WaitForKey ==
  /\ ~paused
  /\ paused' = TRUE
  /\ UNCHANGED <<down, flags, layer>>

KeyboardNext == WaitForKey \/ \E k \in Keys : Stroke(k) \/ Release(k)

KeyboardSpec == KeyboardInit /\ [][KeyboardNext]_keyboard

-----------------------------------------------------------------------------
(* Properties.                                                             *)

\* No modifier stays on when none of its keys is down, in whatever order the
\* keys went down, repeated and came up.
NoPhantomModifier ==
  \A m \in {LSHIFT, RSHIFT, CTRL, ALT} : m \in flags => KeysOf(m) \intersect down # {}

\* A shift key that is down has its bit set: the other modifiers' releases do
\* not clear it, so a letter typed under shift is taken from kbdus_shift.
ShiftFollowsKeys ==
  \A m \in {LSHIFT, RSHIFT} : KeysOf(m) \intersect down # {} => m \in flags
=============================================================================
