-------------------------- MODULE Interrupts_proof --------------------------
(***************************************************************************)
(* Proofs about Interrupts, for every set of lines with requests, every    *)
(* wait of flash_screen and every queue of the keyboard.                   *)
(*                                                                         *)
(* AllServed holds because the controllers serve nothing but the interrupt *)
(* in progress, ByteHasInterrupt because a byte and its interrupt come and *)
(* go together: both speak of the middle of irq_handler, where the         *)
(* properties themselves say nothing.                                      *)
(*                                                                         *)
(* The end of the module is about the handler of the keyboard line, for    *)
(* which Keyboard has a specification of its own.                          *)
(***************************************************************************)
EXTENDS Interrupts, Keyboard, SequenceTheorems, TLAPS

\* A handler runs with interrupts off, and irq_handler has a stage exactly
\* while one runs.
HandlerRuns ==
  /\ current = NONE <=> stage = "none"
  /\ iflag => current = NONE

\* Each handler is installed on no line but its own.
OwnLines ==
  \A i \in 0..15 : /\ irq_routines[i] = "timer_handler" => i = TIMER
                   /\ irq_routines[i] = "keyboard_handler" => i = KEYBOARD

\* In service are the interrupt in progress and the master's line it came by.
InService ==
  isr = IF current \in {NONE, SPURIOUS} THEN {} ELSE {current, MasterLine(current)}

\* A byte in the controller's buffer has one interrupt, not two.
OneInterrupt ==
  ~dismissed => ~(KEYBOARD \in irr /\ current = KEYBOARD /\ stage = "routine")

IInv ==
  /\ TypeOK
  /\ HandlerRuns
  /\ OwnLines
  /\ InService
  /\ ByteHasInterrupt
  /\ OneInterrupt
  /\ FlagOnlyInPause

-----------------------------------------------------------------------------
(* The controllers.                                                        *)

\* The lines, and what tells them apart.
LEMMA LineFacts ==
  /\ Lines \subseteq 0..15
  /\ SPURIOUS \notin Lines /\ NONE \notin Lines /\ CASCADE \notin Lines
  /\ SPURIOUS # NONE
  /\ TIMER \in Lines /\ KEYBOARD \in Lines /\ TIMER # KEYBOARD
  /\ \A i \in Lines : MasterLine(i) \in Lines \union {CASCADE}
BY InterruptsAssumption
   DEF Lines, Slave, MasterLine, TIMER, KEYBOARD, CASCADE, SPURIOUS, NONE

\* An end-of-interrupt command to a controller that serves one line leaves it
\* with none.
LEMMA EoiOfOne == ASSUME NEW i \in Int PROVE Eoi({i}) = {}
<1>1. Min({i}) = i
  BY DEF Min
<1> QED
  BY <1>1 DEF Eoi

\* irq_handler's commands (idt.c:279-283) end an interrupt on both controllers.
LEMMA EndOfInterruptEndsAll ==
  ASSUME current \in Lines \union {SPURIOUS}, InService
  PROVE  EndOfInterrupt(isr) = {}
<1>1. CASE current = SPURIOUS
  <2>1. isr = {} /\ current \notin Slave
    BY <1>1 DEF InService, SPURIOUS, Slave
  <2> QED
    BY <2>1 DEF EndOfInterrupt, Eoi
<1>2. CASE current \in Lines /\ current \in Slave
  <2>1. isr = {current, CASCADE}
    BY <1>2, LineFacts DEF InService, MasterLine
  <2>2. current \in Int /\ CASCADE \notin Slave
    BY <1>2 DEF CASCADE, Slave
  <2>3. CASCADE \in Int
    BY DEF CASCADE
  <2>4. isr \intersect Slave = {current} /\ isr \ Slave = {CASCADE}
    BY <1>2, <2>1, <2>2
  <2> QED
    BY <1>2, <2>2, <2>3, <2>4, EoiOfOne DEF EndOfInterrupt
<1>3. CASE current \in Lines /\ current \notin Slave
  <2>1. isr = {current}
    BY <1>3, LineFacts DEF InService, MasterLine
  <2>2. isr \intersect Slave = {} /\ isr \ Slave = {current} /\ current \in Int
    BY <1>3, <2>1, LineFacts
  <2> QED
    BY <1>3, <2>2, EoiOfOne DEF EndOfInterrupt
<1> QED
  BY <1>1, <1>2, <1>3

-----------------------------------------------------------------------------
(* The invariant, action by action.                                        *)

\* The invariant holds before idt_init.
LEMMA InitIInv == Init => IInv
<1> SUFFICES ASSUME Init PROVE IInv
  OBVIOUS
<1>0. <<>> \in Seq(Bytes) /\ Len(<<>>) = 0 /\ 0 <= QUEUE /\ 0 \in 0..TICKS
  BY SMT, InterruptsAssumption
<1>1. TypeOK
  <2>1. irq_routines \in [0..15 -> {"null", "timer_handler", "keyboard_handler"}]
    BY DEF Init
  <2>2. typed \in Seq(Bytes) /\ Len(typed) <= QUEUE /\ ticks_left \in 0..TICKS
    BY <1>0 DEF Init
  <2> QED
    BY <2>1, <2>2 DEF Init, TypeOK, Places
<1>2. HandlerRuns /\ OwnLines /\ InService
  BY DEF Init, HandlerRuns, OwnLines, InService
<1>3. ByteHasInterrupt /\ OneInterrupt /\ FlagOnlyInPause
  BY DEF Init, ByteHasInterrupt, OneInterrupt, FlagOnlyInPause, NONE, KEYBOARD
<1> QED
  BY <1>1, <1>2, <1>3 DEF IInv

\* A request of a device other than the keyboard's touches nothing but irr.
LEMMA RequestStep ==
  ASSUME IInv, NEW i \in Lines \ {KEYBOARD}, irr' = irr \union {i},
         UNCHANGED <<kernel, cpu, isr, buffer, typed, dismissed>>
  PROVE  IInv'
<1> USE DEF IInv, kernel, cpu
<1>1. TypeOK'
  BY DEF TypeOK
<1>2. HandlerRuns' /\ OwnLines' /\ InService' /\ FlagOnlyInPause'
  BY DEF HandlerRuns, OwnLines, InService, FlagOnlyInPause, MasterLine
<1>3. ByteHasInterrupt' /\ OneInterrupt'
  BY DEF ByteHasInterrupt, OneInterrupt
<1> QED
  BY <1>1, <1>2, <1>3

\* The user presses a key.
LEMMA TypeStep ==
  ASSUME IInv, NEW b \in Bytes, Type(b)
  PROVE  IInv'
<1> USE DEF IInv, Type, kernel, cpu
<1>1. typed' \in Seq(Bytes) /\ Len(typed') <= QUEUE
  BY AppendProperties, InterruptsAssumption DEF TypeOK
<1>2. TypeOK'
  BY <1>1 DEF TypeOK
<1>3. HandlerRuns' /\ OwnLines' /\ InService' /\ FlagOnlyInPause'
  BY DEF HandlerRuns, OwnLines, InService, FlagOnlyInPause, MasterLine
<1>4. ByteHasInterrupt' /\ OneInterrupt'
  BY DEF ByteHasInterrupt, OneInterrupt
<1> QED
  BY <1>2, <1>3, <1>4

\* The controller loads the next byte and raises its interrupt: there is none
\* yet, for the buffer was empty.
LEMMA LoadStep ==
  ASSUME IInv, Load
  PROVE  IInv'
<1> USE DEF IInv, Load, kernel, cpu
<1>1. /\ typed' \in Seq(Bytes) /\ Len(typed') <= QUEUE
      /\ buffer' \in Bytes
  BY HeadTailProperties, InterruptsAssumption DEF TypeOK
<1>2. TypeOK'
  BY <1>1, LineFacts DEF TypeOK
<1>3. HandlerRuns' /\ OwnLines' /\ InService' /\ FlagOnlyInPause'
  BY DEF HandlerRuns, OwnLines, InService, FlagOnlyInPause, MasterLine
<1>4. ByteHasInterrupt' /\ OneInterrupt'
  BY <1>1 DEF ByteHasInterrupt, OneInterrupt, Bytes, EMPTY
<1> QED
  BY <1>2, <1>3, <1>4

\* The CPU takes an interrupt.
LEMMA DeliverStep ==
  ASSUME IInv, NEW i \in Lines, Deliver(i)
  PROVE  IInv'
<1> USE DEF IInv, Deliver, Take, kernel
<1>1. TypeOK'
  BY LineFacts DEF TypeOK
<1>2. HandlerRuns' /\ OwnLines' /\ FlagOnlyInPause'
  BY LineFacts DEF HandlerRuns, OwnLines, FlagOnlyInPause
<1>3. InService'
  BY LineFacts DEF InService, MasterLine
<1>4. ByteHasInterrupt' /\ OneInterrupt'
  BY LineFacts DEF ByteHasInterrupt, OneInterrupt, Ready
<1> QED
  BY <1>1, <1>2, <1>3, <1>4

\* A spurious interrupt comes with nothing in service.
LEMMA SpuriousStep ==
  ASSUME IInv, Spurious
  PROVE  IInv'
<1> USE DEF IInv, Spurious, Take, kernel, hardware
<1>1. TypeOK'
  BY DEF TypeOK
<1>2. HandlerRuns' /\ OwnLines' /\ FlagOnlyInPause'
  BY LineFacts DEF HandlerRuns, OwnLines, FlagOnlyInPause
<1>3. InService'
  BY LineFacts DEF InService, MasterLine
<1>4. ByteHasInterrupt' /\ OneInterrupt'
  BY LineFacts DEF ByteHasInterrupt, OneInterrupt
<1> QED
  BY <1>1, <1>2, <1>3, <1>4

\* The routine of the line runs, if it has one.
LEMMA RoutineStep ==
  ASSUME IInv, Routine
  PROVE  IInv'
<1> USE DEF IInv, kernel, cpu, hardware
<1>0. /\ stage = "routine" /\ stage' = "eoi"
      /\ UNCHANGED <<pc, irq_routines, iflag, current, irr, isr, typed>>
      /\ current \in Lines \union {SPURIOUS} /\ current \in 0..15
      /\ \/ irq_routines[current] = "timer_handler" /\ timer_handler
         \/ irq_routines[current] = "keyboard_handler" /\ keyboard_handler
         \/ irq_routines[current] = "null" /\ NoRoutine
  <2>1. current \in Lines \union {SPURIOUS} /\ current \in 0..15
    BY LineFacts DEF Routine, TypeOK, HandlerRuns, SPURIOUS
  <2>2. irq_routines[current] \in {"null", "timer_handler", "keyboard_handler"}
    BY <2>1 DEF TypeOK
  <2> QED
    BY <2>1, <2>2 DEF Routine, timer_handler, keyboard_handler, NoRoutine
<1>1. TypeOK'
  <2>1. ticks_left' \in 0..TICKS
    <3>1. Nearer(ticks_left) \in 0..TICKS
      BY InterruptsAssumption DEF TypeOK, Nearer
    <3> QED
      BY <1>0, <3>1 DEF TypeOK, timer_handler, keyboard_handler, NoRoutine
  <2>2. /\ pause_flag' \in {0, 1} /\ irr' \subseteq Lines /\ isr' \subseteq Lines \union {CASCADE}
        /\ buffer' \in Bytes \union {EMPTY} /\ dismissed' \in BOOLEAN
    BY <1>0 DEF TypeOK, timer_handler, keyboard_handler, NoRoutine, unpause, ReadByte
  <2> QED
    BY <1>0, <2>1, <2>2 DEF TypeOK
<1>2. HandlerRuns' /\ OwnLines' /\ InService'
  BY <1>0, LineFacts DEF HandlerRuns, OwnLines, InService, MasterLine
<1>3. FlagOnlyInPause'
  BY <1>0 DEF TypeOK, FlagOnlyInPause, timer_handler, keyboard_handler, NoRoutine, unpause
<1>4. ByteHasInterrupt' /\ OneInterrupt'
  <2>1. CASE irq_routines[current] = "timer_handler" /\ timer_handler
    BY <1>0, <2>1, LineFacts DEF OwnLines, ByteHasInterrupt, OneInterrupt, timer_handler
  <2>2. CASE irq_routines[current] = "keyboard_handler" /\ keyboard_handler
    <3>1. current = KEYBOARD
      BY <1>0, <2>2 DEF OwnLines
    <3> QED
      BY <1>0, <2>2, <3>1 DEF ByteHasInterrupt, OneInterrupt, keyboard_handler, ReadByte
  <2>3. CASE irq_routines[current] = "null" /\ NoRoutine
    BY <1>0, <2>3 DEF ByteHasInterrupt, OneInterrupt, NoRoutine
  <2> QED
    BY <1>0, <2>1, <2>2, <2>3
<1> QED
  BY <1>1, <1>2, <1>3, <1>4

\* The end of an interrupt.
LEMMA ReturnStep ==
  ASSUME IInv, Return
  PROVE  IInv'
<1> USE DEF IInv, Return, kernel
<1>0. isr' = {}
  BY EndOfInterruptEndsAll DEF TypeOK, HandlerRuns
<1>1. TypeOK'
  BY <1>0 DEF TypeOK
<1>2. HandlerRuns' /\ OwnLines' /\ InService' /\ FlagOnlyInPause'
  BY <1>0 DEF HandlerRuns, OwnLines, InService, FlagOnlyInPause
<1>3. ByteHasInterrupt' /\ OneInterrupt'
  BY LineFacts DEF ByteHasInterrupt, OneInterrupt
<1> QED
  BY <1>1, <1>2, <1>3

\* The main flow, between interrupts.
LEMMA MainStep ==
  ASSUME IInv, Main
  PROVE  IInv'
<1> USE DEF IInv
<1>1. CASE idt_init
  <2> USE <1>1 DEF idt_init, Goto
  <2>1. TypeOK'
    BY DEF TypeOK, Places
  <2>2. HandlerRuns' /\ OwnLines' /\ InService' /\ FlagOnlyInPause'
    BY DEF HandlerRuns, OwnLines, InService, FlagOnlyInPause
  <2>3. ByteHasInterrupt' /\ OneInterrupt'
    BY LineFacts DEF ByteHasInterrupt, OneInterrupt
  <2> QED
    BY <2>1, <2>2, <2>3
<1>2. CASE TimerInstall \/ KeyboardInstall
  <2>0. /\ \E line \in {TIMER, KEYBOARD} :
             irq_routines' = [irq_routines EXCEPT ![line] =
                IF line = TIMER THEN "timer_handler" ELSE "keyboard_handler"]
        /\ pc' \in Places /\ pc # "pause" /\ pc' # "pause"
        /\ UNCHANGED <<pause_flag, ticks_left, iflag, current, stage,
                       irr, isr, buffer, typed, dismissed>>
    BY <1>2, LineFacts DEF TimerInstall, KeyboardInstall, timer_install, install_irq_handler,
                           Goto, Places, cpu, hardware
  <2>1. TypeOK'
    BY <2>0, LineFacts DEF TypeOK
  <2>2. OwnLines'
    BY <2>0, LineFacts DEF TypeOK, OwnLines
  <2>3. HandlerRuns' /\ InService' /\ FlagOnlyInPause'
    BY <2>0 DEF HandlerRuns, InService, FlagOnlyInPause, MasterLine
  <2>4. ByteHasInterrupt' /\ OneInterrupt'
    BY <2>0 DEF ByteHasInterrupt, OneInterrupt
  <2> QED
    BY <2>1, <2>2, <2>3, <2>4
<1>3. CASE FlashScreen \/ WaitOver \/ Pause \/ PauseOver \/ KmainIdles
  <2>0. /\ pc' \in Places
        /\ pause_flag' \in {0, 1} /\ ticks_left' \in 0..TICKS
        /\ pause_flag' = 1 => pc' = "pause"
        /\ UNCHANGED <<irq_routines, iflag, current, stage, irr, isr, buffer, typed, dismissed>>
    BY <1>3, InterruptsAssumption
       DEF FlashScreen, WaitOver, Pause, PauseOver, Paused, KmainIdles, Goto, Places, cpu, hardware,
           TypeOK, FlagOnlyInPause
  <2>1. TypeOK'
    BY <2>0 DEF TypeOK
  <2>2. HandlerRuns' /\ OwnLines' /\ InService' /\ FlagOnlyInPause'
    BY <2>0 DEF HandlerRuns, OwnLines, InService, FlagOnlyInPause, MasterLine
  <2>3. ByteHasInterrupt' /\ OneInterrupt'
    BY <2>0 DEF ByteHasInterrupt, OneInterrupt
  <2> QED
    BY <2>1, <2>2, <2>3
<1> QED
  BY <1>1, <1>2, <1>3 DEF Main

\* The invariant is inductive.
LEMMA NextIInv == IInv /\ [Next]_vars => IInv'
<1> SUFFICES ASSUME IInv, [Next]_vars PROVE IInv'
  OBVIOUS
<1>1. CASE Main \/ Load \/ Spurious \/ Routine \/ Return
  BY <1>1, MainStep, LoadStep, SpuriousStep, RoutineStep, ReturnStep
<1>2. CASE Tick \/ \E i \in OtherIrqs : Request(i)
  <2>1. OtherIrqs \subseteq Lines \ {KEYBOARD} /\ TIMER \in Lines \ {KEYBOARD}
    BY InterruptsAssumption DEF Lines, KEYBOARD, TIMER, Slave
  <2> QED
    BY <1>2, <2>1, RequestStep DEF Tick, Request
<1>3. CASE \E b \in Bytes : Type(b)
  BY <1>3, TypeStep
<1>4. CASE \E i \in Lines : Deliver(i)
  BY <1>4, DeliverStep
<1>5. CASE UNCHANGED vars
  BY <1>5 DEF vars, kernel, cpu, hardware, IInv, TypeOK, HandlerRuns, OwnLines, InService,
              ByteHasInterrupt, OneInterrupt, FlagOnlyInPause, MasterLine
<1> QED
  BY <1>1, <1>2, <1>3, <1>4, <1>5 DEF Next

-----------------------------------------------------------------------------
(* The theorems.                                                           *)

\* The invariant holds in every reachable state.
THEOREM Invariant == Spec => []IInv
BY InitIInv, NextIInv, PTL DEF Spec

\* Every variable of the CPU, the controllers and the kernel keeps its type.
THEOREM Typed == Spec => []TypeOK
<1>1. IInv => TypeOK
  BY DEF IInv
<1> QED
  BY <1>1, Invariant, PTL

\* No line stays blocked once irq_handler has returned, whatever order the
\* lines' and the spurious interrupts come in (idt.c:279-283).
THEOREM Served == Spec => []AllServed
<1>1. IInv => AllServed
  BY DEF IInv, InService, AllServed
<1> QED
  BY <1>1, Invariant, PTL

\* A byte at port 0x60 always has exactly its one interrupt to come, as long as
\* none was consumed without reading it (keyboard.c:100-110).
THEOREM BytesAnnounced == Spec => [](ByteHasInterrupt /\ OneInterrupt)
<1>1. IInv => ByteHasInterrupt /\ OneInterrupt
  BY DEF IInv
<1> QED
  BY <1>1, Invariant, PTL

\* pause_flag is 1 in pause() alone (pause.c:10-20, keyboard.c:182-185).
THEOREM FlagInPauseAlone == Spec => []FlagOnlyInPause
<1>1. IInv => FlagOnlyInPause
  BY DEF IInv
<1> QED
  BY <1>1, Invariant, PTL

-----------------------------------------------------------------------------
(* The modifiers of keyboard_handler, for every set of keys that have a    *)
(* character.  The two properties are each inductive as they stand.        *)

\* Every key but the letters works on a bit, and each modifier's bit is
\* worked by its own keys alone.
LEMMA KeysOfModifiers ==
  /\ Keys \ Letters = Modifiers \union Locks
  /\ KeysOf(LSHIFT) = {"left shift"}
  /\ KeysOf(RSHIFT) = {"right shift"}
  /\ KeysOf(CTRL) = {"left ctrl", "right ctrl"}
  /\ KeysOf(ALT) = {"left alt", "right alt"}
<1>1. Keys \ Letters = Modifiers \union Locks
  BY LettersAssumption DEF Keys
<1>2. \A k \in Modifiers \union Locks :
        Bit[k] = CASE k = "left shift"  -> LSHIFT
                   [] k = "right shift" -> RSHIFT
                   [] k \in {"left ctrl", "right ctrl"} -> CTRL
                   [] k \in {"left alt", "right alt"}   -> ALT
                   [] OTHER -> k
  BY <1>1 DEF Bit
<1> QED
  BY <1>1, <1>2
     DEF KeysOf, Modifiers, Locks, LSHIFT, RSHIFT, CTRL, ALT, CAPS, NUM, SCROLL

\* What a stroke leaves of the modifiers' bits: it sets the one the key works
\* on, and touches no other.
LEMMA StrokeSets ==
  ASSUME NEW k \in Keys, NEW m \in {LSHIFT, RSHIFT, CTRL, ALT}
  PROVE  m \in AfterStroke(flags, k) <=> m \in flags \/ k \in KeysOf(m)
<1>1. CASE k \in Letters
  <2>1. k \notin Locks
    BY <1>1, LettersAssumption
  <2> QED
    BY <1>1, <2>1 DEF AfterStroke, KeysOf
<1>2. CASE k \in Locks
  BY <1>2, KeysOfModifiers, LettersAssumption
     DEF AfterStroke, Locks, LSHIFT, RSHIFT, CTRL, ALT, CAPS, NUM, SCROLL
<1>3. CASE k \in Modifiers
  <2>1. k \notin Letters /\ k \notin Locks
    BY <1>3, LettersAssumption DEF Modifiers, Locks, CAPS, NUM, SCROLL
  <2>2. AfterStroke(flags, k) = flags \union {Bit[k]}
    BY <2>1 DEF AfterStroke
  <2> QED
    BY <2>1, <2>2 DEF KeysOf
<1> QED
  BY <1>1, <1>2, <1>3 DEF Keys

\* What a release clears: the bit the key works on, and of the other modifiers'
\* bits at most ALT.
LEMMA ReleaseClears ==
  ASSUME NEW k \in Keys \ (Letters \union Locks), NEW m \in {LSHIFT, RSHIFT, CTRL, ALT}
  PROVE  /\ k \in KeysOf(m) => m \in Cleared(k)
         /\ m \in Cleared(k) => k \in KeysOf(m) \/ m = ALT
BY KeysOfModifiers DEF Cleared, KeysOf, LSHIFT, RSHIFT, CTRL, ALT

\* No order of strokes, repeats and releases leaves a modifier on when none of
\* its keys is down (keyboard.c:114-164).
THEOREM NoPhantoms == KeyboardSpec => []NoPhantomModifier
<1>1. KeyboardInit => NoPhantomModifier
  BY DEF KeyboardInit, NoPhantomModifier
<1>2. NoPhantomModifier /\ [KeyboardNext]_keyboard => NoPhantomModifier'
  <2> SUFFICES ASSUME NoPhantomModifier, [KeyboardNext]_keyboard,
                      NEW m \in {LSHIFT, RSHIFT, CTRL, ALT}, m \in flags'
               PROVE  (KeysOf(m) \intersect down # {})'
    BY DEF NoPhantomModifier
  <2>0. m \in flags => KeysOf(m) \intersect down # {}
    BY DEF NoPhantomModifier
  <2>1. ASSUME NEW k \in Keys, Stroke(k)
        PROVE  KeysOf(m) \intersect down' # {}
    BY <2>0, <2>1, StrokeSets DEF Stroke
  <2>2. ASSUME NEW k \in Keys, Release(k)
        PROVE  KeysOf(m) \intersect down' # {}
    <3>1. m \in flags
      BY <2>2 DEF Release
    <3>2. k \notin KeysOf(m)
      <4>1. CASE k \in Letters
        BY <4>1 DEF KeysOf
      <4>2. CASE k \in Locks
        BY <4>2, KeysOfModifiers DEF Locks, CAPS, NUM, SCROLL
      <4>3. CASE k \notin Letters \union Locks
        BY <2>2, <4>3, ReleaseClears DEF Release
      <4> QED
        BY <4>1, <4>2, <4>3
    <3> QED
      BY <2>0, <2>2, <3>1, <3>2 DEF Release
  <2>3. CASE WaitForKey \/ UNCHANGED keyboard
    BY <2>0, <2>3 DEF WaitForKey, keyboard, KeysOf
  <2> QED
    BY <2>1, <2>2, <2>3 DEF KeyboardNext, KeysOf
<1> QED
  BY <1>1, <1>2, PTL DEF KeyboardSpec

\* A shift key that is down has its bit set, whatever other keys come up
\* meanwhile (keyboard.c:114-164).
THEOREM ShiftsFollow == KeyboardSpec => []ShiftFollowsKeys
<1>1. KeyboardInit => ShiftFollowsKeys
  BY DEF KeyboardInit, ShiftFollowsKeys
<1>2. ShiftFollowsKeys /\ [KeyboardNext]_keyboard => ShiftFollowsKeys'
  <2> SUFFICES ASSUME ShiftFollowsKeys, [KeyboardNext]_keyboard,
                      NEW m \in {LSHIFT, RSHIFT}, KeysOf(m) \intersect down' # {}
               PROVE  m \in flags'
    BY DEF ShiftFollowsKeys, KeysOf
  <2>0. KeysOf(m) \intersect down # {} => m \in flags
    BY DEF ShiftFollowsKeys
  <2>1. ASSUME NEW k \in Keys, Stroke(k)
        PROVE  m \in flags'
    BY <2>0, <2>1, StrokeSets DEF Stroke
  <2>2. ASSUME NEW k \in Keys, Release(k)
        PROVE  m \in flags'
    <3>1. m \in flags
      BY <2>0, <2>2 DEF Release
    <3>2. k \notin KeysOf(m)
      BY <2>2, KeysOfModifiers DEF Release, LSHIFT, RSHIFT
    <3>3. k \notin Letters \union Locks => m \notin Cleared(k)
      BY <3>2, ReleaseClears DEF LSHIFT, RSHIFT, ALT
    <3> QED
      BY <2>2, <3>1, <3>3 DEF Release
  <2>3. CASE WaitForKey \/ UNCHANGED keyboard
    BY <2>0, <2>3 DEF WaitForKey, keyboard
  <2> QED
    BY <2>1, <2>2, <2>3 DEF KeyboardNext
<1> QED
  BY <1>1, <1>2, PTL DEF KeyboardSpec
=============================================================================
