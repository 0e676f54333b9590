----------------------------- MODULE Interrupts -----------------------------
(***************************************************************************)
(* Interrupts while the kernel boots: idt_init, irq_handler and the two    *)
(* handlers that are installed, timer.c and keyboard.c, against the main   *)
(* flow, which waits for them in timer_wait and in pause.                  *)
(*                                                                         *)
(* The 8259 pair and the keyboard controller are modelled from what idt.c  *)
(* programs them to do: requests are edges, an interrupt in service blocks *)
(* the lines of its rank and below until an end-of-interrupt command, and  *)
(* the controller raises IRQ 1 when it loads a byte, which it does only    *)
(* once the byte before has been read.                                     *)
(***************************************************************************)
EXTENDS Integers, Sequences, FiniteSetsExt

CONSTANTS
  OtherIrqs,  \* the lines, beside the timer's and the keyboard's, that get requests
  TICKS,      \* the ticks flash_screen waits for: 3
  QUEUE       \* bound on the bytes that wait behind the controller's buffer

TIMER    == 0
KEYBOARD == 1
CASCADE  == 2
SPURIOUS == 7

Lines == {TIMER, KEYBOARD} \union OtherIrqs
Slave == 8..15

ASSUME InterruptsAssumption ==
  /\ OtherIrqs \subseteq (3..6) \union Slave
  /\ TICKS \in Nat
  /\ QUEUE \in Nat \ {0}

NONE  == -1
EMPTY == "empty"
Bytes == {"press", "release"}

VARIABLES
  pc,            \* where the main flow is
  irq_routines,  \* the handler of each line
  pause_flag,
  ticks_left,    \* end - timer_ticks of the timer_wait in progress
  iflag,         \* EFLAGS.IF: interrupts are taken
  current,       \* the line whose handler runs, or NONE
  stage,         \* how far irq_handler is: its routine, then its EOI
  irr,           \* lines with a request pending
  isr,           \* lines in service in the controllers
  buffer,        \* the byte at port 0x60, or EMPTY
  typed,         \* bytes the keyboard holds back while buffer is full
  dismissed      \* history: a keyboard interrupt was consumed, its byte not read

kernel   == <<pc, irq_routines, pause_flag, ticks_left>>
cpu      == <<iflag, current, stage>>
hardware == <<irr, isr, buffer, typed>>
vars == <<kernel, cpu, hardware, dismissed>>

Init ==
  /\ pc = "boot"
  /\ irq_routines = [i \in 0..15 |-> "null"]
  /\ pause_flag = 0
  /\ ticks_left = 0
  /\ iflag = FALSE /\ current = NONE /\ stage = "none"
  /\ irr = {} /\ isr = {}
  /\ buffer = EMPTY /\ typed = <<>>
  /\ dismissed = FALSE

-----------------------------------------------------------------------------
(* The devices.                                                            *)

Tick == irr' = irr \union {TIMER} /\ UNCHANGED <<kernel, cpu, isr, buffer, typed, dismissed>>

Request(i) == irr' = irr \union {i} /\ UNCHANGED <<kernel, cpu, isr, buffer, typed, dismissed>>

Type(b) ==
  /\ Len(typed) < QUEUE
  /\ typed' = Append(typed, b)
  /\ UNCHANGED <<kernel, cpu, irr, isr, buffer, dismissed>>

Load ==
  /\ buffer = EMPTY /\ typed # <<>>
  /\ buffer' = Head(typed)
  /\ typed' = Tail(typed)
  /\ irr' = irr \union {KEYBOARD}
  /\ UNCHANGED <<kernel, cpu, isr, dismissed>>

-----------------------------------------------------------------------------
(* The interrupt controllers.                                              *)

\* The line of the master that a request comes in by.
MasterLine(i) == IF i \in Slave THEN CASCADE ELSE i

Blocked(i) ==
  \/ \E j \in isr \ Slave : j <= MasterLine(i)
  \/ i \in Slave /\ \E j \in isr \intersect Slave : j <= i

\* i goes before j: by the master's lines, then by the slave's.
Before(i, j) ==
  \/ MasterLine(i) < MasterLine(j)
  \/ MasterLine(i) = MasterLine(j) /\ i <= j

Ready(i) ==
  /\ i \in irr /\ ~Blocked(i)
  /\ \A j \in irr : Blocked(j) \/ Before(i, j)

\* A non-specific end of interrupt: the highest line in service is done.
Eoi(lines) == IF lines = {} THEN {} ELSE lines \ {Min(lines)}

-----------------------------------------------------------------------------
(* An interrupt: the gate clears IF, irq_common_stub calls irq_handler.    *)

Take(i) ==
  /\ iflag /\ current = NONE
  /\ iflag' = FALSE
  /\ current' = i
  /\ stage' = "routine"

Deliver(i) ==
  /\ Ready(i)
  /\ Take(i)
  /\ irr' = irr \ {i}
  /\ isr' = isr \union {i, MasterLine(i)}
  /\ UNCHANGED <<kernel, buffer, typed, dismissed>>

\* A request that is gone when the CPU acknowledges it arrives as line 7.
Spurious == Take(SPURIOUS) /\ UNCHANGED <<kernel, hardware, dismissed>>

\* timer_ticks++ brings it nearer to end, and leaves it beyond.
PastEnd(n) == n - 1
Nearer(n) == IF n > 0 THEN n - 1 ELSE 0

timer_handler ==
  /\ ticks_left' = Nearer(ticks_left)
  /\ UNCHANGED <<pause_flag, hardware, dismissed>>

unpause(flag) == IF flag = 1 THEN 0 ELSE flag

\* keyboard_handler empties port 0x60.  A press ends a pause, or is printed.
PausedKeepsByte == IF pause_flag = 1 THEN buffer ELSE EMPTY
ReadByte == EMPTY

keyboard_handler ==
  /\ buffer' = ReadByte
  /\ pause_flag' = IF buffer = "press" /\ pause_flag = 1 THEN unpause(pause_flag) ELSE pause_flag
  /\ UNCHANGED <<ticks_left, irr, isr, typed, dismissed>>

NoRoutine ==
  /\ dismissed' = (dismissed \/ current = KEYBOARD)
  /\ UNCHANGED <<pause_flag, ticks_left, hardware>>

\* if(handler) handler(r)
Routine ==
  /\ stage = "routine"
  /\ CASE irq_routines[current] = "timer_handler"    -> timer_handler
       [] irq_routines[current] = "keyboard_handler" -> keyboard_handler
       [] irq_routines[current] = "null"             -> NoRoutine
  /\ stage' = "eoi"
  /\ UNCHANGED <<pc, irq_routines, iflag, current>>

\* The commands that end the interrupt, to the slave for its own lines and to
\* the master for all.
EoiEither(served) ==
  IF current \in Slave
  THEN Eoi(served \intersect Slave) \union (served \ Slave)
  ELSE (served \intersect Slave) \union Eoi(served \ Slave)
EndOfInterrupt(served) ==
  (IF current \in Slave THEN Eoi(served \intersect Slave) ELSE served \intersect Slave)
    \union Eoi(served \ Slave)

Return ==
  /\ stage = "eoi"
  /\ isr' = EndOfInterrupt(isr)
  /\ iflag' = TRUE
  /\ current' = NONE
  /\ stage' = "none"
  /\ UNCHANGED <<kernel, irr, buffer, typed, dismissed>>

-----------------------------------------------------------------------------
(* The main flow runs when no handler does.                                *)

Goto(from, to) == current = NONE /\ pc = from /\ pc' = to

\* irq_remap starts both controllers anew, which forgets their requests, and
\* idt_init ends with sti.  No interrupt is taken between the two.
idt_init ==
  /\ Goto("boot", "timer_install")
  /\ irr' = {} /\ isr' = {}
  /\ iflag' = TRUE
  /\ dismissed' = (dismissed \/ buffer # EMPTY)
  /\ UNCHANGED <<irq_routines, pause_flag, ticks_left, current, stage, buffer, typed>>

install_irq_handler(line, handler) == irq_routines' = [irq_routines EXCEPT ![line] = handler]

TimerUninstalled == UNCHANGED irq_routines
timer_install == install_irq_handler(TIMER, "timer_handler")

TimerInstall ==
  /\ Goto("timer_install", "keyboard_install")
  /\ timer_install
  /\ UNCHANGED <<pause_flag, ticks_left, cpu, hardware, dismissed>>

KeyboardInstall ==
  /\ Goto("keyboard_install", "flash_screen")
  /\ install_irq_handler(KEYBOARD, "keyboard_handler")
  /\ UNCHANGED <<pause_flag, ticks_left, cpu, hardware, dismissed>>

\* timer_wait: end = timer_ticks + ticks, then while(timer_ticks < end).
FlashScreen ==
  /\ Goto("flash_screen", "timer_wait")
  /\ ticks_left' = TICKS
  /\ UNCHANGED <<irq_routines, pause_flag, cpu, hardware, dismissed>>

WaitOver ==
  /\ Goto("timer_wait", "run")
  /\ ticks_left = 0
  /\ UNCHANGED <<irq_routines, pause_flag, ticks_left, cpu, hardware, dismissed>>

\* Faulty variant: the test of the loop is the wrong way round.
PausedAtZero == pause_flag = 0
Paused == pause_flag = 1

\* pause: the flag is set, then while(pause_flag == 1).
Pause ==
  /\ Goto("run", "pause")
  /\ pause_flag' = 1
  /\ UNCHANGED <<irq_routines, ticks_left, cpu, hardware, dismissed>>

PauseOver ==
  /\ Goto("pause", "run")
  /\ ~Paused
  /\ UNCHANGED <<irq_routines, pause_flag, ticks_left, cpu, hardware, dismissed>>

\* kmain ends in for(;;).
KmainIdles == Goto("run", "idle") /\ UNCHANGED <<irq_routines, pause_flag, ticks_left, cpu, hardware, dismissed>>

Main ==
  \/ idt_init \/ TimerInstall \/ KeyboardInstall
  \/ FlashScreen \/ WaitOver \/ Pause \/ PauseOver \/ KmainIdles

Next ==
  \/ Main
  \/ Tick \/ Load
  \/ \E i \in OtherIrqs : Request(i)
  \/ \E b \in Bytes : Type(b)
  \/ \E i \in Lines : Deliver(i)
  \/ Spurious
  \/ Routine \/ Return

Spec == Init /\ [][Next]_vars

\* The devices keep working and the user keeps pressing keys.  Handlers are
\* much shorter than the time between two requests of a device, so the CPU
\* comes back, again and again, to where no handler runs and only the keyboard
\* may be waiting; there the main flow runs on, and the keyboard is served.
FairSpec ==
  /\ Spec
  /\ WF_vars(Tick) /\ WF_vars(Load) /\ SF_vars(Type("press"))
  /\ WF_vars(Routine) /\ WF_vars(Return)
  /\ \A i \in Lines : SF_vars(Deliver(i))
  /\ SF_vars(Main)
  /\ []<>(current = NONE /\ irr \subseteq {KEYBOARD})

-----------------------------------------------------------------------------
(* Properties.                                                             *)

Places == {"boot", "timer_install", "keyboard_install", "flash_screen",
           "timer_wait", "run", "pause", "idle"}

TypeOK ==
  /\ pc \in Places
  /\ irq_routines \in [0..15 -> {"null", "timer_handler", "keyboard_handler"}]
  /\ pause_flag \in {0, 1}
  /\ ticks_left \in 0..TICKS
  /\ iflag \in BOOLEAN
  /\ current \in Lines \union {NONE, SPURIOUS}
  /\ stage \in {"none", "routine", "eoi"}
  /\ irr \subseteq Lines
  /\ isr \subseteq Lines \union {CASCADE}
  /\ buffer \in Bytes \union {EMPTY}
  /\ typed \in Seq(Bytes) /\ Len(typed) <= QUEUE
  /\ dismissed \in BOOLEAN

\* Whenever the main flow runs, both controllers consider every interrupt
\* served: irq_handler's commands (idt.c:279-283) leave no line blocked, even
\* after an interrupt of the slave or a spurious one.
AllServed == current = NONE => isr = {}

\* As long as no keyboard interrupt was consumed without reading the byte, a
\* byte in the controller's buffer has its interrupt still to come, and
\* keyboard_handler never reads an empty buffer.
ByteHasInterrupt ==
  ~dismissed => (buffer # EMPTY <=> \/ KEYBOARD \in irr
                                    \/ current = KEYBOARD /\ stage = "routine")

\* pause_flag is 1 only while the kernel waits in pause(): no late key leaves
\* it set, so a key typed outside pause() is printed and not swallowed.
FlagOnlyInPause == pause_flag = 1 => pc = "pause"

\* The three ticks of flash_screen pass, whatever other interrupts arrive.
FlashEnds == pc = "flash_screen" ~> pc = "run"

\* A pause ends when the user presses keys, unless the keyboard was lost.
PauseEndsOrKeyboardLost == pc = "pause" ~> (pc # "pause" \/ dismissed)

\* A pause ends when the user presses keys: keyboard.c:165-167 promises an
\* interrupt for every press, and repeated ones for a key held down.  It does not
\* where irq_remap forgot the request of a byte that the controller had loaded:
\* nothing reads the byte, so no later key is loaded.
PauseEnds == pc = "pause" ~> pc # "pause"
=============================================================================
