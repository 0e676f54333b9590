------------------------------- MODULE Frames -------------------------------
(***************************************************************************)
(* The stack of an interrupt: what the CPU pushes, what the stubs of isr.s *)
(* and irq.s push, the struct regs that the C handlers read through it,    *)
(* and the way back.  Before that gdt_init and idt_init fill the tables    *)
(* that lead the CPU to the stubs.  An exception can strike the main flow  *)
(* or the handler of an IRQ, and never returns.                            *)
(*                                                                         *)
(* A word on the stack is a pair of what it is and its value; words whose  *)
(* value nobody looks at have the value 0.  The stack grows to the left,   *)
(* so that its first word is the one at %esp.                              *)
(***************************************************************************)
EXTENDS Descriptors

CONSTANTS
  ErrorCodes,  \* what the CPU can push with an exception
  StubAt       \* where the linker puts isr0..isr31 and irq0..irq15

Exceptions == 0..31
Irqs == 32..47
Vectors == Exceptions \union Irqs

ASSUME FramesAssumption ==
  /\ ErrorCodes \subseteq Nat /\ 0 \in ErrorCodes
  /\ StubAt \in [Vectors -> Address]
  /\ \A v, w \in Vectors : StubAt[v] = StubAt[w] => v = w

\* The exceptions for which the CPU pushes an error code; the vectors that
\* newer CPUs add for features the kernel does not turn on are left out.
CpuPushesCode == {8, 10, 11, 12, 13, 14, 17, 30}

\* The fields of struct regs, from its address up; useresp and ss are only
\* there when the privilege level changes, which it never does.
segments == <<"gs", "fs", "es", "ds">>
general  == <<"edi", "esi", "ebp", "esp", "ebx", "edx", "ecx", "eax">>
regs == segments \o general \o <<"int_no", "err_code", "eip", "cs", "eflags">>

VARIABLES
  gdt, idt,
  cs, ds,
  flow,   \* what the CPU executes: a boot step, "main", "stub" or a handler
  stub,   \* the stub it is in
  vector, \* the vector of the innermost interrupt, or -1
  code,   \* the error code the CPU gave it
  iflag,  \* EFLAGS.IF
  stack   \* the words pushed since main was interrupted

tables == <<gdt, idt>>
vars == <<tables, cs, ds, flow, stub, vector, code, iflag, stack>>

Zero == <<0, 0, 0, 0, 0, 0, 0, 0>>

\* The boot loader's segments, and whatever its selectors are.
Init ==
  /\ gdt = [i \in 0..4 |-> Zero] /\ idt = [v \in 0..255 |-> Zero]
  /\ cs = -1 /\ ds = -1
  /\ flow = "gdt_init" /\ stub = -1
  /\ vector = -1 /\ code = 0 /\ iflag = 0 /\ stack = <<>>

Word(name, value) == <<name, value>>
Blank(names) == [i \in DOMAIN names |-> Word(names[i], 0)]

-----------------------------------------------------------------------------
\* The segment of a selector, which has its index above three bits.
Selected(table, selector) == Segment(table[selector \div 8])

\* The five segments, and gdt_load, which loads the selectors of the kernel's.
GDT ==
  [i \in 0..4 |->
     CASE i = 0 -> create_gdt_descriptor(<<0, 0, 0, 0>>, 0, 0)
       [] i \in {1, 3} ->
            create_gdt_descriptor(<<0, 0, 0, 0>>, LIMIT,
                                  GDT_PL(GDT_CODE_EXRD, IF i = 1 THEN 0 ELSE 3))
       [] i \in {2, 4} ->
            create_gdt_descriptor(<<0, 0, 0, 0>>, LIMIT,
                                  GDT_PL(GDT_DATA_RDWR, IF i = 2 THEN 0 ELSE 3))]

gdt_init ==
  /\ flow = "gdt_init"
  /\ gdt' = GDT
  /\ cs' = 8 /\ ds' = 16
  /\ flow' = "idt_init"
  /\ UNCHANGED <<idt, stub, vector, code, iflag, stack>>

\* intel_isr_install and irq_install: a gate for each stub.  The code has a line
\* for each vector; they all are the one written here.  Loading the tables'
\* registers is left out.
idt_init ==
  /\ flow = "idt_init"
  /\ idt' = [v \in 0..255 |-> IF v \in Vectors
                              THEN create_idt_descriptor(StubAt[v], 8, 142)
                              ELSE Zero]
  /\ iflag' = 1
  /\ flow' = "main"
  /\ UNCHANGED <<gdt, cs, ds, stub, vector, code, stack>>

\* The gate of v is one that clears IF, of the kernel's code, and what lies at its
\* offset is a stub: otherwise the CPU cannot serve the interrupt.
Leads(v) ==
  LET gate == Gate(idt[v])
  IN /\ gate.present = 1 /\ gate.type = InterruptGate32
     /\ Selected(gdt, gate.selector) = FlatCode
     /\ \E s \in Vectors : StubAt[s] = gate.offset

\* The CPU goes through the gate of v and pushes where it was: the vector stands
\* for the handler's eip, -1 for main's.
Interrupt(v, c) ==
  /\ flow \in {"main", "irq_handler"}
  /\ v \in Irqs => iflag = 1
  /\ c # 0 => v \in CpuPushesCode
  /\ Leads(v)
  /\ stack' = (IF v \in CpuPushesCode THEN <<Word("err_code", c)>> ELSE <<>>)
                \o <<Word("eip", vector), Word("cs", cs), Word("eflags", iflag)>> \o stack
  /\ cs' = Gate(idt[v]).selector
  /\ stub' = CHOOSE s \in Vectors : StubAt[s] = Gate(idt[v]).offset
  /\ vector' = v
  /\ code' = c
  /\ iflag' = 0
  /\ flow' = "stub"
  /\ UNCHANGED <<tables, ds>>

\* The stubs push a dummy error code where the CPU pushed none, and the vector.
\* The 48 stubs are written out in the code; the set has those that push no code.
StubAlwaysPushes(v) == <<Word("int_no", v), Word("err_code", 0)>>
Pushed(v) ==
  <<Word("int_no", v)>> \o
  (IF v \in {8, 10, 11, 12, 13, 14, 17, 30} THEN <<>> ELSE <<Word("err_code", 0)>>)

Stub ==
  /\ flow = "stub"
  /\ stack' = Pushed(stub) \o stack
  /\ flow' = "common"
  /\ UNCHANGED <<tables, cs, ds, stub, vector, code, iflag>>

\* isr_common_stub and irq_common_stub: pusha, the segment registers, which then
\* get the kernel's, and the address of all that as the handler's argument.
Saved == [i \in DOMAIN segments |-> Word(segments[i], ds)] \o Blank(general)

Common ==
  /\ flow = "common"
  /\ stack' = <<Word("r", 0)>> \o Saved \o stack
  /\ ds' = 16
  /\ flow' = IF stub \in Exceptions THEN "isr_handler" ELSE "irq_handler"
  /\ UNCHANGED <<tables, cs, stub, vector, code, iflag>>

\* The return of irq_handler: the registers are popped, addl $8 drops the two
\* words of the stub, iret pops the rest.
DropsOneWord == 1
CleansUp == 2

IrqReturn ==
  LET frame == SubSeq(stack, 2 + Len(segments) + Len(general) + CleansUp, Len(stack))
  IN /\ flow = "irq_handler"
     /\ ds' = stack[2][2]
     /\ vector' = frame[1][2]
     /\ cs' = frame[2][2]
     /\ iflag' = frame[3][2]
     /\ stack' = SubSeq(frame, 4, Len(frame))
     /\ flow' = "main"
     /\ stub' = -1
     /\ code' = 0
     /\ UNCHANGED tables

\* isr_handler prints what it reads and loops for ever.
IsrHalts == flow = "isr_handler" /\ UNCHANGED vars

Next ==
  \/ gdt_init \/ idt_init
  \/ \E v \in Vectors, c \in ErrorCodes : Interrupt(v, c)
  \/ Stub \/ Common \/ IrqReturn \/ IsrHalts

Spec == Init /\ [][Next]_vars

-----------------------------------------------------------------------------
\* From gdt_init on the CPU runs in the flat segments of ring 0, and wherever it
\* can be interrupted the gates of all vectors lead to a stub.
GatesLead ==
  /\ flow # "gdt_init" => Selected(gdt, cs) = FlatCode /\ Selected(gdt, ds) = FlatData
  /\ flow \in {"main", "irq_handler"} => \A v \in Vectors : Leads(v)

\* A handler finds in every field of struct regs the word of that name, and in
\* int_no and err_code, which choose its routine and its controller, the ones of
\* the interrupt: the order of the pushes, the dummy error codes and the struct
\* agree for all 48 vectors.
HandlerSeesInterrupt ==
  flow \in {"irq_handler", "isr_handler"} =>
    \A i \in DOMAIN regs :
      /\ stack[1 + i][1] = regs[i]
      /\ regs[i] = "int_no" => stack[1 + i][2] = vector
      /\ regs[i] = "err_code" => stack[1 + i][2] = code

\* Back in main the stack and the segment registers are as they were, and
\* interrupts are on again.
ReturnRestores ==
  flow = "main" => stack = <<>> /\ vector = -1 /\ iflag = 1 /\ cs = 8 /\ ds = 16
=============================================================================
