---------------------------- MODULE Frames_proof ----------------------------
(***************************************************************************)
(* Proofs about Descriptors and Frames.                                    *)
(***************************************************************************)
EXTENDS Frames, SequenceTheorems, TLAPS

-----------------------------------------------------------------------------
(* What the CPU reads is what the code wrote.                              *)

\* create_idt_descriptor (idt.c:81-89) puts every address, selector and flags
\* where the CPU looks for them.
THEOREM GateRoundTrip ==
  ASSUME NEW base \in Address, NEW selector \in Nat, NEW flags \in Byte
  PROVE  LET gate == Gate(create_idt_descriptor(base, selector, flags))
         IN /\ gate.offset = base
            /\ gate.selector = selector
            /\ gate.present = flags \div 128
            /\ gate.type = flags % 32
<1>1. base = <<base[1], base[2], base[3], base[4]>>
  BY SMT DEF Address, Byte
<1>2. (selector % 256) + 256 * (selector \div 256) = selector
  BY SMT
<1> QED
  BY SMT, <1>1, <1>2 DEF Gate, create_idt_descriptor

\* The parts of a segment's limit and flags.
LEMMA LimitParts ==
  ASSUME NEW limit \in Nat, limit <= LIMIT
  PROVE  /\ (limit \div 65536) % 16 \in 0..15
         /\ (limit % 256) + 256 * ((limit \div 256) % 256) + 65536 * ((limit \div 65536) % 16)
              = limit
  BY SMT DEF LIMIT

\* Byte 6 of a segment is the flags' upper nibble above the limit's.
LEMMA HighNibble ==
  ASSUME NEW high \in 0..15, NEW top \in 0..15
  PROVE  /\ (high * 16 + top) % 16 = top
         /\ (high * 16 + top) \div 128 = high \div 8
         /\ ((high * 16 + top) \div 64) % 2 = (high \div 4) % 2
  BY SMT

\* Where the bits of the flags end up.
LEMMA FlagParts ==
  ASSUME NEW flag \in Nat, flag <= 65535
  PROVE  /\ flag \div 4096 \in 0..15
         /\ (flag \div 4096) \div 8 = flag \div 32768
         /\ ((flag \div 4096) \div 4) % 2 = (flag \div 16384) % 2
         /\ (flag % 256) % 32 = flag % 32
         /\ ((flag % 256) \div 32) % 4 = (flag \div 32) % 4
         /\ (flag % 256) \div 128 = (flag \div 128) % 2
  BY SMT

\* create_gdt_descriptor (gdt.c:66-83) does so for every base, limit and flags.
THEOREM SegmentRoundTrip ==
  ASSUME NEW base \in Address,
         NEW limit \in Nat, limit <= LIMIT,
         NEW flag \in Nat, flag <= 65535
  PROVE  LET segment == Segment(create_gdt_descriptor(base, limit, flag))
         IN /\ segment.base = base
            /\ segment.limit = limit
            /\ segment.gran = flag \div 32768
            /\ segment.size = (flag \div 16384) % 2
            /\ segment.type = flag % 32
            /\ segment.level = (flag \div 32) % 4
            /\ segment.present = (flag \div 128) % 2
<1> DEFINE d == create_gdt_descriptor(base, limit, flag)
           high == flag \div 4096
           top == (limit \div 65536) % 16
<1>1. base = <<base[1], base[2], base[3], base[4]>>
  BY SMT DEF Address, Byte
<1>2. high \in 0..15 /\ top \in 0..15
  BY LimitParts, FlagParts
<1>3. /\ d[1] = limit % 256 /\ d[2] = (limit \div 256) % 256
      /\ d[3] = base[1] /\ d[4] = base[2] /\ d[5] = base[3] /\ d[8] = base[4]
      /\ d[6] = flag % 256 /\ d[7] = high * 16 + top
  BY SMT DEF create_gdt_descriptor
<1> HIDE DEF d
<1>4. d[7] % 16 = top /\ d[7] \div 128 = high \div 8 /\ (d[7] \div 64) % 2 = (high \div 4) % 2
  <2> HIDE DEF high, top
  <2> QED
    BY <1>2, <1>3, HighNibble
<1>5. Segment(d).base = base
  BY SMT, <1>1, <1>3 DEF Segment
<1>6. Segment(d).limit = limit
  BY SMT, <1>3, <1>4, LimitParts DEF Segment
<1>7. Segment(d).gran = flag \div 32768 /\ Segment(d).size = (flag \div 16384) % 2
  BY SMT, <1>4, FlagParts DEF Segment
<1>8. /\ Segment(d).type = flag % 32
      /\ Segment(d).level = (flag \div 32) % 4
      /\ Segment(d).present = (flag \div 128) % 2
  BY SMT, <1>3, FlagParts DEF Segment
<1> QED
  BY <1>5, <1>6, <1>7, <1>8 DEF d

-----------------------------------------------------------------------------
(* The tables lead to the stubs.                                           *)

\* The gate of each vector is what idt_init wrote.
IDT == [v \in 0..255 |-> IF v \in Vectors THEN create_idt_descriptor(StubAt[v], 8, 142) ELSE Zero]

\* Selectors 8 and 16 name the flat segments of ring 0.
LEMMA KernelSegments == Selected(GDT, 8) = FlatCode /\ Selected(GDT, 16) = FlatData
<1> DEFINE base == <<0, 0, 0, 0>>
           codeFlags == GDT_PL(GDT_CODE_EXRD, 0)
           dataFlags == GDT_PL(GDT_DATA_RDWR, 0)
<1>1. codeFlags = 49306 /\ dataFlags = 49298
  BY SMT DEF GDT_PL, GDT_CODE_EXRD, GDT_DATA_RDWR, GDT_DESCTYPE, GDT_PRES, GDT_SIZE, GDT_GRAN,
             GDT_PRIV
<1>2. GDT[1] = create_gdt_descriptor(base, LIMIT, codeFlags)
        /\ GDT[2] = create_gdt_descriptor(base, LIMIT, dataFlags)
  BY SMT DEF GDT
<1>3. 8 \div 8 = 1 /\ 16 \div 8 = 2
  BY SMT
<1> HIDE DEF codeFlags, dataFlags
<1>4. Segment(GDT[1]) = FlatCode
  BY SMT, <1>1, <1>2 DEF Segment, create_gdt_descriptor, FlatCode, Flat, LIMIT
<1>5. Segment(GDT[2]) = FlatData
  BY SMT, <1>1, <1>2 DEF Segment, create_gdt_descriptor, FlatData, Flat, LIMIT
<1> QED
  BY <1>3, <1>4, <1>5 DEF Selected

\* What the CPU finds in the gate of a vector.
LEMMA GateOf ==
  ASSUME NEW v \in Vectors, idt = IDT
  PROVE  /\ Gate(idt[v]).offset = StubAt[v] /\ Gate(idt[v]).selector = 8
         /\ Gate(idt[v]).present = 1 /\ Gate(idt[v]).type = InterruptGate32
<1>1. idt[v] = create_idt_descriptor(StubAt[v], 8, 142)
  BY SMT DEF IDT, Vectors, Exceptions, Irqs
<1>2. StubAt[v] \in Address
  BY FramesAssumption DEF FramesAssumption
<1>3. 142 \div 128 = 1 /\ 142 % 32 = InterruptGate32 /\ 142 \in Byte /\ 8 \in Nat
  BY SMT DEF InterruptGate32, Byte
<1> QED
  BY <1>1, <1>2, <1>3, GateRoundTrip

\* With both tables filled every gate leads to a stub.
LEMMA AllLead ==
  ASSUME NEW v \in Vectors, idt = IDT, gdt = GDT
  PROVE  Leads(v)
BY GateOf, KernelSegments DEF Leads

\* Different stubs lie at different addresses, so the CPU gets to the one of the
\* vector.
LEMMA OwnStub ==
  ASSUME NEW v \in Vectors, idt = IDT
  PROVE  (CHOOSE s \in Vectors : StubAt[s] = Gate(idt[v]).offset) = v
BY GateOf, FramesAssumption DEF FramesAssumption

-----------------------------------------------------------------------------
(* The inductive invariant: the tables, what the CPU executes, and the     *)
(* words of the innermost interrupt at the left end of the stack.          *)

Names == {"r", "gs", "fs", "es", "ds", "edi", "esi", "ebp", "esp", "ebx", "edx", "ecx", "eax",
          "int_no", "err_code", "eip", "cs", "eflags"}
Words == Names \X Int

Flows == {"gdt_init", "idt_init", "main", "stub", "common", "isr_handler", "irq_handler"}
Booting == {"gdt_init", "idt_init"}
Serving == {"stub", "common", "isr_handler", "irq_handler"}

TypeInv == flow \in Flows /\ stack \in Seq(Words) /\ code \in ErrorCodes

TablesInv ==
  /\ flow # "gdt_init" => gdt = GDT /\ cs = 8 /\ ds = 16
  /\ flow \notin Booting => idt = IDT

FlowInv ==
  /\ flow \notin Serving => stack = <<>> /\ vector = -1
  /\ flow = "main" => iflag = 1
  /\ flow \in Serving => vector \in Vectors /\ stub = vector /\ iflag = 0
  /\ flow = "irq_handler" => vector \in Irqs
  /\ code # 0 => flow \in Serving /\ vector \in CpuPushesCode

Codes(v) == IF v \in CpuPushesCode THEN 1 ELSE 0

\* The names and values of the words that the CPU, the stub and the common stub
\* pushed.
PushedInv ==
  /\ flow = "stub" =>
       LET n == Codes(vector)
       IN /\ Len(stack) >= n + 3
          /\ n = 1 => stack[1] = Word("err_code", code)
          /\ stack[n + 1][1] = "eip" /\ stack[n + 2][1] = "cs" /\ stack[n + 3][1] = "eflags"
  /\ flow = "common" =>
       /\ Len(stack) >= 5
       /\ stack[1] = Word("int_no", vector) /\ stack[2] = Word("err_code", code)
       /\ stack[3][1] = "eip" /\ stack[4][1] = "cs" /\ stack[5][1] = "eflags"
  /\ flow \in {"isr_handler", "irq_handler"} => Len(stack) >= 18
  /\ HandlerSeesInterrupt

\* An IRQ is taken in main only, so that its words are all there are.
IrqInv ==
  vector \in Irqs =>
    /\ flow = "stub" =>
         Len(stack) = 3 /\ stack[1][2] = -1 /\ stack[2][2] = 8 /\ stack[3][2] = 1
    /\ flow = "common" =>
         Len(stack) = 5 /\ stack[3][2] = -1 /\ stack[4][2] = 8 /\ stack[5][2] = 1
    /\ flow = "irq_handler" =>
         /\ Len(stack) = 18 /\ stack[2][2] = 16
         /\ stack[16][2] = -1 /\ stack[17][2] = 8 /\ stack[18][2] = 1

IInv == TypeInv /\ TablesInv /\ FlowInv /\ PushedInv /\ IrqInv

-----------------------------------------------------------------------------
(* Pushing: the new words are at the left end, the old ones behind them.   *)

\* A sequence of a length, and one made of two.
Sized(T, s, n) == s \in Seq(T) /\ Len(s) = n

Stacked(T, s, new, m, old, n) ==
  /\ s \in Seq(T) /\ Len(s) = m + n
  /\ \A i \in 1..m : s[i] = new[i]
  /\ \A i \in 1..n : s[m + i] = old[i]

\* Concatenation in these terms.
LEMMA Push ==
  ASSUME NEW T, NEW new, NEW old, NEW m, NEW n, Sized(T, new, m), Sized(T, old, n)
  PROVE  Stacked(T, new \o old, new, m, old, n)
<1>1. m \in Nat /\ n \in Nat
  BY DEF Sized
<1>2. new \in Seq(T) /\ old \in Seq(T) /\ Len(new) = m /\ Len(old) = n
  BY DEF Sized
<1>3. /\ new \o old \in Seq(T)
      /\ Len(new \o old) = Len(new) + Len(old)
      /\ \A i \in 1 .. Len(new) + Len(old) : (new \o old)[i] =
              IF i <= Len(new) THEN new[i] ELSE old[i - Len(new)]
  BY <1>2, ConcatProperties
<1> QED
  BY SMT, <1>1, <1>2, <1>3 DEF Stacked

\* A word's name and value.
LEMMA WordTyped ==
  ASSUME NEW name \in Names, NEW value \in Int
  PROVE  Word(name, value) \in Words /\ Word(name, value)[1] = name /\ Word(name, value)[2] = value
BY DEF Word, Words

\* The same, quantified.
LEMMA Named ==
  \A name \in Names : \A value \in Int : Word(name, value) \in Words
BY WordTyped

\* What the CPU pushes.
Cpu(v, c) ==
  (IF v \in CpuPushesCode THEN <<Word("err_code", c)>> ELSE <<>>)
    \o <<Word("eip", vector), Word("cs", cs), Word("eflags", iflag)>>

\* Above an error code, if there is one, lie eip, cs and eflags.
LEMMA CpuWords ==
  ASSUME NEW v, NEW c \in ErrorCodes, vector \in Int, cs \in Int, iflag \in Int
  PROVE  LET n == Codes(v)
         IN /\ Sized(Words, Cpu(v, c), n + 3)
            /\ n = 1 => Cpu(v, c)[1] = Word("err_code", c)
            /\ Cpu(v, c)[n + 1] = Word("eip", vector)
            /\ Cpu(v, c)[n + 2] = Word("cs", cs)
            /\ Cpu(v, c)[n + 3] = Word("eflags", iflag)
<1>1. c \in Int
  BY FramesAssumption DEF FramesAssumption
<1>2. {"eip", "cs", "eflags", "err_code"} \subseteq Names
  BY DEF Names
<1>3. /\ Word("eip", vector) \in Words /\ Word("cs", cs) \in Words
      /\ Word("eflags", iflag) \in Words /\ Word("err_code", c) \in Words
  BY <1>1, <1>2, WordTyped
<1>4. CASE v \in CpuPushesCode
  BY <1>3, <1>4 DEF Cpu, Codes, Sized
<1>5. CASE v \notin CpuPushesCode
  BY <1>3, <1>5 DEF Cpu, Codes, Sized
<1> QED
  BY <1>4, <1>5

\* The stub pushes the vector, and a dummy just where the CPU pushed no code.
LEMMA StubWords ==
  ASSUME NEW v \in Vectors
  PROVE  /\ Sized(Words, Pushed(v), 2 - Codes(v))
         /\ Pushed(v)[1] = Word("int_no", v)
         /\ Codes(v) = 0 => Pushed(v)[2] = Word("err_code", 0)
<1>1. "int_no" \in Names /\ "err_code" \in Names /\ v \in Int
  BY DEF Names, Vectors, Exceptions, Irqs
<1>2. Word("int_no", v) \in Words /\ Word("err_code", 0) \in Words
  BY <1>1, WordTyped
<1>3. CASE v \in CpuPushesCode
  BY <1>2, <1>3 DEF Pushed, Codes, CpuPushesCode, Sized
<1>4. CASE v \notin CpuPushesCode
  BY <1>2, <1>4 DEF Pushed, Codes, CpuPushesCode, Sized
<1> QED
  BY <1>3, <1>4

\* The fields of struct regs.
LEMMA Fields ==
  /\ DOMAIN segments = 1..4 /\ segments[1] = "gs"
  /\ \A i \in 1..4 : segments[i] \in Names
  /\ DOMAIN general = 1..8
  /\ \A i \in 1..8 : general[i] \in Names
  /\ DOMAIN regs = 1..17
  /\ \A i \in 1..4 : regs[i] = segments[i]
  /\ \A i \in 1..8 : regs[4 + i] = general[i]
  /\ regs[13] = "int_no" /\ regs[14] = "err_code" /\ regs[15] = "eip" /\ regs[16] = "cs"
  /\ regs[17] = "eflags"
<1> DEFINE rest == <<"int_no", "err_code", "eip", "cs", "eflags">>
           front == segments \o general
<1>1. Sized(Names, segments, 4) /\ Sized(Names, general, 8)
  BY DEF Sized, segments, general, Names
<1>2. /\ DOMAIN segments = 1..4 /\ segments[1] = "gs" /\ \A i \in 1..4 : segments[i] \in Names
      /\ DOMAIN general = 1..8 /\ \A i \in 1..8 : general[i] \in Names
  BY SMT DEF segments, general, Names
<1>3. /\ Sized(Names, rest, 5) /\ rest[1] = "int_no" /\ rest[2] = "err_code"
      /\ rest[3] = "eip" /\ rest[4] = "cs" /\ rest[5] = "eflags"
  BY DEF Sized, Names
<1>4. Stacked(Names, front, segments, 4, general, 8)
  BY <1>1, Push
<1> HIDE DEF front, rest
<1>5. Sized(Names, front, 12)
  BY <1>4 DEF Sized, Stacked
<1>6. Stacked(Names, front \o rest, front, 12, rest, 5)
  BY <1>3, <1>5, Push
<1>7. Stacked(Names, regs, front, 12, rest, 5)
  BY <1>6 DEF regs, front, rest
<1>8. /\ \A i \in 1..4 : regs[i] = segments[i]
      /\ \A i \in 1..8 : regs[4 + i] = general[i]
  BY <1>4, <1>7, SMTT(30) DEF Stacked
<1>9. /\ DOMAIN regs = 1..17
      /\ regs[13] = "int_no" /\ regs[14] = "err_code" /\ regs[15] = "eip" /\ regs[16] = "cs"
      /\ regs[17] = "eflags"
  BY <1>3, <1>7 DEF Stacked
<1> QED
  BY <1>2, <1>8, <1>9

\* What the common stubs push, from the handler's argument on.
LEMMA CommonWords ==
  ASSUME ds \in Int
  PROVE  LET w == <<Word("r", 0)>> \o Saved
         IN /\ Sized(Words, w, 13)
            /\ \A i \in 1..12 : w[1 + i][1] = regs[i]
            /\ w[2] = Word("gs", ds)
<1> DEFINE held == [i \in DOMAIN segments |-> Word(segments[i], ds)]
           blank == Blank(general)
           r == <<Word("r", 0)>>
           w == r \o Saved
<1>1. /\ Sized(Words, held, 4)
      /\ \A i \in 1..4 : held[i] = Word(segments[i], ds) /\ segments[i] \in Names
  <2>1. DOMAIN segments = 1..4 /\ \A i \in 1..4 : segments[i] \in Names
    BY Fields
  <2>2. held \in [1..4 -> Words]
    BY <2>1, Named
  <2> QED
    BY <2>1, <2>2 DEF Sized
<1>2. /\ Sized(Words, blank, 8)
      /\ \A i \in 1..8 : blank[i] = Word(general[i], 0) /\ general[i] \in Names
  <2>1. DOMAIN general = 1..8 /\ \A i \in 1..8 : general[i] \in Names
    BY Fields
  <2>2. blank \in [1..8 -> Words]
    BY <2>1, Named DEF Blank
  <2> QED
    BY <2>1, <2>2 DEF Blank, Sized
<1>3. Sized(Words, r, 1)
  BY Named DEF Names, Sized
<1> HIDE DEF held, blank, r
<1>4. Stacked(Words, Saved, held, 4, blank, 8)
  <2>1. Stacked(Words, held \o blank, held, 4, blank, 8)
    BY <1>1, <1>2, Push
  <2> QED
    BY <2>1 DEF Saved, held, blank
<1>5. Sized(Words, Saved, 12)
  BY <1>4 DEF Sized, Stacked
<1>6. Stacked(Words, w, r, 1, Saved, 12)
  BY <1>3, <1>5, Push
<1> HIDE DEF w
<1>7. Sized(Words, w, 13) /\ \A i \in 1..12 : w[1 + i] = Saved[i]
  BY <1>6 DEF Sized, Stacked
<1>8. /\ \A i \in 1..4 : held[i][1] = segments[i]
      /\ \A i \in 1..8 : blank[i][1] = general[i]
  BY <1>1, <1>2, WordTyped, SMTT(30)
<1>9. \A i \in 1..12 : Saved[i][1] = regs[i]
  <2> TAKE i \in 1..12
  <2>1. CASE i \in 1..4
    BY <2>1, <1>4, <1>8, Fields DEF Stacked
  <2>2. CASE i \notin 1..4
    <3>1. i - 4 \in 1..8 /\ i = 4 + (i - 4)
      BY <2>2
    <3> QED
      BY <3>1, <1>4, <1>8, Fields DEF Stacked
  <2> QED
    BY <2>1, <2>2
<1>10. w[2] = Word("gs", ds)
  <2>1. w[1 + 1] = Saved[1] /\ Saved[1] = held[1] /\ held[1] = Word(segments[1], ds)
    BY <1>1, <1>4, <1>7 DEF Stacked
  <2> QED
    BY <2>1, Fields
<1> QED
  BY <1>7, <1>9, <1>10 DEF r, w

-----------------------------------------------------------------------------
(* One lemma per action.                                                   *)

\* The invariant holds at first,
LEMMA InitIInv == Init => IInv
<1> SUFFICES ASSUME Init PROVE IInv
  OBVIOUS
<1>1. TypeInv
  BY FramesAssumption DEF Init, TypeInv, Flows, FramesAssumption
<1>2. TablesInv /\ FlowInv /\ PushedInv /\ IrqInv
  BY DEF Init, TablesInv, FlowInv, PushedInv, IrqInv, Booting, Serving, HandlerSeesInterrupt
<1> QED
  BY <1>1, <1>2 DEF IInv

\* and every action keeps it: gdt_init,
LEMMA GdtInitStep ==
  ASSUME IInv, gdt_init
  PROVE  IInv'
<1>1. TypeInv'
  BY DEF IInv, TypeInv, gdt_init, Flows
<1>2. TablesInv'
  BY DEF IInv, TablesInv, gdt_init, Booting
<1>3. FlowInv'
  BY DEF IInv, FlowInv, gdt_init, Serving
<1>4. PushedInv' /\ IrqInv'
  BY DEF PushedInv, IrqInv, HandlerSeesInterrupt, gdt_init
<1> QED
  BY <1>1, <1>2, <1>3, <1>4 DEF IInv

\* idt_init,
LEMMA IdtInitStep ==
  ASSUME IInv, idt_init
  PROVE  IInv'
<1>1. TypeInv'
  BY DEF IInv, TypeInv, idt_init, Flows
<1>2. TablesInv'
  BY DEF IInv, TablesInv, idt_init, Booting, IDT
<1>3. FlowInv'
  BY DEF IInv, FlowInv, idt_init, Serving
<1>4. PushedInv' /\ IrqInv'
  BY DEF PushedInv, IrqInv, HandlerSeesInterrupt, idt_init
<1> QED
  BY <1>1, <1>2, <1>3, <1>4 DEF IInv

\* an interrupt of main or of an IRQ's handler,
LEMMA InterruptStep ==
  ASSUME IInv, NEW v \in Vectors, NEW c \in ErrorCodes, Interrupt(v, c)
  PROVE  IInv'
<1> DEFINE n == Codes(v)
<1>1. flow \in {"main", "irq_handler"} /\ (v \in Irqs => iflag = 1) /\ (c # 0 => v \in CpuPushesCode)
  BY DEF Interrupt
<1>2. gdt = GDT /\ idt = IDT /\ cs = 8 /\ ds = 16
  BY <1>1 DEF IInv, TablesInv, Booting
<1>3. /\ flow = "main" => stack = <<>> /\ vector = -1 /\ iflag = 1
      /\ flow = "irq_handler" => vector \in Vectors /\ iflag = 0
  BY DEF IInv, FlowInv, Serving
<1>4. cs' = 8 /\ stub' = v
  BY <1>2, GateOf, OwnStub DEF Interrupt
<1>5. /\ stack' = Cpu(v, c) \o stack /\ vector' = v /\ code' = c /\ iflag' = 0 /\ flow' = "stub"
      /\ gdt' = gdt /\ idt' = idt /\ ds' = ds
  BY DEF Interrupt, Cpu, tables
<1>6. vector \in Int /\ iflag \in Int /\ cs \in Int
  <2>1. Vectors \subseteq Int
    BY DEF Vectors, Exceptions, Irqs
  <2>2. CASE flow = "main"
    <3>1. vector = -1 /\ iflag = 1
      BY <2>2, <1>3
    <3> QED
      BY <3>1, <1>2
  <2>3. CASE flow = "irq_handler"
    <3>1. vector \in Vectors /\ iflag = 0
      BY <2>3, <1>3
    <3> QED
      BY <2>1, <3>1, <1>2
  <2> QED
    BY <2>2, <2>3, <1>1
<1>7. /\ Sized(Words, Cpu(v, c), n + 3)
      /\ n = 1 => Cpu(v, c)[1] = Word("err_code", c)
      /\ Cpu(v, c)[n + 1] = Word("eip", vector)
      /\ Cpu(v, c)[n + 2] = Word("cs", cs)
      /\ Cpu(v, c)[n + 3] = Word("eflags", iflag)
  BY <1>6, CpuWords
<1>8. stack \in Seq(Words) /\ Len(stack) \in Nat /\ Sized(Words, stack, Len(stack))
  BY DEF IInv, TypeInv, Sized
<1>9. Stacked(Words, stack', Cpu(v, c), n + 3, stack, Len(stack))
  BY <1>5, <1>7, <1>8, Push
<1>10. n \in {0, 1} /\ (v \in Irqs => n = 0)
  BY DEF Codes, Irqs, CpuPushesCode
<1> HIDE DEF n
<1>11. /\ stack' \in Seq(Words) /\ Len(stack') = n + 3 + Len(stack)
       /\ n = 1 => stack'[1] = Word("err_code", c)
       /\ stack'[n + 1] = Word("eip", vector)
       /\ stack'[n + 2] = Word("cs", cs)
       /\ stack'[n + 3] = Word("eflags", iflag)
  BY <1>7, <1>9, <1>10 DEF Stacked
<1>12. /\ Word("eip", vector)[1] = "eip" /\ Word("eip", vector)[2] = vector
       /\ Word("cs", cs)[1] = "cs" /\ Word("cs", cs)[2] = cs
       /\ Word("eflags", iflag)[1] = "eflags" /\ Word("eflags", iflag)[2] = iflag
  BY DEF Word
<1>13. TypeInv'
  BY <1>5, <1>11 DEF TypeInv, Flows
<1>14. TablesInv'
  BY <1>2, <1>4, <1>5 DEF TablesInv
<1>15. FlowInv'
  BY <1>1, <1>4, <1>5 DEF FlowInv, Serving
<1>16. PushedInv'
  <2>1. n = Codes(vector')
    BY <1>5 DEF n
  <2> QED
    BY <2>1, <1>5, <1>8, <1>10, <1>11, <1>12 DEF PushedInv, HandlerSeesInterrupt
<1>17. IrqInv'
  <2> SUFFICES ASSUME v \in Irqs
               PROVE  Len(stack') = 3 /\ stack'[1][2] = -1 /\ stack'[2][2] = 8 /\ stack'[3][2] = 1
    BY <1>5 DEF IrqInv
  <2>1. n = 0 /\ flow = "main" /\ iflag = 1 /\ Len(stack) = 0
    BY <1>1, <1>3, <1>10
  <2> QED
    BY <2>1, <1>2, <1>3, <1>11, <1>12
<1> QED
  BY <1>13, <1>14, <1>15, <1>16, <1>17 DEF IInv

\* the stub,
LEMMA StubStep ==
  ASSUME IInv, Stub
  PROVE  IInv'
<1> DEFINE n == Codes(vector)
<1>1. /\ flow = "stub" /\ stack' = Pushed(stub) \o stack /\ flow' = "common"
      /\ gdt' = gdt /\ idt' = idt /\ cs' = cs /\ ds' = ds /\ stub' = stub
      /\ vector' = vector /\ code' = code /\ iflag' = iflag
  BY DEF Stub, tables
<1>2. /\ vector \in Vectors /\ stub = vector /\ iflag = 0
      /\ code # 0 => vector \in CpuPushesCode
  BY <1>1 DEF IInv, FlowInv, Serving
<1>3. /\ Len(stack) >= n + 3
      /\ n = 1 => stack[1] = Word("err_code", code)
      /\ stack[n + 1][1] = "eip" /\ stack[n + 2][1] = "cs" /\ stack[n + 3][1] = "eflags"
  BY <1>1 DEF IInv, PushedInv
<1>4. /\ Sized(Words, Pushed(vector), 2 - n)
      /\ Pushed(vector)[1] = Word("int_no", vector)
      /\ n = 0 => Pushed(vector)[2] = Word("err_code", 0)
  BY <1>2, StubWords
<1>5. stack \in Seq(Words) /\ Len(stack) \in Nat /\ Sized(Words, stack, Len(stack))
  BY DEF IInv, TypeInv, Sized
<1>6. Stacked(Words, stack', Pushed(vector), 2 - n, stack, Len(stack))
  BY <1>1, <1>2, <1>4, <1>5, Push
<1>7. n \in {0, 1} /\ (n = 0 => code = 0) /\ (vector \in Irqs => n = 0)
  BY <1>2 DEF Codes, Irqs, CpuPushesCode
<1> HIDE DEF n
<1>8. /\ stack' \in Seq(Words) /\ Len(stack') = 2 - n + Len(stack) /\ Len(stack') >= 5
      /\ stack'[1] = Word("int_no", vector)
      /\ stack'[2] = Word("err_code", code)
      /\ stack'[3] = stack[n + 1] /\ stack'[4] = stack[n + 2] /\ stack'[5] = stack[n + 3]
  <2>1. CASE n = 0
    BY <2>1, <1>3, <1>4, <1>5, <1>6, <1>7 DEF Stacked
  <2>2. CASE n = 1
    BY <2>2, <1>3, <1>4, <1>5, <1>6, <1>7 DEF Stacked
  <2> QED
    BY <2>1, <2>2, <1>7
<1>9. TypeInv'
  BY <1>1, <1>8 DEF IInv, TypeInv, Flows
<1>10. TablesInv' /\ FlowInv'
  BY <1>1, <1>2 DEF IInv, TablesInv, FlowInv, Booting, Serving
<1>11. PushedInv'
  BY <1>1, <1>3, <1>8 DEF PushedInv, HandlerSeesInterrupt
<1>12. IrqInv'
  <2> SUFFICES ASSUME vector \in Irqs
               PROVE  Len(stack') = 5 /\ stack'[3][2] = -1 /\ stack'[4][2] = 8 /\ stack'[5][2] = 1
    BY <1>1 DEF IrqInv
  <2>1. Len(stack) = 3 /\ stack[1][2] = -1 /\ stack[2][2] = 8 /\ stack[3][2] = 1
    BY <1>1 DEF IInv, IrqInv
  <2>2. n = 0
    BY <1>7
  <2>3. stack'[3] = stack[1] /\ stack'[4] = stack[2] /\ stack'[5] = stack[3] /\ Len(stack') = 5
    BY <2>1, <2>2, <1>8
  <2> QED
    BY <2>1, <2>3
<1> QED
  BY <1>9, <1>10, <1>11, <1>12 DEF IInv

\* the common stub,
LEMMA CommonStep ==
  ASSUME IInv, Common
  PROVE  IInv'
<1> DEFINE w == <<Word("r", 0)>> \o Saved
<1>1. /\ flow = "common" /\ stack' = w \o stack /\ ds' = 16
      /\ flow' = IF stub \in Exceptions THEN "isr_handler" ELSE "irq_handler"
      /\ gdt' = gdt /\ idt' = idt /\ cs' = cs /\ stub' = stub
      /\ vector' = vector /\ code' = code /\ iflag' = iflag
  <2>1. stack' = <<Word("r", 0)>> \o Saved \o stack
    BY DEF Common
  <2> QED
    BY <2>1 DEF Common, tables
<1>2. vector \in Vectors /\ stub = vector /\ iflag = 0 /\ ds = 16
  BY <1>1 DEF IInv, FlowInv, TablesInv, Serving
<1>3. /\ Len(stack) >= 5
      /\ stack[1] = Word("int_no", vector) /\ stack[2] = Word("err_code", code)
      /\ stack[3][1] = "eip" /\ stack[4][1] = "cs" /\ stack[5][1] = "eflags"
  BY <1>1 DEF IInv, PushedInv
<1>4. Sized(Words, w, 13) /\ w[2] = Word("gs", 16) /\ \A i \in 1..12 : w[1 + i][1] = regs[i]
  <2>1. ds \in Int
    BY <1>2
  <2>2. Sized(Words, w, 13) /\ w[2] = Word("gs", ds) /\ \A i \in 1..12 : w[1 + i][1] = regs[i]
    BY <2>1, CommonWords
  <2> QED
    BY <2>2, <1>2
<1> HIDE DEF w
<1>5. stack \in Seq(Words) /\ Len(stack) \in Nat /\ Sized(Words, stack, Len(stack))
  BY DEF IInv, TypeInv, Sized
<1>6. Stacked(Words, stack', w, 13, stack, Len(stack))
  BY <1>1, <1>4, <1>5, Push
<1>7. /\ stack' \in Seq(Words) /\ Len(stack') = 13 + Len(stack)
      /\ \A i \in 1..12 : stack'[1 + i] = w[1 + i]
      /\ stack'[14] = stack[1] /\ stack'[15] = stack[2] /\ stack'[16] = stack[3]
      /\ stack'[17] = stack[4] /\ stack'[18] = stack[5]
  <2>1. /\ stack' \in Seq(Words) /\ Len(stack') = 13 + Len(stack)
        /\ \A i \in 1..13 : stack'[i] = w[i]
        /\ \A i \in 1..Len(stack) : stack'[13 + i] = stack[i]
    BY <1>6 DEF Stacked
  <2>2. \A i \in 1..12 : 1 + i \in 1..13
    OBVIOUS
  <2>3. {1, 2, 3, 4, 5} \subseteq 1..Len(stack)
    BY <1>3, <1>5
  <2>4. /\ stack'[13 + 1] = stack[1] /\ stack'[13 + 2] = stack[2] /\ stack'[13 + 3] = stack[3]
        /\ stack'[13 + 4] = stack[4] /\ stack'[13 + 5] = stack[5]
    BY <2>1, <2>3
  <2> QED
    BY <2>1, <2>2, <2>4
<1>8. stack'[2][2] = 16
  <2>1. stack'[1 + 1] = w[1 + 1]
    BY <1>7
  <2> QED
    BY <2>1, <1>4 DEF Word
<1>9. TypeInv'
  BY <1>1, <1>7 DEF IInv, TypeInv, Flows
<1>10. TablesInv' /\ FlowInv'
  BY <1>1, <1>2 DEF IInv, TablesInv, FlowInv, Booting, Serving, Vectors
<1>11. PushedInv'
  <2>1. \A i \in 1..17 : stack'[1 + i][1] = regs[i]
    <3>1. /\ stack'[14][1] = "int_no" /\ stack'[15][1] = "err_code" /\ stack'[16][1] = "eip"
          /\ stack'[17][1] = "cs" /\ stack'[18][1] = "eflags"
      BY <1>3, <1>7 DEF Word
    <3>2. \A i \in 1..12 : stack'[1 + i][1] = regs[i]
      BY <1>4, <1>7
    <3>3. TAKE i \in 1..17
    <3>4. CASE i \in 1..12
      BY <3>2, <3>4
    <3>5. CASE i \in {13, 14, 15, 16, 17}
      BY <3>1, <3>5, Fields
    <3> QED
      BY <3>4, <3>5
  <2>2. \A i \in 1..17 : /\ regs[i] = "int_no" => i = 13
                         /\ regs[i] = "err_code" => i = 14
    <3>1. \A i \in 1..12 : regs[i] \notin {"int_no", "err_code"}
      BY SMT DEF regs, segments, general
    <3> QED
      BY <3>1, Fields
  <2>3. stack'[14][2] = vector' /\ stack'[15][2] = code'
    BY <1>1, <1>3, <1>7 DEF Word
  <2>4. HandlerSeesInterrupt'
    BY <2>1, <2>2, <2>3, Fields DEF HandlerSeesInterrupt
  <2> QED
    BY <2>4, <1>1, <1>3, <1>5, <1>7 DEF PushedInv
<1>12. IrqInv'
  <2> SUFFICES ASSUME vector \in Irqs
               PROVE  /\ Len(stack') = 18 /\ stack'[2][2] = 16
                      /\ stack'[16][2] = -1 /\ stack'[17][2] = 8 /\ stack'[18][2] = 1
    BY <1>1 DEF IrqInv
  <2>1. Len(stack) = 5 /\ stack[3][2] = -1 /\ stack[4][2] = 8 /\ stack[5][2] = 1
    BY <1>1 DEF IInv, IrqInv
  <2> QED
    BY <2>1, <1>7, <1>8
<1> QED
  BY <1>9, <1>10, <1>11, <1>12 DEF IInv

\* the return of an IRQ's handler,
LEMMA IrqReturnStep ==
  ASSUME IInv, IrqReturn
  PROVE  IInv'
<1> DEFINE frame == SubSeq(stack, 16, Len(stack))
<1>1. flow = "irq_handler" /\ vector \in Irqs /\ stack \in Seq(Words)
  BY DEF IrqReturn, IInv, FlowInv, TypeInv
<1>2. /\ Len(stack) = 18 /\ stack[2][2] = 16
      /\ stack[16][2] = -1 /\ stack[17][2] = 8 /\ stack[18][2] = 1
  BY <1>1 DEF IInv, IrqInv
<1>3. 2 + Len(segments) + Len(general) + CleansUp = 16
  BY DEF segments, general, CleansUp
<1>4. /\ ds' = stack[2][2] /\ vector' = frame[1][2] /\ cs' = frame[2][2] /\ iflag' = frame[3][2]
      /\ stack' = SubSeq(frame, 4, Len(frame)) /\ flow' = "main" /\ code' = 0
      /\ gdt' = gdt /\ idt' = idt
  BY <1>3 DEF IrqReturn, tables
<1>5. Len(frame) = 3 /\ frame[1] = stack[16] /\ frame[2] = stack[17] /\ frame[3] = stack[18]
  BY <1>1, <1>2
<1>6. stack' = <<>>
  <2> HIDE DEF frame
  <2>1. stack' = SubSeq(frame, 4, 3)
    BY <1>4, <1>5
  <2> QED
    BY <2>1, SubSeqEmpty
<1> HIDE DEF frame
<1>7. ds' = 16 /\ vector' = -1 /\ cs' = 8 /\ iflag' = 1
  BY <1>2, <1>4, <1>5
<1>8. TypeInv'
  <2>1. code' \in ErrorCodes
    BY <1>4, FramesAssumption DEF FramesAssumption
  <2>2. stack' \in Seq(Words)
    BY <1>6
  <2> QED
    BY <1>4, <2>1, <2>2 DEF TypeInv, Flows
<1>9. TablesInv'
  BY <1>1, <1>4, <1>7 DEF IInv, TablesInv, Booting
<1>10. FlowInv'
  BY <1>4, <1>6, <1>7 DEF FlowInv, Serving
<1>11. PushedInv' /\ IrqInv'
  BY <1>4 DEF PushedInv, HandlerSeesInterrupt, IrqInv
<1> QED
  BY <1>8, <1>9, <1>10, <1>11 DEF IInv

\* and a step that changes nothing.
LEMMA StutterStep ==
  ASSUME IInv, UNCHANGED vars
  PROVE  IInv'
BY DEF IInv, TypeInv, TablesInv, FlowInv, PushedInv, IrqInv, HandlerSeesInterrupt, vars, tables

\* So every step keeps it,
LEMMA NextIInv == IInv /\ [Next]_vars => IInv'
BY GdtInitStep, IdtInitStep, InterruptStep, StubStep, CommonStep, IrqReturnStep, StutterStep
   DEF Next, IsrHalts

\* and it always holds.
LEMMA Invariant == Spec => []IInv
BY InitIInv, NextIInv, PTL DEF Spec

-----------------------------------------------------------------------------

\* gdt_init and idt_init (gdt.c:85-97, idt.c:91-193) leave tables that lead the CPU
\* from every vector to a stub, with the kernel's segments loaded, wherever the
\* linker puts the 48 stubs.
THEOREM Led == Spec => []GatesLead
<1>1. IInv => GatesLead
  <2> SUFFICES ASSUME IInv PROVE GatesLead
    OBVIOUS
  <2>1. flow # "gdt_init" => Selected(gdt, cs) = FlatCode /\ Selected(gdt, ds) = FlatData
    BY KernelSegments DEF IInv, TablesInv
  <2>2. flow \in {"main", "irq_handler"} => \A v \in Vectors : Leads(v)
    BY AllLead DEF IInv, TablesInv, Booting
  <2> QED
    BY <2>1, <2>2 DEF GatesLead
<1> QED
  BY <1>1, Invariant, PTL

\* The handlers of all 48 vectors find the interrupt in struct regs (isr.s, irq.s,
\* isr.h), for every error code, also when an exception strikes an IRQ's handler.
THEOREM Seen == Spec => []HandlerSeesInterrupt
<1>1. IInv => HandlerSeesInterrupt
  BY DEF IInv, PushedInv
<1> QED
  BY <1>1, Invariant, PTL

\* irq_common_stub (irq.s:121-143) leaves main as it was.
THEOREM Restored == Spec => []ReturnRestores
<1>1. IInv => ReturnRestores
  BY DEF IInv, FlowInv, TablesInv, ReturnRestores, Serving
<1> QED
  BY <1>1, Invariant, PTL
=============================================================================
