---------------------------- MODULE Descriptors ----------------------------
(***************************************************************************)
(* The 8-byte entries of the GDT and the IDT: how gdt.c and idt.c put them *)
(* together, and how the CPU takes them apart.                             *)
(*                                                                         *)
(* An entry is the sequence of its bytes, lowest first, and so is a 32-bit *)
(* address.  A number below 2^20 is a number.                              *)
(***************************************************************************)
EXTENDS Integers, Sequences

Byte == 0..255
Address == Byte \X Byte \X Byte \X Byte

\* The limit of all the segments, 0xFFFFF pages.
LIMIT == 1048575

\* The bits of a segment's flags; their OR is a sum.
GDT_DESCTYPE == 16
GDT_PRES == 128
GDT_SIZE == 16384
GDT_GRAN == 32768
GDT_PRIV(x) == (x % 4) * 32
GDT_DATA_RDWR == 2
GDT_CODE_EXRD == 10

GDT_PL(type, level) ==
  GDT_DESCTYPE + GDT_PRES + GDT_SIZE + GDT_GRAN + GDT_PRIV(level) + type

GdtShortLimit(base, limit, flag) ==
  << limit % 256, (limit \div 256) % 256,
     base[1], base[2], base[3],
     flag % 256,
     (flag \div 4096) * 16,
     base[4] >>

create_gdt_descriptor(base, limit, flag) ==
  << limit % 256, (limit \div 256) % 256,
     base[1], base[2], base[3],
     flag % 256,
     (flag \div 4096) * 16 + ((limit \div 65536) % 16),
     base[4] >>

IdtHalvesSwapped(base, selector, flags) ==
  << base[3], base[4], selector % 256, selector \div 256, 0, flags, base[1], base[2] >>

create_idt_descriptor(base, selector, flags) ==
  << base[1], base[2], selector % 256, selector \div 256, 0, flags, base[3], base[4] >>

-----------------------------------------------------------------------------
(* The CPU.                                                                *)

Segment(d) ==
  [ base    |-> <<d[3], d[4], d[5], d[8]>>,
    limit   |-> d[1] + 256 * d[2] + 65536 * (d[7] % 16),
    present |-> d[6] \div 128,
    level   |-> (d[6] \div 32) % 4,
    type    |-> d[6] % 32,         \* the descriptor type and the type
    long    |-> (d[7] \div 32) % 2,
    size    |-> (d[7] \div 64) % 2,
    gran    |-> d[7] \div 128 ]

Gate(d) ==
  [ offset   |-> <<d[1], d[2], d[7], d[8]>>,
    selector |-> d[3] + 256 * d[4],
    present  |-> d[6] \div 128,
    level    |-> (d[6] \div 32) % 4,
    type     |-> d[6] % 32 ]

InterruptGate32 == 14

\* The segment that the kernel is built for: all of memory, ring 0.
Flat(type) ==
  [ base |-> <<0, 0, 0, 0>>, limit |-> LIMIT, present |-> 1, level |-> 0,
    type |-> type, long |-> 0, size |-> 1, gran |-> 1 ]
FlatCode == Flat(26)
FlatData == Flat(18)
=============================================================================
