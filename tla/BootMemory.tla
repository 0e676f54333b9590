----------------------------- MODULE BootMemory -----------------------------
(***************************************************************************)
(* The way from the boot loader's memory map to the bitmap of page frames: *)
(* create_mmap copies the map, kernel_bitmap_init finds a place for the    *)
(* bitmap, create_bitmap fills it.  This runs once, in mem_init.           *)
(*                                                                         *)
(* Addresses are numbers below WORD, those of the boot loader may be above *)
(* (they have 64 bits).  The memory at the place of the bitmap is the set  *)
(* bits of the positions that hold a 1: frame f is bit BYTE - 1 - f % BYTE *)
(* of byte f \div BYTE.                                                    *)
(***************************************************************************)
EXTENDS Integers, Sequences, SequencesExt

CONSTANTS
  PAGE,             \* bytes of a page, 0x1000
  BYTE,             \* bits of a byte
  ADDR_BITS,        \* bits of an address; the CPU shifts modulo this
  WORD,             \* 2^ADDR_BITS
  LOW,              \* page frames below 1MB
  KERNEL_START,     \* kernel_start and kernel_end, as physical addresses
  KERNEL_END,
  MMAP_REGION_NUM,
  MAPPED,           \* bytes from the bitmap's place to the end of the mapped memory
  Maps,             \* what the boot loader can pass as its memory map
  Contents          \* what the memory of the bitmap can hold before

ASSUME BootMemoryAssumption ==
  /\ {PAGE, BYTE, ADDR_BITS, WORD, MAPPED, MMAP_REGION_NUM} \subseteq Nat \ {0}
  /\ {LOW, KERNEL_START, KERNEL_END} \subseteq Nat
  /\ LOW % BYTE = 0
  /\ KERNEL_START % PAGE = 0
  /\ (LOW + 1) * PAGE <= KERNEL_START   \* linker.ld puts .boot between
  /\ KERNEL_START <= KERNEL_END
  /\ KERNEL_END + PAGE < WORD           \* linker.ld links the image 3GB higher
  /\ MAPPED * BYTE <= WORD \div 2       \* boot.s maps 4MB
  /\ Maps \subseteq Seq([addr : Nat, len : Nat \ {0}, type : Nat])
  \* None begins inside the page of the reset vector, the last one.
  /\ \A map \in Maps : \A k \in DOMAIN map : map[k].addr % WORD <= WORD - PAGE

\* Bits of the flags that the boot loader passes.
MEMORY == 1
BOOTDEV == 2
MEM_MAP == 64
MULTIBOOT_MEMORY_INFO == 2   \* a flag of the multiboot header

USABLE == 0
UNUSABLE == 1
RAM == 1   \* the boot loader's type of usable memory

VARIABLES
  mbflags, mbmap,  \* the flags and the memory map of multiboot_info
  regions,         \* mmap.regions
  pc,
  region,          \* mmap_region
  i,               \* the frame that create_bitmap looks at
  sec_end,         \* bitmap_sec_end
  place,           \* kernel_bitmap.ptr
  bits,            \* the memory of the bitmap
  before           \* history: what it held at the start

vars == <<mbflags, mbmap, regions, pc, region, i, sec_end, place, bits, before>>

\* A boot loader without a map leaves its address and length 0.
Init ==
  /\ mbflags \in SUBSET {MEMORY, BOOTDEV, MEM_MAP}
  /\ mbmap \in (IF MEM_MAP \in mbflags THEN Maps ELSE {<<>>})
  /\ bits \in Contents /\ before = bits
  /\ pc = "create_mmap" /\ regions = <<>> /\ region = 1
  /\ i = 0 /\ sec_end = 0 /\ place = 0

-----------------------------------------------------------------------------
(* create_mmap.                                                            *)

\* (uintptr_t)mbt_map->addr and (unsigned long)mbt_map->len.
Copied(entry) ==
  [start |-> entry.addr % WORD,
   size  |-> entry.len % WORD,
   type  |-> IF entry.type = RAM THEN USABLE ELSE UNUSABLE]

Panics ==
  \/ MULTIBOOT_MEMORY_INFO \notin mbflags
  \/ Len(mbmap) > MMAP_REGION_NUM

create_mmap ==
  /\ pc = "create_mmap"
  /\ \/ Panics /\ pc' = "panic" /\ UNCHANGED regions
     \/ /\ ~Panics
        /\ regions' = [k \in DOMAIN mbmap |-> Copied(mbmap[k])]
        /\ pc' = "kernel_bitmap_init"
  /\ UNCHANGED <<mbflags, mbmap, region, i, sec_end, place, bits, before>>

-----------------------------------------------------------------------------
(* kernel_bitmap_init.  The walks over the regions stop at a size of 0.    *)

HasRegion == region <= Len(regions) /\ regions[region].size > 0

RegionEnd(r) == (r.start + r.size - 1) % WORD

RoundUpStays(a) == a - (a % PAGE)
ROUND_UP(a) == (a - (a % PAGE) + PAGE) % WORD

\* bitmap_size is 0 when the section's room is compared with it.
HoldsKernel(r) ==
  /\ r.type = USABLE
  /\ KERNEL_START >= r.start /\ KERNEL_START <= RegionEnd(r)
  /\ ROUND_UP(KERNEL_END) <= ROUND_UP(RegionEnd(r))

FindPlace ==
  /\ pc = "kernel_bitmap_init" /\ HasRegion
  /\ \/ /\ HoldsKernel(regions[region])
        /\ place' = ROUND_UP(KERNEL_END)
        /\ pc' = "create_bitmap" /\ region' = 1
     \/ /\ ~HoldsKernel(regions[region])
        /\ region' = region + 1
        /\ UNCHANGED <<pc, place>>
  /\ UNCHANGED <<mbflags, mbmap, regions, i, sec_end, bits, before>>

NoPlace ==
  /\ pc = "kernel_bitmap_init" /\ ~HasRegion
  /\ pc' = "no bitmap"
  /\ UNCHANGED <<mbflags, mbmap, regions, region, i, sec_end, place, bits, before>>

-----------------------------------------------------------------------------
(* create_bitmap.                                                          *)

\* section_start and section_end are ints: an address in the upper half is
\* negative, its division by 0x1000 rounds to zero, and the quotient becomes
\* an unsigned frame number.  The pause() for a section that does not begin on
\* a page, and with DEBUG for every section, waits for a key and changes nothing.
FrameOf(a) == IF a < WORD \div 2 THEN a \div PAGE ELSE (-((WORD - a) \div PAGE)) % WORD

Section ==
  /\ pc = "create_bitmap" /\ HasRegion
  /\ i' = FrameOf(regions[region].start)
  /\ sec_end' = FrameOf(RegionEnd(regions[region]))
  /\ pc' = "frame"
  /\ UNCHANGED <<mbflags, mbmap, regions, region, place, bits, before>>

\* kernel_bitmap.ptr[f/8] >> (ADDR_BITS - f) & 1.  The bit of f is not the one
\* that this tests: where the count is below BYTE it is another frame's bit of
\* that byte, elsewhere the shift leaves 0.
Shift(f) == (ADDR_BITS - f) % ADDR_BITS
Tested(f) ==
  /\ Shift(f) < BYTE
  /\ (f \div BYTE) * BYTE + (BYTE - 1 - Shift(f)) \in bits

MarksUsable(f) == bits \union {f}
FreesPrevious(f) == IF regions[region].type = UNUSABLE THEN bits \union {f} ELSE bits \ {f - 1}
Marked(f) ==
  CASE regions[region].type = UNUSABLE -> bits \union {f}
    [] regions[region].type = USABLE /\ Tested(f) -> bits \ {f}
    [] OTHER -> bits

Frame ==
  /\ pc = "frame" /\ i <= sec_end
  /\ i \div BYTE < MAPPED
  /\ bits' = Marked(i)
  /\ i' = (i + 1) % WORD
  /\ UNCHANGED <<mbflags, mbmap, regions, pc, region, sec_end, place, before>>

\* A byte beyond the memory that is mapped: the page fault halts the kernel.
FrameFaults ==
  /\ pc = "frame" /\ i <= sec_end
  /\ i \div BYTE >= MAPPED
  /\ pc' = "fault"
  /\ UNCHANGED <<mbflags, mbmap, regions, region, i, sec_end, place, bits, before>>

NextSection ==
  /\ pc = "frame" /\ i > sec_end
  /\ region' = region + 1
  /\ pc' = "create_bitmap"
  /\ UNCHANGED <<mbflags, mbmap, regions, i, sec_end, place, bits, before>>

\* A loop that rounds its end down and leaves out the page the end lies in.
WholePages(first, last) == (first \div PAGE)..(last \div PAGE - 1)

\* for(i = first; i <= last; i += 0x1000): the frames it marks.
FramesFrom(first, last) ==
  {f \in 0..(WORD \div PAGE) : f >= first \div PAGE /\ f * PAGE + (first % PAGE) <= last}

\* memset over the first megabyte, then the kernel, then the bitmap, whose
\* length is 0.
Reserve ==
  /\ pc = "create_bitmap" /\ ~HasRegion
  /\ bits' = bits \union 0..(LOW - 1)
                  \union FramesFrom(KERNEL_START, KERNEL_END)
                  \union FramesFrom(place, place)
  /\ pc' = "done"
  /\ UNCHANGED <<mbflags, mbmap, regions, region, i, sec_end, place, before>>

Ended == pc \in {"done", "panic", "fault", "no bitmap"} /\ UNCHANGED vars

Next ==
  \/ create_mmap \/ FindPlace \/ NoPlace
  \/ Section \/ Frame \/ FrameFaults \/ NextSection \/ Reserve
  \/ Ended

Spec == Init /\ [][Next]_vars

-----------------------------------------------------------------------------
(* Frames and the memory map.                                              *)

Frames == 0..(WORD \div PAGE - 1)

\* f lies, in part, between two addresses.
Touches(f, start, len) == start < (f + 1) * PAGE /\ f * PAGE < start + len

RegionsOf(type) == {r \in Range(regions) : r.type = type}

\* What the boot loader said is reserved, before anything was truncated, as far
\* as create_bitmap can tell: by an entry that ends in the lower half, for in
\* the upper half section_end is negative, and that follows no entry whose
\* length is 0 once truncated, for the walk ends there.
Reserved(f) ==
  \E k \in DOMAIN mbmap :
    /\ mbmap[k].type # RAM /\ Touches(f, mbmap[k].addr, mbmap[k].len)
    /\ mbmap[k].addr + mbmap[k].len <= WORD \div 2
    /\ \A j \in 1..k : mbmap[j].len % WORD # 0

\* The addresses from kernel_start to kernel_end, and the bitmap's first.  The
\* page of .boot is below kernel_start and belongs to neither.
KernelFrame(f) == Touches(f, KERNEL_START, KERNEL_END + 1 - KERNEL_START)
BitmapFrame(f) == Touches(f, place, 1)

\* A frame that the boot loader reserved is never free, in whatever order the
\* regions come and whatever the memory held, unless the kernel's copy of the
\* map also calls part of it usable.
ReservedStayUsed ==
  pc = "done" =>
    \A f \in Frames :
      /\ Reserved(f)
      /\ \A r \in RegionsOf(USABLE) : ~Touches(f, r.start, r.size)
      => f \in bits

\* No frame is lost: what is used and was not marked by what the memory held
\* before is reserved, low, the kernel or the bitmap's first page.
OnlyReservedUsed ==
  pc = "done" =>
    \A f \in bits \ before :
      \/ f < LOW \/ KernelFrame(f) \/ BitmapFrame(f)
      \/ \E r \in RegionsOf(UNUSABLE) : Touches(f, r.start, r.size)

\* Whatever the sections freed and wherever the kernel ends within a page: every
\* frame with a byte from kernel_start to kernel_end is used and so is the one
\* the bitmap begins in, and these are different frames.  (The frame of .boot,
\* below kernel_start, stays as the sections left it.)
KernelAndBitmapApart ==
  pc = "done" =>
    \A f \in Frames :
      /\ KernelFrame(f) \/ BitmapFrame(f) => f \in bits
      /\ ~(KernelFrame(f) /\ BitmapFrame(f))

\* bitmap.c:176 marks the bitmap as used: every page that holds the bit of a
\* frame of usable memory.
BitmapUsed ==
  pc = "done" =>
    \A r \in RegionsOf(USABLE), f \in Frames :
      Touches(f, r.start, r.size) => (place + f \div BYTE) \div PAGE \in bits
=============================================================================
