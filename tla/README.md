# Verification of rinix

TLA+ models, TLC runs and TLAPS proofs for rinix, a small kernel for 32-bit
x86. Every definition is translated from the source under `src/`; `PROJECT.json`
maps each one to its lines.

## The system

One flow of control boots the kernel (`boot.s` → `initk` → `kmain`) and is
interrupted by the timer and the keyboard. There are no processes, no second
CPU and no storage: the hard parts are what an interrupt can do between two
steps of the main flow, linked data that many calls work on, address arithmetic
in 32 bits, and memory that is not what the code takes it for.

| component | state | operations | interacts with | modules |
|---|---|---|---|---|
| kernel heap `mm/kmem.c` | block headers, `kmem_info` | `kmem_init`, `kmalloc`, `kmem_morecore`, `kfree` | maps pages with `alloc_map_page` | `Kmem`, `HeapContract` |
| page frames `mm/bitmap.c`, `mm/pmm.c` | `kernel_bitmap` | `get_frame`, `free_frame`, `pmm_alloc`, `pmm_free` | called by paging | `FrameBitmap`, `FrameContract` |
| memory map `mmap.c`, `mem_init.c`, `create_bitmap` | `mmap.regions`, the bitmap's memory | run once at boot | boot loader's map, linker symbols | `BootMemory` |
| page tables `boot.s`, `page.c` | directory, tables, TLB | `map_page`, `alloc_map_page`, `create_*`, `dealloc_page_table` | takes frames from `pmm_alloc`, called by the heap | `Paging` on `FrameBitmap` |
| interrupts `idt.c`, `irq.s` | `irq_routines`, the 8259 pair, IF | `idt_init`, `install_irq_handler`, `irq_handler` | calls the handlers | `Interrupts` |
| descriptor tables `gdt.c`, `idt.c` | `gdt`, `idt` | `gdt_init`, `create_*_descriptor`, `intel_isr_install`, `irq_install` | read by the CPU | `Descriptors`, `Frames` |
| stack frames `isr.s`, `irq.s`, `regs.h` | the stack | stubs, `isr_handler`, return | between CPU and handlers | `Frames` |
| timer, pause `timer.c`, `pause.c`, `debug.c` | `timer_ticks`, `pause_flag` | `timer_handler`, `timer_wait`, `pause`, `unpause` | main flow waits for handlers | `Interrupts` |
| keyboard `keyboard.c` | `flags` | `keyboard_handler` | unpauses, prints | `Keyboard`, `Interrupts`, `Terminal` |
| screen `tty.c` | `term_x`, `term_y`, VGA memory, CRT registers | `term_putchar`, `term_scroll`, `update_cursor`, `flash_screen` | main flow and keyboard handler share it unlocked | `Terminal` |
| printing `printf.c`, `vprintf.c` | the walk over the format, local buffers | `printf`, `vprintf`, `itoa`, `utoa`, `ltoa`, `ultoa` | prints on the screen | `Printf`, `Numerals` |

Not modelled: what `panic` prints; `dealloc_page`, which nothing calls and which takes a
physical address with flags for a pointer (`page.c:137`); `edit_pde` and `edit_pte`, stores
into a table of the caller; `set_pd.s`; `timer_phase`, which nothing calls, and the wrap of
`timer_ticks` after seven years; `memmove`, `memcmp`, `abort`, `term_putat` and the search
`_find_free_frame`, which nothing built calls; what lies behind the bitmap once every frame
is in use (`bitmap.c:82`) and behind a full `mmap.regions` (`mmap.c:33`), which is a matter of
the link; requests within 16 bytes of 2^32 (`kmem.c:45`); and the sources no `make.config`
names (`kheap.c`, `buddy.c`, `slab.c`, `map.c`, `fs/`, `sched.c`).

What makes each component correct, in a line: the heap list tiles the heap and
covers its owners; a frame has one owner and its bit says so; what must not be
handed out is marked at boot; a mapped page reaches its frame; every interrupt
is ended in its controllers and the waits end; handlers see the interrupt they
serve, and the tables lead the CPU to them; a modifier bit follows its keys; the
screen heals after a race; `printf` prints the format it was given, with the
numerals of its arguments, and returns.

## The modules

Names in the modules are those of the code. A definition that nothing uses, above
one that it resembles, is not part of any specification: it stands for a plausible
bug, and `PROJECT.json` ("mutants") says which definition it replaces and which
property then fails.

**Kmem.** A header field is a function of the header's address (`next[s]` is
`s->next`), and addresses are offsets from 0xD0000000. `kmalloc` is a loop, so it is
several actions: `Kmalloc` (entry), `ScanTail`, one `Morecore` for each page, then
`ChopBlock` or `SkipBlock`, and `KmallocNull`; `kfree` is the action `Kfree`. Headers
absorbed by a merge keep their bytes, which is why a double `kfree` is harmless
until the next `kmalloc`; `stale` holds the pointers for which that is the case.
`Write` lets an owner overwrite its bytes. The loop bound of `kmem.c:131` is modelled
with its scaled pointer arithmetic and its wrap. `HeapContract` is the abstract
specification: disjoint intervals that stay where they are.

**FrameBitmap.** `used` is the set of 1 bits, `last_checked` the hint with its two
divisions by 8. `free_frame` is the function, and `FreeFrame` its calls for frames that are owned
and frames given back before. `FrameContract` is the abstract specification.

**BootMemory.** `create_mmap`, `kernel_bitmap_init` and `create_bitmap` one after the
other, the loop over frames one step at a time, with 64-bit addresses cut to a
word, section bounds in ints, and the shift test of `bitmap.c:151`. The `pause` of
`bitmap.c:140-145`, which waits for a key and changes nothing here, is left out.

**Paging.** Memory is a function from frames to tables; the directory maps itself,
and every access to a table goes through a window page and the TLB. The MMU may
cache any present translation at any time and drop it. The module is a composition:
`Pmm` is an instance of `FrameBitmap`, each `pmm_alloc` of `page.c` is its `GetFrame` in the
same step, and `kmem_morecore` is the heap asking for its next page. A routine that
takes two frames is two steps, so a translation can be cached in between. `Store` is the heap and
its users writing a page of it, where the TLB says. `dealloc_page_table` is the code as it is,
without a test: where there is no table it frees frame 0, through `free_frame` of the allocator.

Memory has been used before: a frame holds whatever is in `Ram`, and a new page table is not
cleared. The very first is a case in point: the first frame handed out is that of the `.boot`
section at 1 MB (`linker.ld:15-25`, `bitmap.c:170`), it becomes the table of the heap, and the words
of the multiboot header and of the code of `boot.s` in it are entries, 20 of them present. None leads
to `_initialPD` or `_initialPT`; those for the 33rd and 40th page of the heap lead to frames that may
be free. A page whose stale entry the CPU cached before `page.c` mapped it is in `speculated`;
`astray` says that such an entry led to a frame that can be handed out.

**Interrupts.** The main flow from `idt_init` to `kmain`, the 8259 pair with
priorities, cascade and spurious requests, the 8042 with its one-byte buffer, and
`irq_handler` in two steps, the routine and the end of interrupt. The handler calls
`unpause` when `pause_flag` is 1 (`keyboard.c:180`), and `unpause` tests it again.

**Descriptors, Frames.** `Descriptors` has the entries of the GDT and the IDT as the bytes
that `gdt.c` and `idt.c` shift together, and as the CPU takes them apart. `Frames` fills the
two tables and then interrupts: the CPU finds a stub through the gate of the vector,
CPU, stub and common stub push, the handler reads `struct regs`, and `iret` pops. The stack
is a sequence of named words. An exception may strike a handler. The 48 lines that make the gates
and the 48 stubs, written out in the code one by one, are one definition in the vector each
(`idt_init`, `Pushed`): compared line by line they agree with it, and a slip in a single one is
outside the model, as are the two registers that hold the tables' addresses and sizes.

**Keyboard.** `flags` against the keys really held down. The 0xE0 prefix has the top
bit set and so is ignored by the handler: left and right control, and left and
right alt, share a bit in the code and in the model.

**Terminal.** `term_putchar` split at each store to `term_x`, `term_y`, the screen or a
CRT port and at the loads before increments, `flash_screen` at its save, its blank, its restore and the waits, and a key
that prints between any two. The two loads that C leaves unordered (the arguments at
`tty.c:105`, the position at `tty.c:16`) are in one step. The history variable `text` is what was printed and typed, as
rows that never scroll off; the screen is compared with its last ones.

**Numerals, Printf.** `Numerals` has `itoa`, `ltoa`, `utoa` and `ultoa` a round at a time, on an
int of `WIDTH` values. `Printf` walks over the format as the gotos of `printf.c` do and calls
them; `vprintf`, whose code is a copy in `vprintf.c`, is a recursive function (`Printing`) that
gives its text in one go. A format is any sequence of characters, and a call has an argument
for every specifier that a format of its length can hold: what lies behind the arguments of a
call is outside the model.

## The runs

`tlc -config X.cfg M` for the module of each run. Passing runs:

| run | states | what it shows |
|---|---|---|
| MCKmem | 47,668 | list, ownership, double free, first fit, growth by exactly the pages needed, refinement of `HeapContract`; `kmalloc` returns but for the exact fit, and returns NULL only once its scaled bound has wrapped |
| MCFrameBitmap | 3,368 | bits are owners, the hint reaches the freed frame, refinement of `FrameContract` |
| MCBootMemory | 8,646 | reserved frames of the lower half, every frame from `kernel_start` to `kernel_end` and the one the bitmap begins in, which is none of the kernel's, end up marked, and nothing else is newly marked |
| MCPaging | 2,269,680 | on used memory, with tables that are not cleared, every page of the growing heap is mapped to a frame of its own across the edge of a table, and reached there but for stale entries; the kernel's mappings survive making and freeing tables; tables of `create_page_table` are zero |
| MCInterrupts | 11,816 | no line stays in service, a waiting byte has its interrupt, `pause_flag` is 1 only in `pause`; the waits end |
| MCFrames | 2,091 | the gates lead to the stubs in flat segments; stubs, `struct regs` and the return path agree |
| MCKeyboard | 129,024 | no phantom modifier |
| MCTerminal | 771,856 | position and cursor are right again after any race; until a key races, the screen shows the text, flashes included |
| MCPrintf | 102,497 | `printf` keeps the format, prints right numerals (but for negative longs and the least int) in the order of its arguments, agrees with `vprintf` and returns |

Runs that find the code at odds with its own comments ("findings" in
`PROJECT.json` quotes them):

- MCKmemReturns: `kmalloc` loops for ever when the last block is exactly the request
  and its header.
- MCBootBitmap: only the first page of the bitmap is marked.
- MCInterruptsPause: a key pressed before `idt_init` is loaded into port 0x60; `irq_remap` starts
  the interrupt controllers anew, which forget its request. Nothing reads the port, so the keyboard
  raises no interrupt again, and `pause` never ends. A key between `sti` and `keyboard_install`
  is lost likewise, to a null routine (`idt.c:274`); installing the handlers first cures that
  one only, reading port 0x60 once they are in place cures both.

### Other differences between code and comments

Met while reading and modelled as the code has them; no run states the comment.

- `bitmap.c:77` says the first free frame; the search starts at the twice divided hint
  (line 81) and passes over free frames below it.
- `bitmap.c:157` marks unusable regions as used, but for one at 2 GB or above the section
  bounds are negative ints (line 118). A region that begins below 2 GB and ends above has a
  frame number for its end that no bitmap reaches, and the loop faults behind the mapped
  memory; one that ends in the very last page has 0 for its end, and nothing of it is
  marked. `ReservedStayUsed` therefore speaks of regions that end in the lower half.
- `mmap.c:37` cuts lengths to 32 bits. A length that is a multiple of 4 GB becomes 0, which is
  how `mem_init.c:41` and `bitmap.c:124` know the end of the list: reserved regions behind such
  an entry are not marked. `ReservedStayUsed` leaves these out.
- `bitmap.c:152` frees usable frames only where another bit of the byte is set (line 151):
  on memory that was not zero, frames stay marked. `OnlyReservedUsed` therefore speaks
  of the bits that were not set before.
- `bitmap.c:170` marks the kernel from `kernel_start`, which `linker.ld:25` puts after the
  `.boot` section: that frame is left free, and is the first one handed out. `mem_init.c:60`
  compares the page behind the kernel with the one behind the region: a kernel that ends on the last
  page of its region gets a bitmap one page beyond it.
- `mmap.c:21` tests a flag of the multiboot header on the flags the boot loader passes,
  where the bit stands for the boot device.
- `page.c:104-107` does not clear a new table: pages that nobody mapped are present, and their
  stale TLB entries survive `set_page`, which does not flush. The heap then writes to the frame
  of the stale entry, be it a reserved one, one the machine lacks or one handed out to somebody else.
  `HeapIsMapped` says that the tables are right all the same, and the TLB but for such entries,
  until one has led to a frame that can be handed out: then a store of the heap may hit a table.
- `page.c:110-117` frees frame 0 when the directory has no table there.
- `page.c:125`: for the same reason a table made at an address that the CPU has cached in
  the meantime is cleared through the old translation, which wipes the table made
  there before and leaves the new one dirty. `NewTablesAreZero` is stated for a CPU that
  does not cache the address of its own accord. Nothing built makes a second table.
- `page.c:40` stores the window's virtual address where the new directory's frame belongs.
- `keyboard.c:124` clears the bit of alt along with that of the right shift; 0xFB is meant.
- `tty.c:76` ignores what is off the screen, `term_putchar` (line 105) does not look.
- `debug.c:26` restores the screen over what the keyboard printed during the flash.
- `gdt.c:87` and `idt.c:172` put the size of a table in its register, where the CPU wants the
  size less one.
- `idt.c:245` prints `esp` as `cr2`.
- `printf.c:36` cannot make the least int positive; `printf.c:28` lets base 1 through;
  `printf.c:66-84` forgets the sign, so `%l` of a negative number has none; and the number
  of characters `printf` returns leaves out the conversions.

### Bounds, and why they are enough

- Heap: header 2, grain 2, pages of 8 bytes and up to four of them. The requests
  contain one chopped from the first page, one that fits exactly, and ones that need
  growth by one page or two. `WORD` is 256, so that the scaled loop bound wraps at the
  last page. `MaxPages` bounds the page frames.
- Frames: elements of 2 bits and 12 frames, so the twice divided hint takes
  several values; reserved frames at the start and in between.
- Boot: pages of 4 bytes, bytes of 2 bits, 8-bit addresses; maps with gaps, ends that
  are not aligned, regions out of order, in the upper half, from one half to the other,
  above the last address, one that reaches past the mapped memory, and one whose length
  is cut to 0. The memory held zeros, ones, or every third bit.
- Paging: 6 entries to a table and 10 frames in a bitmap with elements of 2 bits, one of them
  free among those of boot; a heap of two pages, the last of one table and the first of the next,
  a place for new tables in a third, one table to free once (`MaxDead`), the TLB over all of them
  and their windows. Every frame begins with words like those of the multiboot header: at the
  heap's pages one that leads to frame 0 and one that leads outside the machine, at the
  place of new tables one that leads to a frame that can be handed out, so that `astray`
  happens. Deadlock is not checked, since the frames run out.
- Frames: all 48 vectors, stubs at addresses with a carry between two bytes, and two error
  codes. One exception within a handler is all there can be, since `isr_handler` halts.
- Interrupts: the slave is represented by the clock, line 8; two bytes wait behind
  the keyboard's buffer; 3 ticks as in the code.
- Terminal: a screen of 3 by 2, registers of 4 values, four characters of the main
  flow, two keys and one flash, which is what `arch_init` makes. Deadlock is not checked,
  since the prints are bounded.
- Printf: every format of four characters over a percent, `%d`, `%x`, `%l`, `%s` and a character
  that is no specifier, with nine pairs of arguments; of seven over three kinds, so that a bad
  specifier stands between good ones; and each of the 512 numbers of 9 bits in each
  conversion.

### Fairness

Only `Kmem`, `Interrupts` and `Printf` have liveness properties. In `Kmem` and
`Printf` it is weak fairness of the only thread inside a loop. In `Interrupts` the
timer ticks, the user keeps pressing keys, and handlers end; the main flow and the
delivery of a line are strongly fair, and again and again no handler runs and only
the keyboard may be waiting. The last three say that handlers are much shorter than
a tick, so the CPU returns to the main flow between ticks; without them interrupts
could starve it for ever. No fairness is assumed for releases, other lines or
spurious requests. Fairness of `Pause` within `Main` is not assumed on its own: the
main flow may idle instead.

## The proofs

`tlapm X_proof.tla` checks the proofs about `X`, for every value of the constants that
satisfies the ASSUMEs of `X`. Each rests on an inductive invariant that TLC was run on
before it was proved (that of `BootMemory` with its quantifier over Nat bounded), with one lemma for each action or group of actions that shows
what the step keeps.

| module | theorems (property) |
|---|---|
| `Kmem_proof` | `TypeCorrect`, `Tiling`, `Coalesced`, `LastFree`, `Ownership`, `FreedTwice`, `NoLeak`, `FirstFitHolds`, `Tight`, `NullAfterWrap`, `Refinement` of `HeapContract` |
| `FrameBitmap_proof` | `TypeCorrect`, `BitsExact`, `FreedReached`, `Refinement` of `FrameContract` |
| `BootMemory_proof` | `ReservedAreUsed`, `KernelIsUsed`, `NothingLost` |
| `Paging_proof` | `KernelMappings`, `HeapMapped`, `NewTablesZero`, `FramesFromAllocator`, `PresentTablesAreOwned` |
| `Interrupts_proof` | `Typed`, `Served`, `BytesAnnounced`, `FlagInPauseAlone`; of `Keyboard`: `NoPhantoms`, `ShiftsFollow` |
| `Frames_proof` | `GateRoundTrip`, `SegmentRoundTrip`, `Led`, `Seen`, `Restored` |
| `Terminal_proof` | `Inside`, `CursorFollows`, `ScreenIsText` |
| `Printf_proof` | `Invariant`, `NumeralsRight` (`TextIsNumeral`), `FormatKept` (`FormatIsKept`), `SameText` (`SameTextAsVprintf`) |

**Kmem_proof.** Assumptions: sizes are natural, a page holds two headers with room to
spare, and no request is so near to 2^32 that rounding overflows. The properties
are not inductive alone: that a freed pointer's header says FREE
depends on which bytes an owner can write, and that depends on the tiling. `IInv`
joins the type invariant, the tiling, coalescing, the last block being free,
ownership, and the states of the scan. One lemma for each action (`Kfree` by its four
merges) shows that the step keeps each conjunct. From it follow `TypeCorrect`,
`Tiling`, `Coalesced`, `LastFree` (so `kmem.c:111-119` is dead code), `Ownership`, `FreedTwice`,
`NoLeak` (a block that is not the head has a predecessor), `FirstFitHolds` (a second
induction over the scan), `Tight` (a third, over the growth: the scan meets the tail
only when the last block is too small, so `size_req` does not wrap, and each page
mapped moves from what is to do to the last block), `NullAfterWrap` (the scan is at a
block, below the bound of the loop unless that wrapped) and `Refinement` of
`HeapContract`. These are all the safety properties that MCKmem checks.

**FrameBitmap_proof.** `IInv` adds to `TypeOK` and `BitsAreOwners` where the hint is after a
free. It gives `TypeCorrect`, `BitsExact`, `FreedReached` (by division twice, the search starts
at or below the frame) and `Refinement` of `FrameContract`: all the properties MCFrameBitmap
checks.

**BootMemory_proof.** Assumptions: the low memory ends at a byte of the bitmap and below the
kernel, which is page-aligned and whose end and the page behind it are below 4 GB; the memory
that `boot.s` maps is too little for a bitmap that reaches the upper half; an entry of the boot
loader's map has a length and does not begin in the page of the reset vector. What the
loop marks is not true of every state: when a section runs from the lower half into the
upper, its end is beyond every bitmap and the loop marks frames that are not its own, up to
the page fault. `BInv` says so with `Doomed`: either the loop in progress is bound to
fault, or every frame it went over is marked as far as it is reserved (`ReservedMarked`: up
to region `region` and frame `i`) and nothing is marked without a reason
(`OnlyReservedMarked`). A section that starts in the upper half never starts its loop or
is doomed from the start (`FrameOfFacts`). `KernelAndBitmapApart` speaks of addresses
(`Touches`), the loops of frame numbers; `KernelFrames` and `BitmapFrames` show that no frame with a
byte of the kernel is left out, whatever its end within a page. The proof is what showed that `ReservedStayUsed` cannot be
meant of entries that end in the upper half or lie behind one of length 0.

**Paging_proof.** One hypothesis, `HarmlessContents`: no word that RAM held at boot, and none that
the users of the heap write, is an entry for `_initialPD` or `_initialPT`. The `.boot` frame satisfies
it (see **Paging** above). Two invariants. `KernelInv` says that the allocator keeps boot's frames,
that the kernel's page table and the taken entries of its directory are as `boot.s` made them,
and that no other entry, and nothing in the TLB, leads to a frame of boot. It gives
`KernelMappings`, with tables freed and stale translations included. `MappingInv` adds, until a
table is freed or a stale entry has gone astray: every frame has one role (`OneRole`), the tables
map the pages of the heap to the frames they were given, whatever else they hold, and the TLB agrees
with them but for the pages in `speculated`. It gives `HeapMapped` and `NewTablesZero`, for tables of
any size and a heap over any number of them. `FramesFromAllocator` says that every step of the
composition is one of the allocator's, but for the call of `dealloc_page_table` that frees frame 0.
With tables freed only where they are (`DeallocatesTable`), `PresentTablesAreOwned` has
`Spec => Pmm!Spec`: what `FrameBitmap_proof` proves of bits, owners and hint then holds
with `page.c` as the caller.

**Interrupts_proof.** Assumptions: which lines there are, and that the keyboard's queue has
room. `AllServed` speaks of states in which no handler runs, and `ByteHasInterrupt` of a byte that
no handler is about to read, so both need what is true inside `irq_handler`: in service is
the interrupt in progress and its line on the master (`InService`), handlers are on their own
lines (`OwnLines`), handlers run with interrupts off (`HandlerRuns`), and a byte has one
interrupt, not two (`OneInterrupt`), which `BytesAnnounced` states as well.

The end of the module is about the handler of the keyboard's line: the module extends
`Keyboard` as well, whose specification is `KeyboardSpec`. Assumption: no letter is a modifier or a lock. `NoPhantomModifier` and
`ShiftFollowsKeys` are inductive as they stand. `ReleaseClears` carries them: the mask of a
release clears the bit of its key, and no other bit but that of alt. The bug in
`keyboard.c:124` stays within that: it clears too much, never too little.

**Frames_proof.** `GateRoundTrip` and `SegmentRoundTrip` are the arithmetic of the descriptors: the
CPU reads what the code wrote, for every address, limit and flags. The properties of
`Frames` need the stack below the innermost interrupt: `IInv` says which words lie there by
name and position in each of the stages (CPU, stub, common stub), that a dummy code is
there exactly where the CPU pushed none, and that an IRQ, which interrupts only main,
has all of the stack. From it follow `Led`, `Seen` and `Restored`, wherever the linker puts the
48 stubs (`StubAt` is any injection into addresses) and whatever error codes there are.

**Terminal_proof.** Assumptions: the screen has two columns at least, its positions fit the
two registers of the CRT controller, and letters are no control characters. Three
invariants, one upon the other. `PositionInv` says at which steps `term_x` and `term_y` may be
past the edge, and that what was loaded is one more than a position on the screen: a key between
load and store then changes what is overwritten, never where it can end. `CursorInv`
follows the four port writes of a putchar that no key interrupts. `ScreenInv` states
`ScreenShowsText` of `End`, what the screen and the position will be once the putchar or the flash
in progress has ended: every step of the main flow leaves `End` as it is, so the property is
proved once for a whole character (`PutEnd`) against `Written`, for the main flow and for a
key alike. `ScreenIsText` holds for any text, any bound on keys and flashes and any size of
the screen.

**Printf_proof.** Assumptions: an int has an even number of values, and what a call is (see
"The modules"). The properties are about recursively defined texts and numbers, so the proof
first earns its recursion and induction. The library's theorems for these take an operator as
parameter, which the provers cannot instantiate; here they are stated with sets and functions
instead. `LeastNumber` (a set of numbers has a least one) comes from the well-foundedness of
`<`; `Induction` and `RecursiveFunction` follow for any order that goes down in a bounded rank, and
then, for each recursive function of the models and for `FlattenSeq`, that it has the value
it is written to have (`DigitsFacts`, `MagnitudeFacts`, `FlattenFacts`, `UnescapingFacts`,
`PrintingFacts`). By induction over the digits, `Digits(n, b)` is the numeral of `n` in base `b`
(`DigitsAreNumeral`).

The properties speak of the end of a conversion or of a call, so `IInv` says what holds on the
way. `Converting`: the digits of the number are those still in `num` followed by those in
`buffer`, reversed. `AtSpecifier`: during a conversion the walk is at its specifier, and
arguments are taken at most one for each two characters, so `va_arg` has one to give.
`Kept`: the texts that the printed pieces stood for, followed by the rest of the format, are the
format. `Copied`: what was printed, followed by what `vprintf` prints from here, is what `vprintf`
prints. `AllNumbered`: the conversions printed have the arguments taken. One step then
moves a digit, a run or a conversion from one side to the other (`DigitStep`, `RunIsKept`,
`SpecifierIsKept`, `NumberedOfConversion`). The least int is left out of `Converting` and
`Copied`, as it is of the properties: its negation overflows (`printf.c:36`). `TextIsNumeral` is
about the number that the conversion was called with, and does not claim the value of a negative
long either: `ltoa` gets the sign ("Get the sign", `printf.c:75`) and drops it, so that `%l` of -5 is 5.

Only model-checked: liveness (`HangOnlyOnExactFit`, `FlashEnds`, `PauseEndsOrKeyboardLost`,
`Returns`), which is out of the prover's reach under fairness. Every safety property that a
passing run checks is a theorem.

## Plan

Done, in this order: heap and its proof, frames and their proof, keyboard,
interrupts, stack frames, screen, numerals, boot memory, page tables; then `printf`, the
descriptor tables and their proof, `flash_screen`, and page tables composed with the
frame allocator and the growing heap; then the proofs about the keyboard, interrupts, page
tables, boot memory, the screen, and `printf` with its conversions.

`BootMemory`, `Paging`, `Frames`, `Keyboard` and `Terminal` have their types in the invariants of
their proofs (`Typed`, `KernelTables`, `PositionInv`), and `Numerals` and `Printf` in `ConversionType` and
`WalkType` of theirs.

Next: the end of `itoa` and its siblings (the buffer index stays inside the local array);
`edit_pde` and `edit_pte` for tables of a caller; the
calls of `kmain` in their order as one run of the heap on `Paging`.
