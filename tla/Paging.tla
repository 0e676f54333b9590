------------------------------- MODULE Paging -------------------------------
(***************************************************************************)
(* Page tables: what boot.s sets up and page.c works on, with the frames   *)
(* that pmm_alloc gives it and the pages that the heap asks it for.  The   *)
(* directory maps itself in its last entry, so the code reaches the table  *)
(* of a virtual address through a window, a virtual page like any other,   *)
(* which the TLB caches like any other.                                    *)
(*                                                                         *)
(* A virtual page is a pair <<directory entry, table entry>>; an entry     *)
(* that is present holds a page frame, one that is not holds NONE.  The    *)
(* flags beside the present bit are left out.                              *)
(***************************************************************************)
EXTENDS Integers, Functions

CONSTANTS
  ENTRIES,      \* of a directory and of a table, 1024
  KERNEL_PT_NUMBER,
  FRAMES,       \* page frames of the machine
  BYTE,         \* bits of an element of the bitmap
  Reserved,     \* the frames that boot left marked
  INITIAL_PD, INITIAL_PT,  \* the frames of _initialPD and _initialPT
  HEAP_BASE,    \* the number of the heap's first virtual page, 0xD0000
  HEAP_PAGES,   \* bound on the pages of the heap
  Temps,        \* the virtual pages that new tables are made at
  Dead,         \* the directory entries that dealloc_page_table is called for
  MaxDead,      \* bound on those calls
  Contents,     \* what a frame can hold that page.c did not write
  Ram           \* the memories that the kernel can be loaded into

NONE == -1
HIGH == -2      \* a frame that the machine does not have, as 0xFFC00
RECURSIVE_PT == ENTRIES - 1
Index == 0..(ENTRIES - 1)
Frame == 0..(FRAMES - 1)
Table == [Index -> Frame \union {NONE, HIGH}]
Empty == [t \in Index |-> NONE]

VirtualPage(n) == <<n \div ENTRIES, n % ENTRIES>>
Heap == {VirtualPage(HEAP_BASE + n) : n \in 0..(HEAP_PAGES - 1)}
Taken == {0, KERNEL_PT_NUMBER, RECURSIVE_PT}

ASSUME PagingAssumption ==
  /\ ENTRIES \in Nat /\ FRAMES \in Nat /\ ENTRIES <= FRAMES
  /\ HEAP_BASE \in Nat /\ HEAP_PAGES \in Nat
  /\ KERNEL_PT_NUMBER \in 1..(ENTRIES - 2)
  /\ {INITIAL_PD, INITIAL_PT} \subseteq (Reserved \intersect Index) \ {0}
  /\ INITIAL_PD # INITIAL_PT
  /\ Reserved \subseteq Frame
  /\ Heap \union Temps \subseteq (Index \ Taken) \X Index
  /\ Heap \intersect Temps = {}
  /\ Dead \subseteq Index \ Taken /\ MaxDead \in Nat
  /\ Contents \subseteq Table /\ Ram \subseteq [Frame -> Contents]

VARIABLES
  used, last_checked, owned, returned, freed,  \* the frame allocator's
  mem,        \* the memory, as the table that each frame is or would be
  tlb,        \* cached translations, by virtual page
  op, virt,   \* the routine of page.c that was called, and its address
  page_frame, \* of create_page_table and create_page_dir
  pages,      \* total_length of the heap, in pages
  mapped,     \* history: the frame that each page of the heap was given
  made,       \* history: what each new table and directory should hold
  dead,       \* history: the number of calls of dealloc_page_table
  speculated, \* history: pages that the CPU cached before page.c mapped them
  astray      \* history: one of them led to a frame that can be handed out

pmm == <<used, last_checked, owned, returned, freed>>
call == <<op, virt, page_frame>>
history == <<mapped, made, dead, speculated, astray>>
vars == <<pmm, mem, tlb, call, pages, history>>

Pmm == INSTANCE FrameBitmap WITH NumFrames <- FRAMES

-----------------------------------------------------------------------------
\* init_paging: one table for the first 4MB, entered for the low addresses and
\* for the kernel's, and the directory's own entry.
InitialPT == [t \in Index |-> t]
InitialPD ==
  [d \in Index |-> CASE d \in {0, KERNEL_PT_NUMBER} -> INITIAL_PT
                     [] d = RECURSIVE_PT -> INITIAL_PD
                     [] OTHER -> NONE]

Init ==
  /\ Pmm!Init
  /\ \E ram \in Ram :
       mem = [ram EXCEPT ![INITIAL_PD] = InitialPD, ![INITIAL_PT] = InitialPT]
  /\ tlb = [v \in {} |-> NONE]
  /\ op = "none" /\ virt = <<0, 0>> /\ page_frame = NONE /\ pages = 0
  /\ mapped = [v \in {} |-> NONE] /\ made = [f \in {} |-> Empty]
  /\ dead = 0 /\ speculated = {} /\ astray = FALSE

-----------------------------------------------------------------------------
(* The MMU.                                                                *)

\* What the tables say of a virtual page.
Walk(m, v) ==
  LET pt == m[INITIAL_PD][v[1]]
  IN IF pt \in Frame THEN m[pt][v[2]] ELSE NONE

\* What an access finds.
Reaches(m, cache, v) == IF v \in DOMAIN cache THEN cache[v] ELSE Walk(m, v)

With(f, x, y) == [z \in DOMAIN f \union {x} |-> IF z = x THEN y ELSE f[z]]
FlushesNothing(cache, v) == cache
_flush_tlb(cache, v) == Restrict(cache, DOMAIN cache \ {v})

\* Where a page that page.c has not mapped can lead without harm to those that
\* it has: a page of Temps may have been left mapped to what was made there.
Aside(v) == Reserved \union {HIGH} \union {f \in DOMAIN made : v \in Temps}

\* The CPU may cache a translation whenever it is present, and drop it.
Prefetch(v) ==
  LET early == v \in (Heap \union Temps) \ DOMAIN mapped
  IN /\ Walk(mem, v) # NONE
     /\ tlb' = With(tlb, v, Walk(mem, v))
     /\ speculated' = IF early THEN speculated \union {v} ELSE speculated
     /\ astray' = (astray \/ (early /\ Walk(mem, v) \notin Aside(v)))
     /\ UNCHANGED <<pmm, mem, call, pages, mapped, made, dead>>

Evict(v) ==
  /\ v \in DOMAIN tlb
  /\ tlb' = Restrict(tlb, DOMAIN tlb \ {v})
  /\ UNCHANGED <<pmm, mem, call, pages, history>>

-----------------------------------------------------------------------------
(* page.c.  Each operator takes and gives a machine [m, cache].            *)

Machine == [m |-> mem, cache |-> tlb]
Becomes(s) == mem' = s.m /\ tlb' = s.cache

\* The virtual page where the table of v can be written.
WindowOfDirectory(v) == <<RECURSIVE_PT, RECURSIVE_PT>>
Window(v) == <<RECURSIVE_PT, v[1]>>

set_page_table(s, v, pt) ==
  [m |-> [s.m EXCEPT ![INITIAL_PD][v[1]] = pt], cache |-> _flush_tlb(s.cache, v)]

set_page(s, v, f) ==
  LET pt == Reaches(s.m, s.cache, Window(v))
  IN [m |-> [s.m EXCEPT ![pt][v[2]] = f], cache |-> With(s.cache, Window(v), pt)]

\* memset through temp_addr, which may fill the TLB.
memset(s, v) ==
  LET f == Reaches(s.m, s.cache, v)
  IN [m |-> [s.m EXCEPT ![f] = Empty], cache |-> With(s.cache, v, f)]

Flushed(s, v) == [s EXCEPT !.cache = _flush_tlb(s.cache, v)]

Present(v) == mem[INITIAL_PD][v[1]] # NONE

Call(routine, v) ==
  /\ op = "none"
  /\ op' = routine /\ virt' = v
  /\ UNCHANGED <<pmm, mem, tlb, page_frame, pages, history>>

\* kmem_init and kmem_morecore: alloc_map_page for the next page of the heap.
kmem_morecore ==
  /\ pages < HEAP_PAGES
  /\ Call("alloc_map_page", VirtualPage(HEAP_BASE + pages))

\* The heap and its users write their pages, and fill the TLB by it.
Store(v, data) ==
  /\ op = "none"
  /\ LET f == Reaches(mem, tlb, v)
     IN mem' = [mem EXCEPT ![f] = data] /\ tlb' = With(tlb, v, f)
  /\ UNCHANGED <<pmm, call, pages, history>>

\* map_page and alloc_map_page where there is no table.  The new one is not
\* cleared.
alloc_page_table ==
  /\ op = "alloc_map_page" \/ page_frame # NONE
  /\ ~Present(virt)
  /\ \E pt \in Frame : Pmm!GetFrame(pt) /\ Becomes(set_page_table(Machine, virt, pt))
  /\ UNCHANGED <<call, pages, history>>

\* The end of alloc_map_page, and the heap's total_length.
alloc_page ==
  /\ op = "alloc_map_page" /\ Present(virt)
  /\ \E f \in Frame :
       /\ Pmm!GetFrame(f) /\ Becomes(set_page(Machine, virt, f))
       /\ mapped' = With(mapped, virt, f)
  /\ op' = "none"
  /\ pages' = pages + 1
  /\ UNCHANGED <<virt, page_frame, made, dead, speculated, astray>>

\* The first pmm_alloc of create_page_table and create_page_dir.
PageFrame ==
  /\ op \in {"create_page_table", "create_page_dir"} /\ page_frame = NONE
  /\ \E f \in Frame : Pmm!GetFrame(f) /\ page_frame' = f
  /\ UNCHANGED <<mem, tlb, op, virt, pages, history>>

\* Their end, once map_page has a table: set_page, memset, the last entry of a
\* directory, and the flush.
Create ==
  /\ page_frame # NONE /\ Present(virt)
  /\ LET s == memset(set_page(Machine, virt, page_frame), virt)
         written == [s EXCEPT !.m[s.cache[virt]][RECURSIVE_PT] = HIGH]
         new == IF op = "create_page_dir" THEN [Empty EXCEPT ![RECURSIVE_PT] = HIGH] ELSE Empty
     IN /\ Becomes(Flushed(IF op = "create_page_dir" THEN written ELSE s, virt))
        /\ made' = With(made, page_frame, new)
  /\ op' = "none" /\ page_frame' = NONE
  /\ UNCHANGED <<pmm, virt, pages, mapped, dead, speculated, astray>>

\* The table's frame is freed and its directory entry cleared; its pages keep
\* their frames.  Where there is no table, the frame freed is frame 0.
dealloc_page_table(d) ==
  /\ op = "none" /\ dead < MaxDead
  /\ LET pt == mem[INITIAL_PD][d]
     IN Pmm!free_frame(IF pt = NONE THEN 0 ELSE pt)
  /\ mem' = [mem EXCEPT ![INITIAL_PD][d] = NONE]
  /\ dead' = dead + 1
  /\ UNCHANGED <<tlb, call, pages, mapped, made, speculated, astray>>

VirtualPages == Heap \union Temps \union {Window(v) : v \in Heap \union Temps}

Next ==
  \/ kmem_morecore \/ alloc_page_table \/ alloc_page
  \/ \E v \in Temps : Call("create_page_table", v) \/ Call("create_page_dir", v)
  \/ PageFrame \/ Create
  \/ \E n \in 0..(pages - 1), data \in Contents : Store(VirtualPage(HEAP_BASE + n), data)
  \/ \E d \in Dead : dealloc_page_table(d)
  \/ \E v \in VirtualPages : Prefetch(v) \/ Evict(v)

Spec == Init /\ [][Next]_vars

-----------------------------------------------------------------------------
\* Whatever a new table held, each page below the heap's total_length is mapped to
\* the used frame it was given, which no other page of the heap, no table and no
\* directory has, over the edge of a table too; and an access reaches that frame,
\* unless the CPU cached the page by a stale entry before set_page replaced it,
\* which does not flush.  This is as long as no stale entry that the CPU cached
\* led to a frame that can be handed out, where what the heap writes would hit a
\* table, and as long as no table was freed, since nothing flushes its window.
HeapIsMapped ==
  dead = 0 /\ ~astray => \A n \in 0..(pages - 1) :
    LET v == VirtualPage(HEAP_BASE + n)
        f == Walk(mem, v)
    IN /\ v \in DOMAIN mapped /\ f = mapped[v] /\ f \in used \ Reserved
       /\ v \in DOMAIN tlb => tlb[v] = f \/ v \in speculated
       /\ \A k \in 0..(pages - 1) \ {n} : Walk(mem, VirtualPage(HEAP_BASE + k)) # f
       /\ f \notin DOMAIN made /\ \A d \in Index : mem[INITIAL_PD][d] # f

\* Whatever is mapped, made, freed and written, the kernel's own mappings stay:
\* the two entries of the first table, its contents and the window on the tables.
KernelStaysMapped ==
  /\ mem[INITIAL_PT] = InitialPT
  /\ \A d \in Taken : mem[INITIAL_PD][d] = InitialPD[d]
  /\ {INITIAL_PD, INITIAL_PT} \subseteq used

\* A table or directory that was made is zero but for the last entry of a
\* directory, and stays so when more are made at the same address, since the TLB
\* is flushed after each: unless the CPU caches that address in between, for
\* set_page does not flush.
NewTablesAreZero ==
  dead = 0 /\ ~astray /\ speculated \intersect Temps = {} =>
    \A f \in DOMAIN made : mem[f] = made[f]
=============================================================================
