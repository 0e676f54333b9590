---------------------------- MODULE Paging_proof ----------------------------
(***************************************************************************)
(* Proofs about Paging, for tables of any size, any machine, any heap and  *)
(* any pages that tables are made at.                                      *)
(***************************************************************************)
EXTENDS Paging, TLAPS

\* The frames but those of the kernel's directory and page table, and the entries
\* of a page table through which these two cannot be reached.
Others   == Frame \ {INITIAL_PD, INITIAL_PT}
Harmless == Others \union {NONE, HIGH}

\* What RAM holds at boot, and what the heap's users write: neither of the two can
\* be reached through it.
HarmlessContents == \A c \in Contents : \A t \in Index : c[t] \in Harmless

Creates == {"create_page_table", "create_page_dir"}

\* The allocator never hands out the two.
AllocatorKeepsTwo == {INITIAL_PD, INITIAL_PT} \subseteq used /\ used \subseteq Frame

\* Of the two only the entries of the directory that are not Taken ever change,
\* and they point at other frames.
KernelTables(m) ==
  /\ m \in [Frame -> Table]
  /\ m[INITIAL_PT] = InitialPT
  /\ \A d \in Taken : m[INITIAL_PD][d] = InitialPD[d]
  /\ \A d \in Index \ Taken : m[INITIAL_PD][d] \in Others \union {NONE}
  /\ \A f \in Others, t \in Index : m[f][t] \in Harmless

\* Nor does the TLB, stale or not, lead to one of the two.
HarmlessTlb(cache) ==
  /\ DOMAIN cache \subseteq VirtualPages
  /\ \A v \in DOMAIN cache : cache[v] \in Harmless

\* The call in progress is for the heap's next page, or for a page of Temps.
CallInProgress ==
  /\ op \in {"none", "alloc_map_page"} \union Creates
  /\ op = "alloc_map_page" => pages < HEAP_PAGES /\ virt = VirtualPage(HEAP_BASE + pages)
  /\ op \in Creates => virt \in Temps
  /\ page_frame \in Others \union {NONE}
  /\ page_frame # NONE => op \in Creates
  /\ pages \in 0..HEAP_PAGES

KernelInv ==
  AllocatorKeepsTwo /\ KernelTables(mem) /\ HarmlessTlb(tlb) /\ CallInProgress

-----------------------------------------------------------------------------
(* What holds beside it as long as no table was freed.                     *)

\* The table that the directory has for entry d.
TableOf(d) == mem[INITIAL_PD][d]

\* The pages below total_length are the ones that were given a frame.
HeapSoFar == DOMAIN mapped = {VirtualPage(HEAP_BASE + n) : n \in 0..(pages - 1)}

\* Each frame handed out has one role: a table, a page of the heap, or a frame
\* that was made or is being made a table or directory of its own.
OneRole ==
  /\ Reserved \subseteq used
  /\ \A d, e \in Index \ Taken : TableOf(d) = TableOf(e) /\ TableOf(d) # NONE => d = e
  /\ \A v, w \in DOMAIN mapped : mapped[v] = mapped[w] => v = w
  /\ \A d \in Index \ Taken : TableOf(d) # NONE =>
       /\ TableOf(d) \in used \ Reserved
       /\ TableOf(d) \notin DOMAIN made \union {page_frame}
       /\ \A v \in DOMAIN mapped : TableOf(d) # mapped[v]
  /\ \A v \in DOMAIN mapped : /\ mapped[v] \in used \ Reserved
                              /\ mapped[v] \notin DOMAIN made \union {page_frame}
  /\ DOMAIN made \subseteq used \ Reserved
  /\ page_frame \in (used \ (Reserved \union DOMAIN made)) \union {NONE}

\* The virtual pages outside the kernel's own directory entries.
UserPages == (Index \ Taken) \X Index

\* The tables map the pages of the heap to their frames.
TablesSay == \A v \in DOMAIN mapped : Walk(mem, v) = mapped[v]

\* The windows in the TLB are those on the tables.
WindowsAgree ==
  \A d \in Index \ Taken : <<RECURSIVE_PT, d>> \in DOMAIN tlb =>
    tlb[<<RECURSIVE_PT, d>>] = TableOf(d) /\ TableOf(d) # NONE

\* A page in the TLB has its frame there, unless the CPU cached it too early.
StaleAside ==
  \A v \in DOMAIN tlb \intersect (Heap \union Temps) :
    \/ v \in DOMAIN mapped /\ tlb[v] = mapped[v]
    \/ v \in speculated /\ tlb[v] \in Aside(v)

Mapping == HeapSoFar /\ OneRole /\ TablesSay /\ WindowsAgree /\ StaleAside /\ NewTablesAreZero

MappingInv == dead \in Nat /\ (dead = 0 /\ ~astray => Mapping)

-----------------------------------------------------------------------------
(* The constants.                                                          *)

\* The kernel's frames and directory entries.
LEMMA KernelFacts ==
  /\ INITIAL_PD \in Frame \intersect Index /\ INITIAL_PT \in Frame \intersect Index
  /\ INITIAL_PD \in Reserved /\ INITIAL_PT \in Reserved /\ INITIAL_PD # INITIAL_PT
  /\ Index \subseteq Frame /\ Reserved \subseteq Frame
  /\ Taken \subseteq Index /\ RECURSIVE_PT \in Taken
  /\ InitialPD[RECURSIVE_PT] = INITIAL_PD
  /\ NONE \notin Frame /\ HIGH \notin Frame /\ NONE # HIGH
  /\ 0 \in Others
<1>1. /\ Index \subseteq Frame
      /\ NONE \notin Frame /\ HIGH \notin Frame /\ NONE # HIGH
  BY PagingAssumption DEF Index, Frame, NONE, HIGH
<1>2. /\ Taken \subseteq Index /\ RECURSIVE_PT \in Taken
      /\ RECURSIVE_PT \notin {0, KERNEL_PT_NUMBER}
  BY PagingAssumption DEF Taken, RECURSIVE_PT, Index
<1>3. 0 \in Others
  BY PagingAssumption DEF Others, Frame, Index
<1> QED
  BY <1>1, <1>2, <1>3, PagingAssumption DEF InitialPD

\* The pages that page.c works on are outside the kernel's directory entries.
LEMMA PageFacts ==
  ASSUME NEW v \in Heap \union Temps
  PROVE  /\ v[1] \in Index \ Taken /\ v[2] \in Index /\ v = <<v[1], v[2]>>
         /\ v \in VirtualPages /\ Window(v) \in VirtualPages
BY PagingAssumption DEF VirtualPages

\* The heap's next page is one of its pages.
LEMMA NextPage ==
  ASSUME NEW n \in 0..HEAP_PAGES, n < HEAP_PAGES
  PROVE  VirtualPage(HEAP_BASE + n) \in Heap
<1>1. n \in 0..(HEAP_PAGES - 1)
  BY PagingAssumption
<1> QED
  BY <1>1 DEF Heap

-----------------------------------------------------------------------------
(* The parts of page.c, on any machine.                                    *)

\* A translation leads to no kernel structure.
LEMMA WalkHarmless ==
  ASSUME NEW m, KernelTables(m), NEW v \in VirtualPages
  PROVE  Walk(m, v) \in Harmless
<1>1. CASE v \in Heap \union Temps
  <2>1. m[INITIAL_PD][v[1]] \in Others \union {NONE}
    BY <1>1, PageFacts DEF KernelTables
  <2> QED
    BY <1>1, <2>1, PageFacts, KernelFacts DEF KernelTables, Walk, Harmless, Others
<1>2. ASSUME NEW w \in Heap \union Temps, v = Window(w)
      PROVE  Walk(m, v) \in Harmless
  <2>1. v[1] = RECURSIVE_PT /\ v[2] = w[1]
    BY <1>2 DEF Window
  <2>2. m[INITIAL_PD][RECURSIVE_PT] = INITIAL_PD
    BY KernelFacts DEF KernelTables
  <2>3. Walk(m, v) = m[INITIAL_PD][w[1]]
    BY <2>1, <2>2, KernelFacts DEF Walk
  <2> QED
    BY <2>3, PageFacts DEF KernelTables, Harmless
<1> QED
  BY <1>1, <1>2 DEF VirtualPages

\* Nor does an access through the TLB.
LEMMA ReachesHarmless ==
  ASSUME NEW m, KernelTables(m), NEW cache, HarmlessTlb(cache), NEW v \in VirtualPages
  PROVE  Reaches(m, cache, v) \in Harmless
BY WalkHarmless DEF Reaches, HarmlessTlb

\* Writing a harmless entry where a harmless entry leads, or harmless contents,
\* leaves the kernel's tables alone.
LEMMA WriteKeeps ==
  ASSUME NEW m, KernelTables(m), NEW g \in Harmless, NEW t \in Index,
         NEW e \in Harmless
  PROVE  /\ KernelTables([m EXCEPT ![g][t] = e])
         /\ \A row \in Table :
              (\A i \in Index : row[i] \in Harmless) => KernelTables([m EXCEPT ![g] = row])
<1>1. g # INITIAL_PD /\ g # INITIAL_PT /\ (g \in Frame => g \in Others)
  BY KernelFacts DEF Harmless, Others
<1>2. e \in Frame \union {NONE, HIGH} /\ NONE \in Harmless
  BY DEF Harmless, Others
<1>3. ASSUME NEW row, g \in Frame => row \in Table /\ \A i \in Index : row[i] \in Harmless
      PROVE  KernelTables([m EXCEPT ![g] = row])
  <2>1. [m EXCEPT ![g] = row] \in [Frame -> Table]
    BY <1>3 DEF KernelTables
  <2>2. \A f \in Frame : [m EXCEPT ![g] = row][f] = IF f = g THEN row ELSE m[f]
    BY DEF KernelTables
  <2> QED
    BY <1>1, <1>3, <2>1, <2>2, KernelFacts DEF KernelTables, Others
<1>4. g \in Frame => [m[g] EXCEPT ![t] = e] \in Table
                     /\ \A i \in Index : [m[g] EXCEPT ![t] = e][i] \in Harmless
  <2> SUFFICES ASSUME g \in Frame
               PROVE  /\ [m[g] EXCEPT ![t] = e] \in Table
                      /\ \A i \in Index : [m[g] EXCEPT ![t] = e][i] \in Harmless
    OBVIOUS
  <2>1. m[g] \in Table /\ \A i \in Index : m[g][i] \in Harmless
    BY <1>1 DEF KernelTables
  <2> QED
    BY <1>2, <2>1 DEF Table
<1> QED
  BY <1>3, <1>4

\* A new entry of the directory outside the kernel's leaves them alone, too.
LEMMA EnterKeeps ==
  ASSUME NEW m, KernelTables(m), NEW d \in Index \ Taken, NEW e \in Others \union {NONE}
  PROVE  KernelTables([m EXCEPT ![INITIAL_PD][d] = e])
<1>1. m[INITIAL_PD] \in Table /\ INITIAL_PD \in Frame
  BY KernelFacts DEF KernelTables
<1> DEFINE row == [m[INITIAL_PD] EXCEPT ![d] = e]
<1>2. row \in Table /\ \A i \in Index : row[i] = IF i = d THEN e ELSE m[INITIAL_PD][i]
  BY <1>1 DEF Table, Others
<1> HIDE DEF row
<1>3. [m EXCEPT ![INITIAL_PD] = row] \in [Frame -> Table]
  BY <1>1, <1>2 DEF KernelTables
<1>4. \A f \in Frame : [m EXCEPT ![INITIAL_PD] = row][f] = IF f = INITIAL_PD THEN row ELSE m[f]
  BY DEF KernelTables
<1>5. KernelTables([m EXCEPT ![INITIAL_PD] = row])
  BY <1>2, <1>3, <1>4, KernelFacts DEF KernelTables, Others
<1> QED
  BY <1>5 DEF row

\* Filling and flushing the TLB.
LEMMA CacheKeeps ==
  ASSUME NEW cache, HarmlessTlb(cache), NEW v
  PROVE  /\ HarmlessTlb(_flush_tlb(cache, v))
         /\ \A e \in Harmless : v \in VirtualPages => HarmlessTlb(With(cache, v, e))
<1>1. HarmlessTlb(_flush_tlb(cache, v))
  BY DEF HarmlessTlb, _flush_tlb, Restrict
<1>2. ASSUME NEW e \in Harmless, v \in VirtualPages
      PROVE  HarmlessTlb(With(cache, v, e))
  <2>1. DOMAIN With(cache, v, e) = DOMAIN cache \union {v}
    BY DEF With
  <2>2. \A z \in DOMAIN cache \union {v} : With(cache, v, e)[z] = IF z = v THEN e ELSE cache[z]
    BY DEF With
  <2> QED
    BY <1>2, <2>1, <2>2 DEF HarmlessTlb
<1> QED
  BY <1>1, <1>2

\* set_page_table keeps the kernel's tables and the TLB.
LEMMA SetPageTableKeeps ==
  ASSUME NEW s, KernelTables(s.m), HarmlessTlb(s.cache),
         NEW v \in Heap \union Temps, NEW pt \in Others
  PROVE  /\ KernelTables(set_page_table(s, v, pt).m)
         /\ HarmlessTlb(set_page_table(s, v, pt).cache)
BY PageFacts, EnterKeeps, CacheKeeps DEF set_page_table

\* So does set_page, wherever the window on the table leads.
LEMMA SetPageKeeps ==
  ASSUME NEW s, KernelTables(s.m), HarmlessTlb(s.cache),
         NEW v \in Heap \union Temps, NEW f \in Others
  PROVE  /\ KernelTables(set_page(s, v, f).m)
         /\ HarmlessTlb(set_page(s, v, f).cache)
<1> DEFINE pt == Reaches(s.m, s.cache, Window(v))
<1>1. pt \in Harmless /\ f \in Harmless /\ v[2] \in Index /\ Window(v) \in VirtualPages
  BY PageFacts, ReachesHarmless DEF Harmless
<1> HIDE DEF pt
<1>2. KernelTables([s.m EXCEPT ![pt][v[2]] = f]) /\ HarmlessTlb(With(s.cache, Window(v), pt))
  BY <1>1, WriteKeeps, CacheKeeps
<1> QED
  BY <1>2 DEF set_page, pt

\* So does memset, whatever the TLB has for its address.
LEMMA MemsetKeeps ==
  ASSUME NEW s, KernelTables(s.m), HarmlessTlb(s.cache), NEW v \in Heap \union Temps
  PROVE  /\ KernelTables(memset(s, v).m)
         /\ HarmlessTlb(memset(s, v).cache)
<1> DEFINE f == Reaches(s.m, s.cache, v)
<1>1. f \in Harmless /\ v \in VirtualPages
  BY PageFacts, ReachesHarmless
<1>2. v[2] \in Index /\ NONE \in Harmless
  BY PageFacts DEF Harmless
<1> HIDE DEF f
<1>3. KernelTables([s.m EXCEPT ![f] = Empty]) /\ HarmlessTlb(With(s.cache, v, f))
  <2>1. Empty \in Table /\ \A i \in Index : Empty[i] \in Harmless
    BY DEF Empty, Table, Harmless
  <2> QED
    BY <1>1, <1>2, <2>1, WriteKeeps, CacheKeeps
<1> QED
  BY <1>3 DEF memset, f

-----------------------------------------------------------------------------
(* KernelInv, action by action.                                            *)

\* A frame from pmm_alloc was not in use, and is no frame of boot's.
LEMMA FreshFrame ==
  ASSUME AllocatorKeepsTwo, NEW f \in Frame, Pmm!GetFrame(f)
  PROVE  /\ f \in Others /\ f \notin used /\ used' = used \union {f}
         /\ AllocatorKeepsTwo'
BY DEF AllocatorKeepsTwo, Others,
       Pmm!GetFrame, Pmm!FirstClear, Pmm!MarkUsed, Frame, Pmm!Frame

\* Boot leaves the invariant true.
LEMMA InitKernelInv ==
  ASSUME HarmlessContents, Init
  PROVE  KernelInv
<1>1. AllocatorKeepsTwo
  BY KernelFacts DEF Init, Pmm!Init, AllocatorKeepsTwo
<1>2. KernelTables(mem)
  <2>1. PICK ram \in [Frame -> Contents] :
          mem = [ram EXCEPT ![INITIAL_PD] = InitialPD, ![INITIAL_PT] = InitialPT]
    BY PagingAssumption DEF Init
  <2>2. /\ mem[INITIAL_PD] = InitialPD /\ mem[INITIAL_PT] = InitialPT
        /\ \A f \in Others : mem[f] = ram[f]
    BY <2>1, KernelFacts DEF Others
  <2>3. InitialPD \in Table /\ InitialPT \in Table /\ Contents \subseteq Table
    BY KernelFacts, PagingAssumption DEF InitialPD, InitialPT, Table
  <2>4. mem \in [Frame -> Table]
    BY <2>1, <2>3
  <2>5. \A d \in Index \ Taken : InitialPD[d] = NONE
    BY DEF InitialPD, Taken
  <2>6. \A f \in Others, t \in Index : mem[f][t] \in Harmless
    BY <2>1, <2>2 DEF HarmlessContents, Others
  <2> QED
    BY <2>2, <2>4, <2>5, <2>6 DEF KernelTables
<1>3. HarmlessTlb(tlb)
  BY DEF Init, HarmlessTlb
<1>4. CallInProgress
  BY PagingAssumption DEF Init, CallInProgress, Creates
<1> QED
  BY <1>1, <1>2, <1>3, <1>4 DEF KernelInv

\* The virtual page of the call in progress.
LEMMA CallPage ==
  ASSUME CallInProgress, op # "none"
  PROVE  virt \in Heap \union Temps
BY NextPage DEF CallInProgress, Creates

\* A call for a page.
LEMMA CallStep ==
  ASSUME KernelInv, kmem_morecore \/ \E v \in Temps : \E routine \in Creates : Call(routine, v)
  PROVE  KernelInv'
<1>1. UNCHANGED <<pmm, mem, tlb, page_frame, pages>>
  BY DEF kmem_morecore, Call
<1>2. CallInProgress'
  BY <1>1 DEF KernelInv, CallInProgress, Creates, kmem_morecore, Call
<1> QED
  BY <1>1, <1>2
     DEF KernelInv, AllocatorKeepsTwo, KernelTables, HarmlessTlb, pmm

\* A table where there is none.
LEMMA AllocPageTableStep ==
  ASSUME KernelInv, alloc_page_table
  PROVE  KernelInv'
<1>1. PICK pt \in Frame : Pmm!GetFrame(pt) /\ Becomes(set_page_table(Machine, virt, pt))
  BY DEF alloc_page_table
<1>2. pt \in Others /\ AllocatorKeepsTwo'
  BY <1>1, FreshFrame DEF KernelInv
<1>3. virt \in Heap \union Temps
  BY CallPage DEF KernelInv, alloc_page_table, CallInProgress, Creates
<1>4. KernelTables(Machine.m) /\ HarmlessTlb(Machine.cache)
  BY DEF KernelInv, Machine
<1>5. KernelTables(mem') /\ HarmlessTlb(tlb')
  BY <1>1, <1>2, <1>3, <1>4, SetPageTableKeeps DEF Becomes
<1>6. CallInProgress'
  BY DEF KernelInv, CallInProgress, alloc_page_table, call
<1> QED
  BY <1>2, <1>5, <1>6 DEF KernelInv, KernelTables, HarmlessTlb

\* A page of the heap.
LEMMA AllocPageStep ==
  ASSUME KernelInv, alloc_page
  PROVE  KernelInv'
<1>1. PICK f \in Frame : Pmm!GetFrame(f) /\ Becomes(set_page(Machine, virt, f))
  BY DEF alloc_page
<1>2. f \in Others /\ AllocatorKeepsTwo'
  BY <1>1, FreshFrame DEF KernelInv
<1>3. virt \in Heap \union Temps
  BY CallPage DEF KernelInv, alloc_page
<1>4. KernelTables(Machine.m) /\ HarmlessTlb(Machine.cache)
  BY DEF KernelInv, Machine
<1>5. KernelTables(mem') /\ HarmlessTlb(tlb')
  BY <1>1, <1>2, <1>3, <1>4, SetPageKeeps DEF Becomes
<1>6. CallInProgress'
  BY PagingAssumption DEF KernelInv, CallInProgress, Creates, alloc_page
<1> QED
  BY <1>2, <1>5, <1>6 DEF KernelInv, KernelTables, HarmlessTlb

\* The frame of a table or directory to be made.
LEMMA PageFrameStep ==
  ASSUME KernelInv, PageFrame
  PROVE  KernelInv'
<1>1. PICK f \in Frame : Pmm!GetFrame(f) /\ page_frame' = f
  BY DEF PageFrame
<1>2. f \in Others /\ AllocatorKeepsTwo'
  BY <1>1, FreshFrame DEF KernelInv
<1>3. CallInProgress'
  BY <1>1, <1>2 DEF KernelInv, CallInProgress, Creates, PageFrame
<1> QED
  BY <1>2, <1>3 DEF KernelInv, KernelTables, HarmlessTlb, PageFrame

\* A table or directory is made.
LEMMA CreateStep ==
  ASSUME KernelInv, Create
  PROVE  KernelInv'
<1> DEFINE s0 == set_page(Machine, virt, page_frame)
           s == memset(s0, virt)
           written == [s EXCEPT !.m[s.cache[virt]][RECURSIVE_PT] = HIGH]
<1>1. virt \in Heap \union Temps /\ page_frame \in Others
  BY CallPage DEF KernelInv, CallInProgress, Creates, Create
<1>2. KernelTables(Machine.m) /\ HarmlessTlb(Machine.cache)
  BY DEF KernelInv, Machine
<1>3. KernelTables(s0.m) /\ HarmlessTlb(s0.cache)
  BY <1>1, <1>2, SetPageKeeps
<1> HIDE DEF s0
<1>4. KernelTables(s.m) /\ HarmlessTlb(s.cache)
  BY <1>1, <1>3, MemsetKeeps
<1>5. s.cache[virt] \in Harmless /\ s = [m |-> s.m, cache |-> s.cache]
  <2>1. virt \in DOMAIN s.cache
    BY DEF memset, With
  <2> QED
    BY <1>4, <2>1 DEF HarmlessTlb, memset
<1> HIDE DEF s
<1>6. /\ written = [m |-> [s.m EXCEPT ![s.cache[virt]][RECURSIVE_PT] = HIGH], cache |-> s.cache]
      /\ KernelTables(written.m)
  <2>1. written = [m |-> [s.m EXCEPT ![s.cache[virt]][RECURSIVE_PT] = HIGH], cache |-> s.cache]
    BY <1>5
  <2>2. KernelTables([s.m EXCEPT ![s.cache[virt]][RECURSIVE_PT] = HIGH])
    BY <1>4, <1>5, KernelFacts, WriteKeeps DEF Harmless
  <2> QED
    BY <2>1, <2>2
<1> HIDE DEF written
<1>7. /\ mem' = s.m \/ mem' = written.m
      /\ tlb' = _flush_tlb(s.cache, virt)
  BY <1>5, <1>6 DEF Create, Becomes, Flushed, s, s0, written
<1>8. KernelTables(mem') /\ HarmlessTlb(tlb')
  BY <1>4, <1>6, <1>7, CacheKeeps
<1>9. CallInProgress' /\ AllocatorKeepsTwo'
  BY DEF KernelInv, CallInProgress, Creates, Create, AllocatorKeepsTwo, pmm
<1> QED
  BY <1>8, <1>9 DEF KernelInv, KernelTables, HarmlessTlb

\* The heap and its users write a page.
LEMMA StoreStep ==
  ASSUME HarmlessContents, KernelInv,
         NEW n \in 0..(pages - 1), NEW data \in Contents,
         Store(VirtualPage(HEAP_BASE + n), data)
  PROVE  KernelInv'
<1> DEFINE v == VirtualPage(HEAP_BASE + n)
           f == Reaches(mem, tlb, v)
<1>1. v \in Heap /\ v \in VirtualPages
  <2>1. n \in 0..HEAP_PAGES /\ n < HEAP_PAGES
    BY PagingAssumption DEF KernelInv, CallInProgress
  <2> QED
    BY <2>1, NextPage, PageFacts
<1>2. mem' = [mem EXCEPT ![f] = data] /\ tlb' = With(tlb, v, f)
  BY DEF Store
<1> HIDE DEF v
<1>3. f \in Harmless
  BY <1>1, ReachesHarmless DEF KernelInv
<1> HIDE DEF f
<1>4. KernelTables(mem')
  <2>1. data \in Table /\ \A i \in Index : data[i] \in Harmless
    BY PagingAssumption DEF HarmlessContents
  <2>2. INITIAL_PD \in Index /\ NONE \in Harmless
    BY KernelFacts DEF Harmless
  <2> QED
    BY <1>2, <1>3, <2>1, <2>2, WriteKeeps DEF KernelInv
<1>5. HarmlessTlb(tlb')
  BY <1>1, <1>2, <1>3, CacheKeeps DEF KernelInv
<1>6. AllocatorKeepsTwo' /\ CallInProgress'
  BY DEF KernelInv, AllocatorKeepsTwo, CallInProgress, Store, pmm, call
<1> QED
  BY <1>4, <1>5, <1>6 DEF KernelInv, KernelTables, HarmlessTlb

\* A table is freed.
LEMMA DeallocStep ==
  ASSUME KernelInv, NEW d \in Dead, dealloc_page_table(d)
  PROVE  KernelInv'
<1>1. d \in Index \ Taken
  BY PagingAssumption
<1>2. mem' = [mem EXCEPT ![INITIAL_PD][d] = NONE] /\ UNCHANGED <<tlb, call, pages>>
  BY DEF dealloc_page_table
<1>3. KernelTables(mem')
  BY <1>1, <1>2, EnterKeeps DEF KernelInv
<1>4. AllocatorKeepsTwo'
  <2> DEFINE f == IF mem[INITIAL_PD][d] = NONE THEN 0 ELSE mem[INITIAL_PD][d]
  <2>1. f \in Others
    BY <1>1, KernelFacts DEF KernelInv, KernelTables
  <2>2. used' = used \ {f}
    BY DEF dealloc_page_table, Pmm!free_frame, Pmm!Unmarked
  <2> QED
    BY <2>1, <2>2 DEF KernelInv, AllocatorKeepsTwo, Others
<1>5. CallInProgress' /\ HarmlessTlb(tlb')
  BY <1>2 DEF KernelInv, CallInProgress, HarmlessTlb, call
<1> QED
  BY <1>3, <1>4, <1>5 DEF KernelInv, KernelTables, HarmlessTlb

\* The CPU fills and drops entries of the TLB of its own accord.
LEMMA TlbStep ==
  ASSUME KernelInv, NEW v \in VirtualPages, Prefetch(v) \/ Evict(v)
  PROVE  KernelInv'
<1>1. UNCHANGED <<pmm, mem, call, pages>>
  BY DEF Prefetch, Evict
<1>2. HarmlessTlb(tlb')
  <2>1. CASE Prefetch(v)
    BY <2>1, WalkHarmless, CacheKeeps DEF Prefetch, KernelInv
  <2>2. CASE Evict(v)
    BY <2>2, CacheKeeps DEF Evict, KernelInv, _flush_tlb
  <2> QED
    BY <2>1, <2>2
<1> QED
  BY <1>1, <1>2
     DEF KernelInv, AllocatorKeepsTwo, KernelTables, HarmlessTlb, CallInProgress, pmm, call

\* KernelInv is inductive.
LEMMA NextKernelInv ==
  ASSUME HarmlessContents
  PROVE  KernelInv /\ [Next]_vars => KernelInv'
<1> SUFFICES ASSUME KernelInv, [Next]_vars PROVE KernelInv'
  OBVIOUS
<1>1. CASE kmem_morecore
           \/ \E v \in Temps : Call("create_page_table", v) \/ Call("create_page_dir", v)
  BY <1>1, CallStep DEF Creates
<1>2. CASE alloc_page_table \/ alloc_page \/ PageFrame \/ Create
  BY <1>2, AllocPageTableStep, AllocPageStep, PageFrameStep, CreateStep
<1>3. CASE \E d \in Dead : dealloc_page_table(d)
  BY <1>3, DeallocStep
<1>4. CASE \E v \in VirtualPages : Prefetch(v) \/ Evict(v)
  BY <1>4, TlbStep
<1>5. CASE UNCHANGED vars
  BY <1>5 DEF vars, pmm, call, KernelInv, AllocatorKeepsTwo, KernelTables, HarmlessTlb,
              CallInProgress
<1>6. CASE \E n \in 0..(pages - 1), data \in Contents : Store(VirtualPage(HEAP_BASE + n), data)
  BY <1>6, StoreStep
<1> QED
  BY <1>1, <1>2, <1>3, <1>4, <1>5, <1>6 DEF Next

\* Whatever is mapped, made, freed, written and cached, with tables that are not
\* cleared, the kernel's own mappings stay, as long as no word of RAM and none that
\* the heap's users write is an entry for the kernel's directory or table
\* (page.c:20-150).
THEOREM KernelMappings ==
  ASSUME HarmlessContents
  PROVE  Spec => []KernelStaysMapped
<1>1. Init => KernelInv
  BY InitKernelInv
<1>2. KernelInv => KernelStaysMapped
  BY KernelFacts DEF KernelInv, KernelTables, AllocatorKeepsTwo, KernelStaysMapped
<1> QED
  BY <1>1, <1>2, NextKernelInv, PTL DEF Spec

-----------------------------------------------------------------------------
(* What the tables say, after each kind of write.                          *)

\* The virtual pages the model looks at are the user's and the windows on
\* their tables.
LEMMA UserOrWindow ==
  /\ Heap \union Temps \subseteq UserPages
  /\ \A v \in VirtualPages :
       \/ v \in UserPages
       \/ v \notin UserPages /\ \E d \in Index \ Taken : v = <<RECURSIVE_PT, d>>
<1>1. Heap \union Temps \subseteq UserPages
  BY PagingAssumption DEF UserPages
<1>2. ASSUME NEW v \in Heap \union Temps
      PROVE  /\ Window(v) \notin UserPages
             /\ \E d \in Index \ Taken : Window(v) = <<RECURSIVE_PT, d>>
  BY PageFacts, KernelFacts DEF Window, UserPages
<1> QED
  BY <1>1, <1>2 DEF VirtualPages

\* A user page is what its table says, if it has one.
LEMMA WalkUser ==
  ASSUME NEW m, KernelTables(m), NEW v \in UserPages
  PROVE  /\ m[INITIAL_PD][v[1]] \in Others \union {NONE}
         /\ Walk(m, v) = IF m[INITIAL_PD][v[1]] = NONE THEN NONE
                         ELSE m[m[INITIAL_PD][v[1]]][v[2]]
<1>1. v[1] \in Index \ Taken
  BY DEF UserPages
<1>2. m[INITIAL_PD][v[1]] \in Others \union {NONE}
  BY <1>1 DEF KernelTables
<1> QED
  BY <1>2, KernelFacts DEF Walk, Others

\* The window on a table is that table.
LEMMA WalkWindow ==
  ASSUME NEW m, KernelTables(m), NEW d \in Index \ Taken
  PROVE  Walk(m, <<RECURSIVE_PT, d>>) = m[INITIAL_PD][d]
<1>1. m[INITIAL_PD][RECURSIVE_PT] = INITIAL_PD
  BY KernelFacts DEF KernelTables
<1> QED
  BY <1>1, KernelFacts DEF Walk

\* The memory after a directory entry, a frame and a page were written.
Entered(m, d, pt)  == [m EXCEPT ![INITIAL_PD][d] = pt]
Written(m, g, row) == [m EXCEPT ![g] = row]
Mapped(m, v, f)    == [m EXCEPT ![m[INITIAL_PD][v[1]]][v[2]] = f]

\* A new table, whatever it holds, changes no translation where there was a table.
LEMMA WalkAfterTable ==
  ASSUME NEW m, KernelTables(m), NEW d \in Index \ Taken, m[INITIAL_PD][d] = NONE,
         NEW pt \in Others,
         NEW n, n = Entered(m, d, pt)
  PROVE  /\ \A v \in UserPages : m[INITIAL_PD][v[1]] # NONE => Walk(n, v) = Walk(m, v)
         /\ \A c \in Index : n[INITIAL_PD][c] = IF c = d THEN pt ELSE m[INITIAL_PD][c]
         /\ \A f \in Frame \ {INITIAL_PD} : n[f] = m[f]
<1>1. KernelTables(n)
  BY EnterKeeps DEF Entered
<1>2. m[INITIAL_PD] \in Table /\ INITIAL_PD \in Frame /\ pt \in Frame /\ pt # INITIAL_PD
  BY KernelFacts DEF KernelTables, Others
<1>3. \A c \in Index : n[INITIAL_PD][c] = IF c = d THEN pt ELSE m[INITIAL_PD][c]
  BY <1>2 DEF KernelTables, Table, Entered
<1>4. \A f \in Frame \ {INITIAL_PD} : n[f] = m[f]
  BY DEF KernelTables, Entered
<1>5. ASSUME NEW v \in UserPages, m[INITIAL_PD][v[1]] # NONE
      PROVE  Walk(n, v) = Walk(m, v)
  <2>1. v[1] \in Index /\ v[2] \in Index
    BY DEF UserPages
  <2>2. /\ m[INITIAL_PD][v[1]] \in Others \union {NONE}
        /\ Walk(m, v) = m[m[INITIAL_PD][v[1]]][v[2]]
    BY <1>5, WalkUser
  <2>3. Walk(n, v) = IF n[INITIAL_PD][v[1]] = NONE THEN NONE ELSE n[n[INITIAL_PD][v[1]]][v[2]]
    BY <1>1, WalkUser
  <2>4. n[INITIAL_PD][v[1]] = m[INITIAL_PD][v[1]]
    BY <1>3, <1>5, <2>1
  <2>5. m[INITIAL_PD][v[1]] \in Frame \ {INITIAL_PD}
    BY <1>5, <2>2, KernelFacts DEF Others
  <2> QED
    BY <1>4, <1>5, <2>2, <2>3, <2>4, <2>5
<1> QED
  BY <1>3, <1>4, <1>5

\* Writing a frame that is no table changes no translation.
LEMMA WalkAfterWrite ==
  ASSUME NEW m, KernelTables(m), NEW g \in Harmless,
         \A d \in Index \ Taken : m[INITIAL_PD][d] # g,
         NEW row, NEW n, n = Written(m, g, row), KernelTables(n)
  PROVE  /\ \A v \in UserPages : Walk(n, v) = Walk(m, v)
         /\ n[INITIAL_PD] = m[INITIAL_PD]
         /\ \A f \in Frame \ {g} : n[f] = m[f]
<1>1. \A f \in Frame \ {g} : n[f] = m[f]
  BY DEF KernelTables, Written
<1>2. n[INITIAL_PD] = m[INITIAL_PD]
  BY <1>1, KernelFacts DEF Others, Harmless
<1>3. ASSUME NEW v \in UserPages
      PROVE  Walk(n, v) = Walk(m, v)
  <2>1. v[1] \in Index \ Taken
    BY DEF UserPages
  <2>2. /\ m[INITIAL_PD][v[1]] \in Others \union {NONE}
        /\ Walk(m, v) = IF m[INITIAL_PD][v[1]] = NONE THEN NONE
                        ELSE m[m[INITIAL_PD][v[1]]][v[2]]
    BY WalkUser
  <2>3. Walk(n, v) = IF m[INITIAL_PD][v[1]] = NONE THEN NONE ELSE n[m[INITIAL_PD][v[1]]][v[2]]
    BY <1>2, WalkUser
  <2>4. m[INITIAL_PD][v[1]] # NONE => m[INITIAL_PD][v[1]] \in Frame \ {g}
    BY <2>1, <2>2 DEF Others
  <2> QED
    BY <1>1, <2>2, <2>3, <2>4
<1> QED
  BY <1>1, <1>2, <1>3

\* Writing an entry of a table that the directory has once changes one
\* translation.
LEMMA WalkAfterPage ==
  ASSUME NEW m, KernelTables(m), NEW v \in UserPages, m[INITIAL_PD][v[1]] # NONE,
         \A d \in Index \ Taken : m[INITIAL_PD][d] = m[INITIAL_PD][v[1]] => d = v[1],
         NEW f \in Others,
         NEW n, n = Mapped(m, v, f)
  PROVE  /\ KernelTables(n)
         /\ \A w \in UserPages : Walk(n, w) = IF w = v THEN f ELSE Walk(m, w)
         /\ n[INITIAL_PD] = m[INITIAL_PD]
         /\ \A g \in Frame \ {m[INITIAL_PD][v[1]]} : n[g] = m[g]
<1> DEFINE pt == m[INITIAL_PD][v[1]]
<1>1. pt \in Others /\ v[1] \in Index \ Taken /\ v[2] \in Index /\ f \in Harmless
  BY WalkUser DEF UserPages, Harmless
<1>2. KernelTables(n)
  BY <1>1, WriteKeeps DEF Harmless, Mapped
<1>3. \A g \in Frame \ {pt} : n[g] = m[g]
  BY DEF KernelTables, Mapped
<1>4. n[INITIAL_PD] = m[INITIAL_PD]
  BY <1>1, <1>3, KernelFacts DEF Others
<1>5. \A i \in Index : n[pt][i] = IF i = v[2] THEN f ELSE m[pt][i]
  BY <1>1 DEF KernelTables, Table, Others, Mapped
<1>6. ASSUME NEW w \in UserPages
      PROVE  Walk(n, w) = IF w = v THEN f ELSE Walk(m, w)
  <2>1. w[1] \in Index \ Taken /\ w[2] \in Index /\ (w = v <=> w[1] = v[1] /\ w[2] = v[2])
    BY DEF UserPages
  <2>2. /\ m[INITIAL_PD][w[1]] \in Others \union {NONE}
        /\ Walk(m, w) = IF m[INITIAL_PD][w[1]] = NONE THEN NONE
                        ELSE m[m[INITIAL_PD][w[1]]][w[2]]
    BY WalkUser
  <2>3. Walk(n, w) = IF m[INITIAL_PD][w[1]] = NONE THEN NONE ELSE n[m[INITIAL_PD][w[1]]][w[2]]
    BY <1>2, <1>4, WalkUser
  <2>4. CASE w[1] = v[1]
    BY <1>5, <2>1, <2>2, <2>3, <2>4
  <2>5. CASE w[1] # v[1]
    <3>1. m[INITIAL_PD][w[1]] # NONE => m[INITIAL_PD][w[1]] \in Frame \ {pt}
      BY <2>1, <2>2, <2>5 DEF Others
    <3> QED
      BY <1>3, <2>1, <2>2, <2>3, <2>5, <3>1
  <2> QED
    BY <2>4, <2>5
<1> QED
  BY <1>2, <1>3, <1>4, <1>6

-----------------------------------------------------------------------------
(* MappingInv, action by action.                                           *)

\* Two numbers of one virtual page are the same.
LEMMA VirtualPageInjective ==
  ASSUME NEW a \in Nat, NEW b \in Nat, VirtualPage(a) = VirtualPage(b)
  PROVE  a = b
<1>1. ENTRIES \in Nat \ {0}
  BY PagingAssumption
<1>2. ASSUME NEW n \in Nat PROVE n = ENTRIES * (n \div ENTRIES) + (n % ENTRIES)
  BY <1>1, SMT
<1>3. a \div ENTRIES = b \div ENTRIES /\ a % ENTRIES = b % ENTRIES
  BY DEF VirtualPage
<1> QED
  BY <1>2, <1>3

\* The pages of the heap so far are user pages, and none of Temps.
LEMMA HeapSoFarFacts ==
  ASSUME KernelInv, HeapSoFar
  PROVE  /\ DOMAIN mapped \subseteq Heap \intersect UserPages
         /\ DOMAIN mapped \intersect Temps = {}
<1>1. 0..(pages - 1) \subseteq 0..(HEAP_PAGES - 1)
  BY PagingAssumption DEF KernelInv, CallInProgress
<1> QED
  BY <1>1, UserOrWindow, PagingAssumption DEF HeapSoFar, Heap

\* The heap's next page is new.
LEMMA NextPageNew ==
  ASSUME KernelInv, HeapSoFar, op = "alloc_map_page"
  PROVE  /\ virt = VirtualPage(HEAP_BASE + pages)
         /\ virt \in Heap /\ virt \in UserPages
         /\ virt \notin DOMAIN mapped /\ virt \notin Temps
<1>1. virt = VirtualPage(HEAP_BASE + pages) /\ pages \in 0..HEAP_PAGES /\ pages < HEAP_PAGES
  BY DEF KernelInv, CallInProgress
<1>2. virt \in Heap
  BY <1>1, NextPage
<1>3. ASSUME NEW n \in 0..(pages - 1), virt = VirtualPage(HEAP_BASE + n) PROVE FALSE
  <2>1. HEAP_BASE + n \in Nat /\ HEAP_BASE + pages \in Nat /\ n # pages
    BY <1>1, PagingAssumption
  <2>2. HEAP_BASE + n = HEAP_BASE + pages
    BY <1>1, <1>3, <2>1, VirtualPageInjective
  <2> QED
    BY <1>1, <2>1, <2>2, PagingAssumption
<1> QED
  BY <1>1, <1>2, <1>3, UserOrWindow, PagingAssumption DEF HeapSoFar

\* Boot: nothing is mapped, made or cached, whatever RAM holds.
LEMMA InitMapping ==
  ASSUME Init, KernelInv
  PROVE  MappingInv
<1>1. HeapSoFar
  BY DEF Init, HeapSoFar
<1>2. \A d \in Index \ Taken : TableOf(d) = NONE
  <2>1. \A d \in Index \ Taken : InitialPD[d] = NONE
    BY DEF InitialPD, Taken
  <2>2. mem[INITIAL_PD] = InitialPD
    <3>1. PICK ram \in [Frame -> Contents] :
            mem = [ram EXCEPT ![INITIAL_PD] = InitialPD, ![INITIAL_PT] = InitialPT]
      BY PagingAssumption DEF Init
    <3> QED
      BY <3>1, KernelFacts
  <2> QED
    BY <2>1, <2>2 DEF TableOf
<1>3. OneRole
  BY <1>2 DEF Init, Pmm!Init, OneRole
<1>4. TablesSay /\ WindowsAgree /\ StaleAside /\ NewTablesAreZero
  BY DEF Init, TablesSay, WindowsAgree, StaleAside, NewTablesAreZero
<1> QED
  BY <1>1, <1>3, <1>4 DEF Init, MappingInv, Mapping

\* A step that frees no table leaves the claim to make as it was, or weaker.
LEMMA ClaimKept ==
  ASSUME MappingInv, dead' = dead, astray => astray',
         dead = 0 /\ ~astray' /\ Mapping => Mapping'
  PROVE  MappingInv'
BY DEF MappingInv

\* A table where there is none: its frame has no other role.
LEMMA AllocPageTableMaps ==
  ASSUME KernelInv, MappingInv, alloc_page_table
  PROVE  MappingInv'
<1>3. UNCHANGED <<op, virt, page_frame, pages, mapped, made, dead, speculated, astray>>
  BY DEF alloc_page_table, call, history
<1> SUFFICES ASSUME Mapping PROVE Mapping'
  BY <1>3, ClaimKept
<1>0. HeapSoFar /\ OneRole /\ TablesSay /\ WindowsAgree /\ StaleAside /\ NewTablesAreZero
  BY DEF Mapping
<1>1. PICK pt \in Frame : Pmm!GetFrame(pt) /\ Becomes(set_page_table(Machine, virt, pt))
  BY DEF alloc_page_table
<1>2. pt \in Others /\ pt \notin used /\ used' = used \union {pt}
  BY <1>1, FreshFrame DEF KernelInv
<1>4. virt \in Heap \union Temps
  BY CallPage DEF KernelInv, alloc_page_table, CallInProgress, Creates
<1>5. /\ mem' = [mem EXCEPT ![INITIAL_PD][virt[1]] = pt]
      /\ tlb' = _flush_tlb(tlb, virt)
  BY <1>1 DEF Becomes, set_page_table, Machine
<1>6. virt[1] \in Index \ Taken /\ TableOf(virt[1]) = NONE
  BY <1>4, PageFacts DEF alloc_page_table, Present, TableOf
<1>8. /\ \A v \in UserPages : TableOf(v[1]) # NONE => Walk(mem', v) = Walk(mem, v)
      /\ \A c \in Index : TableOf(c)' = IF c = virt[1] THEN pt ELSE TableOf(c)
      /\ \A f \in Frame \ {INITIAL_PD} : mem'[f] = mem[f]
  <2>1. KernelTables(mem) /\ mem[INITIAL_PD][virt[1]] = NONE
    BY <1>6 DEF KernelInv, TableOf
  <2>2. mem' = Entered(mem, virt[1], pt)
    BY <1>5 DEF Entered
  <2>3. /\ \A v \in UserPages : mem[INITIAL_PD][v[1]] # NONE => Walk(mem', v) = Walk(mem, v)
        /\ \A c \in Index : mem'[INITIAL_PD][c] = IF c = virt[1] THEN pt ELSE mem[INITIAL_PD][c]
        /\ \A f \in Frame \ {INITIAL_PD} : mem'[f] = mem[f]
    BY <1>2, <1>6, <2>1, <2>2, WalkAfterTable
  <2> QED
    BY <2>3 DEF TableOf
<1>9. DOMAIN tlb' \subseteq DOMAIN tlb /\ \A v \in DOMAIN tlb' : tlb'[v] = tlb[v]
  BY <1>5 DEF _flush_tlb, Restrict
<1>a. /\ INITIAL_PD \in Reserved /\ DOMAIN made \subseteq Frame \ {INITIAL_PD} /\ pt # NONE
      /\ pt \notin Reserved
  BY <1>0, <1>2, KernelFacts DEF OneRole, KernelInv, AllocatorKeepsTwo, Others
<1>b. OneRole'
  <2>1. ASSUME NEW d \in Index \ Taken, NEW e \in Index \ Taken,
               TableOf(d)' = TableOf(e)', TableOf(d)' # NONE
        PROVE  d = e
    BY <1>0, <1>2, <1>8, <2>1 DEF OneRole
  <2>2. ASSUME NEW d \in Index \ Taken, TableOf(d)' # NONE
        PROVE  /\ TableOf(d)' \in used' \ Reserved
               /\ TableOf(d)' \notin DOMAIN made' \union {page_frame'}
               /\ \A v \in DOMAIN mapped' : TableOf(d)' # mapped'[v]
    BY <1>0, <1>2, <1>3, <1>8, <1>a, <2>2 DEF OneRole
  <2>3. /\ Reserved \subseteq used'
        /\ \A v, w \in DOMAIN mapped' : mapped'[v] = mapped'[w] => v = w
        /\ \A v \in DOMAIN mapped' : /\ mapped'[v] \in used' \ Reserved
                                     /\ mapped'[v] \notin DOMAIN made' \union {page_frame'}
        /\ DOMAIN made' \subseteq used' \ Reserved
        /\ page_frame' \in (used' \ (Reserved \union DOMAIN made')) \union {NONE}
    BY <1>0, <1>2, <1>3 DEF OneRole
  <2> QED
    BY <2>1, <2>2, <2>3 DEF OneRole
<1>c. TablesSay'
  <2> SUFFICES ASSUME NEW v \in DOMAIN mapped
               PROVE  Walk(mem', v) = mapped[v]
    BY <1>3 DEF TablesSay
  <2>1. Walk(mem, v) = mapped[v] /\ mapped[v] # NONE /\ v \in UserPages
    BY <1>0, HeapSoFarFacts, KernelFacts DEF TablesSay, OneRole, KernelInv, AllocatorKeepsTwo
  <2>2. TableOf(v[1]) # NONE
    BY <2>1, WalkUser DEF KernelInv, TableOf
  <2> QED
    BY <1>8, <2>1, <2>2
<1>d. WindowsAgree'
  <2> SUFFICES ASSUME NEW d \in Index \ Taken, <<RECURSIVE_PT, d>> \in DOMAIN tlb'
               PROVE  tlb'[<<RECURSIVE_PT, d>>] = TableOf(d)' /\ TableOf(d)' # NONE
    BY DEF WindowsAgree
  <2>1. tlb'[<<RECURSIVE_PT, d>>] = TableOf(d) /\ TableOf(d) # NONE
    BY <1>0, <1>9 DEF WindowsAgree
  <2> QED
    BY <1>6, <1>8, <2>1
<1>e. StaleAside' /\ HeapSoFar'
  BY <1>0, <1>3, <1>9 DEF StaleAside, HeapSoFar, Aside
<1>f. NewTablesAreZero'
  BY <1>0, <1>3, <1>8, <1>a DEF NewTablesAreZero
<1> QED
  BY <1>b, <1>c, <1>d, <1>e, <1>f DEF Mapping

\* Whether a page's window is in the TLB or not, an access by it reaches the table.
LEMMA WindowReaches ==
  ASSUME KernelInv, WindowsAgree, NEW v \in Heap \union Temps
  PROVE  /\ Reaches(mem, tlb, Window(v)) = TableOf(v[1])
         /\ Window(v) \notin UserPages
<1>1. v[1] \in Index \ Taken /\ Window(v) = <<RECURSIVE_PT, v[1]>>
  BY PageFacts DEF Window
<1>2. Walk(mem, Window(v)) = TableOf(v[1])
  BY <1>1, WalkWindow DEF KernelInv, TableOf
<1>3. Window(v) \notin UserPages
  BY <1>1, KernelFacts DEF UserPages
<1> QED
  BY <1>1, <1>2, <1>3 DEF Reaches, WindowsAgree

\* A page is written to its table, as the heap and the making of tables do it:
\* the tables then say so, and say of every other page what they said.
LEMMA PageWritten ==
  ASSUME KernelInv, WindowsAgree, OneRole,
         NEW v \in Heap \union Temps, TableOf(v[1]) # NONE, NEW f \in Others,
         NEW n, n = set_page(Machine, v, f).m
  PROVE  /\ KernelTables(n)
         /\ \A w \in UserPages : Walk(n, w) = IF w = v THEN f ELSE Walk(mem, w)
         /\ n[INITIAL_PD] = mem[INITIAL_PD]
         /\ \A g \in Frame \ {TableOf(v[1])} : n[g] = mem[g]
         /\ set_page(Machine, v, f).cache = With(tlb, Window(v), TableOf(v[1]))
<1>1. v \in UserPages /\ v[1] \in Index \ Taken
  BY PageFacts, UserOrWindow
<1>2. /\ n = Mapped(mem, v, f)
      /\ set_page(Machine, v, f).cache = With(tlb, Window(v), TableOf(v[1]))
  BY WindowReaches DEF set_page, Machine, Mapped, TableOf
<1>3. \A d \in Index \ Taken : mem[INITIAL_PD][d] = mem[INITIAL_PD][v[1]] => d = v[1]
  BY <1>1 DEF OneRole, TableOf
<1>4. KernelTables(mem) /\ mem[INITIAL_PD][v[1]] # NONE
  BY DEF KernelInv, TableOf
<1> QED
  BY <1>1, <1>2, <1>3, <1>4, WalkAfterPage DEF TableOf

\* The TLB gets the window on a table and loses other entries at most: it agrees
\* with the tables on the windows as before.
LEMMA WindowsStay ==
  ASSUME WindowsAgree, NEW v \in Heap \union Temps, TableOf(v[1]) # NONE,
         DOMAIN tlb' \subseteq DOMAIN tlb \union {Window(v)},
         \A w \in DOMAIN tlb' : tlb'[w] = IF w = Window(v) THEN TableOf(v[1]) ELSE tlb[w],
         mem'[INITIAL_PD] = mem[INITIAL_PD]
  PROVE  WindowsAgree'
<1> SUFFICES ASSUME NEW d \in Index \ Taken, <<RECURSIVE_PT, d>> \in DOMAIN tlb'
             PROVE  tlb'[<<RECURSIVE_PT, d>>] = TableOf(d)' /\ TableOf(d)' # NONE
  BY DEF WindowsAgree
<1>1. TableOf(d)' = TableOf(d)
  BY DEF TableOf
<1>2. v[1] \in Index \ Taken /\ Window(v) = <<RECURSIVE_PT, v[1]>>
  BY PageFacts DEF Window
<1>3. CASE d = v[1]
  BY <1>1, <1>2, <1>3
<1>4. CASE d # v[1]
  <2>1. <<RECURSIVE_PT, d>> # Window(v)
    BY <1>2, <1>4
  <2>2. <<RECURSIVE_PT, d>> \in DOMAIN tlb /\ tlb'[<<RECURSIVE_PT, d>>] = tlb[<<RECURSIVE_PT, d>>]
    BY <2>1
  <2> QED
    BY <1>1, <2>2 DEF WindowsAgree
<1> QED
  BY <1>3, <1>4

\* A page of the heap gets a frame that had no role, at a page that was mapped
\* nowhere.  If the CPU has it in the TLB, that stays.
LEMMA AllocPageMaps ==
  ASSUME KernelInv, MappingInv, alloc_page
  PROVE  MappingInv'
<1>3. pages' = pages + 1 /\ UNCHANGED <<virt, page_frame, made, dead, speculated, astray>>
  BY DEF alloc_page
<1> SUFFICES ASSUME Mapping PROVE Mapping'
  BY <1>3, ClaimKept
<1> DEFINE pt == TableOf(virt[1])
<1>0. HeapSoFar /\ OneRole /\ TablesSay /\ WindowsAgree /\ StaleAside /\ NewTablesAreZero
  BY DEF Mapping
<1>1. PICK f \in Frame : /\ Pmm!GetFrame(f) /\ Becomes(set_page(Machine, virt, f))
                         /\ mapped' = With(mapped, virt, f)
  BY DEF alloc_page
<1>2. f \in Others /\ f \notin used /\ used' = used \union {f} /\ f # NONE
  BY <1>1, FreshFrame, KernelFacts DEF KernelInv
<1>4. /\ virt = VirtualPage(HEAP_BASE + pages)
      /\ virt \in Heap /\ virt \in UserPages
      /\ virt \notin DOMAIN mapped /\ virt \notin Temps
  BY <1>0, NextPageNew DEF alloc_page
<1>5. pt # NONE /\ virt[1] \in Index \ Taken
  BY <1>4, PageFacts DEF alloc_page, Present, TableOf
<1>6. /\ KernelTables(mem')
      /\ \A w \in UserPages : Walk(mem', w) = IF w = virt THEN f ELSE Walk(mem, w)
      /\ mem'[INITIAL_PD] = mem[INITIAL_PD]
      /\ \A g \in Frame \ {pt} : mem'[g] = mem[g]
      /\ tlb' = With(tlb, Window(virt), pt)
  BY <1>0, <1>1, <1>2, <1>4, <1>5, PageWritten DEF Becomes
<1>7. /\ DOMAIN mapped' = DOMAIN mapped \union {virt}
      /\ \A v \in DOMAIN mapped' : mapped'[v] = IF v = virt THEN f ELSE mapped[v]
  BY <1>1 DEF With
<1>8. /\ DOMAIN tlb' = DOMAIN tlb \union {Window(virt)}
      /\ \A w \in DOMAIN tlb' : tlb'[w] = IF w = Window(virt) THEN pt ELSE tlb[w]
  BY <1>6 DEF With
<1>9. \A d : TableOf(d)' = TableOf(d)
  BY <1>6 DEF TableOf
<1>a. pt \notin DOMAIN made
  BY <1>0, <1>5 DEF OneRole
<1>b. HeapSoFar'
  <2>1. pages \in Nat
    BY DEF KernelInv, CallInProgress
  <2>2. 0..(pages' - 1) = (0..(pages - 1)) \union {pages}
    BY <1>3, <2>1
  <2> QED
    BY <1>0, <1>4, <1>7, <2>2 DEF HeapSoFar
<1>f. WindowsAgree'
  BY <1>0, <1>4, <1>5, <1>6, <1>8, WindowsStay
<1> HIDE DEF pt
<1>c. OneRole'
  <2>1. f \notin DOMAIN made \union {page_frame} /\ f \notin Reserved
    BY <1>0, <1>2 DEF OneRole
  <2>2. \A v \in DOMAIN mapped : mapped[v] # f
    BY <1>0, <1>2 DEF OneRole
  <2>3. \A d \in Index \ Taken : TableOf(d) # NONE => TableOf(d) # f
    BY <1>0, <1>2 DEF OneRole
  <2>4. \A v, w \in DOMAIN mapped' : mapped'[v] = mapped'[w] => v = w
    BY <1>0, <1>7, <2>2 DEF OneRole
  <2>5. \A v \in DOMAIN mapped' : /\ mapped'[v] \in used' \ Reserved
                                  /\ mapped'[v] \notin DOMAIN made' \union {page_frame'}
    BY <1>0, <1>2, <1>3, <1>7, <2>1 DEF OneRole
  <2>6. \A d \in Index \ Taken : TableOf(d)' # NONE =>
          /\ TableOf(d)' \in used' \ Reserved
          /\ TableOf(d)' \notin DOMAIN made' \union {page_frame'}
          /\ \A v \in DOMAIN mapped' : TableOf(d)' # mapped'[v]
    BY <1>0, <1>2, <1>3, <1>7, <1>9, <2>3 DEF OneRole
  <2>7. /\ Reserved \subseteq used'
        /\ DOMAIN made' \subseteq used' \ Reserved
        /\ page_frame' \in (used' \ (Reserved \union DOMAIN made')) \union {NONE}
        /\ \A d, e \in Index \ Taken : TableOf(d)' = TableOf(e)' /\ TableOf(d)' # NONE => d = e
    BY <1>0, <1>2, <1>3, <1>9 DEF OneRole
  <2> QED
    BY <2>4, <2>5, <2>6, <2>7 DEF OneRole
<1>e. TablesSay'
  <2>1. DOMAIN mapped \subseteq UserPages
    BY <1>0, HeapSoFarFacts
  <2> QED
    BY <1>0, <1>4, <1>6, <1>7, <2>1 DEF TablesSay
<1>g. StaleAside'
  <2> SUFFICES ASSUME NEW w \in DOMAIN tlb' \intersect (Heap \union Temps)
               PROVE  \/ w \in DOMAIN mapped' /\ tlb'[w] = mapped'[w]
                      \/ w \in speculated' /\ tlb'[w] \in Aside(w)'
    BY DEF StaleAside
  <2>1. w # Window(virt)
    BY <1>0, <1>4, WindowReaches, UserOrWindow
  <2>2. w \in DOMAIN tlb /\ tlb'[w] = tlb[w]
    BY <1>8, <2>1
  <2>3. Aside(w)' = Aside(w)
    BY <1>3 DEF Aside
  <2>4. \/ w \in DOMAIN mapped /\ tlb[w] = mapped[w]
        \/ w \in speculated /\ tlb[w] \in Aside(w)
    BY <1>0, <2>2 DEF StaleAside
  <2> QED
    BY <1>3, <1>4, <1>7, <2>2, <2>3, <2>4
<1>h. NewTablesAreZero'
  <2>1. DOMAIN made \subseteq Frame \ {pt}
    BY <1>0, <1>a DEF OneRole, KernelInv, AllocatorKeepsTwo
  <2> QED
    BY <1>0, <1>3, <1>6, <2>1 DEF NewTablesAreZero
<1> QED
  BY <1>b, <1>c, <1>e, <1>f, <1>g, <1>h DEF Mapping

\* A frame is set aside for the table or directory to be made.
LEMMA PageFrameMaps ==
  ASSUME KernelInv, MappingInv, PageFrame
  PROVE  MappingInv'
<1>3. UNCHANGED <<mem, tlb, pages, mapped, made, dead, speculated, astray>>
  BY DEF PageFrame, history
<1> SUFFICES ASSUME Mapping PROVE Mapping'
  BY <1>3, ClaimKept
<1>0. HeapSoFar /\ OneRole /\ TablesSay /\ WindowsAgree /\ StaleAside /\ NewTablesAreZero
  BY DEF Mapping
<1>1. PICK f \in Frame : Pmm!GetFrame(f) /\ page_frame' = f
  BY DEF PageFrame
<1>2. f \in Others /\ f \notin used /\ used' = used \union {f}
  BY <1>1, FreshFrame DEF KernelInv
<1>4. OneRole'
  BY <1>0, <1>1, <1>2, <1>3 DEF OneRole, TableOf
<1>5. HeapSoFar' /\ NewTablesAreZero'
  BY <1>0, <1>3 DEF HeapSoFar, NewTablesAreZero
<1>6. TablesSay' /\ WindowsAgree' /\ StaleAside'
  BY <1>0, <1>3 DEF TablesSay, WindowsAgree, StaleAside, TableOf, Aside
<1> QED
  BY <1>4, <1>5, <1>6 DEF Mapping

\* What Create does: the page is written, a frame is overwritten, and the page is
\* flushed.  That frame is the new one, unless the CPU cached the page by a stale
\* entry; then it is one that was made before or is no frame of the allocator's.
LEMMA CreateEffect ==
  ASSUME KernelInv, Mapping, Create
  PROVE  \E g, new, m :
           /\ g \in Harmless
           /\ g \in Reserved \union {HIGH} \union DOMAIN made \union {page_frame}
           /\ g = page_frame \/ virt \in speculated
           /\ m = set_page(Machine, virt, page_frame).m
           /\ mem' = Written(m, g, new)
           /\ made' = With(made, page_frame, new)
           /\ DOMAIN tlb' = (DOMAIN tlb \union {Window(virt)}) \ {virt}
           /\ \A w \in DOMAIN tlb' :
                tlb'[w] = IF w = Window(virt) THEN TableOf(virt[1]) ELSE tlb[w]
<1> DEFINE s0 == set_page(Machine, virt, page_frame)
           g == Reaches(s0.m, s0.cache, virt)
           s == memset(s0, virt)
           dir == [Empty EXCEPT ![RECURSIVE_PT] = HIGH]
           written == [s EXCEPT !.m[s.cache[virt]][RECURSIVE_PT] = HIGH]
<1>0. HeapSoFar /\ OneRole /\ WindowsAgree /\ StaleAside
  BY DEF Mapping
<1>1. /\ virt \in Temps /\ virt \in Heap \union Temps /\ page_frame \in Others
      /\ TableOf(virt[1]) # NONE /\ virt \notin DOMAIN mapped
  BY <1>0, HeapSoFarFacts DEF KernelInv, CallInProgress, Creates, Create, Present, TableOf
<1>2. virt \in UserPages /\ Window(virt) # virt
  BY <1>0, <1>1, UserOrWindow, WindowReaches
<1>3. /\ KernelTables(s0.m)
      /\ Walk(s0.m, virt) = page_frame
      /\ s0.cache = With(tlb, Window(virt), TableOf(virt[1]))
  BY <1>0, <1>1, <1>2, PageWritten
<1> HIDE DEF s0
<1>4. /\ DOMAIN s0.cache = DOMAIN tlb \union {Window(virt)}
      /\ \A w \in DOMAIN s0.cache :
           s0.cache[w] = IF w = Window(virt) THEN TableOf(virt[1]) ELSE tlb[w]
  BY <1>3 DEF With
<1>5. /\ g \in Reserved \union {HIGH} \union DOMAIN made \union {page_frame}
      /\ g = page_frame \/ virt \in speculated
      /\ g \in Harmless
  <2>1. CASE virt \in DOMAIN tlb
    <3>1. g = tlb[virt]
      BY <1>2, <1>4, <2>1 DEF Reaches
    <3>2. virt \in speculated /\ tlb[virt] \in Aside(virt) /\ tlb[virt] \in Harmless
      BY <1>0, <1>1, <2>1 DEF StaleAside, KernelInv, HarmlessTlb
    <3> QED
      BY <3>1, <3>2 DEF Aside
  <2>2. CASE virt \notin DOMAIN tlb
    <3>1. g = page_frame
      BY <1>2, <1>3, <1>4, <2>2 DEF Reaches
    <3> QED
      BY <1>1, <3>1 DEF Harmless
  <2> QED
    BY <2>1, <2>2
<1> HIDE DEF g
<1>7. /\ s = [m |-> [s0.m EXCEPT ![g] = Empty], cache |-> With(s0.cache, virt, g)]
      /\ s.cache[virt] = g
  BY DEF memset, With, g
<1>8. /\ DOMAIN s.cache = DOMAIN s0.cache \union {virt}
      /\ \A w \in DOMAIN s.cache : s.cache[w] = IF w = virt THEN g ELSE s0.cache[w]
  BY <1>7 DEF With
<1> HIDE DEF s
<1>9. /\ written = [m |-> [s.m EXCEPT ![g][RECURSIVE_PT] = HIGH], cache |-> s.cache]
      /\ [s.m EXCEPT ![g][RECURSIVE_PT] = HIGH] = Written(s0.m, g, dir)
      /\ s.m = Written(s0.m, g, Empty)
  <2>1. written = [m |-> [s.m EXCEPT ![g][RECURSIVE_PT] = HIGH], cache |-> s.cache]
    BY <1>7
  <2>2. s.m = [s0.m EXCEPT ![g] = Empty] /\ s0.m \in [Frame -> Table]
    BY <1>3, <1>7 DEF KernelTables
  <2>3. [s.m EXCEPT ![g][RECURSIVE_PT] = HIGH] = [s0.m EXCEPT ![g] = dir]
    <3>1. CASE g \in Frame
      BY <2>2, <3>1
    <3>2. CASE g \notin Frame
      BY <2>2, <3>2
    <3> QED
      BY <3>1, <3>2
  <2> QED
    BY <2>1, <2>2, <2>3 DEF Written
<1> HIDE DEF written, dir
<1>a. \E new : mem' = Written(s0.m, g, new) /\ made' = With(made, page_frame, new)
  <2>1. CASE op = "create_page_dir"
    <3>1. made' = With(made, page_frame, dir)
      BY <2>1 DEF Create, dir
    <3>2. mem' = written.m
      BY <1>9, <2>1 DEF Create, Becomes, Flushed, s, s0, written
    <3> QED
      BY <1>9, <3>1, <3>2
  <2>2. CASE op # "create_page_dir"
    <3>1. made' = With(made, page_frame, Empty)
      BY <2>2 DEF Create
    <3>2. mem' = s.m
      BY <1>7, <2>2 DEF Create, Becomes, Flushed, s, s0
    <3> QED
      BY <1>9, <3>1, <3>2
  <2> QED
    BY <2>1, <2>2
<1>b. tlb' = _flush_tlb(s.cache, virt)
  BY <1>7, <1>9 DEF Create, Becomes, Flushed, s, s0, written
<1>c. /\ DOMAIN tlb' = (DOMAIN tlb \union {Window(virt)}) \ {virt}
      /\ \A w \in DOMAIN tlb' :
           tlb'[w] = IF w = Window(virt) THEN TableOf(virt[1]) ELSE tlb[w]
  <2>1. /\ DOMAIN tlb' = DOMAIN s.cache \ {virt}
        /\ \A w \in DOMAIN tlb' : tlb'[w] = s.cache[w]
    BY <1>b DEF _flush_tlb, Restrict
  <2> QED
    BY <1>4, <1>8, <2>1
<1> QED
  BY <1>5, <1>a, <1>c DEF s0

\* A table or directory is made: no table and no page of the heap is written,
\* and if the CPU left the page alone, no other table or directory either.
LEMMA CreateMaps ==
  ASSUME KernelInv, MappingInv, Create
  PROVE  MappingInv'
<1>3. page_frame' = NONE /\ UNCHANGED <<used, virt, pages, mapped, dead, speculated, astray>>
  BY DEF Create, pmm
<1> SUFFICES ASSUME Mapping PROVE Mapping'
  BY <1>3, ClaimKept
<1> DEFINE pt == TableOf(virt[1])
<1>0. HeapSoFar /\ OneRole /\ TablesSay /\ WindowsAgree /\ StaleAside /\ NewTablesAreZero
  BY DEF Mapping
<1>1. PICK g, new, m :
           /\ g \in Harmless
           /\ g \in Reserved \union {HIGH} \union DOMAIN made \union {page_frame}
           /\ g = page_frame \/ virt \in speculated
           /\ m = set_page(Machine, virt, page_frame).m
           /\ mem' = Written(m, g, new)
           /\ made' = With(made, page_frame, new)
           /\ DOMAIN tlb' = (DOMAIN tlb \union {Window(virt)}) \ {virt}
           /\ \A w \in DOMAIN tlb' : tlb'[w] = IF w = Window(virt) THEN pt ELSE tlb[w]
  BY CreateEffect
<1>2. /\ virt \in Temps /\ virt \in Heap \union Temps /\ virt \in UserPages
      /\ virt[1] \in Index \ Taken /\ pt # NONE
      /\ page_frame \in Others /\ page_frame # NONE
  BY UserOrWindow, PageFacts DEF KernelInv, CallInProgress, Creates, Create, Present, TableOf
<1>4. /\ KernelTables(m)
      /\ \A w \in UserPages : Walk(m, w) = IF w = virt THEN page_frame ELSE Walk(mem, w)
      /\ m[INITIAL_PD] = mem[INITIAL_PD]
      /\ \A f \in Frame \ {pt} : m[f] = mem[f]
  BY <1>0, <1>1, <1>2, PageWritten
<1>5. /\ page_frame \in used \ Reserved
      /\ pt \notin DOMAIN made \union {page_frame}
      /\ \A d \in Index \ Taken : TableOf(d) # g
      /\ DOMAIN made \subseteq Frame
  <2>1. page_frame \in used \ Reserved /\ pt \notin DOMAIN made \union {page_frame}
    BY <1>0, <1>2 DEF OneRole
  <2>2. DOMAIN made \subseteq Frame
    BY <1>0 DEF OneRole, KernelInv, AllocatorKeepsTwo
  <2>3. ASSUME NEW d \in Index \ Taken PROVE TableOf(d) # g
    <3>1. CASE TableOf(d) = NONE
      <4>1. g # NONE
        BY <1>1, <1>2, <2>2, KernelFacts
      <4> QED
        BY <3>1, <4>1
    <3>2. CASE TableOf(d) # NONE
      <4>1. /\ TableOf(d) \notin Reserved /\ TableOf(d) \in Frame
            /\ TableOf(d) \notin DOMAIN made \union {page_frame}
        BY <1>0, <3>2 DEF OneRole, KernelInv, AllocatorKeepsTwo
      <4> QED
        BY <1>1, <4>1, KernelFacts
    <3> QED
      BY <3>1, <3>2
  <2> QED
    BY <2>1, <2>2, <2>3
<1>6. /\ \A w \in UserPages : Walk(mem', w) = IF w = virt THEN page_frame ELSE Walk(mem, w)
      /\ mem'[INITIAL_PD] = mem[INITIAL_PD]
      /\ \A f \in Frame \ {pt, g} : mem'[f] = mem[f]
      /\ g \in Frame => mem'[g] = new
  <2>1. KernelTables(mem')
    BY CreateStep DEF KernelInv, KernelTables
  <2>2. \A d \in Index \ Taken : m[INITIAL_PD][d] # g
    BY <1>4, <1>5 DEF TableOf
  <2>3. /\ \A w \in UserPages : Walk(mem', w) = Walk(m, w)
        /\ mem'[INITIAL_PD] = m[INITIAL_PD]
        /\ \A f \in Frame \ {g} : mem'[f] = m[f]
    BY <1>1, <1>4, <2>1, <2>2, WalkAfterWrite
  <2>4. g \in Frame => mem'[g] = new
    BY <1>1, <1>4 DEF Written, KernelTables
  <2> QED
    BY <1>4, <2>3, <2>4
<1>7. /\ DOMAIN made' = DOMAIN made \union {page_frame}
      /\ \A f \in DOMAIN made' : made'[f] = IF f = page_frame THEN new ELSE made[f]
  BY <1>1 DEF With
<1>8. \A d : TableOf(d)' = TableOf(d)
  BY <1>6 DEF TableOf
<1>9. virt \notin DOMAIN mapped /\ DOMAIN mapped \subseteq UserPages
  BY <1>0, <1>2, HeapSoFarFacts
<1>e. WindowsAgree'
  <2>2. DOMAIN tlb' \subseteq DOMAIN tlb \union {Window(virt)}
    BY <1>1
  <2> QED
    BY <1>0, <1>1, <1>2, <1>6, <2>2, WindowsStay
<1> HIDE DEF pt
<1>a. HeapSoFar'
  BY <1>0, <1>3 DEF HeapSoFar
<1>b. OneRole'
  <2>1. \A d \in Index \ Taken : TableOf(d)' # NONE =>
          /\ TableOf(d)' \in used' \ Reserved
          /\ TableOf(d)' \notin DOMAIN made' \union {page_frame'}
          /\ \A v \in DOMAIN mapped' : TableOf(d)' # mapped'[v]
    BY <1>0, <1>3, <1>7, <1>8 DEF OneRole
  <2>2. \A v \in DOMAIN mapped' : /\ mapped'[v] \in used' \ Reserved
                                  /\ mapped'[v] \notin DOMAIN made' \union {page_frame'}
    <3>1. NONE \notin used
      BY KernelFacts DEF KernelInv, AllocatorKeepsTwo
    <3> QED
      BY <1>0, <1>3, <1>7, <3>1 DEF OneRole
  <2>3. DOMAIN made' \subseteq used' \ Reserved
    BY <1>0, <1>3, <1>5, <1>7 DEF OneRole
  <2>4. /\ Reserved \subseteq used'
        /\ \A v, w \in DOMAIN mapped' : mapped'[v] = mapped'[w] => v = w
        /\ page_frame' \in (used' \ (Reserved \union DOMAIN made')) \union {NONE}
        /\ \A d, e \in Index \ Taken : TableOf(d)' = TableOf(e)' /\ TableOf(d)' # NONE => d = e
    BY <1>0, <1>3, <1>8 DEF OneRole
  <2> QED
    BY <2>1, <2>2, <2>3, <2>4 DEF OneRole
<1>d. TablesSay'
  BY <1>0, <1>3, <1>6, <1>9 DEF TablesSay
<1>f. StaleAside'
  <2> SUFFICES ASSUME NEW w \in DOMAIN tlb' \intersect (Heap \union Temps)
               PROVE  \/ w \in DOMAIN mapped' /\ tlb'[w] = mapped'[w]
                      \/ w \in speculated' /\ tlb'[w] \in Aside(w)'
    BY DEF StaleAside
  <2>1. w # Window(virt)
    BY <1>0, <1>2, WindowReaches, UserOrWindow
  <2>2. w \in DOMAIN tlb /\ tlb'[w] = tlb[w]
    BY <1>1, <2>1
  <2>3. Aside(w) \subseteq Aside(w)'
    BY <1>7 DEF Aside
  <2>4. \/ w \in DOMAIN mapped /\ tlb[w] = mapped[w]
        \/ w \in speculated /\ tlb[w] \in Aside(w)
    BY <1>0, <2>2 DEF StaleAside
  <2> QED
    BY <1>3, <2>2, <2>3, <2>4
<1>g. NewTablesAreZero'
  <2> SUFFICES ASSUME dead = 0, ~astray, speculated \intersect Temps = {}, NEW f \in DOMAIN made'
               PROVE  mem'[f] = made'[f]
    BY <1>3 DEF NewTablesAreZero
  <2>1. g = page_frame /\ page_frame \in Frame
    BY <1>1, <1>2 DEF Others
  <2>2. CASE f = page_frame
    BY <1>6, <1>7, <2>1, <2>2
  <2>3. CASE f # page_frame
    <3>1. f \in DOMAIN made /\ f \in Frame \ {pt, g} /\ made'[f] = made[f]
      BY <1>5, <1>7, <2>1, <2>3
    <3> QED
      BY <1>0, <1>6, <3>1 DEF NewTablesAreZero
  <2> QED
    BY <2>2, <2>3
<1> QED
  BY <1>a, <1>b, <1>d, <1>e, <1>f, <1>g DEF Mapping

\* What the heap writes hits the frame that its page was given or, by a stale
\* entry, one that is no frame of the allocator's: no table and nothing made.
LEMMA StoreMaps ==
  ASSUME HarmlessContents, KernelInv, MappingInv,
         NEW n \in 0..(pages - 1), NEW data \in Contents,
         Store(VirtualPage(HEAP_BASE + n), data)
  PROVE  MappingInv'
<1> DEFINE v == VirtualPage(HEAP_BASE + n)
           f == Reaches(mem, tlb, v)
<1>1. UNCHANGED <<used, page_frame, pages, mapped, made, dead, speculated, astray>>
  BY DEF Store, pmm, call, history
<1> SUFFICES ASSUME Mapping PROVE Mapping'
  BY <1>1, ClaimKept
<1>0. HeapSoFar /\ OneRole /\ TablesSay /\ WindowsAgree /\ StaleAside /\ NewTablesAreZero
  BY DEF Mapping
<1>2. mem' = Written(mem, f, data) /\ tlb' = With(tlb, v, f)
  BY DEF Store, Written
<1>3. v \in DOMAIN mapped
  BY <1>0 DEF HeapSoFar
<1>4. /\ DOMAIN mapped \subseteq UserPages
      /\ v \in Heap /\ v \in VirtualPages /\ v \notin Temps
  BY <1>0, <1>3, HeapSoFarFacts DEF VirtualPages
<1>k. KernelTables(mem')
  BY StoreStep DEF KernelInv, KernelTables
<1> HIDE DEF v
<1>5. f \in Harmless
  BY <1>4, ReachesHarmless DEF KernelInv
<1>6. f = mapped[v] \/ (v \in speculated /\ f \in Reserved \union {HIGH})
  <2>1. CASE v \in DOMAIN tlb
    <3>1. f = tlb[v]
      BY <2>1 DEF Reaches
    <3>2. \/ v \in DOMAIN mapped /\ tlb[v] = mapped[v]
          \/ v \in speculated /\ tlb[v] \in Aside(v)
      BY <1>0, <1>4, <2>1 DEF StaleAside
    <3>3. Aside(v) = Reserved \union {HIGH}
      BY <1>4 DEF Aside
    <3> QED
      BY <3>1, <3>2, <3>3
  <2>2. CASE v \notin DOMAIN tlb
    <3>1. f = Walk(mem, v)
      BY <2>2 DEF Reaches
    <3> QED
      BY <1>0, <1>3, <3>1 DEF TablesSay
  <2> QED
    BY <2>1, <2>2
<1> HIDE DEF f
<1>7. /\ \A d \in Index \ Taken : TableOf(d) # f
      /\ f \notin DOMAIN made
  <2>1. used \subseteq Frame
    BY DEF KernelInv, AllocatorKeepsTwo
  <2>2. f # NONE
    BY <1>0, <1>3, <1>6, <2>1, KernelFacts DEF OneRole
  <2>3. f \notin DOMAIN made
    BY <1>0, <1>3, <1>6, <2>1, KernelFacts DEF OneRole
  <2>4. ASSUME NEW d \in Index \ Taken, TableOf(d) # NONE PROVE TableOf(d) # f
    BY <1>0, <1>3, <1>6, <2>1, <2>4, KernelFacts DEF OneRole
  <2> QED
    BY <2>2, <2>3, <2>4
<1>8. /\ \A w \in UserPages : Walk(mem', w) = Walk(mem, w)
      /\ mem'[INITIAL_PD] = mem[INITIAL_PD]
      /\ \A g \in Frame \ {f} : mem'[g] = mem[g]
  <2>1. KernelTables(mem) /\ \A d \in Index \ Taken : mem[INITIAL_PD][d] # f
    BY <1>7 DEF KernelInv, TableOf
  <2> QED
    BY <1>2, <1>5, <1>k, <2>1, WalkAfterWrite
<1>9. /\ DOMAIN tlb' = DOMAIN tlb \union {v}
      /\ \A w \in DOMAIN tlb' : tlb'[w] = IF w = v THEN f ELSE tlb[w]
  BY <1>2 DEF With
<1>a. HeapSoFar' /\ OneRole'
  BY <1>0, <1>1, <1>8 DEF HeapSoFar, OneRole, TableOf
<1>b. TablesSay'
  BY <1>0, <1>1, <1>4, <1>8 DEF TablesSay
<1>c. WindowsAgree'
  <2>1. \A d \in Index : <<RECURSIVE_PT, d>> # v
    <3>1. v[1] # RECURSIVE_PT
      BY <1>4, PageFacts, KernelFacts
    <3> QED
      BY <3>1
  <2> QED
    BY <1>0, <1>8, <1>9, <2>1 DEF WindowsAgree, TableOf
<1>d. StaleAside'
  <2> SUFFICES ASSUME NEW w \in DOMAIN tlb' \intersect (Heap \union Temps)
               PROVE  \/ w \in DOMAIN mapped /\ tlb'[w] = mapped[w]
                      \/ w \in speculated /\ tlb'[w] \in Aside(w)
    BY <1>1 DEF StaleAside, Aside
  <2>1. CASE w = v
    BY <1>3, <1>6, <1>9, <2>1 DEF Aside
  <2>2. CASE w # v
    BY <1>0, <1>9, <2>2 DEF StaleAside
  <2> QED
    BY <2>1, <2>2
<1>e. NewTablesAreZero'
  <2>1. DOMAIN made \subseteq Frame \ {f}
    BY <1>0, <1>7 DEF OneRole, KernelInv, AllocatorKeepsTwo
  <2> QED
    BY <1>0, <1>1, <1>8, <2>1 DEF NewTablesAreZero
<1> QED
  BY <1>a, <1>b, <1>c, <1>d, <1>e DEF Mapping

\* The CPU fills and drops entries of the TLB of its own accord: what it caches
\* is what the tables say, and astray tells whether that may do harm.
LEMMA TlbMaps ==
  ASSUME KernelInv, MappingInv, NEW v \in VirtualPages, Prefetch(v) \/ Evict(v)
  PROVE  MappingInv'
<1>1. UNCHANGED <<used, mem, page_frame, pages, mapped, made, dead>>
  BY DEF Prefetch, Evict, pmm, call, history
<1>2. (astray => astray') /\ speculated \subseteq speculated'
  <2>1. CASE Prefetch(v)
    <3>1. astray => astray'
      BY <2>1, Zenon DEF Prefetch
    <3> QED
      BY <2>1, <3>1 DEF Prefetch
  <2>2. CASE Evict(v)
    BY <2>2 DEF Evict, history
  <2> QED
    BY <2>1, <2>2
<1> SUFFICES ASSUME Mapping, ~astray' PROVE Mapping'
  BY <1>1, <1>2, ClaimKept
<1>0. HeapSoFar /\ OneRole /\ TablesSay /\ WindowsAgree /\ StaleAside /\ NewTablesAreZero
  BY DEF Mapping
<1>3. HeapSoFar' /\ OneRole' /\ TablesSay' /\ NewTablesAreZero'
  BY <1>0, <1>1, <1>2 DEF HeapSoFar, OneRole, TableOf, TablesSay, NewTablesAreZero
<1>4. CASE Prefetch(v)
  <2>1. /\ DOMAIN tlb' = DOMAIN tlb \union {v} /\ Walk(mem, v) # NONE
        /\ \A w \in DOMAIN tlb' : tlb'[w] = IF w = v THEN Walk(mem, v) ELSE tlb[w]
        /\ v \in (Heap \union Temps) \ DOMAIN mapped =>
             v \in speculated' /\ Walk(mem, v) \in Aside(v)
    BY <1>4 DEF Prefetch, With
  <2>2. WindowsAgree'
    <3> SUFFICES ASSUME NEW d \in Index \ Taken, <<RECURSIVE_PT, d>> \in DOMAIN tlb'
                 PROVE  tlb'[<<RECURSIVE_PT, d>>] = TableOf(d) /\ TableOf(d) # NONE
      BY <1>1 DEF WindowsAgree, TableOf
    <3>1. Walk(mem, <<RECURSIVE_PT, d>>) = TableOf(d)
      BY WalkWindow DEF KernelInv, TableOf
    <3> QED
      BY <1>0, <2>1, <3>1 DEF WindowsAgree
  <2>3. StaleAside'
    <3> SUFFICES ASSUME NEW w \in DOMAIN tlb' \intersect (Heap \union Temps)
                 PROVE  \/ w \in DOMAIN mapped /\ tlb'[w] = mapped[w]
                        \/ w \in speculated' /\ tlb'[w] \in Aside(w)
      BY <1>1 DEF StaleAside, Aside
    <3>1. CASE w = v
      BY <1>0, <2>1, <3>1 DEF TablesSay
    <3>2. CASE w # v
      BY <1>0, <1>2, <2>1, <3>2 DEF StaleAside
    <3> QED
      BY <3>1, <3>2
  <2> QED
    BY <1>3, <2>2, <2>3 DEF Mapping
<1>5. CASE Evict(v)
  <2>1. /\ DOMAIN tlb' = DOMAIN tlb \ {v}
        /\ \A w \in DOMAIN tlb' : tlb'[w] = tlb[w]
    BY <1>5 DEF Evict, Restrict
  <2>2. WindowsAgree'
    BY <1>0, <1>1, <2>1 DEF WindowsAgree, TableOf
  <2>3. StaleAside'
    BY <1>0, <1>1, <1>2, <2>1 DEF StaleAside, Aside
  <2> QED
    BY <1>3, <2>2, <2>3 DEF Mapping
<1> QED
  BY <1>4, <1>5

\* A call and a step that changes nothing.
LEMMA OtherMaps ==
  ASSUME MappingInv,
         UNCHANGED <<used, mem, tlb, page_frame, pages, mapped, made, dead, speculated, astray>>
  PROVE  MappingInv'
<1> SUFFICES ASSUME Mapping PROVE Mapping'
  BY ClaimKept
<1>1. HeapSoFar' /\ OneRole' /\ TablesSay' /\ NewTablesAreZero'
  BY DEF Mapping, HeapSoFar, OneRole, TableOf, TablesSay, NewTablesAreZero
<1>2. WindowsAgree' /\ StaleAside'
  BY DEF Mapping, WindowsAgree, StaleAside, TableOf, Aside
<1> QED
  BY <1>1, <1>2 DEF Mapping

\* With KernelInv, MappingInv is inductive.  Nothing is claimed after a table
\* was freed.
LEMMA NextMapping ==
  ASSUME HarmlessContents
  PROVE  KernelInv /\ MappingInv /\ [Next]_vars => MappingInv'
<1> SUFFICES ASSUME KernelInv, MappingInv, [Next]_vars PROVE MappingInv'
  OBVIOUS
<1>1. ASSUME NEW routine, NEW v, Call(routine, v) PROVE MappingInv'
  BY <1>1, OtherMaps DEF Call, pmm, history
<1>2. CASE alloc_page_table \/ alloc_page \/ PageFrame \/ Create
  BY <1>2, AllocPageTableMaps, AllocPageMaps, PageFrameMaps, CreateMaps
<1>3. ASSUME NEW d \in Dead, dealloc_page_table(d) PROVE MappingInv'
  BY <1>3 DEF dealloc_page_table, MappingInv
<1>4. CASE \E v \in VirtualPages : Prefetch(v) \/ Evict(v)
  BY <1>4, TlbMaps
<1>5. CASE UNCHANGED vars
  BY <1>5, OtherMaps DEF vars, pmm, call, history
<1>6. CASE \E n \in 0..(pages - 1), data \in Contents : Store(VirtualPage(HEAP_BASE + n), data)
  BY <1>6, StoreMaps
<1> QED
  BY <1>1, <1>2, <1>3, <1>4, <1>5, <1>6 DEF Next, kmem_morecore

\* Both invariants hold in every reachable state.
LEMMA MappingHolds ==
  ASSUME HarmlessContents
  PROVE  Spec => [](KernelInv /\ MappingInv)
<1>1. Init => KernelInv /\ MappingInv
  BY InitKernelInv, InitMapping
<1>2. KernelInv /\ MappingInv /\ [Next]_vars => (KernelInv /\ MappingInv)'
  BY NextKernelInv, NextMapping
<1> QED
  BY <1>1, <1>2, PTL DEF Spec

-----------------------------------------------------------------------------
(* The theorems.                                                           *)

\* Whatever a new table held, every page of the heap is mapped to a used frame of
\* its own that no other page and no table has, over the edge of a table too, and
\* the TLB has that frame or a stale entry that the CPU cached before the page was
\* mapped: until a table is freed or such an entry leads to a frame that can be
\* handed out (page.c:20-73).
THEOREM HeapMapped ==
  ASSUME HarmlessContents
  PROVE  Spec => []HeapIsMapped
<1>1. KernelInv /\ MappingInv => HeapIsMapped
  <2> SUFFICES ASSUME KernelInv, MappingInv, dead = 0, ~astray, NEW n \in 0..(pages - 1)
               PROVE  LET v == VirtualPage(HEAP_BASE + n)
                          f == Walk(mem, v)
                      IN /\ v \in DOMAIN mapped /\ f = mapped[v] /\ f \in used \ Reserved
                         /\ v \in DOMAIN tlb => tlb[v] = f \/ v \in speculated
                         /\ \A k \in 0..(pages - 1) \ {n} :
                              Walk(mem, VirtualPage(HEAP_BASE + k)) # f
                         /\ f \notin DOMAIN made /\ \A d \in Index : mem[INITIAL_PD][d] # f
    BY DEF HeapIsMapped
  <2> DEFINE Page(k) == VirtualPage(HEAP_BASE + k)
  <2>0. HeapSoFar /\ OneRole /\ TablesSay /\ StaleAside
    BY DEF MappingInv, Mapping
  <2>1. \A k \in 0..(pages - 1) : Page(k) \in DOMAIN mapped
    BY <2>0 DEF HeapSoFar
  <2>2. ASSUME NEW k \in 0..(pages - 1), k # n PROVE Page(k) # Page(n)
    <3>1. HEAP_BASE + k \in Nat /\ HEAP_BASE + n \in Nat /\ HEAP_BASE + k # HEAP_BASE + n
      BY <2>2, PagingAssumption DEF KernelInv, CallInProgress
    <3> QED
      BY <3>1, VirtualPageInjective
  <2> HIDE DEF Page
  <2>3. \A k \in 0..(pages - 1) : Walk(mem, Page(k)) = mapped[Page(k)]
    BY <2>0, <2>1 DEF TablesSay
  <2>4. mapped[Page(n)] \in used \ Reserved /\ mapped[Page(n)] \notin DOMAIN made
    BY <2>0, <2>1 DEF OneRole
  <2>5. Page(n) \in DOMAIN tlb => tlb[Page(n)] = mapped[Page(n)] \/ Page(n) \in speculated
    <3>1. Page(n) \in Heap
      BY <2>0, <2>1, HeapSoFarFacts
    <3> QED
      BY <2>0, <3>1 DEF StaleAside
  <2>6. \A k \in 0..(pages - 1) \ {n} : Walk(mem, Page(k)) # mapped[Page(n)]
    BY <2>0, <2>1, <2>2, <2>3 DEF OneRole
  <2>7. ASSUME NEW d \in Index PROVE mem[INITIAL_PD][d] # mapped[Page(n)]
    <3>1. CASE d \in Taken
      <4>1. mem[INITIAL_PD][d] = InitialPD[d]
        BY <3>1 DEF KernelInv, KernelTables
      <4>2. InitialPD[d] \in Reserved
        BY <3>1, KernelFacts DEF InitialPD, Taken
      <4> QED
        BY <2>4, <4>1, <4>2
    <3>2. CASE d \notin Taken
      <4>1. TableOf(d) # NONE => TableOf(d) # mapped[Page(n)]
        BY <2>0, <2>1, <3>2 DEF OneRole
      <4>2. mapped[Page(n)] # NONE
        BY <2>4, KernelFacts DEF KernelInv, AllocatorKeepsTwo
      <4> QED
        BY <4>1, <4>2 DEF TableOf
    <3> QED
      BY <3>1, <3>2
  <2> QED
    BY <2>1, <2>3, <2>4, <2>5, <2>6, <2>7 DEF Page
<1> QED
  BY <1>1, MappingHolds, PTL

\* A table or directory that was made stays as it was made, until a table is freed
\* or the CPU caches the page it was made at (page.c:120-150).
THEOREM NewTablesZero ==
  ASSUME HarmlessContents
  PROVE  Spec => []NewTablesAreZero
<1>1. MappingInv => NewTablesAreZero
  BY DEF MappingInv, Mapping, NewTablesAreZero
<1> QED
  BY <1>1, MappingHolds, PTL

-----------------------------------------------------------------------------
(* The frame allocator within.                                             *)

\* Every frame that was ever handed out is a frame, and so is every table in the
\* directory.
HandedOut == owned \union returned
Entries ==
  /\ HandedOut \subseteq Frame
  /\ \A d \in Index \ Taken : TableOf(d) \in HandedOut \union {NONE}

\* Where pages, tables and the heap are written, the directory is not.
LEMMA DirectoryStays ==
  ASSUME KernelInv, alloc_page \/ Create \/ \E n \in 0..(pages - 1), data \in Contents :
                                              Store(VirtualPage(HEAP_BASE + n), data)
  PROVE  mem'[INITIAL_PD] = mem[INITIAL_PD]
<1>0. INITIAL_PD \notin Harmless /\ INITIAL_PD \in Frame
  BY KernelFacts DEF Harmless, Others
<1>1. ASSUME NEW m \in [Frame -> Table], NEW g \in Harmless, NEW row
      PROVE  [m EXCEPT ![g] = row][INITIAL_PD] = m[INITIAL_PD]
  BY <1>0, <1>1
<1>2. KernelTables(Machine.m) /\ HarmlessTlb(Machine.cache)
  BY DEF KernelInv, Machine
<1>3. ASSUME NEW v \in Heap \union Temps, NEW f \in Others
      PROVE  set_page(Machine, v, f).m[INITIAL_PD] = mem[INITIAL_PD]
  <2>1. Reaches(mem, tlb, Window(v)) \in Harmless /\ mem \in [Frame -> Table]
    BY PageFacts, ReachesHarmless DEF KernelInv, KernelTables
  <2> QED
    BY <1>1, <2>1 DEF set_page, Machine
<1>4. CASE alloc_page
  <2>1. PICK f \in Frame : Pmm!GetFrame(f) /\ Becomes(set_page(Machine, virt, f))
    BY <1>4 DEF alloc_page
  <2>2. f \in Others
    BY <2>1, FreshFrame DEF KernelInv
  <2>3. virt \in Heap \union Temps
    BY <1>4, CallPage DEF KernelInv, alloc_page
  <2> QED
    BY <1>3, <2>1, <2>2, <2>3 DEF Becomes
<1>5. CASE Create
  <2> DEFINE s0 == set_page(Machine, virt, page_frame)
             g == Reaches(s0.m, s0.cache, virt)
             s == memset(s0, virt)
             written == [s EXCEPT !.m[s.cache[virt]][RECURSIVE_PT] = HIGH]
  <2>1. virt \in Heap \union Temps /\ page_frame \in Others
    BY <1>5, CallPage DEF KernelInv, CallInProgress, Creates, Create
  <2>2. /\ KernelTables(s0.m) /\ HarmlessTlb(s0.cache)
        /\ s0.m[INITIAL_PD] = mem[INITIAL_PD]
    BY <1>2, <1>3, <2>1, SetPageKeeps
  <2> HIDE DEF s0
  <2>3. g \in Harmless
    BY <2>1, <2>2, PageFacts, ReachesHarmless
  <2> HIDE DEF g
  <2>4. /\ s = [m |-> [s0.m EXCEPT ![g] = Empty], cache |-> With(s0.cache, virt, g)]
        /\ s.cache[virt] = g
    BY DEF memset, With, g
  <2>5. KernelTables(s.m)
    BY <2>1, <2>2, MemsetKeeps
  <2>6. s.m[INITIAL_PD] = mem[INITIAL_PD]
    <3>1. s.m = [s0.m EXCEPT ![g] = Empty] /\ s0.m \in [Frame -> Table]
      BY <2>2, <2>4 DEF KernelTables
    <3>2. [s0.m EXCEPT ![g] = Empty][INITIAL_PD] = s0.m[INITIAL_PD]
      BY <1>1, <2>3, <3>1
    <3> QED
      BY <2>2, <3>1, <3>2
  <2> HIDE DEF s
  <2>7. written.m = [s.m EXCEPT ![g][RECURSIVE_PT] = HIGH]
    BY <2>4
  <2>8. written.m[INITIAL_PD] = mem[INITIAL_PD]
    <3> DEFINE row == [s.m[g] EXCEPT ![RECURSIVE_PT] = HIGH]
    <3>1. written.m = [s.m EXCEPT ![g] = row] /\ s.m \in [Frame -> Table]
      BY <2>5, <2>7 DEF KernelTables
    <3> HIDE DEF row
    <3>2. [s.m EXCEPT ![g] = row][INITIAL_PD] = s.m[INITIAL_PD]
      BY <1>1, <2>3, <3>1
    <3> QED
      BY <2>6, <3>1, <3>2
  <2> HIDE DEF written
  <2>9. mem' = s.m \/ mem' = written.m
    BY <1>5, <2>4 DEF Create, Becomes, Flushed, s, s0, written
  <2> QED
    BY <2>6, <2>8, <2>9
<1>6. CASE \E n \in 0..(pages - 1), data \in Contents : Store(VirtualPage(HEAP_BASE + n), data)
  <2>1. PICK n \in 0..(pages - 1), data \in Contents : Store(VirtualPage(HEAP_BASE + n), data)
    BY <1>6
  <2>2. n \in 0..HEAP_PAGES /\ n < HEAP_PAGES
    BY PagingAssumption DEF KernelInv, CallInProgress
  <2>3. VirtualPage(HEAP_BASE + n) \in VirtualPages
    BY <2>2, NextPage, PageFacts
  <2>4. Reaches(mem, tlb, VirtualPage(HEAP_BASE + n)) \in Harmless /\ mem \in [Frame -> Table]
    BY <2>3, ReachesHarmless DEF KernelInv, KernelTables
  <2> QED
    BY <1>1, <2>1, <2>4 DEF Store
<1> QED
  BY <1>4, <1>5, <1>6

\* dealloc_page_table is called where there is a table.
DeallocatesTable == \A d \in Dead : dealloc_page_table(d) => TableOf(d) # NONE

\* Every step of page.c is one of the allocator, as its contract with its callers
\* has it, or frees frame 0, or leaves it alone.
LEMMA AllocatorStep ==
  ASSUME KernelInv, Entries, [Next]_vars
  PROVE  /\ [Pmm!Next \/ Pmm!free_frame(0)]_(Pmm!vars)
         /\ DeallocatesTable => [Pmm!Next]_(Pmm!vars)
         /\ Entries'
<1>0. Pmm!Frame = Frame
  BY DEF Frame, Pmm!Frame
<1>1. ASSUME NEW f \in Frame, Pmm!GetFrame(f)
      PROVE  Pmm!Next /\ HandedOut' = HandedOut \union {f}
  BY <1>0, <1>1 DEF Pmm!Next, Pmm!GetFrame, HandedOut
<1>2. ASSUME HandedOut \subseteq HandedOut', HandedOut' \subseteq Frame,
             mem'[INITIAL_PD] = mem[INITIAL_PD]
      PROVE  Entries'
  BY <1>2 DEF Entries, TableOf
<1>3. CASE /\ UNCHANGED pmm
           /\ UNCHANGED mem \/ Create \/ \E n \in 0..(pages - 1), data \in Contents :
                                           Store(VirtualPage(HEAP_BASE + n), data)
  <2>1. mem'[INITIAL_PD] = mem[INITIAL_PD]
    BY <1>3, DirectoryStays
  <2>2. HandedOut' = HandedOut /\ HandedOut \subseteq Frame
    BY <1>3 DEF pmm, HandedOut, Entries
  <2> QED
    BY <1>2, <1>3, <2>1, <2>2 DEF pmm, Pmm!vars
<1>4. CASE alloc_page_table
  <2>1. PICK pt \in Frame : Pmm!GetFrame(pt) /\ Becomes(set_page_table(Machine, virt, pt))
    BY <1>4 DEF alloc_page_table
  <2>2. Pmm!Next /\ HandedOut' = HandedOut \union {pt}
    BY <1>1, <2>1
  <2>3. mem' = [mem EXCEPT ![INITIAL_PD][virt[1]] = pt]
    BY <2>1 DEF Becomes, set_page_table, Machine
  <2>4. \A d \in Index : mem'[INITIAL_PD][d] = IF d = virt[1] THEN pt ELSE mem[INITIAL_PD][d]
    BY <2>3, KernelFacts DEF KernelInv, KernelTables, Table
  <2>5. Entries'
    BY <2>2, <2>4 DEF Entries, TableOf
  <2> QED
    BY <2>2, <2>5
<1>5. CASE alloc_page
  <2>1. Pmm!Next /\ HandedOut \subseteq HandedOut' /\ HandedOut' \subseteq Frame
    BY <1>1, <1>5 DEF alloc_page, Entries
  <2> QED
    BY <1>2, <1>5, <2>1, DirectoryStays
<1>6. CASE PageFrame
  <2>1. Pmm!Next /\ HandedOut \subseteq HandedOut' /\ HandedOut' \subseteq Frame
    BY <1>1, <1>6 DEF PageFrame, Entries
  <2> QED
    BY <1>2, <1>6, <2>1 DEF PageFrame
<1>7. ASSUME NEW d \in Dead, dealloc_page_table(d)
      PROVE  /\ Pmm!Next \/ Pmm!free_frame(0)
             /\ DeallocatesTable => Pmm!Next
             /\ Entries'
  <2> DEFINE f == IF TableOf(d) = NONE THEN 0 ELSE TableOf(d)
  <2>1. Pmm!free_frame(f) /\ mem' = [mem EXCEPT ![INITIAL_PD][d] = NONE]
    BY <1>7 DEF dealloc_page_table, TableOf
  <2>2. d \in Index \ Taken
    BY PagingAssumption
  <2>3. TableOf(d) # NONE => f \in Frame /\ Pmm!FreeFrame(f)
    BY <2>1, <2>2 DEF Entries, HandedOut, Pmm!FreeFrame
  <2>4. TableOf(d) # NONE => Pmm!Next
    BY <1>0, <2>3 DEF Pmm!Next
  <2>5. f \in Frame
    BY <2>2, <2>3, KernelFacts DEF Others
  <2>6. HandedOut' = HandedOut \union {f}
    BY <2>1 DEF Pmm!free_frame, HandedOut
  <2>7. \A e \in Index : mem'[INITIAL_PD][e] = IF e = d THEN NONE ELSE mem[INITIAL_PD][e]
    BY <2>1, KernelFacts DEF KernelInv, KernelTables, Table
  <2>8. Entries'
    BY <2>5, <2>6, <2>7 DEF Entries, TableOf
  <2> QED
    BY <1>7, <2>1, <2>4, <2>8 DEF DeallocatesTable
<1>8. CASE \/ kmem_morecore \/ Create \/ UNCHANGED vars
           \/ \E v \in Temps : Call("create_page_table", v) \/ Call("create_page_dir", v)
           \/ \E v \in VirtualPages : Prefetch(v) \/ Evict(v)
           \/ \E n \in 0..(pages - 1), data \in Contents : Store(VirtualPage(HEAP_BASE + n), data)
  <2>1. UNCHANGED pmm
    BY <1>8 DEF kmem_morecore, Call, Create, Prefetch, Evict, Store, vars
  <2>2. UNCHANGED mem \/ Create \/ \E n \in 0..(pages - 1), data \in Contents :
                                     Store(VirtualPage(HEAP_BASE + n), data)
    BY <1>8 DEF kmem_morecore, Call, Prefetch, Evict, vars
  <2> QED
    BY <1>3, <2>1, <2>2
<1> QED
  BY <1>4, <1>5, <1>6, <1>7, <1>8 DEF Next

\* Boot: the directory has no table of the allocator's.
LEMMA InitEntries ==
  ASSUME HarmlessContents, Init
  PROVE  KernelInv /\ Entries
<1>1. KernelInv
  BY InitKernelInv
<1>2. \A d \in Index \ Taken : TableOf(d) = NONE
  <2>1. \A d \in Index \ Taken : InitialPD[d] = NONE
    BY DEF InitialPD, Taken
  <2>2. PICK ram \in [Frame -> Contents] :
          mem = [ram EXCEPT ![INITIAL_PD] = InitialPD, ![INITIAL_PT] = InitialPT]
    BY PagingAssumption DEF Init
  <2> QED
    BY <2>1, <2>2, KernelFacts DEF TableOf
<1> QED
  BY <1>1, <1>2 DEF Init, Pmm!Init, Entries, HandedOut

\* page.c takes and gives back frames as FrameBitmap lets a caller of pmm_alloc and
\* pmm_free, whatever stale entries did to the heap, but for one call: where there
\* is no table, dealloc_page_table frees frame 0, which it does not own
\* (page.c:33-150, page.c:110, bitmap.c:31-108).
THEOREM FramesFromAllocator ==
  ASSUME HarmlessContents
  PROVE  Spec => Pmm!Init /\ [][Pmm!Next \/ Pmm!free_frame(0)]_(Pmm!vars)
<1>1. Init => KernelInv /\ Entries /\ Pmm!Init
  BY InitEntries DEF Init
<1>2. KernelInv /\ Entries /\ [Next]_vars =>
        (KernelInv /\ Entries)' /\ [Pmm!Next \/ Pmm!free_frame(0)]_(Pmm!vars)
  BY NextKernelInv, AllocatorStep
<1> QED
  BY <1>1, <1>2, PTL DEF Spec

\* Called only where there is a table, page.c keeps to the allocator's contract:
\* what is proved of the allocator then holds with the page tables at work.
THEOREM PresentTablesAreOwned ==
  ASSUME HarmlessContents
  PROVE  Spec /\ [][DeallocatesTable]_vars => Pmm!Spec
<1>1. Init => KernelInv /\ Entries /\ Pmm!Init
  BY InitEntries DEF Init
<1>2. KernelInv /\ Entries /\ [Next]_vars /\ [DeallocatesTable]_vars =>
        (KernelInv /\ Entries)' /\ [Pmm!Next]_(Pmm!vars)
  <2> SUFFICES ASSUME KernelInv, Entries, [Next]_vars, [DeallocatesTable]_vars
               PROVE  (KernelInv /\ Entries)' /\ [Pmm!Next]_(Pmm!vars)
    OBVIOUS
  <2>1. (KernelInv /\ Entries)'
    BY NextKernelInv, AllocatorStep
  <2>2. CASE DeallocatesTable
    BY <2>1, <2>2, AllocatorStep
  <2>3. CASE UNCHANGED vars
    BY <2>1, <2>3 DEF vars, pmm, Pmm!vars
  <2> QED
    BY <2>2, <2>3
<1> QED
  BY <1>1, <1>2, PTL DEF Spec, Pmm!Spec
=============================================================================
