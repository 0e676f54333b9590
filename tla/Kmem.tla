-------------------------------- MODULE Kmem --------------------------------
(***************************************************************************)
(* The kernel heap, kernel/mm/kmem.c: a doubly linked list of blocks, each *)
(* a kmemptr_t header followed by its payload, closed by a TAIL header.    *)
(* kmalloc scans for the first block that fits, chops it, and maps more    *)
(* pages behind the tail when nothing fits; kfree merges neighbours.       *)
(*                                                                         *)
(* Addresses are offsets from KERNEL_HEAP_START.  A header field is a      *)
(* function of the header's address (next[s] is s->next).  A header that   *)
(* a merge absorbs keeps its bytes, as in the code: blocks is a history    *)
(* variable that tells the headers of the list from these leftovers.       *)
(***************************************************************************)
EXTENDS Integers

CONSTANTS
  PAGE_SIZE,         \* bytes of a page
  SIZEOF_KMEMPTR,    \* sizeof(kmemptr_t)
  KMEM_ALIGN_SIZE,   \* the allocation grain
  KERNEL_HEAP_START, \* virtual address of the heap
  WORD,              \* number of addresses of the machine (2^32)
  Requests,          \* the byte counts that callers ask kmalloc for
  MaxPages           \* bound: page frames that can be mapped for the heap

Hdr == SIZEOF_KMEMPTR

ASSUME KmemAssumption ==
  /\ PAGE_SIZE \in Nat /\ Hdr \in Nat \ {0} /\ PAGE_SIZE > 2 * Hdr
  /\ KMEM_ALIGN_SIZE \in Nat \ {0}
  /\ KERNEL_HEAP_START \in Nat /\ WORD \in Nat \ {0}
  /\ Requests \subseteq Nat
  /\ MaxPages \in Nat \ {0}

\* No request is so close to 2^32 that align_block or the header overflows.
ASSUME RequestsFit == \A r \in Requests : r + KMEM_ALIGN_SIZE + Hdr < WORD

FREE == "free"
USED == "used"
TAIL == "tail"
JUNK == "junk"   \* flags of a cell that holds no header
NULL == -1

VARIABLES
  prev, next, size, flags, \* the header at each address
  tail, total_length,      \* kmem_info
  pc,                      \* where the one kernel thread is inside kmalloc
  request,                 \* the byte count kmalloc was called with
  scratch,                 \* the block the scan looks at
  more,                    \* iterations kmem_morecore still has to do
  held,                    \* byte count asked for, by pointer now held
  stale,                   \* pointers freed since the last call of kmalloc
  blocks                   \* history: the headers of the list

header == <<prev, next, size, flags>>
scan   == <<pc, request, scratch, more>>
client == <<held, stale>>
vars   == <<header, tail, total_length, scan, client, blocks>>

HeapTop == MaxPages * PAGE_SIZE
Addr == 0 .. HeapTop - 1
Head == 0             \* kmem_info->head; kmem_init alone sets it
LastBlock == prev[tail]  \* a faulty hint for first_free
first_free == Head    \* kmem_info->first_free; kmem_init alone sets it

-----------------------------------------------------------------------------
(* kmem_init: one free block and the tail in one page.                     *)

Init ==
  LET end == PAGE_SIZE - Hdr
  IN /\ prev  = [a \in Addr |-> IF a \in {Head, end} THEN Head ELSE NULL]
     /\ next  = [a \in Addr |-> IF a \in {Head, end} THEN end ELSE NULL]
     /\ size  = [a \in Addr |-> IF a = Head THEN PAGE_SIZE - 2 * Hdr ELSE 0]
     /\ flags = [a \in Addr |-> CASE a = Head -> FREE
                                  [] a = end  -> TAIL
                                  [] OTHER    -> JUNK]
     /\ tail = end /\ total_length = PAGE_SIZE
     /\ pc = "idle" /\ request = 0 /\ scratch = first_free /\ more = 0
     /\ held = [p \in {} |-> 0] /\ stale = {}
     /\ blocks = {Head, end}

-----------------------------------------------------------------------------
(* kmalloc.                                                                *)

RoundsDown(n) == n - (n % KMEM_ALIGN_SIZE)

align_block(n) ==
  IF n % KMEM_ALIGN_SIZE = 0
    THEN n ELSE n + (KMEM_ALIGN_SIZE - (n % KMEM_ALIGN_SIZE))

bsize == align_block(request)

kmemptr_next(s) == IF flags[s] # TAIL THEN next[s] ELSE NULL

\* Faulty variant: the scan stops before the tail.
InBoundsToTail(s) == s # NULL /\ s < tail

\* The loop condition.  head + total_length is kmemptr_t* arithmetic: the
\* length is scaled by sizeof(kmemptr_t), and the sum wraps at WORD.
InBounds(s) ==
  /\ s # NULL
  /\ KERNEL_HEAP_START + s
       < (KERNEL_HEAP_START + total_length * SIZEOF_KMEMPTR) % WORD

\* Faulty variant: the flags are not read.
FitsAnyFlags(s) == flags[s] # TAIL /\ size[s] > bsize + Hdr

Fits(s) == flags[s] = FREE /\ size[s] > bsize + Hdr

\* Entry: align the request and start at first_free.
Kmalloc(r) ==
  /\ pc = "idle"
  /\ pc' = "scan" /\ request' = r /\ scratch' = first_free /\ more' = 0
  /\ stale' = {}
  /\ UNCHANGED <<header, tail, total_length, held, blocks>>

\* Faulty variant: the header of the new block is not counted.
SizeReqNoHeader ==
  LET last == prev[scratch]
  IN IF flags[last] = FREE THEN (bsize - size[last]) % WORD ELSE bsize

\* size_req of the branch that found the tail, as a uint32_t.
SizeReq ==
  LET last == prev[scratch]
  IN IF flags[last] = FREE THEN ((bsize + Hdr) - size[last]) % WORD
                           ELSE bsize + Hdr

PagesRoundedDown(n) == n \div PAGE_SIZE
PagesFor(n) == (n \div PAGE_SIZE) + (IF n % PAGE_SIZE # 0 THEN 1 ELSE 0)

ScanTail ==
  /\ pc = "scan" /\ InBounds(scratch) /\ flags[scratch] = TAIL
  /\ pc' = "grow" /\ more' = PagesFor(SizeReq)
  /\ UNCHANGED <<header, tail, total_length, request, scratch, client, blocks>>

\* One iteration of kmem_morecore behind a FREE last block: the old tail
\* header is absorbed, and a new one written at the end of the new page.
\* Faulty variant: the tail counted in headers, as the branch for USED does.
TailInHeaders(last) == last + (size[last] + PAGE_SIZE) * SIZEOF_KMEMPTR
TailAfter(last) == last + (size[last] + PAGE_SIZE) + Hdr

GrowFree(last) ==
  LET t == TailAfter(last)
  IN /\ size'  = [size EXCEPT ![last] = @ + PAGE_SIZE, ![t] = 0]
     /\ next'  = [next EXCEPT ![last] = t, ![t] = t]
     /\ prev'  = [prev EXCEPT ![t] = last]
     /\ flags' = [flags EXCEPT ![t] = TAIL]
     /\ tail' = t
     /\ blocks' = (blocks \ {tail}) \union {t}
     /\ UNCHANGED pc

\* Behind a USED last block the new tail is scratch + PAGE_SIZE in units of
\* kmemptr_t.  That lies beyond the page just mapped, so the write faults
\* and isr_handler never returns.
GrowUsed ==
  /\ size' = [size EXCEPT ![tail] = PAGE_SIZE - Hdr]
  /\ tail' = tail + PAGE_SIZE * SIZEOF_KMEMPTR
  /\ pc' = "halt"
  /\ UNCHANGED <<prev, next, flags, blocks>>

Morecore ==
  /\ pc = "grow" /\ more > 0 /\ total_length + PAGE_SIZE <= HeapTop
  /\ total_length' = total_length + PAGE_SIZE /\ more' = more - 1
  /\ IF flags[prev[tail]] = FREE THEN GrowFree(prev[tail]) ELSE GrowUsed
  /\ UNCHANGED <<request, scratch, client>>

\* The bound MaxPages: alloc_map_page has no failure path (get_frame walks off
\* its bitmap), so the model stops where the frames end.
OutOfFrames ==
  /\ pc = "grow" /\ more > 0 /\ total_length + PAGE_SIZE > HeapTop
  /\ pc' = "halt"
  /\ UNCHANGED <<header, tail, total_length, request, scratch, more, client,
                 blocks>>

\* The block the second half of the loop body tests: the scanned one or,
\* straight after kmem_morecore, first_free.
AtBlock(s) ==
  \/ pc = "scan" /\ s = scratch /\ InBounds(s) /\ flags[s] # TAIL
  \/ pc = "grow" /\ more = 0 /\ s = first_free

\* Faulty variant: a remainder too small for a request is handed out too.
ChopOrTake(s) ==
  LET new == s + Hdr + bsize
  IN IF size[s] - (bsize + Hdr) <= KMEM_ALIGN_SIZE
       THEN /\ flags' = [flags EXCEPT ![s] = USED]
            /\ UNCHANGED <<prev, next, size, blocks>>
       ELSE /\ prev'  = [prev EXCEPT ![kmemptr_next(s)] = new, ![new] = s]
            /\ size'  = [size EXCEPT ![new] = size[s] - (bsize + Hdr),
                                     ![s] = bsize]
            /\ next'  = [next EXCEPT ![new] = next[s], ![s] = new]
            /\ flags' = [flags EXCEPT ![s] = USED, ![new] = FREE]
            /\ blocks' = blocks \union {new}

Chop(s) ==
  LET new == s + Hdr + bsize
  IN /\ prev'  = [prev EXCEPT ![kmemptr_next(s)] = new, ![new] = s]
     /\ size'  = [size EXCEPT ![new] = size[s] - (bsize + Hdr), ![s] = bsize]
     /\ next'  = [next EXCEPT ![new] = next[s], ![s] = new]
     /\ flags' = [flags EXCEPT ![s] = USED, ![new] = FREE]
     /\ blocks' = blocks \union {new}

Idle == pc' = "idle" /\ request' = 0 /\ scratch' = first_free /\ more' = 0

ChopBlock(s) ==
  /\ AtBlock(s) /\ Fits(s)
  /\ Chop(s)
  /\ held' = [p \in DOMAIN held \union {s + Hdr} |->
                IF p = s + Hdr THEN request ELSE held[p]]
  /\ Idle
  /\ UNCHANGED <<tail, total_length, stale>>

SkipBlock(s) ==
  /\ AtBlock(s) /\ ~Fits(s)
  /\ pc' = "scan" /\ scratch' = kmemptr_next(s) /\ more' = 0
  /\ UNCHANGED <<header, tail, total_length, request, client, blocks>>

KmallocNull ==
  /\ pc = "scan" /\ ~InBounds(scratch)
  /\ Idle
  /\ UNCHANGED <<header, tail, total_length, client, blocks>>

-----------------------------------------------------------------------------
(* kfree.                                                                  *)

EatsNothing(s) == FALSE
EatsNext(s) == flags[next[s]] = FREE

\* Faulty variants: no merge backwards, the head taken for its predecessor.
EatenByNone(s) == FALSE
EatenByHead(s) ==
  (IF EatsNext(s) THEN [flags EXCEPT ![s] = FREE] ELSE flags)[prev[s]] = FREE

\* The block before s is free.  By then s itself may carry FREE, and the head
\* is its own predecessor.
EatenByPrev(s) ==
  LET seen == IF EatsNext(s) THEN [flags EXCEPT ![s] = FREE] ELSE flags
  IN seen[prev[s]] = FREE /\ prev[s] # s

\* Faulty variant: a block its predecessor eats keeps KMEM_USED.
FlagsUnlessEaten(s) == IF EatenByPrev(s) THEN flags ELSE [flags EXCEPT ![s] = FREE]
FlagsAfterFree(s) == [flags EXCEPT ![s] = FREE]

\* s absorbs a free successor, a free predecessor then absorbs s.
Merge(s) ==
  LET n    == next[s]
      b    == prev[s]
      end  == IF EatsNext(s) THEN next[n] ELSE n
      len  == IF EatsNext(s) THEN size[s] + size[n] + Hdr ELSE size[s]
      into == EatenByPrev(s)
  IN /\ flags' = FlagsAfterFree(s)
     /\ size'  = [size EXCEPT ![s] = len,
                              ![b] = IF into THEN @ + len + Hdr ELSE @]
     /\ next'  = [next EXCEPT ![s] = end, ![b] = IF into THEN end ELSE @]
     /\ prev'  = IF EatsNext(s) \/ into
                   THEN [prev EXCEPT ![end] = IF into THEN b ELSE s]
                   ELSE prev
     /\ blocks' = blocks \ ((IF EatsNext(s) THEN {n} ELSE {})
                              \union (IF into THEN {s} ELSE {}))

\* A pointer held, or one freed twice: its header says which.
Kfree(p) ==
  /\ pc = "idle" /\ p \in DOMAIN held \union stale
  /\ IF flags[p - Hdr] = USED THEN Merge(p - Hdr) ELSE UNCHANGED <<header, blocks>>
  /\ held' = [q \in DOMAIN held \ {p} |-> held[q]]
  /\ stale' = stale \union {p}
  /\ UNCHANGED <<tail, total_length, scan>>

\* The owner of a block overwrites the bytes it asked for.
Write(p) ==
  LET Payload == {a \in Addr : p <= a /\ a < p + held[p]}
      fill(f, v) == [a \in Addr |-> IF a \in Payload THEN v ELSE f[a]]
  IN /\ pc = "idle" /\ p \in DOMAIN held
     /\ prev' = fill(prev, NULL) /\ next' = fill(next, NULL)
     /\ size' = fill(size, 0) /\ flags' = fill(flags, JUNK)
     /\ UNCHANGED <<tail, total_length, scan, client, blocks>>

Halted == pc = "halt" /\ UNCHANGED vars

-----------------------------------------------------------------------------
KmallocStep ==
  \/ ScanTail \/ Morecore \/ OutOfFrames \/ KmallocNull
  \/ \E s \in Addr : ChopBlock(s) \/ SkipBlock(s)

Next ==
  \/ \E r \in Requests : Kmalloc(r)
  \/ KmallocStep
  \/ \E p \in Addr : Kfree(p) \/ Write(p)
  \/ Halted

Spec == Init /\ [][Next]_vars

\* The kernel thread keeps running once it is inside kmalloc.
FairSpec == Spec /\ WF_vars(KmallocStep)
-----------------------------------------------------------------------------
(* Properties.                                                             *)

TypeOK ==
  /\ prev \in [Addr -> Addr \union {NULL}]
  /\ next \in [Addr -> Addr \union {NULL}]
  /\ size \in [Addr -> Nat]
  /\ flags \in [Addr -> {FREE, USED, TAIL, JUNK}]
  /\ tail \in Addr /\ total_length \in Nat
  /\ pc \in {"idle", "scan", "grow", "halt"}
  /\ request \in Requests \union {0} /\ more \in Nat
  /\ scratch \in Addr \union {NULL}
  /\ DOMAIN held \subseteq Addr /\ \A p \in DOMAIN held : held[p] \in Requests
  /\ stale \subseteq Addr
  /\ blocks \subseteq Addr

\* The blocks, each a header and its payload, tile the mapped heap from head
\* to tail with nothing between two neighbours, and the back links agree with
\* the forward links: no operation of kmem.c, in any order, loses a byte.
ListTilesHeap ==
  /\ {Head, tail} \subseteq blocks
  /\ tail + Hdr = total_length /\ total_length <= HeapTop
  /\ \A b \in blocks : flags[b] = TAIL <=> b = tail
  /\ prev[Head] = Head
  /\ \A b \in blocks \ {tail} :
       /\ next[b] \in blocks
       /\ next[b] = b + Hdr + size[b]
       /\ prev[next[b]] = b
       /\ \A c \in blocks : c > b => c >= next[b]

\* kfree merges a block with both neighbours, so two free blocks are never
\* next to each other, whatever the order of the frees.
NeverAdjacentFree ==
  \A b \in blocks \ {tail} : flags[b] = FREE => flags[next[b]] # FREE

\* The block before the tail is free, so kmem_morecore never takes its branch
\* for a used last block, which writes beyond the page it has just mapped.
LastBlockFree == prev[tail] \in blocks /\ flags[prev[tail]] = FREE

\* The used blocks of the list are exactly those the callers hold, each at
\* least as large as what its caller asked for.
OwnersHoldBlocks ==
  /\ \A b \in blocks : flags[b] = USED <=> b + Hdr \in DOMAIN held
  /\ \A p \in DOMAIN held : p - Hdr \in blocks /\ size[p - Hdr] >= held[p]

\* A pointer freed twice with no kmalloc in between: the header left behind
\* by the first kfree, merged or not, says FREE and the second does nothing.
DoubleFreeIgnored ==
  \A p \in stale : p - Hdr \in Addr /\ p \notin DOMAIN held
                                    /\ flags[p - Hdr] = FREE

\* kmalloc takes the first block that fits: whatever lies before the block it
\* looks at does not fit.
FirstFit == pc = "scan" => \A b \in blocks : b < scratch => ~Fits(b)

\* When everything has been given back, the heap is one free block again.
EmptyHeapIsOneBlock ==
  held = [p \in {} |-> 0] => blocks = {Head, tail} /\ flags[Head] = FREE

\* kmem_morecore is asked for the pages that bring the last block to the request
\* and its header, and for no more: size_req neither underflows nor falls short.
\* (The scan takes a block only if it is larger still, see KmallocReturns.)
GrowthIsTight ==
  pc = "grow" =>
    LET room == size[prev[tail]] + more * PAGE_SIZE
    IN bsize + Hdr <= room /\ room < bsize + Hdr + PAGE_SIZE

\* kmalloc and kfree keep the promise of HeapContract to their callers.
Contract == INSTANCE HeapContract
              WITH limit <- total_length, Addresses <- Addr, Sizes <- Requests
HeapSpec == Contract!Spec

\* The one way the scan can go on for ever: no block fits, and the last block
\* has exactly the bytes of the request and its header.  size_req is then 0.
ExactFit ==
  /\ pc \in {"scan", "grow"}
  /\ \A b \in blocks : ~Fits(b)
  /\ size[prev[tail]] = bsize + Hdr

\* kmalloc returns, unless the scan is caught by ExactFit or the frames end.
HangOnlyOnExactFit == (pc = "scan") ~> (pc \in {"idle", "halt"} \/ ExactFit)

\* kmem.c:135 sizes the growth "so we don't scan the list a million times":
\* one growth is to be enough, hence every call returns or the frames end.
KmallocReturns == (pc = "scan") ~> (pc \in {"idle", "halt"})

\* kmalloc gives up only where the bound of its loop has wrapped around WORD:
\* the scan neither falls off the list nor meets the bound in any other way.
NullOnlyAfterWrap ==
  [][KmallocNull => KERNEL_HEAP_START + total_length * SIZEOF_KMEMPTR >= WORD]_vars
=============================================================================
