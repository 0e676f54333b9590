----------------------------- MODULE Kmem_proof -----------------------------
(***************************************************************************)
(* Proofs about Kmem for every page size, header size, grain and bound.    *)
(* The inductive invariant joins the checked invariants with three facts   *)
(* about where things are: the list is ordered by address (Chain), a       *)
(* pointer freed since the last kmalloc lies inside a free block           *)
(* (StaleInFree), and the scan is always at a block (ScanAtBlock).         *)
(***************************************************************************)
EXTENDS Kmem, TLAPS

Chain ==
  \A b \in blocks :
    /\ b <= tail
    /\ b # Head => /\ prev[b] \in blocks /\ prev[b] < b
                   /\ next[prev[b]] = b

\* Every block of the list is free, used or the tail.
HeadersLive == \A b \in blocks : flags[b] \in {FREE, USED, TAIL}

StaleInFree ==
  \A p \in stale :
    \E b \in blocks : flags[b] = FREE /\ b <= p - Hdr /\ p - Hdr < next[b]

ScanAtBlock ==
  /\ pc \in {"scan", "grow"} => stale = {} /\ request \in Requests
  /\ pc = "scan" => scratch \in blocks

List == TypeOK /\ ListTilesHeap /\ Chain
IInv == /\ List /\ NeverAdjacentFree /\ LastBlockFree /\ OwnersHoldBlocks
        /\ HeadersLive /\ StaleInFree /\ DoubleFreeIgnored /\ ScanAtBlock

-----------------------------------------------------------------------------
(* Arithmetic of align_block.                                              *)

LEMMA BsizeCovers ==
  ASSUME TypeOK
  PROVE  bsize \in Nat /\ bsize >= request
<1>1. request \in Nat /\ KMEM_ALIGN_SIZE \in Nat \ {0}
  BY KmemAssumption DEF TypeOK
<1>2. request % KMEM_ALIGN_SIZE \in 0 .. KMEM_ALIGN_SIZE - 1
  BY <1>1
<1> QED BY <1>1, <1>2 DEF bsize, align_block

LEMMA HdrPositive == Hdr \in Nat /\ Hdr > 0 /\ PAGE_SIZE \in Nat /\ PAGE_SIZE > 2 * Hdr
                     /\ HeapTop \in Nat /\ HeapTop >= PAGE_SIZE
<1>1. MaxPages \in Nat /\ MaxPages >= 1 /\ PAGE_SIZE \in Nat /\ PAGE_SIZE > 0
  BY KmemAssumption
<1>2. MaxPages * PAGE_SIZE >= PAGE_SIZE
  BY <1>1
<1> QED BY <1>1, <1>2, KmemAssumption DEF HeapTop

-----------------------------------------------------------------------------
LEMMA InitIInv == Init => IInv
<1> SUFFICES ASSUME Init PROVE IInv
  OBVIOUS
<1> DEFINE end == PAGE_SIZE - Hdr
<1> USE HdrPositive DEF Head, Addr, NULL
<1>1. TypeOK
  BY DEF Init, first_free, TypeOK, FREE, TAIL, JUNK, USED
<1>2. /\ blocks = {Head, end} /\ tail = end /\ total_length = PAGE_SIZE
      /\ Head \in Addr /\ end \in Addr /\ end > Head
  BY DEF Init
<1>3. prev[Head] = Head /\ prev[end] = Head
  BY <1>2 DEF Init
<1>4. next[Head] = end /\ size[Head] = PAGE_SIZE - 2 * Hdr
  BY <1>2 DEF Init
<1>5. flags[Head] = "free" /\ flags[end] = "tail"
  BY <1>2 DEF Init, FREE, TAIL
<1>6. held = [p \in {} |-> 0] /\ stale = {} /\ pc = "idle"
  BY DEF Init
<1> HIDE DEF end
<1>7. ListTilesHeap
  BY <1>2, <1>3, <1>4, <1>5 DEF ListTilesHeap, TAIL, end
<1>8. Chain
  BY <1>2, <1>3, <1>4 DEF Chain
<1>9. NeverAdjacentFree /\ LastBlockFree
  BY <1>2, <1>3, <1>4, <1>5 DEF NeverAdjacentFree, LastBlockFree, FREE
<1>10. OwnersHoldBlocks
  BY <1>2, <1>5, <1>6 DEF OwnersHoldBlocks, USED
<1>11. StaleInFree /\ DoubleFreeIgnored /\ ScanAtBlock
  BY <1>6 DEF StaleInFree, DoubleFreeIgnored, ScanAtBlock
<1>12. HeadersLive
  BY <1>2, <1>5 DEF HeadersLive, FREE, TAIL
<1> QED BY <1>1, <1>7, <1>8, <1>9, <1>10, <1>11, <1>12 DEF IInv, List
-----------------------------------------------------------------------------
(* Steps that leave the list and its owners as they are.                   *)

LEMMA ListUnmoved ==
  ASSUME IInv, UNCHANGED <<header, tail, total_length, held, blocks>>
  PROVE  /\ ListTilesHeap' /\ Chain' /\ NeverAdjacentFree' /\ LastBlockFree'
         /\ OwnersHoldBlocks' /\ HeadersLive'
<1> USE DEF IInv, List, header
<1>1. ListTilesHeap' /\ Chain'
  BY DEF ListTilesHeap, Chain
<1>2. NeverAdjacentFree' /\ LastBlockFree' /\ OwnersHoldBlocks'
  BY DEF NeverAdjacentFree, LastBlockFree, OwnersHoldBlocks
<1>3. HeadersLive'
  BY DEF HeadersLive
<1> QED BY <1>1, <1>2, <1>3

LEMMA KmallocInv == ASSUME IInv, NEW r \in Requests, Kmalloc(r) PROVE IInv'
<1>1. TypeOK'
  BY HdrPositive DEF IInv, List, Kmalloc, TypeOK, header, first_free, Head, Addr
<1>2. StaleInFree' /\ DoubleFreeIgnored' /\ ScanAtBlock'
  BY DEF IInv, List, Kmalloc, StaleInFree, DoubleFreeIgnored, ScanAtBlock,
         ListTilesHeap, first_free
<1> QED BY <1>1, <1>2, ListUnmoved DEF IInv, List, Kmalloc

LEMMA ScanTailInv == ASSUME IInv, ScanTail PROVE IInv'
<1>1. PagesFor(SizeReq) \in Nat
  <2>1. prev[scratch] = Head \/ prev[scratch] \in blocks
    BY DEF IInv, List, ScanTail, ScanAtBlock, Chain, ListTilesHeap
  <2>2. size[prev[scratch]] \in Nat
    BY <2>1 DEF IInv, List, ListTilesHeap, TypeOK
  <2>3. bsize \in Nat /\ Hdr \in Nat /\ WORD \in Nat /\ WORD > 0
    BY BsizeCovers, KmemAssumption DEF IInv, List
  <2>4. ((bsize + Hdr) - size[prev[scratch]]) % WORD \in Nat
    BY <2>2, <2>3
  <2>5. SizeReq \in Nat
    BY <2>3, <2>4 DEF SizeReq
  <2>6. SizeReq \div PAGE_SIZE \in Nat
    BY <2>5, HdrPositive
  <2> QED BY <2>6 DEF PagesFor
<1>2. TypeOK'
  BY <1>1 DEF IInv, List, ScanTail, TypeOK, header, client
<1>3. StaleInFree' /\ DoubleFreeIgnored' /\ ScanAtBlock'
  BY DEF IInv, ScanTail, StaleInFree, DoubleFreeIgnored, ScanAtBlock, client, header
<1> QED BY <1>2, <1>3, ListUnmoved DEF IInv, List, ScanTail, client

LEMMA SkipBlockInv == ASSUME IInv, NEW s \in Addr, SkipBlock(s) PROVE IInv'
<1>1. s \in blocks /\ s # tail
  BY HdrPositive DEF IInv, List, SkipBlock, AtBlock, ScanAtBlock, ListTilesHeap, LastBlockFree,
     first_free, Head, TAIL, FREE, Chain
<1>2. kmemptr_next(s) = next[s] /\ next[s] \in blocks
  BY <1>1 DEF IInv, List, ListTilesHeap, kmemptr_next
<1>3. TypeOK'
  BY <1>2 DEF IInv, List, SkipBlock, TypeOK, header, client
<1>4. StaleInFree' /\ DoubleFreeIgnored' /\ ScanAtBlock'
  BY <1>2 DEF IInv, SkipBlock, AtBlock, StaleInFree, DoubleFreeIgnored, ScanAtBlock,
     client, header
<1> QED BY <1>3, <1>4, ListUnmoved DEF IInv, List, SkipBlock, client

LEMMA IdleInv ==
  ASSUME IInv, KmallocNull \/ OutOfFrames \/ UNCHANGED vars
  PROVE  IInv'
<1>1. UNCHANGED <<header, tail, total_length, held, stale, blocks>>
  BY DEF KmallocNull, OutOfFrames, vars, client
<1>2. TypeOK'
  BY <1>1, HdrPositive, SMTT(30) DEF IInv, List, KmallocNull, OutOfFrames, Idle, vars, scan,
     TypeOK, header, first_free, Head, Addr
<1>3. StaleInFree' /\ DoubleFreeIgnored' /\ ScanAtBlock'
  BY <1>1 DEF IInv, StaleInFree, DoubleFreeIgnored, ScanAtBlock, header,
     KmallocNull, OutOfFrames, Idle, vars, scan
<1> QED BY <1>1, <1>2, <1>3, ListUnmoved DEF IInv, List
-----------------------------------------------------------------------------
(* kmem_morecore: the free last block takes the new page.                  *)

LEMMA MorecoreInv == ASSUME IInv, Morecore PROVE IInv'
<1> DEFINE last == prev[tail]
           t    == TailAfter(last)
<1> USE HdrPositive
<1>1. /\ last \in blocks /\ last # tail /\ last \in Addr /\ flags[last] = FREE
      /\ next[last] = tail /\ last < tail /\ tail \in blocks /\ tail \in Addr
      /\ tail = last + Hdr + size[last] /\ size[last] \in Nat
      /\ prev[Head] = Head /\ Head \in blocks /\ flags[tail] = TAIL
      /\ Head # tail /\ blocks \subseteq Addr /\ Addr \subseteq Nat
  <2>1. /\ last \in blocks /\ flags[last] = FREE /\ tail \in blocks
        /\ flags[tail] = TAIL /\ prev[Head] = Head /\ Head \in blocks
    BY DEF IInv, List, ListTilesHeap, LastBlockFree
  <2>2. last # tail
    BY <2>1 DEF FREE, TAIL
  <2>3. blocks \subseteq Addr /\ Addr \subseteq Nat /\ tail \in Addr
    BY DEF IInv, List, TypeOK, Addr
  <2>4. size[last] \in Nat
    BY <2>1, <2>3 DEF IInv, List, TypeOK
  <2>5. Head # tail
    BY <2>1, <2>2
  <2>6. last < tail /\ next[last] = tail
    BY <2>1, <2>5 DEF IInv, List, Chain
  <2>7. next[last] = last + Hdr + size[last]
    BY <2>1, <2>2 DEF IInv, List, ListTilesHeap
  <2> QED BY <2>1, <2>2, <2>3, <2>4, <2>5, <2>6, <2>7
<1>2. t = tail + PAGE_SIZE /\ t \in Addr /\ t \notin blocks /\ t > tail
  <2>1. t = tail + PAGE_SIZE
    BY <1>1 DEF TailAfter, Addr
  <2>2. t + Hdr <= HeapTop
    BY <2>1, <1>1 DEF IInv, List, ListTilesHeap, Morecore, Addr
  <2>3. t \in Addr /\ t > tail
    BY <2>1, <2>2, <1>1 DEF Addr
  <2> QED BY <2>1, <2>3, <1>1 DEF IInv, List, Chain, Addr
<1>3. /\ GrowFree(last) /\ total_length' = total_length + PAGE_SIZE
      /\ total_length' <= HeapTop /\ more' = more - 1 /\ more > 0 /\ pc = "grow"
      /\ UNCHANGED <<request, scratch, held, stale>>
  BY <1>1 DEF Morecore, client
<1>4. /\ tail' = t /\ blocks' = (blocks \ {tail}) \union {t} /\ pc' = "grow"
      /\ size'  = [size EXCEPT ![last] = @ + PAGE_SIZE, ![t] = 0]
      /\ next'  = [next EXCEPT ![last] = t, ![t] = t]
      /\ prev'  = [prev EXCEPT ![t] = last]
      /\ flags' = [flags EXCEPT ![t] = TAIL]
  BY <1>3 DEF GrowFree
<1> HIDE DEF last, t
<1>5. TypeOK'
  BY <1>1, <1>2, <1>3, <1>4 DEF IInv, List, TypeOK, TAIL
<1>6. /\ \A b \in blocks \ {last} : size'[b] = size[b] /\ next'[b] = next[b]
      /\ \A b \in blocks : prev'[b] = prev[b] /\ flags'[b] = flags[b]
      /\ next'[last] = t /\ size'[last] = size[last] + PAGE_SIZE
      /\ prev'[t] = last /\ flags'[t] = TAIL
  BY <1>1, <1>2, <1>4 DEF IInv, List, TypeOK
<1>7. ListTilesHeap'
  <2>1. \A b \in blocks' : (flags'[b] = TAIL <=> b = tail')
    BY <1>1, <1>2, <1>4, <1>6 DEF IInv, List, ListTilesHeap
  <2>2. \A b \in blocks' \ {tail'} :
          /\ next'[b] \in blocks'
          /\ next'[b] = b + Hdr + size'[b]
          /\ prev'[next'[b]] = b
    <3> SUFFICES ASSUME NEW b \in blocks', b # tail'
                 PROVE  /\ next'[b] \in blocks'
                        /\ next'[b] = b + Hdr + size'[b]
                        /\ prev'[next'[b]] = b
      OBVIOUS
    <3>1. CASE b = last
      <4>1. t = last + Hdr + (size[last] + PAGE_SIZE)
        BY <1>1, <1>2 DEF Addr
      <4>2. next'[last] = t /\ size'[last] = size[last] + PAGE_SIZE /\ prev'[t] = last
        BY <1>6
      <4>3. t \in blocks'
        BY <1>4
      <4>4. last + Hdr + (size[last] + PAGE_SIZE) = last + Hdr + size'[last]
        BY <4>2
      <4> QED BY <3>1, <4>1, <4>2, <4>3, <4>4
    <3>2. CASE b # last
      <4>1. b \in blocks /\ b # tail
        BY <1>4
      <4>2. /\ next[b] \in blocks /\ prev[next[b]] = b
            /\ next[b] = b + Hdr + size[b]
        BY <4>1 DEF IInv, List, ListTilesHeap
      <4>3. next[b] # tail
        BY <3>2, <4>2 DEF last
      <4>4. next'[b] = next[b] /\ size'[b] = size[b] /\ prev'[next[b]] = b
        BY <3>2, <4>1, <4>2, <1>6
      <4>5. next'[b] \in blocks'
        BY <4>2, <4>3, <4>4, <1>4
      <4> QED BY <4>2, <4>4, <4>5
    <3> QED BY <3>1, <3>2
  <2>3. \A b \in blocks' \ {tail'} : \A c \in blocks' : c > b => c >= next'[b]
    <3> SUFFICES ASSUME NEW b \in blocks', b # tail', NEW c \in blocks', c > b
                 PROVE  c >= next'[b]
      OBVIOUS
    <3>0. b \in blocks /\ b # tail
      BY <1>4
    <3>1. CASE b = last
      <4>1. c = t
        BY <3>1, <3>0, <1>1, <1>4 DEF IInv, List, ListTilesHeap, Chain, Addr
      <4> QED BY <3>1, <4>1, <1>6, <1>2 DEF Addr
    <3>2. CASE b # last
      <4>1. next'[b] = next[b] /\ next[b] \in blocks
        BY <3>0, <3>2, <1>6 DEF IInv, List, ListTilesHeap
      <4>2. CASE c = t
        <5>1. next[b] <= tail /\ next[b] \in Nat /\ tail \in Nat /\ t \in Nat
          BY <4>1, <1>1, <1>2 DEF IInv, List, Chain, Addr
        <5> QED BY <5>1, <4>1, <4>2, <1>2
      <4>3. CASE c # t
        BY <4>1, <4>3, <3>0, <1>4 DEF IInv, List, ListTilesHeap
      <4> QED BY <4>2, <4>3
    <3> QED BY <3>1, <3>2
  <2>4. /\ {Head, tail'} \subseteq blocks' /\ prev'[Head] = Head
        /\ tail' + Hdr = total_length' /\ total_length' <= HeapTop
    BY <1>1, <1>2, <1>3, <1>4, <1>6 DEF IInv, List, ListTilesHeap, Addr
  <2> QED BY <2>1, <2>2, <2>3, <2>4 DEF ListTilesHeap
<1>8. Chain'
  <2> SUFFICES ASSUME NEW b \in blocks'
               PROVE  /\ b <= tail'
                      /\ b # Head => /\ prev'[b] \in blocks' /\ prev'[b] < b
                                     /\ next'[prev'[b]] = b
    BY DEF Chain
  <2>1. CASE b = t
    <3>1. t \in Nat /\ last \in Nat /\ tail \in Nat /\ last < t
      BY <1>1, <1>2 DEF Addr
    <3>2. tail' = t /\ prev'[t] = last /\ next'[last] = t
      BY <1>4, <1>6
    <3>3. last \in blocks'
      BY <1>1, <1>4
    <3> QED BY <2>1, <3>1, <3>2, <3>3
  <2>2. CASE b # t
    <3>1. b \in blocks /\ b # tail /\ b <= tail
      BY <2>2, <1>4 DEF IInv, List, Chain
    <3>2. b <= tail'
      BY <3>1, <1>1, <1>2, <1>4 DEF Addr
    <3>3. ASSUME b # Head
          PROVE  prev[b] \in blocks /\ prev[b] < b /\ prev[b] # tail
                 /\ next[prev[b]] = b /\ prev[b] # last
      BY <3>1, <3>3, <1>1 DEF IInv, List, Chain, Addr
    <3>4. ASSUME b # Head
          PROVE  prev'[b] \in blocks' /\ prev'[b] < b /\ next'[prev'[b]] = b
      <4>1. prev'[b] = prev[b]
        BY <3>1, <1>6
      <4>2. prev[b] \in blocks' /\ next'[prev[b]] = b
        BY <3>3, <3>4, <1>4, <1>6
      <4> QED BY <3>3, <3>4, <4>1, <4>2
    <3> QED BY <3>2, <3>4
  <2> QED BY <2>1, <2>2
<1>9. NeverAdjacentFree' /\ LastBlockFree'
  <2>1. LastBlockFree'
    BY <1>1, <1>2, <1>4, <1>6 DEF LastBlockFree
  <2>2. ASSUME NEW b \in blocks', b # tail', flags'[b] = FREE
        PROVE  flags'[next'[b]] # FREE
    <3>1. CASE b = last
      BY <3>1, <1>6 DEF FREE, TAIL
    <3>2. CASE b # last
      <4>1. b \in blocks /\ b # tail
        BY <2>2, <1>4
      <4>2. next[b] \in blocks /\ next'[b] = next[b] /\ flags'[b] = flags[b]
        BY <3>2, <4>1, <1>6 DEF IInv, List, ListTilesHeap
      <4>3. flags[next[b]] # FREE
        BY <2>2, <4>1, <4>2 DEF IInv, NeverAdjacentFree
      <4> QED BY <4>2, <4>3, <1>6
    <3> QED BY <3>1, <3>2
  <2> QED BY <2>1, <2>2 DEF NeverAdjacentFree
<1>10. OwnersHoldBlocks'
  <2>1. \A p \in DOMAIN held : p - Hdr \in blocks /\ flags[p - Hdr] = USED
    BY DEF IInv, List, TypeOK, OwnersHoldBlocks, Addr
  <2>2. \A p \in DOMAIN held : p - Hdr # last /\ p - Hdr # tail /\ p - Hdr # t
    BY <2>1, <1>1, <1>2 DEF FREE, USED, TAIL
  <2>3. \A p \in DOMAIN held : p - Hdr \in blocks' /\ size'[p - Hdr] >= held[p]
    BY <2>1, <2>2, <1>4, <1>6 DEF IInv, OwnersHoldBlocks
  <2>4. \A b \in blocks' : flags'[b] = USED <=> b + Hdr \in DOMAIN held
    <3> SUFFICES ASSUME NEW b \in blocks'
                 PROVE  flags'[b] = USED <=> b + Hdr \in DOMAIN held
      OBVIOUS
    <3>1. CASE b = t
      <4>1. t + Hdr \in DOMAIN held => (t + Hdr) - Hdr \in blocks
        BY <2>1
      <4>2. (t + Hdr) - Hdr = t
        BY <1>2 DEF Addr
      <4> QED BY <3>1, <4>1, <4>2, <1>2, <1>6 DEF USED, TAIL
    <3>2. CASE b # t
      BY <3>2, <1>4, <1>6 DEF IInv, OwnersHoldBlocks
    <3> QED BY <3>1, <3>2
  <2> QED BY <2>3, <2>4, <1>3 DEF OwnersHoldBlocks
<1>11. StaleInFree' /\ DoubleFreeIgnored' /\ ScanAtBlock'
  BY <1>3, <1>4 DEF IInv, ScanAtBlock, StaleInFree, DoubleFreeIgnored
<1>12. HeadersLive'
  BY <1>4, <1>6 DEF IInv, HeadersLive
<1> QED BY <1>5, <1>7, <1>8, <1>9, <1>10, <1>11, <1>12 DEF IInv, List
-----------------------------------------------------------------------------
(* kmalloc chops the block it takes: s keeps the request, new the rest.    *)

LEMMA ChopBlockInv == ASSUME IInv, NEW s \in Addr, ChopBlock(s) PROVE IInv'
<1> DEFINE new == s + Hdr + bsize
           nxt == next[s]
<1> USE HdrPositive
<1>1. s \in blocks /\ s # tail /\ flags[s] = FREE /\ size[s] > bsize + Hdr
  <2>1. flags[s] = FREE /\ size[s] > bsize + Hdr
    BY DEF ChopBlock, Fits
  <2>2. s \in blocks
    BY DEF IInv, List, ChopBlock, AtBlock, ScanAtBlock, ListTilesHeap, first_free
  <2> QED BY <2>1, <2>2 DEF IInv, List, ListTilesHeap, FREE, TAIL
<1>2. /\ blocks \subseteq Addr /\ Addr \subseteq Nat /\ tail \in blocks
      /\ Head \in blocks /\ size[s] \in Nat /\ bsize \in Nat /\ bsize >= request
  BY BsizeCovers DEF IInv, List, TypeOK, ListTilesHeap, Addr
<1>3. /\ nxt \in blocks /\ nxt = s + Hdr + size[s] /\ prev[nxt] = s
      /\ \A c \in blocks : c > s => c >= nxt
  BY <1>1 DEF IInv, List, ListTilesHeap
<1>4. /\ new \in Addr /\ s < new /\ new < nxt /\ new + Hdr < nxt
      /\ new \notin blocks /\ s # nxt
  <2>1. s \in Nat /\ nxt \in Nat /\ nxt \in Addr
    BY <1>2, <1>3
  <2>2. s < new /\ new < nxt /\ new + Hdr < nxt
    BY <2>1, <1>1, <1>2, <1>3
  <2>3. new \in Addr
    BY <2>1, <2>2, <1>2 DEF Addr
  <2> QED BY <2>1, <2>2, <2>3, <1>2, <1>3
<1>5. kmemptr_next(s) = nxt
  BY <1>1 DEF kmemptr_next, FREE, TAIL
<1>6. /\ prev'  = [prev EXCEPT ![nxt] = new, ![new] = s]
      /\ size'  = [size EXCEPT ![new] = size[s] - (bsize + Hdr), ![s] = bsize]
      /\ next'  = [next EXCEPT ![new] = next[s], ![s] = new]
      /\ flags' = [flags EXCEPT ![s] = USED, ![new] = FREE]
  BY <1>5 DEF ChopBlock, Chop
<1>7. /\ blocks' = blocks \union {new} /\ tail' = tail
      /\ total_length' = total_length /\ stale' = stale
      /\ pc' = "idle" /\ request' = 0 /\ scratch' = first_free /\ more' = 0
  BY DEF ChopBlock, Chop, Idle
<1>8. held' = [p \in DOMAIN held \union {s + Hdr} |->
                IF p = s + Hdr THEN request ELSE held[p]]
  BY DEF ChopBlock
<1> HIDE DEF new, nxt
<1>9. request \in Requests /\ stale = {}
  BY DEF IInv, ScanAtBlock, ChopBlock, AtBlock
<1>10. TypeOK'
  <2>1. size[s] - (bsize + Hdr) \in Nat
    BY <1>1, <1>2
  <2>2. s + Hdr \in Addr
    BY <1>2, <1>4 DEF new, Addr
  <2>3. nxt \in Addr /\ next[s] \in Addr
    BY <1>2, <1>3 DEF nxt
  <2>4. prev' \in [Addr -> Addr \union {NULL}] /\ next' \in [Addr -> Addr \union {NULL}]
    BY <1>4, <1>6, <2>3 DEF IInv, List, TypeOK
  <2>5. size' \in [Addr -> Nat] /\ flags' \in [Addr -> {FREE, USED, TAIL, JUNK}]
    BY <1>2, <1>6, <2>1 DEF IInv, List, TypeOK
  <2>6. DOMAIN held' \subseteq Addr /\ \A q \in DOMAIN held' : held'[q] \in Requests
    BY <1>8, <1>9, <2>2 DEF IInv, List, TypeOK
  <2>7. blocks' \subseteq Addr
    BY <1>2, <1>4, <1>7
  <2>8. scratch' \in Addr /\ more' \in Nat
    BY <1>7 DEF first_free, Head, Addr
  <2> QED BY <1>7, <2>4, <2>5, <2>6, <2>7, <2>8 DEF IInv, List, TypeOK
<1>11. /\ \A b \in blocks \ {s} : /\ next'[b] = next[b] /\ size'[b] = size[b]
                                  /\ flags'[b] = flags[b]
       /\ \A b \in blocks \ {nxt} : prev'[b] = prev[b]
       /\ prev'[nxt] = new /\ prev'[new] = s
       /\ next'[s] = new /\ next'[new] = nxt
       /\ size'[s] = bsize /\ size'[new] = size[s] - (bsize + Hdr)
       /\ flags'[s] = USED /\ flags'[new] = FREE
  BY <1>1, <1>2, <1>3, <1>4, <1>6 DEF IInv, List, TypeOK, nxt
<1>12. ListTilesHeap'
  <2>1. \A b \in blocks' : (flags'[b] = TAIL <=> b = tail')
    BY <1>1, <1>2, <1>4, <1>7, <1>11 DEF IInv, List, ListTilesHeap, USED, FREE, TAIL
  <2>2. \A b \in blocks' \ {tail'} :
          /\ next'[b] \in blocks'
          /\ next'[b] = b + Hdr + size'[b]
          /\ prev'[next'[b]] = b
    <3> SUFFICES ASSUME NEW b \in blocks', b # tail'
                 PROVE  /\ next'[b] \in blocks'
                        /\ next'[b] = b + Hdr + size'[b]
                        /\ prev'[next'[b]] = b
      OBVIOUS
    <3>1. CASE b = s
      <4>1. new \in blocks' /\ new = s + Hdr + bsize
        BY <1>7 DEF new
      <4> QED BY <3>1, <4>1, <1>11
    <3>2. CASE b = new
      <4>1. nxt = new + Hdr + (size[s] - (bsize + Hdr))
        BY <1>2, <1>3, <1>1 DEF new
      <4>2. nxt \in blocks'
        BY <1>3, <1>7
      <4>3. nxt = new + Hdr + size'[new]
        BY <4>1, <1>11
      <4> QED BY <3>2, <4>2, <4>3, <1>11
    <3>3. CASE b # s /\ b # new
      <4>1. b \in blocks /\ b # tail
        BY <3>3, <1>7
      <4>2. /\ next[b] \in blocks /\ prev[next[b]] = b
            /\ next[b] = b + Hdr + size[b]
        BY <4>1 DEF IInv, List, ListTilesHeap
      <4>3. next[b] # nxt
        BY <3>3, <4>2, <1>3
      <4>4. next'[b] = next[b] /\ size'[b] = size[b] /\ prev'[next[b]] = b
        BY <3>3, <4>1, <4>2, <4>3, <1>11
      <4> QED BY <4>2, <4>4, <1>7
    <3> QED BY <3>1, <3>2, <3>3
  <2>3. \A b \in blocks' \ {tail'} : \A c \in blocks' : c > b => c >= next'[b]
    <3> SUFFICES ASSUME NEW b \in blocks', b # tail', NEW c \in blocks', c > b
                 PROVE  c >= next'[b]
      OBVIOUS
    <3>0. /\ b \in Nat /\ c \in Nat /\ s \in Nat /\ new \in Nat /\ nxt \in Nat
          /\ (b # new => b \in blocks) /\ (c # new => c \in blocks)
      BY <1>2, <1>3, <1>4, <1>7
    <3>1. CASE b = s
      BY <3>0, <3>1, <1>3, <1>4, <1>11
    <3>2. CASE b = new
      BY <3>0, <3>2, <1>3, <1>4, <1>11
    <3>3. CASE b # s /\ b # new
      <4>1. b \in blocks \ {tail} /\ next'[b] = next[b] /\ next[b] \in blocks
            /\ next[b] \in Nat
        BY <3>0, <3>3, <1>2, <1>7, <1>11 DEF IInv, List, ListTilesHeap
      <4>2. CASE c # new
        BY <3>0, <4>1, <4>2 DEF IInv, List, ListTilesHeap
      <4>3. CASE c = new
        <5>1. b < s
          BY <3>0, <3>3, <4>1, <4>3, <1>3, <1>4
        <5>2. next[b] <= s
          BY <5>1, <4>1, <1>1 DEF IInv, List, ListTilesHeap
        <5> QED BY <5>2, <3>0, <4>1, <4>3, <1>4
      <4> QED BY <4>2, <4>3
    <3> QED BY <3>1, <3>2, <3>3
  <2>4. prev'[Head] = Head
    <3>1. Head # nxt
      BY <1>2, <1>3, <1>4 DEF Head
    <3> QED BY <3>1, <1>2, <1>11 DEF IInv, List, ListTilesHeap
  <2>5. {Head, tail'} \subseteq blocks' /\ tail' + Hdr = total_length' /\ total_length' <= HeapTop
    BY <1>2, <1>7 DEF IInv, List, ListTilesHeap
  <2> QED BY <2>1, <2>2, <2>3, <2>4, <2>5 DEF ListTilesHeap
<1>13. Chain'
  <2> SUFFICES ASSUME NEW b \in blocks'
               PROVE  /\ b <= tail'
                      /\ b # Head => /\ prev'[b] \in blocks' /\ prev'[b] < b
                                     /\ next'[prev'[b]] = b
    BY DEF Chain
  <2>1. CASE b = new
    <3>1. nxt <= tail /\ nxt \in Nat /\ tail \in Nat /\ new \in Nat
      BY <1>2, <1>3, <1>4 DEF IInv, List, Chain
    <3>2. s \in blocks'
      BY <1>1, <1>7
    <3> QED BY <2>1, <3>1, <3>2, <1>4, <1>7, <1>11
  <2>2. CASE b = nxt
    <3>1. nxt <= tail /\ new \in blocks'
      BY <1>3, <1>7 DEF IInv, List, Chain
    <3> QED BY <2>2, <3>1, <1>4, <1>7, <1>11
  <2>3. CASE b # new /\ b # nxt
    <3>1. b \in blocks /\ b <= tail /\ prev'[b] = prev[b]
      BY <2>3, <1>7, <1>11 DEF IInv, List, Chain
    <3>2. ASSUME b # Head
          PROVE  prev'[b] \in blocks' /\ prev'[b] < b /\ next'[prev'[b]] = b
      <4>1. prev[b] \in blocks /\ prev[b] < b /\ next[prev[b]] = b
        BY <3>1, <3>2 DEF IInv, List, Chain
      <4>2. prev[b] # s
        BY <2>3, <4>1 DEF nxt
      <4>3. next'[prev[b]] = b
        BY <4>1, <4>2, <1>11
      <4> QED BY <3>1, <4>1, <4>3, <1>7
    <3> QED BY <3>1, <3>2, <1>7
  <2> QED BY <2>1, <2>2, <2>3
<1>14. NeverAdjacentFree'
  <2> SUFFICES ASSUME NEW b \in blocks', b # tail', flags'[b] = FREE
               PROVE  flags'[next'[b]] # FREE
    BY DEF NeverAdjacentFree
  <2>1. flags[nxt] # FREE
    BY <1>1 DEF IInv, NeverAdjacentFree, nxt
  <2>2. CASE b = new
    <3>1. flags'[nxt] = flags[nxt]
      BY <1>3, <1>4, <1>11
    <3> QED BY <2>1, <2>2, <3>1, <1>11
  <2>3. CASE b = s
    BY <2>3, <1>11 DEF FREE, USED
  <2>4. CASE b # new /\ b # s
    <3>1. b \in blocks /\ b # tail /\ flags[b] = FREE /\ next'[b] = next[b]
      BY <2>4, <1>7, <1>11
    <3>2. next[b] \in blocks /\ flags[next[b]] # FREE
      BY <3>1 DEF IInv, List, ListTilesHeap, NeverAdjacentFree
    <3>3. next[b] # s
      BY <3>2, <1>1
    <3> QED BY <3>1, <3>2, <3>3, <1>11
  <2> QED BY <2>2, <2>3, <2>4
<1>15. LastBlockFree'
  <2>1. CASE nxt = tail
    BY <2>1, <1>7, <1>11 DEF LastBlockFree
  <2>2. CASE nxt # tail
    <3>1. prev[tail] \in blocks /\ flags[prev[tail]] = FREE /\ tail # Head
      BY <1>1, <1>2 DEF IInv, List, LastBlockFree, ListTilesHeap, FREE, TAIL
    <3>2. next[prev[tail]] = tail
      BY <3>1, <1>2 DEF IInv, List, Chain
    <3>3. prev[tail] # s
      BY <2>2, <3>2 DEF nxt
    <3>4. prev'[tail] = prev[tail] /\ flags'[prev[tail]] = FREE
      BY <2>2, <3>1, <3>3, <1>2, <1>11
    <3> QED BY <3>1, <3>4, <1>7 DEF LastBlockFree
  <2> QED BY <2>1, <2>2
<1>16. OwnersHoldBlocks'
  <2>1. \A p \in DOMAIN held : p \in Addr /\ p - Hdr \in blocks /\ flags[p - Hdr] = USED
    BY DEF IInv, List, TypeOK, OwnersHoldBlocks, Addr
  <2>2. \A p \in DOMAIN held : p \in Nat /\ p - Hdr # s /\ p - Hdr # new
    BY <2>1, <1>1, <1>2, <1>4 DEF FREE, USED
  <2>3. s + Hdr \notin DOMAIN held /\ new + Hdr \notin DOMAIN held
    <3>1. (s + Hdr) - Hdr = s /\ (new + Hdr) - Hdr = new
      BY <1>2, <1>4
    <3> QED BY <2>2, <3>1
  <2>4. \A b \in blocks' : flags'[b] = USED <=> b + Hdr \in DOMAIN held'
    <3> SUFFICES ASSUME NEW b \in blocks'
                 PROVE  flags'[b] = USED <=> b + Hdr \in DOMAIN held'
      OBVIOUS
    <3>0. DOMAIN held' = DOMAIN held \union {s + Hdr}
      BY <1>8
    <3>1. CASE b = s
      BY <3>0, <3>1, <1>11
    <3>2. CASE b = new
      <4>1. new + Hdr # s + Hdr
        BY <1>2, <1>4
      <4> QED BY <3>0, <3>2, <4>1, <2>3, <1>11 DEF FREE, USED
    <3>3. CASE b # s /\ b # new
      <4>1. b \in blocks /\ flags'[b] = flags[b] /\ b + Hdr # s + Hdr
        BY <3>3, <1>2, <1>7, <1>11
      <4> QED BY <3>0, <4>1 DEF IInv, OwnersHoldBlocks
    <3> QED BY <3>1, <3>2, <3>3
  <2>5. \A p \in DOMAIN held' : p - Hdr \in blocks' /\ size'[p - Hdr] >= held'[p]
    <3> SUFFICES ASSUME NEW p \in DOMAIN held'
                 PROVE  p - Hdr \in blocks' /\ size'[p - Hdr] >= held'[p]
      OBVIOUS
    <3>1. CASE p = s + Hdr
      <4>1. p - Hdr = s /\ held'[p] = request
        BY <3>1, <1>2, <1>8
      <4> QED BY <4>1, <1>1, <1>2, <1>7, <1>11
    <3>2. CASE p # s + Hdr
      <4>1. p \in DOMAIN held /\ held'[p] = held[p]
        BY <3>2, <1>8
      <4>2. p - Hdr \in blocks /\ size[p - Hdr] >= held[p] /\ p - Hdr # s
        BY <4>1, <2>2 DEF IInv, OwnersHoldBlocks
      <4> QED BY <4>1, <4>2, <1>7, <1>11
    <3> QED BY <3>1, <3>2
  <2> QED BY <2>4, <2>5 DEF OwnersHoldBlocks
<1>17. StaleInFree' /\ DoubleFreeIgnored' /\ ScanAtBlock'
  BY <1>7, <1>9 DEF StaleInFree, DoubleFreeIgnored, ScanAtBlock
<1>18. HeadersLive'
  BY <1>7, <1>11 DEF IInv, HeadersLive
<1> QED BY <1>10, <1>12, <1>13, <1>14, <1>15, <1>16, <1>17, <1>18 DEF IInv, List
-----------------------------------------------------------------------------
(* kfree: the freed block becomes part of one free block k that reaches to *)
(* end.                                                                    *)

LEMMA MergeInv ==
  ASSUME IInv, NEW p \in Addr, Kfree(p), flags[p - Hdr] = USED
  PROVE  IInv'
<1> DEFINE s    == p - Hdr
           n    == next[s]
           b    == prev[s]
           eats == EatsNext(s)
           into == EatenByPrev(s)
           end  == IF eats THEN next[n] ELSE n
           len  == IF eats THEN size[s] + size[n] + Hdr ELSE size[s]
           k    == IF into THEN b ELSE s
           gone == (IF eats THEN {n} ELSE {}) \union (IF into THEN {s} ELSE {})
<1> USE HdrPositive
<1>1. /\ p \in DOMAIN held /\ s \in blocks /\ s # tail /\ flags[s] = USED
      /\ size[s] \in Nat /\ s \in Nat /\ s \in Addr /\ p = s + Hdr
  <2>1. p \in DOMAIN held
    BY DEF Kfree, IInv, DoubleFreeIgnored, FREE, USED
  <2>2. s \in blocks
    BY <2>1 DEF IInv, OwnersHoldBlocks
  <2>3. s \in Addr /\ s \in Nat /\ size[s] \in Nat
    BY <2>2 DEF IInv, List, TypeOK, Addr
  <2>4. p = s + Hdr
    BY DEF Addr
  <2> QED BY <2>1, <2>2, <2>3, <2>4 DEF IInv, List, ListTilesHeap, USED, TAIL
<1>2. /\ blocks \subseteq Addr /\ Addr \subseteq Nat /\ Head \in blocks
      /\ tail \in blocks /\ flags[tail] = TAIL /\ prev[Head] = Head
      /\ \A c \in blocks : size[c] \in Nat
  BY DEF IInv, List, TypeOK, ListTilesHeap, Addr
<1>3. /\ n \in blocks /\ n = s + Hdr + size[s] /\ prev[n] = s /\ s < n
      /\ n \in Nat /\ \A c \in blocks : c > s => c >= n
  BY <1>1, <1>2 DEF IInv, List, ListTilesHeap
<1>4. ASSUME eats
      PROVE  /\ n # tail /\ flags[n] = FREE /\ next[n] \in blocks
             /\ next[n] = n + Hdr + size[n] /\ prev[next[n]] = n /\ n < next[n]
             /\ next[n] \in Nat /\ \A c \in blocks : c > n => c >= next[n]
             /\ flags[next[n]] # FREE
  <2>1. flags[n] = FREE /\ n # tail
    BY <1>2, <1>4 DEF EatsNext, FREE, TAIL
  <2>2. /\ next[n] \in blocks /\ next[n] = n + Hdr + size[n] /\ prev[next[n]] = n
        /\ \A c \in blocks : c > n => c >= next[n]
    BY <1>3, <2>1 DEF IInv, List, ListTilesHeap
  <2>3. n < next[n] /\ next[n] \in Nat
    BY <2>2, <1>2, <1>3
  <2> QED BY <2>1, <2>2, <2>3, <1>3 DEF IInv, NeverAdjacentFree
<1>5. /\ end \in blocks /\ end \in Nat /\ s < end /\ end = s + Hdr + len
      /\ flags[end] # FREE
  <2>1. CASE eats
    BY <2>1, <1>1, <1>2, <1>3, <1>4
  <2>2. CASE ~eats
    BY <2>2, <1>3 DEF EatsNext
  <2> QED BY <2>1, <2>2
<1>51. len \in Nat
  BY <1>1, <1>2, <1>3, HdrPositive DEF len
<1>6. \A c \in blocks : c > s /\ c # n => c >= end
  BY <1>2, <1>3, <1>4
<1>7. s # Head => b \in blocks /\ b < s /\ next[b] = s
  BY <1>1 DEF IInv, List, Chain
<1>8. ASSUME into
      PROVE  /\ b \in blocks /\ b < s /\ next[b] = s /\ flags[b] = FREE
             /\ b # tail /\ s = b + Hdr + size[b]
  <2>1. b # s /\ flags[b] = FREE
    BY <1>8 DEF EatenByPrev
  <2>2. s # Head
    BY <2>1, <1>2
  <2>3. b # tail
    BY <2>1, <1>2 DEF FREE, TAIL
  <2>4. next[b] = b + Hdr + size[b]
    BY <2>2, <2>3, <1>7 DEF IInv, List, ListTilesHeap
  <2> QED BY <2>1, <2>2, <2>3, <2>4, <1>7
<1>9. /\ k \in blocks /\ k \in Nat /\ k <= s /\ k # n /\ k # tail /\ k # end
      /\ k < end
  BY <1>1, <1>2, <1>3, <1>5, <1>8
<1>10. k # Head => prev[k] \in blocks /\ prev[k] < k /\ flags[prev[k]] # FREE
  <2>1. CASE into
    <3>1. k = b
      BY <2>1
    <3>2. ASSUME b # Head
          PROVE  prev[b] \in blocks /\ prev[b] < b /\ flags[prev[b]] # FREE
      <4>1. b \in blocks /\ flags[b] = FREE /\ b <= tail /\ b \in Nat /\ tail \in Nat
        BY <1>2, <1>8, <2>1 DEF IInv, List, Chain
      <4>2. prev[b] \in blocks /\ prev[b] < b /\ next[prev[b]] = b
        BY <3>2, <4>1 DEF IInv, List, Chain
      <4>3. prev[b] \in blocks \ {tail}
        BY <1>2, <4>1, <4>2
      <4>4. flags[prev[b]] = FREE => flags[next[prev[b]]] # FREE
        BY <4>3 DEF IInv, NeverAdjacentFree
      <4> QED BY <4>1, <4>2, <4>4
    <3> QED BY <3>1, <3>2
  <2>2. CASE ~into
    <3>1. ASSUME s # Head PROVE flags[b] # FREE
      <4>1. b # s /\ b \in blocks /\ b \in Addr /\ flags \in [Addr -> {FREE, USED, TAIL, JUNK}]
        BY <3>1, <1>1, <1>2, <1>7 DEF IInv, List, TypeOK
      <4>2. (IF EatsNext(s) THEN [flags EXCEPT ![s] = FREE] ELSE flags)[b] # FREE
        BY <2>2, <4>1 DEF EatenByPrev
      <4>3. [flags EXCEPT ![s] = FREE][b] = flags[b]
        BY <4>1
      <4> QED BY <4>2, <4>3
    <3>2. k = s /\ prev[k] = b
      BY <2>2
    <3> QED BY <3>1, <3>2, <1>7
  <2> QED BY <2>1, <2>2
<1>11. /\ flags' = [flags EXCEPT ![s] = FREE]
       /\ size'  = [size EXCEPT ![s] = len, ![b] = IF into THEN @ + len + Hdr ELSE @]
       /\ next'  = [next EXCEPT ![s] = end, ![b] = IF into THEN end ELSE @]
       /\ prev'  = IF eats \/ into
                     THEN [prev EXCEPT ![end] = IF into THEN b ELSE s]
                     ELSE prev
       /\ blocks' = blocks \ gone
       /\ held' = [q \in DOMAIN held \ {p} |-> held[q]]
       /\ stale' = stale \union {p}
       /\ UNCHANGED <<tail, total_length, scan>> /\ pc = "idle"
  BY DEF Kfree, Merge, FlagsAfterFree
<1> HIDE DEF s, n, b, eats, into, end, len, k
<1>12. flags'[k] = FREE /\ \A c \in Addr \ {s} : flags'[c] = flags[c]
  <2>1. flags \in [Addr -> {FREE, USED, TAIL, JUNK}]
    BY DEF IInv, List, TypeOK
  <2>2. flags'[s] = FREE /\ \A c \in Addr \ {s} : flags'[c] = flags[c]
    BY <2>1, <1>1, <1>11
  <2>3. CASE into
    BY <2>2, <2>3, <1>2, <1>8 DEF k
  <2>4. CASE ~into
    BY <2>2, <2>4 DEF k
  <2> QED BY <2>2, <2>3, <2>4
<1>13. next'[k] = end /\ \A c \in blocks \ {s, k} : next'[c] = next[c]
  <2>1. next \in [Addr -> Addr \union {NULL}]
    BY DEF IInv, List, TypeOK
  <2>2. CASE into
    <3>1. next' = [next EXCEPT ![s] = end, ![b] = end] /\ b \in Addr
      BY <2>2, <1>2, <1>8, <1>11
    <3> QED BY <2>1, <2>2, <3>1, <1>1, <1>2 DEF k
  <2>3. CASE ~into
    <3>1. next' = [next EXCEPT ![s] = end, ![b] = @]
      BY <2>3, <1>11
    <3> QED BY <2>1, <2>3, <3>1, <1>1, <1>2 DEF k
  <2> QED BY <2>2, <2>3
<1>14. size'[k] = end - k - Hdr /\ \A c \in blocks \ {s, k} : size'[c] = size[c]
  <2>1. CASE into
    <3>0. /\ size' = [size EXCEPT ![s] = len, ![b] = @ + len + Hdr]
          /\ b \in Addr /\ b # s /\ size \in [Addr -> Nat]
      <4>1. size' = [size EXCEPT ![s] = len, ![b] = @ + len + Hdr]
        BY <2>1, <1>11
      <4>2. b \in blocks /\ b < s
        BY <2>1, <1>8
      <4>3. b \in Addr /\ b # s
        BY <4>2, <1>1, <1>2
      <4> QED BY <4>1, <4>3 DEF IInv, List, TypeOK
    <3>1. size'[b] = size[b] + len + Hdr
      BY <3>0, <1>1
    <3>2. len \in Int /\ size[b] \in Nat /\ b \in Nat
      BY <3>0, <1>2, <1>51 DEF IInv, List, TypeOK
    <3>3. size'[b] = end - b - Hdr
      BY <2>1, <3>1, <3>2, <1>1, <1>5, <1>8
    <3> QED BY <2>1, <3>0, <3>3, <1>1, <1>2 DEF k
  <2>2. CASE ~into
    <3>1. size' = [size EXCEPT ![s] = len, ![b] = @]
      BY <2>2, <1>11
    <3>2. size'[s] = len /\ \A c \in blocks \ {s} : size'[c] = size[c]
      BY <3>1, <1>1, <1>2 DEF IInv, List, TypeOK
    <3>3. len \in Int
      BY <1>51
    <3> QED BY <2>2, <3>2, <3>3, <1>1, <1>5 DEF k
  <2> QED BY <2>1, <2>2
<1>15. prev'[end] = k /\ \A c \in blocks \ {end} : prev'[c] = prev[c]
  <2>1. prev \in [Addr -> Addr \union {NULL}] /\ end \in Addr
    BY <1>2, <1>5 DEF IInv, List, TypeOK
  <2>2. CASE eats \/ into
    BY <2>1, <2>2, <1>2, <1>11 DEF k
  <2>3. CASE ~(eats \/ into)
    BY <2>3, <1>3, <1>11 DEF k, end
  <2> QED BY <2>2, <2>3
<1>16. /\ k \in blocks' /\ end \in blocks' /\ blocks' \subseteq blocks
       /\ \A c \in blocks' : c > k => c >= end
       /\ \A c \in blocks' : c = s => k = s
       /\ eats => n \notin blocks'
       /\ \A c \in blocks : c # s /\ ~(eats /\ c = n) => c \in blocks'
  <2>1. k \in blocks' /\ end \in blocks' /\ blocks' \subseteq blocks
    <3>1. end # n \/ ~eats
      BY <1>4 DEF end
    <3>2. CASE into
      BY <3>1, <3>2, <1>3, <1>5, <1>8, <1>9, <1>11 DEF k, gone
    <3>3. CASE ~into
      BY <3>1, <3>3, <1>5, <1>9, <1>11 DEF k, gone
    <3> QED BY <3>2, <3>3
  <2>2. \A c \in blocks' : c = s => k = s
    BY <1>11 DEF k, gone
  <2>3. eats => n \notin blocks'
    BY <1>11 DEF gone
  <2>4. \A c \in blocks : c # s /\ ~(eats /\ c = n) => c \in blocks'
    BY <1>11 DEF gone
  <2>5. ASSUME NEW c \in blocks', c > k PROVE c >= end
    <3>1. c \in blocks /\ c \in Nat
      BY <2>1, <1>2
    <3>2. c >= s /\ c # s
      <4>1. CASE into
        <5>1. \A x \in blocks : x > b => x >= s
          BY <4>1, <1>8 DEF IInv, List, ListTilesHeap
        <5> QED BY <4>1, <5>1, <3>1, <2>5, <1>8, <1>11 DEF k, gone
      <4>2. CASE ~into
        BY <4>2, <3>1, <2>5, <1>1 DEF k
      <4> QED BY <4>1, <4>2
    <3>3. c > s
      BY <3>1, <3>2, <1>1
    <3>4. c # n \/ ~eats
      BY <2>3
    <3> QED BY <3>1, <3>3, <3>4, <1>3, <1>6 DEF end
  <2> QED BY <2>1, <2>2, <2>3, <2>4, <2>5
<1>17. \A c \in blocks' \ {k} : /\ next'[c] = next[c] /\ size'[c] = size[c]
                                /\ flags'[c] = flags[c] /\ c # s
  BY <1>2, <1>12, <1>13, <1>14, <1>16
<1>18. tail' = tail /\ end <= tail /\ k # tail
  BY <1>5, <1>9, <1>11 DEF IInv, List, Chain
<1>19. TypeOK'
  <2>1. prev' \in [Addr -> Addr \union {NULL}] /\ next' \in [Addr -> Addr \union {NULL}]
    <3>1. end \in Addr /\ k \in Addr
      BY <1>2, <1>5, <1>9
    <3>2. next' \in [Addr -> Addr \union {NULL}]
      <4>1. CASE into
        BY <4>1, <3>1, <1>11 DEF IInv, List, TypeOK
      <4>2. CASE ~into
        BY <4>2, <3>1, <1>11 DEF IInv, List, TypeOK
      <4> QED BY <4>1, <4>2
    <3>3. prev' \in [Addr -> Addr \union {NULL}]
      BY <3>1, <1>11 DEF IInv, List, TypeOK, k
    <3> QED BY <3>2, <3>3
  <2>2. size' \in [Addr -> Nat]
    <3>1. CASE into
      <4>1. size' = [size EXCEPT ![s] = len, ![b] = @ + len + Hdr]
        BY <3>1, <1>11
      <4>2. b \in Addr
        BY <3>1, <1>2, <1>8
      <4> QED BY <4>1, <4>2, <1>1, <1>51 DEF IInv, List, TypeOK
    <3>2. CASE ~into
      <4>1. size' = [size EXCEPT ![s] = len, ![b] = @]
        BY <3>2, <1>11
      <4> QED BY <4>1, <1>51 DEF IInv, List, TypeOK
    <3> QED BY <3>1, <3>2
  <2>3. flags' \in [Addr -> {FREE, USED, TAIL, JUNK}]
    BY <1>11 DEF IInv, List, TypeOK
  <2>4. DOMAIN held' \subseteq Addr /\ \A q \in DOMAIN held' : held'[q] \in Requests
    BY <1>11 DEF IInv, List, TypeOK
  <2> QED BY <2>1, <2>2, <2>3, <2>4, <1>11, <1>16 DEF IInv, List, TypeOK, scan
<1>20. ListTilesHeap'
  <2>1. \A c \in blocks' : (flags'[c] = TAIL <=> c = tail')
    <3>1. flags'[k] # TAIL
      BY <1>12 DEF FREE, TAIL
    <3> QED BY <3>1, <1>16, <1>17, <1>18 DEF IInv, List, ListTilesHeap
  <2>2. \A c \in blocks' \ {tail'} :
          /\ next'[c] \in blocks'
          /\ next'[c] = c + Hdr + size'[c]
          /\ prev'[next'[c]] = c
    <3> SUFFICES ASSUME NEW c \in blocks', c # tail'
                 PROVE  /\ next'[c] \in blocks'
                        /\ next'[c] = c + Hdr + size'[c]
                        /\ prev'[next'[c]] = c
      OBVIOUS
    <3>1. CASE c = k
      <4>1. end = k + Hdr + (end - k - Hdr)
        BY <1>5, <1>9
      <4>2. end = k + Hdr + size'[k]
        BY <4>1, <1>14
      <4> QED BY <3>1, <4>2, <1>13, <1>15, <1>16
    <3>2. CASE c # k
      <4>1. c \in blocks \ {tail} /\ c # s /\ c \in Nat
        BY <3>2, <1>2, <1>16, <1>17, <1>18
      <4>2. /\ next[c] \in blocks /\ prev[next[c]] = c
            /\ next[c] = c + Hdr + size[c]
        BY <4>1 DEF IInv, List, ListTilesHeap
      <4>3. next[c] # n
        BY <4>1, <4>2, <1>3
      <4>4. next[c] \in blocks'
        <5>1. CASE into
          <6>1. next[c] # s
            BY <5>1, <3>2, <4>2 DEF k, b
          <6> QED BY <6>1, <4>2, <4>3, <1>16
        <5>2. CASE ~into
          <6>1. k = s
            BY <5>2 DEF k
          <6> QED BY <6>1, <4>2, <4>3, <1>16
        <5> QED BY <5>1, <5>2
      <4>5. next[c] # end
        BY <4>1, <4>2, <4>3, <1>4, <1>16 DEF end
      <4> QED BY <3>2, <4>2, <4>4, <4>5, <1>15, <1>17
    <3> QED BY <3>1, <3>2
  <2>3. \A c \in blocks' \ {tail'} : \A x \in blocks' : x > c => x >= next'[c]
    <3> SUFFICES ASSUME NEW c \in blocks', c # tail', NEW x \in blocks', x > c
                 PROVE  x >= next'[c]
      OBVIOUS
    <3>1. CASE c = k
      BY <3>1, <1>13, <1>16
    <3>2. CASE c # k
      <4>1. c \in blocks \ {tail} /\ x \in blocks /\ next'[c] = next[c]
        BY <3>2, <1>16, <1>17, <1>18
      <4> QED BY <4>1 DEF IInv, List, ListTilesHeap
    <3> QED BY <3>1, <3>2
  <2>4. Head \in blocks' /\ tail' \in blocks' /\ prev'[Head] = Head
    <3>1. Head <= s /\ Head < end /\ Head # n
      BY <1>1, <1>3, <1>5 DEF Head
    <3>2. Head = s => k = s
      BY <1>2 DEF k, b
    <3>3. Head \in blocks' /\ prev'[Head] = Head
      BY <3>1, <3>2, <1>2, <1>15, <1>16 DEF k
    <3>4. tail \in blocks'
      BY <1>1, <1>2, <1>4, <1>16
    <3> QED BY <3>3, <3>4, <1>18
  <2>5. tail' + Hdr = total_length' /\ total_length' <= HeapTop
    BY <1>11 DEF IInv, List, ListTilesHeap
  <2> QED BY <2>1, <2>2, <2>3, <2>4, <2>5 DEF ListTilesHeap
<1>21. Chain'
  <2> SUFFICES ASSUME NEW c \in blocks'
               PROVE  /\ c <= tail'
                      /\ c # Head => /\ prev'[c] \in blocks' /\ prev'[c] < c
                                     /\ next'[prev'[c]] = c
    BY DEF Chain
  <2>1. c \in blocks /\ c <= tail' /\ c \in Nat
    BY <1>2, <1>16, <1>18 DEF IInv, List, Chain
  <2>2. CASE c = end
    BY <2>1, <2>2, <1>9, <1>13, <1>15, <1>16
  <2>3. CASE c # end
    <3> SUFFICES ASSUME c # Head
                 PROVE  prev'[c] \in blocks' /\ prev'[c] < c /\ next'[prev'[c]] = c
      BY <2>1
    <3>1. /\ prev[c] \in blocks /\ prev[c] < c /\ next[prev[c]] = c
          /\ prev'[c] = prev[c]
      BY <2>1, <2>3, <1>15 DEF IInv, List, Chain
    <3>2. prev[c] # n \/ ~eats
      BY <2>3, <3>1 DEF end
    <3>3. prev[c] # s
      BY <2>1, <2>3, <3>1, <1>16 DEF end, n
    <3>4. prev[c] \in blocks'
      BY <3>1, <3>2, <3>3, <1>16
    <3>5. prev[c] # k
      <4>1. CASE into
        BY <4>1, <2>1, <2>3, <3>1, <1>1, <1>8, <1>11 DEF k, gone
      <4>2. CASE ~into
        BY <4>2, <3>3 DEF k
      <4> QED BY <4>1, <4>2
    <3>6. next'[prev[c]] = c
      BY <3>1, <3>4, <3>5, <1>17
    <3> QED BY <3>1, <3>4, <3>6
  <2> QED BY <2>2, <2>3, <2>1
<1>22. NeverAdjacentFree'
  <2> SUFFICES ASSUME NEW c \in blocks', c # tail', flags'[c] = FREE
               PROVE  flags'[next'[c]] # FREE
    BY DEF NeverAdjacentFree
  <2>1. CASE c = k
    <3>1. end # s /\ end \in Addr
      BY <1>2, <1>5, <1>1
    <3> QED BY <2>1, <3>1, <1>5, <1>12, <1>13
  <2>2. CASE c # k
    <3>1. c \in blocks /\ c # tail /\ flags[c] = FREE /\ next'[c] = next[c]
          /\ next'[c] \in blocks' /\ next'[c] \in blocks
      BY <2>2, <1>16, <1>17, <1>18, <1>20 DEF ListTilesHeap
    <3>2. flags[next[c]] # FREE /\ prev[next[c]] = c
      BY <3>1, <1>18 DEF IInv, List, ListTilesHeap, NeverAdjacentFree
    <3>3. next[c] # k
      <4>1. ASSUME next[c] = k PROVE FALSE
        <5>1. k # Head
          BY <3>1, <3>2, <4>1, <1>2, <2>2 
        <5> QED BY <5>1, <1>10, <3>1, <3>2, <4>1
      <4> QED BY <4>1
    <3> QED BY <3>1, <3>2, <3>3, <1>17
  <2> QED BY <2>1, <2>2
<1>23. LastBlockFree'
  <2>1. CASE tail = end
    BY <2>1, <1>12, <1>15, <1>16, <1>18 DEF LastBlockFree
  <2>2. CASE tail # end
    <3>1. prev[tail] \in blocks /\ flags[prev[tail]] = FREE
      BY DEF IInv, LastBlockFree
    <3>2. tail # Head
      BY <1>2, <1>1, <1>5, <1>18, <2>2 DEF Head
    <3>3. next[prev[tail]] = tail
      BY <3>2, <1>2 DEF IInv, List, Chain
    <3>4. prev[tail] # s /\ (eats => prev[tail] # n)
      BY <2>2, <3>1, <3>3, <1>1 DEF end, FREE, USED
    <3>5. prev'[tail] = prev[tail] /\ prev[tail] \in blocks'
      BY <2>2, <3>1, <3>4, <1>2, <1>15, <1>16
    <3>6. flags'[prev[tail]] = FREE
      BY <3>1, <3>4, <1>2, <1>12
    <3> QED BY <3>5, <3>6, <1>18 DEF LastBlockFree
  <2> QED BY <2>1, <2>2
<1>24. OwnersHoldBlocks'
  <2>1. DOMAIN held' = DOMAIN held \ {p} /\ \A q \in DOMAIN held' : held'[q] = held[q]
    BY <1>11
  <2>2. \A c \in blocks' : flags'[c] = USED <=> c + Hdr \in DOMAIN held'
    <3> SUFFICES ASSUME NEW c \in blocks'
                 PROVE  flags'[c] = USED <=> c + Hdr \in DOMAIN held'
      OBVIOUS
    <3>1. CASE c = k
      <4>1. k = s => k + Hdr = p
        BY <1>1
      <4>2. k # s => k + Hdr \notin DOMAIN held
        <5>1. k # s => k = b /\ into
          BY DEF k
        <5> QED BY <5>1, <1>8 DEF IInv, OwnersHoldBlocks, FREE, USED
      <4>3. flags'[k] # USED
        BY <1>12 DEF FREE, USED
      <4> QED BY <3>1, <4>1, <4>2, <4>3, <2>1
    <3>2. CASE c # k
      <4>1. c \in blocks /\ flags'[c] = flags[c] /\ c # s /\ c \in Nat
        BY <3>2, <1>2, <1>16, <1>17
      <4>2. c + Hdr # p
        BY <4>1, <1>1
      <4> QED BY <4>1, <4>2, <2>1 DEF IInv, OwnersHoldBlocks
    <3> QED BY <3>1, <3>2
  <2>3. \A q \in DOMAIN held' : q - Hdr \in blocks' /\ size'[q - Hdr] >= held'[q]
    <3> SUFFICES ASSUME NEW q \in DOMAIN held'
                 PROVE  q - Hdr \in blocks' /\ size'[q - Hdr] >= held'[q]
      OBVIOUS
    <3>1. q \in DOMAIN held /\ q # p /\ q \in Nat /\ held'[q] = held[q]
      BY <2>1 DEF IInv, List, TypeOK, Addr
    <3>2. q - Hdr \in blocks /\ size[q - Hdr] >= held[q] /\ (q - Hdr) + Hdr = q
      BY <3>1 DEF IInv, OwnersHoldBlocks
    <3>3. flags[q - Hdr] = USED /\ q - Hdr # s
      BY <3>1, <3>2, <1>1 DEF IInv, OwnersHoldBlocks
    <3>4. (eats => q - Hdr # n) /\ q - Hdr # k
      BY <3>3, <1>4, <1>8 DEF k, FREE, USED
    <3>5. q - Hdr \in blocks'
      BY <3>2, <3>3, <3>4, <1>16
    <3> QED BY <3>1, <3>2, <3>4, <3>5, <1>17
  <2> QED BY <2>2, <2>3 DEF OwnersHoldBlocks
<1>25. StaleInFree'
  <2>1. ASSUME NEW c \in blocks, flags[c] = FREE, NEW x \in Nat, c <= x, x < next[c]
        PROVE  \E d \in blocks' : flags'[d] = FREE /\ d <= x /\ x < next'[d]
    <3>0. c \in Nat /\ c # s /\ c # tail
      BY <1>1, <1>2, <2>1 DEF FREE, USED, TAIL
    <3>1. CASE c = k
      <4>1. into
        BY <3>0, <3>1 DEF k
      <4>2. next[k] = s
        BY <4>1, <1>8 DEF k
      <4>3. k <= x /\ x < next'[k]
        BY <2>1, <3>1, <4>2, <1>1, <1>5, <1>13
      <4> QED BY <4>3, <1>12, <1>16
    <3>2. CASE eats /\ c = n
      <4>1. k <= x /\ x < end
        BY <2>1, <3>0, <3>2, <1>1, <1>3, <1>9 DEF end
      <4> QED BY <4>1, <1>12, <1>13, <1>16
    <3>3. CASE c # k /\ ~(eats /\ c = n)
      BY <2>1, <3>0, <3>3, <1>16, <1>17
    <3> QED BY <3>1, <3>2, <3>3
  <2>2. ASSUME NEW q \in stale
        PROVE  \E d \in blocks' : flags'[d] = FREE /\ d <= q - Hdr /\ q - Hdr < next'[d]
    <3>1. PICK c \in blocks : flags[c] = FREE /\ c <= q - Hdr /\ q - Hdr < next[c]
      BY <2>2 DEF IInv, StaleInFree
    <3>2. q - Hdr \in Nat
      BY <2>2 DEF IInv, DoubleFreeIgnored, Addr
    <3> QED BY <2>1, <3>1, <3>2
  <2>3. flags'[k] = FREE /\ k <= p - Hdr /\ p - Hdr < next'[k] /\ k \in blocks'
    BY <1>5, <1>9, <1>12, <1>13, <1>16 DEF s
  <2> QED BY <2>2, <2>3, <1>11 DEF StaleInFree
<1>26. DoubleFreeIgnored'
  <2> SUFFICES ASSUME NEW q \in stale'
               PROVE  q - Hdr \in Addr /\ q \notin DOMAIN held' /\ flags'[q - Hdr] = FREE
    BY DEF DoubleFreeIgnored
  <2>1. \A x \in Addr : flags[x] = FREE \/ x = s => flags'[x] = FREE
    BY <1>11, <1>1, <1>12 DEF IInv, List, TypeOK
  <2>2. CASE q = p
    BY <2>2, <2>1, <1>1, <1>11 DEF s
  <2>3. CASE q # p
    BY <2>3, <2>1, <1>11 DEF IInv, DoubleFreeIgnored
  <2> QED BY <2>2, <2>3
<1>27. ScanAtBlock'
  BY <1>11 DEF ScanAtBlock, scan
<1>28. HeadersLive'
  BY <1>12, <1>16, <1>17 DEF IInv, HeadersLive
<1> QED BY <1>19, <1>20, <1>21, <1>22, <1>23, <1>24, <1>25, <1>26, <1>27, <1>28
    DEF IInv, List
LEMMA KfreeInv == ASSUME IInv, NEW p \in Addr, Kfree(p) PROVE IInv'
<1>1. CASE flags[p - Hdr] = USED
  BY <1>1, MergeInv
<1>2. CASE flags[p - Hdr] # USED
  <2>1. p \notin DOMAIN held /\ p \in stale
    <3>1. p - Hdr \in Int /\ (p - Hdr) + Hdr = p
      BY HdrPositive DEF Addr
    <3> QED BY <1>2, <3>1 DEF Kfree, IInv, OwnersHoldBlocks
  <2>2. /\ UNCHANGED <<header, tail, total_length, scan, blocks>>
        /\ held' = [q \in DOMAIN held \ {p} |-> held[q]] /\ stale' = stale \union {p}
    BY <1>2 DEF Kfree
  <2>3. stale' = stale /\ DOMAIN held' = DOMAIN held
        /\ \A q \in DOMAIN held : held'[q] = held[q]
    BY <2>1, <2>2
  <2>4. TypeOK'
    BY <2>2, <2>3 DEF IInv, List, TypeOK, header, scan
  <2>5. ListTilesHeap' /\ Chain'
    BY <2>2 DEF IInv, List, ListTilesHeap, Chain, header
  <2>6. NeverAdjacentFree' /\ LastBlockFree' /\ OwnersHoldBlocks'
    BY <2>2, <2>3 DEF IInv, NeverAdjacentFree, LastBlockFree, OwnersHoldBlocks, header
  <2>7. StaleInFree' /\ DoubleFreeIgnored' /\ ScanAtBlock'
    BY <2>2, <2>3 DEF IInv, StaleInFree, DoubleFreeIgnored, ScanAtBlock, header, scan
  <2>8. HeadersLive'
    BY <2>2 DEF IInv, HeadersLive, header
  <2> QED BY <2>4, <2>5, <2>6, <2>7, <2>8 DEF IInv, List
<1> QED BY <1>1, <1>2

-----------------------------------------------------------------------------
(* An owner's writes reach neither a header of the list nor a stale one.   *)

LEMMA WriteInv == ASSUME IInv, NEW p \in Addr, Write(p) PROVE IInv'
<1> DEFINE s == p - Hdr
           Payload == {a \in Addr : p <= a /\ a < p + held[p]}
<1> USE HdrPositive
<1>1. /\ p \in DOMAIN held /\ s \in blocks /\ flags[s] = USED /\ s \in Nat
      /\ p = s + Hdr /\ held[p] \in Nat /\ size[s] >= held[p] /\ size[s] \in Nat
  <2>1. p \in DOMAIN held /\ p = s + Hdr
    BY DEF Write, Addr
  <2>2. s \in blocks /\ flags[s] = USED /\ size[s] >= held[p]
    BY <2>1 DEF IInv, OwnersHoldBlocks
  <2>3. s \in Nat /\ size[s] \in Nat
    BY <2>2 DEF IInv, List, TypeOK, Addr
  <2>4. held[p] \in Nat
    BY <2>1, KmemAssumption DEF IInv, List, TypeOK
  <2> QED BY <2>1, <2>2, <2>3, <2>4
<1>2. next[s] = s + Hdr + size[s] /\ \A c \in blocks : c > s => c >= next[s]
  <2>1. s # tail
    BY <1>1 DEF IInv, List, ListTilesHeap, USED, TAIL
  <2> QED BY <1>1, <2>1 DEF IInv, List, ListTilesHeap
<1>3. \A a \in Payload : s < a /\ a < next[s] /\ a \in Nat
  BY <1>1, <1>2 DEF Addr
<1>4. blocks \intersect Payload = {}
  BY <1>1, <1>2, <1>3 DEF IInv, List, TypeOK, Addr
<1>5. \A q \in stale : q - Hdr \notin Payload
  <2> SUFFICES ASSUME NEW q \in stale, q - Hdr \in Payload PROVE FALSE
    OBVIOUS
  <2>1. PICK c \in blocks : flags[c] = FREE /\ c <= q - Hdr /\ q - Hdr < next[c]
    BY DEF IInv, StaleInFree
  <2>2. c \in Nat /\ c # tail /\ c # s
    <3>1. flags[tail] = TAIL
      BY DEF IInv, List, ListTilesHeap
    <3>2. c \in Nat
      BY DEF IInv, List, TypeOK, Addr
    <3> QED BY <2>1, <3>1, <3>2, <1>1 DEF FREE, USED, TAIL
  <2>3. c < s
    BY <2>1, <2>2, <1>1, <1>2, <1>3
  <2>4. next[c] <= s
    BY <2>2, <2>3, <1>1 DEF IInv, List, ListTilesHeap
  <2>5. next[c] \in Nat
    BY <2>1, <2>2, SMTT(30) DEF IInv, List, ListTilesHeap, TypeOK, Addr
  <2> QED BY <2>1, <2>4, <2>5, <1>1, <1>3
<1>6. /\ prev'  = [a \in Addr |-> IF a \in Payload THEN NULL ELSE prev[a]]
      /\ next'  = [a \in Addr |-> IF a \in Payload THEN NULL ELSE next[a]]
      /\ size'  = [a \in Addr |-> IF a \in Payload THEN 0 ELSE size[a]]
      /\ flags' = [a \in Addr |-> IF a \in Payload THEN JUNK ELSE flags[a]]
      /\ UNCHANGED <<tail, total_length, scan, client, blocks>>
  BY DEF Write
<1> HIDE DEF Payload
<1>7. TypeOK'
  BY <1>6 DEF IInv, List, TypeOK, scan, client
<1>8. \A c \in blocks : /\ prev'[c] = prev[c] /\ next'[c] = next[c]
                        /\ size'[c] = size[c] /\ flags'[c] = flags[c]
  BY <1>4, <1>6 DEF IInv, List, TypeOK
<1>9. \A q \in stale : flags'[q - Hdr] = flags[q - Hdr]
  BY <1>5, <1>6 DEF IInv, DoubleFreeIgnored
<1>10. /\ {Head, tail} \subseteq blocks
       /\ tail' = tail /\ total_length' = total_length /\ blocks' = blocks
  BY <1>6 DEF IInv, List, ListTilesHeap
<1>11. ListTilesHeap'
  <2>1. ASSUME NEW c \in blocks, c # tail
        PROVE  /\ next'[c] \in blocks /\ next'[c] = c + Hdr + size'[c]
               /\ prev'[next'[c]] = c
               /\ \A x \in blocks : x > c => x >= next'[c]
    <3>1. /\ next[c] \in blocks /\ next[c] = c + Hdr + size[c] /\ prev[next[c]] = c
          /\ \A x \in blocks : x > c => x >= next[c]
      BY <2>1 DEF IInv, List, ListTilesHeap
    <3> QED BY <3>1, <1>8
  <2>2. prev'[Head] = Head
    BY <1>8, <1>10 DEF IInv, List, ListTilesHeap
  <2>3. \A c \in blocks : flags'[c] = TAIL <=> c = tail
    BY <1>8 DEF IInv, List, ListTilesHeap
  <2>4. tail + Hdr = total_length /\ total_length <= HeapTop
    BY DEF IInv, List, ListTilesHeap
  <2> QED BY <2>1, <2>2, <2>3, <2>4, <1>10 DEF ListTilesHeap
<1>12. Chain'
  <2>1. ASSUME NEW c \in blocks
        PROVE  /\ c <= tail
               /\ c # Head => /\ prev'[c] \in blocks /\ prev'[c] < c
                              /\ next'[prev'[c]] = c
    BY <1>8 DEF IInv, List, Chain
  <2> QED BY <2>1, <1>10 DEF Chain
<1>15. NeverAdjacentFree' /\ LastBlockFree'
  <2>1. ASSUME NEW c \in blocks, c # tail, flags'[c] = FREE
        PROVE  flags'[next'[c]] # FREE
    <3>1. next[c] \in blocks
      BY <2>1 DEF IInv, List, ListTilesHeap
    <3> QED BY <2>1, <3>1, <1>8 DEF IInv, NeverAdjacentFree
  <2>2. prev'[tail] \in blocks /\ flags'[prev'[tail]] = FREE
    BY <1>8, <1>10 DEF IInv, LastBlockFree
  <2> QED BY <2>1, <2>2, <1>10 DEF NeverAdjacentFree, LastBlockFree
<1>13. OwnersHoldBlocks'
  BY <1>6, <1>8 DEF IInv, OwnersHoldBlocks, client
<1>16. HeadersLive'
  BY <1>8, <1>10 DEF IInv, HeadersLive
<1>14. StaleInFree' /\ DoubleFreeIgnored' /\ ScanAtBlock'
  BY <1>6, <1>8, <1>9 DEF IInv, StaleInFree, DoubleFreeIgnored, ScanAtBlock, scan, client
<1> QED BY <1>7, <1>11, <1>12, <1>13, <1>14, <1>15, <1>16 DEF IInv, List

-----------------------------------------------------------------------------
LEMMA NextIInv == ASSUME IInv, [Next]_vars PROVE IInv'
<1>1. ASSUME NEW r \in Requests, Kmalloc(r) PROVE IInv'
  BY <1>1, KmallocInv
<1>2. CASE ScanTail
  BY <1>2, ScanTailInv
<1>3. CASE Morecore
  BY <1>3, MorecoreInv
<1>4. CASE OutOfFrames \/ KmallocNull \/ Halted \/ UNCHANGED vars
  BY <1>4, IdleInv DEF Halted
<1>5. ASSUME NEW s \in Addr, ChopBlock(s) PROVE IInv'
  BY <1>5, ChopBlockInv
<1>6. ASSUME NEW s \in Addr, SkipBlock(s) PROVE IInv'
  BY <1>6, SkipBlockInv
<1>7. ASSUME NEW p \in Addr, Kfree(p) PROVE IInv'
  BY <1>7, KfreeInv
<1>8. ASSUME NEW p \in Addr, Write(p) PROVE IInv'
  BY <1>8, WriteInv
<1> QED BY <1>1, <1>2, <1>3, <1>4, <1>5, <1>6, <1>7, <1>8 DEF Next, KmallocStep

\* The inductive invariant holds in every reachable state of the heap.
THEOREM Inductive == Spec => []IInv
<1>1. Init => IInv
  BY InitIInv
<1>2. IInv /\ [Next]_vars => IInv'
  BY NextIInv
<1> QED BY <1>1, <1>2, PTL DEF Spec

\* Every variable of the heap keeps its type, for every page size, header
\* size and bound.
THEOREM TypeCorrect == Spec => []TypeOK
<1>1. IInv => TypeOK
  BY DEF IInv, List
<1> QED BY <1>1, Inductive, PTL

\* The list built by kmem_init, kmalloc, kmem_morecore and kfree tiles the
\* heap from head to tail in every reachable state.
THEOREM Tiling == Spec => []ListTilesHeap
<1>1. IInv => ListTilesHeap
  BY DEF IInv, List
<1> QED BY <1>1, Inductive, PTL

\* kfree leaves no two free neighbours.
THEOREM Coalesced == Spec => []NeverAdjacentFree
<1>1. IInv => NeverAdjacentFree
  BY DEF IInv
<1> QED BY <1>1, Inductive, PTL

\* kmem_morecore always finds the last block free, so its branch for a used one
\* (kmem.c:111-119) is dead code.
THEOREM LastFree == Spec => []LastBlockFree
<1>1. IInv => LastBlockFree
  BY DEF IInv
<1> QED BY <1>1, Inductive, PTL

\* A caller of kmalloc holds a used block that covers what it asked for, and no
\* other block is used.
THEOREM Ownership == Spec => []OwnersHoldBlocks
<1>1. IInv => OwnersHoldBlocks
  BY DEF IInv
<1> QED BY <1>1, Inductive, PTL

\* A second kfree of a pointer before the next kmalloc is ignored.
THEOREM FreedTwice == Spec => []DoubleFreeIgnored
<1>1. IInv => DoubleFreeIgnored
  BY DEF IInv
<1> QED BY <1>1, Inductive, PTL

\* When every block has been given back, kfree has merged the heap into one.
THEOREM NoLeak == Spec => []EmptyHeapIsOneBlock
<1>1. IInv => EmptyHeapIsOneBlock
  <2> SUFFICES ASSUME IInv, held = [p \in {} |-> 0]
               PROVE  blocks = {Head, tail} /\ flags[Head] = FREE
    BY DEF EmptyHeapIsOneBlock
  <2>1. \A b \in blocks : flags[b] \in {FREE, TAIL}
    BY DEF IInv, HeadersLive, OwnersHoldBlocks
  <2>2. Head \in blocks /\ tail \in blocks /\ flags[tail] = TAIL
    BY DEF IInv, List, ListTilesHeap
  <2>3. Head # tail
    <3>1. prev[tail] = Head => Head # tail
      BY <2>2 DEF IInv, LastBlockFree, FREE, TAIL
    <3> QED BY <3>1 DEF IInv, List, ListTilesHeap
  <2>4. flags[Head] = FREE
    BY <2>1, <2>2, <2>3 DEF IInv, List, ListTilesHeap
  <2>5. next[Head] \in blocks /\ flags[next[Head]] # FREE
    BY <2>2, <2>3, <2>4 DEF IInv, List, ListTilesHeap, NeverAdjacentFree
  <2>6. next[Head] = tail
    BY <2>1, <2>5 DEF IInv, List, ListTilesHeap
  <2>7. \A b \in blocks : b = Head \/ b = tail
    <3> SUFFICES ASSUME NEW b \in blocks, b # Head, b # tail PROVE FALSE
      OBVIOUS
    <3>1. b \in Nat /\ b <= tail /\ tail \in Nat
      BY DEF IInv, List, TypeOK, Chain, Addr
    <3>2. b >= tail
      BY <2>2, <2>3, <2>6, <3>1 DEF IInv, List, ListTilesHeap, Head
    <3> QED BY <3>1, <3>2
  <2> QED BY <2>2, <2>4, <2>7
<1> QED BY <1>1, Inductive, PTL

-----------------------------------------------------------------------------
(* First fit.                                                              *)

LEMMA FirstFitStep == ASSUME IInv, FirstFit, [Next]_vars PROVE FirstFit'
<1> SUFFICES ASSUME pc' = "scan", NEW c \in blocks', c < scratch'
             PROVE  ~Fits(c)'
  BY DEF FirstFit
<1> USE HdrPositive
<1>1. ASSUME NEW r \in Requests, Kmalloc(r) PROVE FALSE
  BY <1>1 DEF Kmalloc, IInv, List, TypeOK, first_free, Head, Addr
<1>2. ASSUME NEW s \in Addr, SkipBlock(s) PROVE ~Fits(c)'
  <2>1. UNCHANGED <<flags, size, request, blocks>> /\ scratch' = kmemptr_next(s)
    BY <1>2 DEF SkipBlock, header
  <2>2. s \in blocks /\ s # tail /\ kmemptr_next(s) = next[s] /\ s \in Nat /\ c \in Nat
    <3>1. s \in blocks /\ s # tail
      BY <1>2 DEF IInv, List, SkipBlock, AtBlock, ScanAtBlock, ListTilesHeap, LastBlockFree,
         first_free, Head, TAIL, FREE, Chain
    <3> QED BY <3>1, <2>1 DEF IInv, List, TypeOK, ListTilesHeap, kmemptr_next, Addr
  <2>3. c <= s
    BY <2>1, <2>2 DEF IInv, List, ListTilesHeap, TypeOK, Addr
  <2>4. ~Fits(c)
    <3>1. CASE c = s
      BY <3>1, <1>2 DEF SkipBlock
    <3>2. CASE c # s
      BY <3>2, <1>2, <2>1, <2>2, <2>3 DEF FirstFit, SkipBlock, AtBlock, first_free, Head
    <3> QED BY <3>1, <3>2
  <2> QED BY <2>1, <2>4 DEF Fits, bsize
<1>3. ASSUME UNCHANGED vars PROVE ~Fits(c)'
  BY <1>3 DEF vars, header, scan, FirstFit, Fits, bsize
<1>4. CASE ScanTail \/ KmallocNull \/ OutOfFrames \/ Morecore
  <2>1. pc' # "scan"
    <3>1. CASE Morecore
      BY <3>1 DEF Morecore, GrowFree, GrowUsed
    <3> QED BY <1>4, <3>1 DEF ScanTail, KmallocNull, OutOfFrames, Idle
  <2> QED BY <2>1
<1>5. ASSUME NEW s \in Addr, ChopBlock(s) PROVE FALSE
  BY <1>5 DEF ChopBlock, Idle
<1>6. ASSUME NEW p \in Addr, Kfree(p) \/ Write(p) PROVE FALSE
  BY <1>6 DEF Kfree, Write, scan
<1> QED BY <1>1, <1>2, <1>3, <1>4, <1>5, <1>6 DEF Next, KmallocStep, Halted

\* kmalloc passes over no block that fits.
THEOREM FirstFitHolds == Spec => []FirstFit
<1>1. Init => FirstFit
  BY DEF Init, FirstFit
<1>2. IInv /\ FirstFit /\ [Next]_vars => FirstFit'
  BY FirstFitStep
<1> QED BY <1>1, <1>2, Inductive, PTL DEF Spec

-----------------------------------------------------------------------------
(* Growth.                                                                 *)

\* PagesFor rounds up to whole pages.
LEMMA PagesCover ==
  ASSUME NEW n \in Nat
  PROVE  /\ PagesFor(n) \in Nat
         /\ n <= PagesFor(n) * PAGE_SIZE
         /\ PagesFor(n) * PAGE_SIZE < n + PAGE_SIZE
<1>1. PAGE_SIZE \in Nat \ {0}
  BY KmemAssumption
<1> DEFINE q == n \div PAGE_SIZE
           rest == n % PAGE_SIZE
<1>2. q \in Nat /\ rest \in 0 .. PAGE_SIZE - 1 /\ n = q * PAGE_SIZE + rest
  BY <1>1
<1>3. (q + 1) * PAGE_SIZE = q * PAGE_SIZE + PAGE_SIZE /\ q * PAGE_SIZE \in Nat
  BY <1>1, <1>2
<1>4. PagesFor(n) = IF rest # 0 THEN q + 1 ELSE q
  BY <1>2 DEF PagesFor
<1> HIDE DEF q, rest
<1> QED BY <1>1, <1>2, <1>3, <1>4

\* The scan reaches the tail only when the last block is too small, so that
\* size_req is what it lacks, without a wrap.
LEMMA TightAtFirst ==
  ASSUME IInv, FirstFit, ScanTail
  PROVE  GrowthIsTight'
<1> USE HdrPositive
<1> DEFINE last == prev[tail]
           need == bsize + Hdr
<1>1. /\ pc = "scan" /\ flags[scratch] = TAIL /\ scratch \in blocks /\ request \in Requests
      /\ more' = PagesFor(SizeReq) /\ size' = size /\ prev' = prev /\ tail' = tail
      /\ request' = request
  BY DEF ScanTail, header, IInv, ScanAtBlock
<1>2. scratch = tail
  BY <1>1 DEF IInv, List, ListTilesHeap
<1>3. last \in blocks /\ flags[last] = FREE
  BY DEF IInv, LastBlockFree
<1>4. last < tail /\ size[last] \in Nat
  <2>1. last # tail
    BY <1>1, <1>2, <1>3 DEF FREE, TAIL
  <2>2. tail # Head
    BY <2>1 DEF IInv, List, ListTilesHeap
  <2>3. tail \in blocks
    BY <1>1, <1>2
  <2>4. last < tail
    BY <2>2, <2>3 DEF IInv, List, Chain
  <2> QED BY <2>4, <1>3 DEF IInv, List, TypeOK
<1>5. bsize \in Nat /\ need \in Nat /\ need < WORD /\ WORD \in Nat
  <2>1. bsize \in Nat /\ bsize <= request + KMEM_ALIGN_SIZE
    <3>1. request \in Nat /\ KMEM_ALIGN_SIZE \in Nat \ {0}
      BY <1>1, KmemAssumption
    <3>2. request % KMEM_ALIGN_SIZE \in 0 .. KMEM_ALIGN_SIZE - 1
      BY <3>1
    <3> QED BY <3>1, <3>2 DEF bsize, align_block
  <2>2. request + KMEM_ALIGN_SIZE + Hdr < WORD
    BY <1>1, RequestsFit
  <2>3. request \in Nat /\ KMEM_ALIGN_SIZE \in Nat /\ WORD \in Nat
    BY <1>1, KmemAssumption
  <2> QED BY <2>1, <2>2, <2>3
<1>6. size[last] <= need
  <2>1. ~Fits(last)
    BY <1>1, <1>2, <1>3, <1>4 DEF FirstFit
  <2> QED BY <2>1, <1>3, <1>4, <1>5 DEF Fits
<1>7. SizeReq = need - size[last]
  <2>1. SizeReq = (need - size[last]) % WORD
    BY <1>2, <1>3 DEF SizeReq
  <2> HIDE DEF need, last
  <2>2. need - size[last] \in 0 .. WORD - 1
    BY <1>4, <1>5, <1>6
  <2> QED BY <2>1, <2>2, <1>5
<1>8. bsize' = bsize
  BY <1>1 DEF bsize
<1> HIDE DEF need
<1>9. need - size[last] \in Nat
  BY <1>4, <1>5, <1>6
<1>10. /\ need - size[last] <= more' * PAGE_SIZE
       /\ more' * PAGE_SIZE < (need - size[last]) + PAGE_SIZE
       /\ more' \in Nat
  BY <1>1, <1>7, <1>9, PagesCover
<1>11. more' * PAGE_SIZE \in Nat /\ PAGE_SIZE \in Nat
  <2>1. \A k \in Nat : k * PAGE_SIZE \in Nat
    BY HdrPositive
  <2> HIDE DEF last
  <2> QED BY <2>1, <1>10, HdrPositive
<1> DEFINE total == more' * PAGE_SIZE
<1>12. need <= size[last] + total /\ size[last] + total < need + PAGE_SIZE
  <2> HIDE DEF total, last
  <2>1. /\ need - size[last] <= total /\ total < (need - size[last]) + PAGE_SIZE
        /\ total \in Nat /\ PAGE_SIZE \in Nat
    BY <1>10, <1>11 DEF total
  <2> QED BY <2>1, <1>4, <1>5
<1> QED BY <1>1, <1>8, <1>12 DEF GrowthIsTight, need

\* Each page mapped moves from what is still to do to the last block.
LEMMA TightWhileGrowing ==
  ASSUME IInv, GrowthIsTight, Morecore
  PROVE  GrowthIsTight'
<1> USE HdrPositive
<1> DEFINE last == prev[tail]
           t == TailAfter(last)
<1>1. last \in blocks /\ flags[last] = FREE /\ last \in Addr /\ size[last] \in Nat
  BY DEF IInv, List, TypeOK, LastBlockFree
<1>2. last < tail /\ tail \in Addr
  <2>1. tail \in blocks /\ flags[tail] = TAIL /\ prev[Head] = Head
    BY DEF IInv, List, ListTilesHeap
  <2>2. tail # Head
    BY <1>1, <2>1 DEF FREE, TAIL
  <2> QED BY <2>1, <2>2 DEF IInv, List, Chain, TypeOK
<1>3. t = tail + PAGE_SIZE /\ t \in Addr
  <2>1. next[last] = tail /\ next[last] = last + Hdr + size[last]
    <3>1. last # tail
      BY <1>2 DEF Addr
    <3>2. tail \in blocks /\ tail # Head
      BY <3>1 DEF IInv, List, ListTilesHeap
    <3> QED BY <3>1, <3>2, <1>1 DEF IInv, List, Chain, ListTilesHeap
  <2>2. t = tail + PAGE_SIZE
    BY <2>1, <1>1, <1>2 DEF TailAfter, Addr
  <2>3. t + Hdr <= HeapTop
    BY <2>2, <1>2 DEF IInv, List, ListTilesHeap, Morecore, Addr
  <2> QED BY <2>2, <2>3, <1>2 DEF Addr
<1>4. /\ pc = "grow" /\ more' = more - 1 /\ request' = request /\ tail' = t
      /\ size' = [size EXCEPT ![last] = @ + PAGE_SIZE, ![t] = 0]
      /\ prev' = [prev EXCEPT ![t] = last]
  BY <1>1 DEF Morecore, GrowFree
<1>5. prev'[tail'] = last
  BY <1>3, <1>4 DEF IInv, List, TypeOK
<1>6. size'[last] = size[last] + PAGE_SIZE
  <2>1. last # t
    BY <1>1, <1>2, <1>3 DEF Addr
  <2> QED BY <2>1, <1>1, <1>4 DEF IInv, List, TypeOK
<1>7. bsize' = bsize
  BY <1>4 DEF bsize
<1>8. more' * PAGE_SIZE = more * PAGE_SIZE - PAGE_SIZE
  <2>1. more \in Nat /\ PAGE_SIZE \in Nat
    BY KmemAssumption DEF IInv, List, TypeOK
  <2> QED BY <2>1, <1>4
<1>9. size'[last] + more' * PAGE_SIZE = size[last] + more * PAGE_SIZE
  <2>1. more * PAGE_SIZE \in Int /\ PAGE_SIZE \in Int
    BY KmemAssumption DEF IInv, List, TypeOK
  <2> QED BY <2>1, <1>1, <1>6, <1>8
<1> QED BY <1>4, <1>5, <1>7, <1>9 DEF GrowthIsTight

\* size_req (kmem.c:136-141) neither wraps nor falls short, and kmem_morecore maps
\* no page too many, whatever the sizes of pages and headers.
THEOREM Tight == Spec => []GrowthIsTight
<1>1. Init => GrowthIsTight
  BY DEF Init, GrowthIsTight
<1>2. ASSUME IInv, FirstFit, GrowthIsTight, [Next]_vars PROVE GrowthIsTight'
  <2>1. ASSUME pc' # "grow" PROVE GrowthIsTight'
    BY <2>1 DEF GrowthIsTight
  <2>2. CASE UNCHANGED vars
    BY <1>2, <2>2 DEF GrowthIsTight, vars, header, scan, bsize
  <2>3. ASSUME NEW r \in Requests, Kmalloc(r) PROVE pc' # "grow"
    BY <2>3 DEF Kmalloc
  <2>4. ASSUME NEW s \in Addr, ChopBlock(s) \/ SkipBlock(s) PROVE pc' # "grow"
    BY <2>4 DEF ChopBlock, SkipBlock, Idle
  <2>5. CASE KmallocNull \/ OutOfFrames
    BY <2>1, <2>5 DEF KmallocNull, OutOfFrames, Idle
  <2>6. ASSUME NEW p \in Addr, Kfree(p) \/ Write(p) PROVE pc' # "grow"
    BY <2>6 DEF Kfree, Write, scan
  <2> QED BY <1>2, <2>1, <2>2, <2>3, <2>4, <2>5, <2>6, TightAtFirst, TightWhileGrowing
          DEF Next, KmallocStep, Halted
<1> QED BY <1>1, <1>2, Inductive, FirstFitHolds, PTL DEF Spec

\* The scan is always at a block, which lies below the bound of the loop (kmem.c:131)
\* unless that has wrapped.
THEOREM NullAfterWrap == Spec => NullOnlyAfterWrap
<1> DEFINE wrapped == KERNEL_HEAP_START + total_length * SIZEOF_KMEMPTR >= WORD
<1>1. ASSUME IInv, KmallocNull PROVE wrapped
  <2>1. scratch \in blocks /\ ~InBounds(scratch)
    BY <1>1 DEF KmallocNull, IInv, ScanAtBlock
  <2>2. scratch \in Nat /\ scratch < total_length /\ total_length \in Nat
    <3>1. scratch \in Nat /\ tail \in Nat /\ scratch <= tail
      BY <1>1, <2>1 DEF IInv, List, TypeOK, Chain, Addr
    <3>2. tail + Hdr = total_length
      BY <1>1 DEF IInv, List, ListTilesHeap
    <3> QED BY <3>1, <3>2, HdrPositive
  <2>3. SIZEOF_KMEMPTR \in Nat \ {0} /\ KERNEL_HEAP_START \in Nat /\ WORD \in Nat \ {0}
    BY KmemAssumption DEF Hdr
  <2> DEFINE scaled == total_length * SIZEOF_KMEMPTR
  <2>4. scaled \in Nat /\ scaled >= total_length
    BY <2>2, <2>3
  <2>5. KERNEL_HEAP_START + scratch >= (KERNEL_HEAP_START + scaled) % WORD
    <3>1. scratch # NULL
      BY <2>2 DEF NULL
    <3>2. ~(KERNEL_HEAP_START + scratch < (KERNEL_HEAP_START + scaled) % WORD)
      BY <2>1, <3>1 DEF InBounds
    <3> HIDE DEF scaled
    <3>3. (KERNEL_HEAP_START + scaled) % WORD \in Nat
      BY <2>3, <2>4
    <3> QED BY <3>2, <3>3, <2>2, <2>3
  <2> HIDE DEF scaled
  <2>6. ASSUME KERNEL_HEAP_START + scaled < WORD PROVE FALSE
    <3>1. (KERNEL_HEAP_START + scaled) % WORD = KERNEL_HEAP_START + scaled
      BY <2>3, <2>4, <2>6
    <3> QED BY <3>1, <2>2, <2>3, <2>4, <2>5
  <2> QED BY <2>3, <2>4, <2>6 DEF scaled
<1>2. IInv /\ [Next]_vars => [KmallocNull => wrapped]_vars
  BY <1>1
<1> QED BY <1>2, Inductive, PTL DEF Spec, NullOnlyAfterWrap

-----------------------------------------------------------------------------
(* The heap implements HeapContract.                                       *)

LEMMA ChopIsAlloc ==
  ASSUME IInv, NEW s \in Addr, ChopBlock(s)
  PROVE  Contract!Alloc(s + Hdr, request)
<1> DEFINE p == s + Hdr
<1> USE HdrPositive
<1>1. s \in blocks /\ s # tail /\ flags[s] = FREE /\ size[s] > bsize + Hdr
  <2>1. flags[s] = FREE /\ size[s] > bsize + Hdr
    BY DEF ChopBlock, Fits
  <2>2. s \in blocks
    BY DEF IInv, List, ChopBlock, AtBlock, ScanAtBlock, ListTilesHeap, first_free
  <2> QED BY <2>1, <2>2 DEF IInv, List, ListTilesHeap, FREE, TAIL
<1>2. /\ size[s] \in Nat /\ bsize \in Nat /\ bsize >= request /\ s \in Nat
      /\ request \in Nat
  BY BsizeCovers, KmemAssumption, <1>1 DEF IInv, List, TypeOK, Addr
<1>3. next[s] = s + Hdr + size[s] /\ next[s] \in blocks
      /\ \A c \in blocks : c > s => c >= next[s]
  BY <1>1 DEF IInv, List, ListTilesHeap
<1>4. p + request < next[s] /\ next[s] < total_length /\ total_length \in Nat
  <2>1. next[s] <= tail /\ tail \in Nat /\ total_length = tail + Hdr /\ next[s] \in Nat
    BY <1>3 DEF IInv, List, Chain, ListTilesHeap, TypeOK, Addr
  <2> QED BY <2>1, <1>1, <1>2, <1>3
<1>5. p \notin DOMAIN held
  <2>1. p - Hdr = s
    BY <1>2
  <2> QED BY <2>1, <1>1 DEF IInv, OwnersHoldBlocks, FREE, USED
<1>6. ASSUME NEW q \in DOMAIN held
      PROVE  ~Contract!Overlap(p, request, q, held[q])
  <2> DEFINE d == q - Hdr
  <2>1. /\ d \in blocks /\ q = d + Hdr /\ size[d] >= held[q] /\ d \in Nat
        /\ held[q] \in Nat /\ q \in Nat /\ size[d] \in Nat
    <3>1. q \in Nat /\ d \in blocks /\ size[d] >= held[q]
      BY <1>6 DEF IInv, List, OwnersHoldBlocks, TypeOK, Addr
    <3>2. d \in Nat /\ size[d] \in Nat /\ q = d + Hdr
      BY <3>1 DEF IInv, List, TypeOK, Addr
    <3>3. held[q] \in Nat
      BY <1>6, KmemAssumption DEF IInv, List, TypeOK
    <3> QED BY <3>1, <3>2, <3>3
  <2>2. d # s
    BY <1>5, <2>1
  <2>3. CASE d > s
    BY <2>1, <2>3, <1>2, <1>3, <1>4 DEF Contract!Overlap, IInv, List, TypeOK, Addr
  <2>4. CASE d < s
    <3>1. flags[d] = USED
      BY <2>1, <1>6 DEF IInv, OwnersHoldBlocks
    <3>2. d # tail
      BY <2>1, <3>1 DEF IInv, List, ListTilesHeap, USED, TAIL
    <3>3. next[d] = d + Hdr + size[d] /\ next[d] <= s
      BY <2>1, <2>4, <3>2, <1>1 DEF IInv, List, ListTilesHeap
    <3> QED BY <2>1, <3>3, <1>2 DEF Contract!Overlap
  <2> QED BY <2>1, <2>2, <2>3, <2>4, <1>2
<1>7. /\ held' = [q \in DOMAIN held \union {p} |-> IF q = p THEN request ELSE held[q]]
      /\ total_length' = total_length
  BY DEF ChopBlock
<1>8. p + request <= total_length
  BY <1>2, <1>3, <1>4 DEF IInv, List, TypeOK, Addr
<1> QED BY <1>5, <1>6, <1>7, <1>8 DEF Contract!Alloc

HeldIsFunction == held = [p \in DOMAIN held |-> held[p]]

LEMMA HeldStep == ASSUME HeldIsFunction, [Next]_vars PROVE HeldIsFunction'
<1>1. ASSUME NEW s \in Addr, ChopBlock(s) PROVE HeldIsFunction'
  BY <1>1 DEF ChopBlock, HeldIsFunction
<1>2. ASSUME NEW p \in Addr, Kfree(p) PROVE HeldIsFunction'
  BY <1>2 DEF Kfree, HeldIsFunction
<1>3. ASSUME held' = held PROVE HeldIsFunction'
  BY <1>3 DEF HeldIsFunction
<1>4. \/ held' = held
      \/ \E s \in Addr : ChopBlock(s) \/ Kfree(s)
  BY DEF Next, KmallocStep, Kmalloc, ScanTail, Morecore, OutOfFrames, KmallocNull,
     SkipBlock, Write, Halted, vars, client
<1> QED BY <1>1, <1>2, <1>3, <1>4

LEMMA StepRefines ==
  ASSUME IInv, HeldIsFunction, [Next]_vars
  PROVE  [Contract!Next]_<<held, total_length>>
<1> USE HdrPositive
<1>1. ASSUME NEW s \in Addr, ChopBlock(s) PROVE Contract!Next
  <2>1. request \in Requests
    BY <1>1 DEF IInv, ScanAtBlock, ChopBlock, AtBlock
  <2>2. s + Hdr \in Addr
    <3>1. s \in blocks /\ s # tail
      BY <1>1 DEF IInv, List, ChopBlock, AtBlock, ScanAtBlock, ListTilesHeap, first_free,
                  Fits, FREE, TAIL
    <3>2. next[s] \in Addr /\ next[s] = s + Hdr + size[s] /\ size[s] \in Nat
      BY <3>1 DEF IInv, List, ListTilesHeap, TypeOK
    <3> QED BY <3>2 DEF Addr
  <2> QED BY <1>1, <2>1, <2>2, ChopIsAlloc DEF Contract!Next
<1>2. CASE Morecore
  <2>1. total_length' = total_length + PAGE_SIZE /\ held' = held
    BY <1>2 DEF Morecore, client
  <2>2. total_length \in Nat
    BY DEF IInv, List, TypeOK
  <2> QED BY <2>1, <2>2 DEF Contract!Next, Contract!Grow
<1>3. ASSUME NEW p \in Addr, Kfree(p)
      PROVE  Contract!Next \/ UNCHANGED <<held, total_length>>
  <2>1. total_length' = total_length /\ held' = [q \in DOMAIN held \ {p} |-> held[q]]
    BY <1>3 DEF Kfree
  <2>2. CASE p \in DOMAIN held
    BY <2>1, <2>2 DEF Contract!Next, Contract!Free
  <2>3. CASE p \notin DOMAIN held
    <3>1. DOMAIN held \ {p} = DOMAIN held
      BY <2>3
    <3> QED BY <2>1, <3>1 DEF HeldIsFunction
  <2> QED BY <2>2, <2>3
<1>4. ASSUME NEW p \in Addr, Write(p) PROVE UNCHANGED <<held, total_length>>
  BY <1>4 DEF Write, client
<1>5. ASSUME NEW r \in Requests, Kmalloc(r) PROVE UNCHANGED <<held, total_length>>
  BY <1>5 DEF Kmalloc
<1>6. ASSUME NEW s \in Addr, SkipBlock(s) PROVE UNCHANGED <<held, total_length>>
  BY <1>6 DEF SkipBlock, client
<1>7. CASE ScanTail \/ OutOfFrames \/ KmallocNull \/ Halted \/ UNCHANGED vars
  BY <1>7 DEF ScanTail, OutOfFrames, KmallocNull, Halted, vars, client
<1> QED BY <1>1, <1>2, <1>3, <1>4, <1>5, <1>6, <1>7 DEF Next, KmallocStep

\* What kmalloc and kfree do is what HeapContract allows: intervals held are
\* disjoint, stay where they are, and lie in the mapped heap.
THEOREM Refinement == Spec => HeapSpec
<1>1. Init => Contract!Init
  BY HdrPositive DEF Init, Contract!Init
<1>2. IInv /\ HeldIsFunction /\ [Next]_vars
        => [Contract!Next]_<<held, total_length>>
  BY StepRefines
<1>3. Init => HeldIsFunction
  BY DEF Init, HeldIsFunction
<1>4. HeldIsFunction /\ [Next]_vars => HeldIsFunction'
  BY HeldStep
<1> QED BY <1>1, <1>2, <1>3, <1>4, Inductive, PTL DEF Spec, HeapSpec, Contract!Spec
=============================================================================
