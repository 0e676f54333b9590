-------------------------- MODULE BootMemory_proof --------------------------
(***************************************************************************)
(* Proofs about BootMemory, for every memory map the boot loader can pass, *)
(* every image and every content of the memory before.                     *)
(*                                                                         *)
(* A section that begins in the lower half of the address space and ends   *)
(* in the upper one gets a frame number as its end that no bitmap reaches: *)
(* its loop marks frames that are not the section's and runs into a page   *)
(* fault.  What the loops mark is therefore true only as long as the one   *)
(* in progress is not bound to fault.                                      *)
(***************************************************************************)
EXTENDS BootMemory, TLAPS

Entries == [addr : Nat, len : Nat \ {0}, type : Nat]

Placed == {"create_bitmap", "frame", "done"}
Marking == {"create_bitmap", "frame"}

Typed ==
  /\ mbmap \in Seq(Entries)
  /\ \A k \in DOMAIN mbmap : mbmap[k].addr % WORD <= WORD - PAGE
  /\ region \in Nat \ {0} /\ i \in Nat /\ sec_end \in Nat

\* The copy of the map is the boot loader's, entry by entry.
CopyOfMap ==
  pc \notin {"create_mmap", "panic"} => regions = [k \in DOMAIN mbmap |-> Copied(mbmap[k])]

\* The bitmap begins on the page behind the kernel's last.
PlaceBehindKernel == pc \in Placed => place \in Nat /\ place < WORD /\ place = ROUND_UP(KERNEL_END)

\* The loop over a section is between its ends.
InSection ==
  pc = "frame" =>
    /\ HasRegion
    /\ FrameOf(regions[region].start) <= i
    /\ sec_end = FrameOf(RegionEnd(regions[region]))

\* The loop in progress ends in a page fault, or did.
Doomed ==
  \/ pc = "fault"
  \/ pc = "frame" /\ i <= MAPPED * BYTE /\ MAPPED * BYTE <= sec_end

\* The frame was gone over with region k.
GoneOver(k, f) == k < region \/ (k = region /\ pc = "frame" /\ f < i)

\* A region that the kernel knows to be reserved, and where it ends.
KnownReserved(r) == r.type = UNUSABLE /\ r.start + r.size <= WORD \div 2

\* What was gone over and is reserved is marked, unless it is usable too.
ReservedMarked ==
  pc \in Marking =>
    \A k \in DOMAIN regions, f \in Nat :
      /\ GoneOver(k, f) /\ KnownReserved(regions[k])
      /\ Touches(f, regions[k].start, regions[k].size)
      /\ \A r \in RegionsOf(USABLE) : ~Touches(f, r.start, r.size)
      => f \in bits

\* Nothing is marked but what some region reserves, beside what was.
OnlyReservedMarked ==
  pc # "done" =>
    \A f \in bits \ before : \E r \in RegionsOf(UNUSABLE) : Touches(f, r.start, r.size)

\* Until the walk over the sections the memory is as it was.
UntouchedAtFirst == pc \notin Marking \union {"done", "fault"} => bits = before

BInv ==
  /\ Typed /\ CopyOfMap /\ PlaceBehindKernel /\ InSection /\ UntouchedAtFirst
  /\ Doomed \/ (ReservedMarked /\ OnlyReservedMarked)
  /\ ReservedStayUsed /\ KernelAndBitmapApart /\ OnlyReservedUsed

-----------------------------------------------------------------------------
(* Arithmetic of addresses and frames.                                     *)

\* The constants are positive, and the frames of the bitmap are in the lower
\* half.
LEMMA ConstantFacts ==
  /\ PAGE \in Nat \ {0} /\ BYTE \in Nat \ {0} /\ WORD \in Nat \ {0} /\ MAPPED \in Nat \ {0}
  /\ MAPPED * BYTE \in Nat /\ MAPPED * BYTE <= WORD \div 2
  /\ WORD \div 2 \in Nat /\ 2 * (WORD \div 2) <= WORD
  /\ KERNEL_START \in Nat /\ KERNEL_END \in Nat /\ KERNEL_END + PAGE < WORD
<1>1. /\ PAGE \in Nat \ {0} /\ BYTE \in Nat \ {0} /\ WORD \in Nat \ {0} /\ MAPPED \in Nat \ {0}
      /\ KERNEL_START \in Nat /\ KERNEL_END \in Nat /\ KERNEL_END + PAGE < WORD
      /\ MAPPED * BYTE <= WORD \div 2
  BY BootMemoryAssumption
<1>2. WORD \div 2 \in Nat /\ 2 * (WORD \div 2) <= WORD
  BY <1>1, SMT
<1>3. \A m, b \in Nat : m * b \in Nat
  BY SMT
<1> QED
  BY <1>1, <1>2, <1>3

\* A frame holds an address between its ends.
LEMMA FrameHolds ==
  ASSUME NEW a \in Nat, NEW f \in Nat
  PROVE  /\ a \div PAGE \in Nat
         /\ a \div PAGE <= f <=> a < (f + 1) * PAGE
         /\ f <= a \div PAGE <=> f * PAGE <= a
<1> DEFINE q == a \div PAGE
           rest == a % PAGE
<1>1. q \in Nat /\ rest \in Nat /\ rest < PAGE /\ a = q * PAGE + rest
  BY ConstantFacts, SMT
<1> HIDE DEF q, rest
<1>2. PAGE \in Nat \ {0}
  BY ConstantFacts
<1>3. \A n \in Nat : n * PAGE \in Nat
  BY <1>2, SMT
<1>4. \A x, y \in Nat : x < y => x * PAGE + PAGE <= y * PAGE
  BY <1>2, SMT
<1>5. (f + 1) * PAGE = f * PAGE + PAGE
  BY <1>2, SMT
<1>6. q <= f <=> a < (f + 1) * PAGE
  BY <1>1, <1>2, <1>3, <1>4, <1>5, SMT
<1>7. f <= q <=> f * PAGE <= a
  BY <1>1, <1>2, <1>3, <1>4, SMT
<1> QED
  BY <1>1, <1>6, <1>7 DEF q

\* The frame number of an address in the upper half is 0, in the last page, or
\* lies beyond every bitmap.
LEMMA FrameOfFacts ==
  ASSUME NEW a \in Nat, a < WORD
  PROVE  /\ FrameOf(a) \in Nat
         /\ a < WORD \div 2 => FrameOf(a) = a \div PAGE
         /\ a >= WORD \div 2 => \/ FrameOf(a) >= MAPPED * BYTE
                                \/ FrameOf(a) = 0 /\ a > WORD - PAGE
<1>1. CASE a < WORD \div 2
  BY <1>1, FrameHolds, ConstantFacts DEF FrameOf
<1>2. CASE a >= WORD \div 2
  <2> DEFINE k == (WORD - a) \div PAGE
  <2>1. FrameOf(a) = (-k) % WORD
    BY <1>2, ConstantFacts DEF FrameOf
  <2>2. WORD - a \in Nat \ {0} /\ k \in Nat /\ k * PAGE <= WORD - a /\ WORD - a < k * PAGE + PAGE
    <3>1. WORD - a \in Nat \ {0}
      BY ConstantFacts
    <3> QED
      BY <3>1, ConstantFacts, SMT
  <2> HIDE DEF k
  <2>3. CASE k = 0
    BY <2>1, <2>2, <2>3, ConstantFacts, SMT
  <2>4. CASE k > 0
    <3>1. k <= k * PAGE
      BY <2>2, ConstantFacts, SMT
    <3>2. a > 0
      BY <1>2, ConstantFacts, SMT
    <3>3. k <= WORD - a /\ k < WORD
      BY <2>2, <3>1, <3>2, ConstantFacts, SMT
    <3>4. (-k) % WORD = WORD - k
      BY <2>2, <2>4, <3>3, ConstantFacts, SMT
    <3>5. WORD - k >= a
      BY <2>2, <3>3, ConstantFacts, SMT
    <3> QED
      BY <1>2, <2>1, <2>2, <3>3, <3>4, <3>5, ConstantFacts, SMT
  <2> QED
    BY <1>2, <2>3, <2>4, <2>2
<1> QED
  BY <1>1, <1>2, ConstantFacts

\* The end of a region, as the kernel computes it.
LEMMA RegionEndFacts ==
  ASSUME NEW start \in Nat, start < WORD, NEW size \in Nat, size > 0, size < WORD,
         NEW end, end = (start + size - 1) % WORD
  PROVE  /\ end \in Nat /\ end < WORD /\ end < start + size
         /\ start + size <= WORD => end = start + size - 1
BY ConstantFacts, SMT

\* The frames from kernel_start to kernel_end are those that the loop marks.
LEMMA KernelFrames ==
  ASSUME NEW f \in 0..(WORD \div PAGE)
  PROVE  KernelFrame(f) <=> f \in FramesFrom(KERNEL_START, KERNEL_END)
<1>1. f \in Nat /\ f * PAGE \in Nat
  <2>1. WORD \div PAGE \in Nat
    BY ConstantFacts, FrameHolds
  <2>2. \A m, n \in Nat : m * n \in Nat
    BY SMT
  <2> QED
    BY <2>1, <2>2, ConstantFacts
<1>2. f >= KERNEL_START \div PAGE <=> KERNEL_START < (f + 1) * PAGE
  BY <1>1, FrameHolds, ConstantFacts
<1>3. KERNEL_START % PAGE = 0
  BY BootMemoryAssumption
<1>4. f * PAGE < KERNEL_START + (KERNEL_END + 1 - KERNEL_START) <=> f * PAGE + 0 <= KERNEL_END
  BY <1>1, ConstantFacts
<1> QED
  BY <1>2, <1>3, <1>4 DEF KernelFrame, Touches, FramesFrom

\* The first byte of the bitmap is in one frame, and none of the kernel's.
LEMMA BitmapFrames ==
  ASSUME place \in Nat, NEW f \in Nat
  PROVE  /\ BitmapFrame(f) <=> f = place \div PAGE
         /\ ROUND_UP(KERNEL_END) = place => ~(KernelFrame(f) /\ BitmapFrame(f))
<1>1. f * PAGE \in Nat
  <2>1. \A m, n \in Nat : m * n \in Nat
    BY SMT
  <2> QED
    BY <2>1, ConstantFacts
<1>2. BitmapFrame(f) <=> place < (f + 1) * PAGE /\ f * PAGE <= place
  BY <1>1 DEF BitmapFrame, Touches
<1>3. /\ place \div PAGE \in Nat
      /\ place \div PAGE <= f <=> place < (f + 1) * PAGE
      /\ f <= place \div PAGE <=> f * PAGE <= place
  BY FrameHolds
<1>4. BitmapFrame(f) <=> f = place \div PAGE
  BY <1>2, <1>3
<1>5. ASSUME ROUND_UP(KERNEL_END) = place, BitmapFrame(f)
      PROVE  ~KernelFrame(f)
  <2> DEFINE q == KERNEL_END \div PAGE
  <2>1. q \in Nat /\ KERNEL_END - (KERNEL_END % PAGE) + PAGE = (q + 1) * PAGE
    BY ConstantFacts, SMT
  <2>2. q * PAGE <= KERNEL_END /\ KERNEL_END < (q + 1) * PAGE
    BY <2>1, FrameHolds, ConstantFacts
  <2>3. (q + 1) * PAGE \in Nat /\ (q + 1) * PAGE = q * PAGE + PAGE /\ q * PAGE \in Nat
    <3>1. \A m, n \in Nat : m * n \in Nat /\ (m + 1) * n = m * n + n
      BY SMT
    <3> QED
      BY <2>1, <3>1, ConstantFacts
  <2> HIDE DEF q
  <2>4. place = (q + 1) * PAGE
    <3>1. \A n \in Nat : n < WORD => n % WORD = n
      BY ConstantFacts, SMT
    <3>2. (q + 1) * PAGE < WORD
      BY <2>2, <2>3, ConstantFacts
    <3> QED
      BY <1>5, <2>1, <2>3, <3>1, <3>2 DEF ROUND_UP
  <2>5. f = q + 1
    <3>1. place \div PAGE <= q + 1 <=> place < (q + 1 + 1) * PAGE
      BY <2>1, FrameHolds
    <3>2. q + 1 <= place \div PAGE <=> (q + 1) * PAGE <= place
      BY <2>1, FrameHolds
    <3>3. (q + 1 + 1) * PAGE = (q + 1) * PAGE + PAGE
      BY <2>1, ConstantFacts, SMT
    <3> QED
      BY <1>3, <1>4, <1>5, <2>1, <2>3, <2>4, <3>1, <3>2, <3>3, ConstantFacts
  <2>6. f * PAGE > KERNEL_END
    BY <2>2, <2>5
  <2> QED
    BY <1>1, <2>6, ConstantFacts DEF KernelFrame, Touches
<1> QED
  BY <1>4, <1>5

-----------------------------------------------------------------------------
(* The regions.                                                            *)

\* The copies hold addresses and lengths below 4 GB.
LEMMA RegionFacts ==
  ASSUME Typed, CopyOfMap, pc \notin {"create_mmap", "panic"}, NEW k \in DOMAIN regions
  PROVE  /\ k \in DOMAIN mbmap /\ k \in 1..Len(mbmap) /\ Len(regions) = Len(mbmap)
         /\ regions[k] = Copied(mbmap[k]) /\ mbmap[k] \in Entries
         /\ regions[k].start \in Nat /\ regions[k].start <= WORD - PAGE
         /\ regions[k].start < WORD
         /\ regions[k].size \in Nat /\ regions[k].size < WORD
         /\ regions[k].type \in {USABLE, UNUSABLE}
<1>1. regions = [l \in DOMAIN mbmap |-> Copied(mbmap[l])]
  BY DEF CopyOfMap
<1>2. DOMAIN mbmap = 1..Len(mbmap) /\ Len(mbmap) \in Nat
  BY DEF Typed
<1>3. k \in DOMAIN mbmap /\ regions[k] = Copied(mbmap[k]) /\ mbmap[k] \in Entries
  BY <1>1, <1>2 DEF Typed
<1>4. Len(regions) = Len(mbmap)
  BY <1>1, <1>2
<1>5. /\ regions[k].start = mbmap[k].addr % WORD /\ regions[k].size = mbmap[k].len % WORD
      /\ regions[k].type \in {USABLE, UNUSABLE}
  BY <1>3 DEF Copied
<1>6. mbmap[k].addr \in Nat /\ mbmap[k].len \in Nat
  BY <1>3 DEF Entries
<1>7. \A n \in Nat : n % WORD \in Nat /\ n % WORD < WORD
  BY ConstantFacts, SMT
<1> QED
  BY <1>2, <1>3, <1>4, <1>5, <1>6, <1>7 DEF Typed

\* The region of the walk is one of the copies.
LEMMA HasRegionFacts ==
  ASSUME Typed, CopyOfMap, pc \notin {"create_mmap", "panic"}
  PROVE  /\ DOMAIN regions = 1..Len(regions)
         /\ HasRegion => region \in DOMAIN regions /\ regions[region].size > 0
         /\ \A k \in DOMAIN regions : regions[k] \in Range(regions)
<1>1. regions = [l \in DOMAIN mbmap |-> Copied(mbmap[l])]
  BY DEF CopyOfMap
<1>2. DOMAIN mbmap = 1..Len(mbmap) /\ Len(mbmap) \in Nat
  BY DEF Typed
<1>3. DOMAIN regions = 1..Len(regions)
  BY <1>1, <1>2
<1>4. Len(regions) \in Nat
  BY <1>1, <1>2
<1> QED
  BY <1>3, <1>4 DEF HasRegion, Typed, Range

\* A frame that the loop over a section marks or frees is one of the section's,
\* unless the loop runs into a fault.
LEMMA InSectionTouches ==
  ASSUME Typed, CopyOfMap, InSection, pc = "frame", i <= sec_end, i < MAPPED * BYTE
  PROVE  \/ sec_end >= MAPPED * BYTE
         \/ Touches(i, regions[region].start, regions[region].size)
<1> DEFINE start == regions[region].start
           size == regions[region].size
           end == RegionEnd(regions[region])
<1>1. /\ region \in DOMAIN regions /\ size > 0
      /\ FrameOf(start) <= i /\ sec_end = FrameOf(end)
  BY HasRegionFacts DEF InSection
<1>2. /\ start \in Nat /\ start <= WORD - PAGE /\ start < WORD
      /\ size \in Nat /\ size < WORD
  BY <1>1, RegionFacts
<1>3. end = (start + size - 1) % WORD
  BY DEF RegionEnd
<1> HIDE DEF start, size, end
<1>4. end \in Nat /\ end < WORD /\ end < start + size
  BY <1>1, <1>2, <1>3, RegionEndFacts
<1>5. i \in Nat /\ PAGE \in Nat \ {0} /\ i * PAGE \in Nat
  <2>1. \A m, n \in Nat : m * n \in Nat
    BY SMT
  <2> QED
    BY <2>1, ConstantFacts DEF Typed
<1>6. start < (i + 1) * PAGE
  <2>1. start < WORD \div 2
    <3> SUFFICES ASSUME start >= WORD \div 2 PROVE FALSE
      BY <1>2, ConstantFacts
    <3>1. FrameOf(start) >= MAPPED * BYTE \/ start > WORD - PAGE
      BY <1>2, FrameOfFacts
    <3> QED
      BY <1>1, <1>2, <1>5, <3>1, ConstantFacts, FrameOfFacts
  <2>2. FrameOf(start) = start \div PAGE
    BY <1>2, <2>1, FrameOfFacts
  <2> QED
    BY <1>1, <1>2, <1>5, <2>2, FrameHolds
<1>7. sec_end >= MAPPED * BYTE \/ i * PAGE < start + size
  <2>1. CASE end < WORD \div 2
    <3>1. sec_end = end \div PAGE
      BY <1>1, <1>4, <2>1, FrameOfFacts
    <3>2. i * PAGE <= end
      BY <1>4, <1>5, <3>1, FrameHolds
    <3> QED
      BY <1>2, <1>4, <1>5, <3>2
  <2>2. CASE end >= WORD \div 2 /\ ~(sec_end >= MAPPED * BYTE)
    <3>1. sec_end = 0
      BY <1>1, <1>4, <2>2, FrameOfFacts
    <3>2. i = 0 /\ i * PAGE = 0
      BY <1>5, <3>1
    <3> QED
      BY <1>1, <1>2, <3>2
  <2> QED
    BY <1>4, <2>1, <2>2, ConstantFacts
<1> QED
  BY <1>6, <1>7 DEF Touches, start, size

-----------------------------------------------------------------------------
(* The invariant, action by action.                                        *)

\* At the start nothing is marked that was not.
LEMMA InitBInv == Init => BInv
<1> SUFFICES ASSUME Init PROVE BInv
  OBVIOUS
<1>1. mbmap \in Maps \union {<<>>}
  BY DEF Init
<1>2. Typed
  <2>1. mbmap \in Seq(Entries) /\ \A k \in DOMAIN mbmap : mbmap[k].addr % WORD <= WORD - PAGE
    <3>1. CASE mbmap \in Maps
      BY <3>1, BootMemoryAssumption DEF Entries
    <3>2. CASE mbmap = <<>>
      BY <3>2
    <3> QED
      BY <1>1, <3>1, <3>2
  <2> QED
    BY <2>1 DEF Init, Typed
<1>3. CopyOfMap /\ PlaceBehindKernel /\ InSection /\ UntouchedAtFirst
  BY DEF Init, CopyOfMap, PlaceBehindKernel, InSection, Placed, UntouchedAtFirst
<1>4. ReservedMarked /\ OnlyReservedMarked
  BY DEF Init, ReservedMarked, OnlyReservedMarked, Marking
<1>5. ReservedStayUsed /\ KernelAndBitmapApart /\ OnlyReservedUsed
  BY DEF Init, ReservedStayUsed, KernelAndBitmapApart, OnlyReservedUsed
<1> QED
  BY <1>2, <1>3, <1>4, <1>5 DEF BInv

\* Until the sections are gone over nothing is marked; what the walk for the
\* bitmap's place chooses is behind the kernel.
LEMMA BeforeMarkingStep ==
  ASSUME BInv, create_mmap \/ FindPlace \/ NoPlace
  PROVE  BInv'
<1> USE DEF BInv
<1>1. UNCHANGED <<mbmap, i, sec_end, bits, before>> /\ pc' \notin {"done", "frame", "fault"}
      /\ pc \notin Marking \union {"done", "fault"}
  BY DEF create_mmap, FindPlace, NoPlace, Marking
<1>2. Typed'
  <2>1. region' \in Nat \ {0}
    <3>1. region' \in {region, region + 1, 1}
      BY DEF create_mmap, FindPlace, NoPlace
    <3>2. region \in Nat \ {0}
      BY DEF Typed
    <3> QED
      BY <3>1, <3>2
  <2> QED
    BY <1>1, <2>1 DEF Typed
<1>3. CopyOfMap'
  BY DEF create_mmap, FindPlace, NoPlace, CopyOfMap
<1>4. PlaceBehindKernel'
  <2>1. CASE create_mmap \/ NoPlace
    BY <2>1 DEF create_mmap, NoPlace, PlaceBehindKernel, Placed
  <2>2. CASE FindPlace
    <3>1. /\ ROUND_UP(KERNEL_END) = KERNEL_END - (KERNEL_END % PAGE) + PAGE
          /\ ROUND_UP(KERNEL_END) \in Nat /\ ROUND_UP(KERNEL_END) < WORD
      <4> DEFINE a == KERNEL_END - (KERNEL_END % PAGE) + PAGE
      <4>1. a \in Nat /\ a <= KERNEL_END + PAGE /\ a > KERNEL_END
        BY ConstantFacts, SMT
      <4> HIDE DEF a
      <4>2. a % WORD = a /\ a < WORD
        BY <4>1, ConstantFacts, SMT
      <4>3. ROUND_UP(KERNEL_END) = a % WORD
        BY DEF ROUND_UP, a
      <4> QED
        BY <4>1, <4>2, <4>3 DEF a
    <3> QED
      BY <2>2, <3>1 DEF FindPlace, PlaceBehindKernel, Placed
  <2> QED
    BY <2>1, <2>2
<1>5. InSection' /\ ReservedStayUsed' /\ KernelAndBitmapApart' /\ OnlyReservedUsed'
  BY <1>1 DEF InSection, ReservedStayUsed, KernelAndBitmapApart, OnlyReservedUsed
<1>6. ReservedMarked'
  <2>1. CASE pc' \notin Marking
    BY <2>1 DEF ReservedMarked
  <2>2. CASE pc' \in Marking
    <3>1. pc' = "create_bitmap" /\ region' = 1
      BY <1>1, <2>2 DEF create_mmap, FindPlace, NoPlace, Marking
    <3>2. pc' \notin {"create_mmap", "panic"}
      BY <3>1
    <3>3. \A k \in DOMAIN regions' : k \in Nat /\ k >= 1
      <4>1. regions' = [k \in DOMAIN mbmap' |-> Copied(mbmap'[k])]
        BY <1>3, <3>2 DEF CopyOfMap
      <4>2. DOMAIN mbmap' = 1..Len(mbmap')
        BY <1>2 DEF Typed
      <4> QED
        BY <4>1, <4>2
    <3> QED
      BY <3>1, <3>3 DEF ReservedMarked, GoneOver
  <2> QED
    BY <2>1, <2>2
<1>7. OnlyReservedMarked'
  BY <1>1 DEF UntouchedAtFirst, OnlyReservedMarked
<1>8. UntouchedAtFirst'
  BY <1>1 DEF UntouchedAtFirst
<1> QED
  BY <1>2, <1>3, <1>4, <1>5, <1>6, <1>7, <1>8

\* A section begins: the frames before its first are none of its own.
LEMMA SectionStep ==
  ASSUME BInv, Section
  PROVE  BInv'
<1> USE DEF BInv
<1>1. /\ pc = "create_bitmap" /\ pc' = "frame" /\ HasRegion
      /\ i' = FrameOf(regions[region].start) /\ sec_end' = FrameOf(RegionEnd(regions[region]))
      /\ UNCHANGED <<mbmap, regions, region, place, bits, before>>
  BY DEF Section
<1>2. /\ region \in DOMAIN regions /\ regions[region].size > 0
      /\ regions[region].start \in Nat /\ regions[region].start < WORD
      /\ regions[region].size \in Nat /\ regions[region].size < WORD
  BY <1>1, HasRegionFacts, RegionFacts
<1>3. RegionEnd(regions[region]) \in Nat /\ RegionEnd(regions[region]) < WORD
  BY <1>2, RegionEndFacts DEF RegionEnd
<1>4. i' \in Nat /\ sec_end' \in Nat
  BY <1>1, <1>2, <1>3, FrameOfFacts
<1>5. Typed' /\ CopyOfMap' /\ PlaceBehindKernel'
  BY <1>1, <1>4 DEF Typed, CopyOfMap, PlaceBehindKernel, Placed
<1>6. InSection'
  BY <1>1, <1>4 DEF InSection, HasRegion
<1>7. ReservedStayUsed' /\ KernelAndBitmapApart' /\ OnlyReservedUsed'
  BY <1>1 DEF ReservedStayUsed, KernelAndBitmapApart, OnlyReservedUsed
<1>8. ReservedMarked /\ OnlyReservedMarked
  BY <1>1 DEF Doomed
<1>9. OnlyReservedMarked'
  BY <1>1, <1>8 DEF OnlyReservedMarked, RegionsOf
<1>a. ReservedMarked'
  <2> SUFFICES ASSUME NEW k \in DOMAIN regions, NEW f \in Nat,
                      GoneOver(k, f)', KnownReserved(regions[k]),
                      Touches(f, regions[k].start, regions[k].size),
                      \A r \in RegionsOf(USABLE) : ~Touches(f, r.start, r.size)
               PROVE  f \in bits
    BY <1>1 DEF ReservedMarked, RegionsOf
  <2>1. CASE GoneOver(k, f)
    <3>1. pc \in Marking
      BY <1>1 DEF Marking
    <3> QED
      BY ONLY <1>8, <2>1, <3>1, KnownReserved(regions[k]),
              k \in DOMAIN regions, f \in Nat, Touches(f, regions[k].start, regions[k].size),
              \A r \in RegionsOf(USABLE) : ~Touches(f, r.start, r.size)
         DEF ReservedMarked
  <2>2. CASE k = region /\ f < i'
    <3>1. regions[region].start < WORD \div 2
      BY <1>2, <2>2, ConstantFacts DEF KnownReserved
    <3>2. i' = regions[region].start \div PAGE
      BY <1>1, <1>2, <3>1, FrameOfFacts
    <3>3. regions[region].start \div PAGE <= f
      BY <1>2, <2>2, FrameHolds DEF Touches
    <3> QED
      BY <1>4, <2>2, <3>2, <3>3
  <2> QED
    BY <1>1, <2>1, <2>2 DEF GoneOver
<1>b. UntouchedAtFirst'
  BY <1>1 DEF UntouchedAtFirst, Marking
<1> QED
  BY <1>5, <1>6, <1>7, <1>9, <1>a, <1>b

\* A frame of a section is marked or freed.
LEMMA FrameStep ==
  ASSUME BInv, Frame
  PROVE  BInv'
<1> USE DEF BInv
<1>1. /\ pc = "frame" /\ pc' = pc /\ i <= sec_end /\ i \div BYTE < MAPPED
      /\ bits' = Marked(i) /\ i' = (i + 1) % WORD
      /\ UNCHANGED <<mbmap, regions, region, sec_end, place, before>>
  BY DEF Frame
<1>2. i \in Nat /\ i < MAPPED * BYTE /\ i' = i + 1
  <2>1. i \in Nat
    BY DEF Typed
  <2>2. i < MAPPED * BYTE
    <3> DEFINE q == i \div BYTE
               rest == i % BYTE
    <3>1. q \in Nat /\ rest \in Nat /\ rest < BYTE /\ i = q * BYTE + rest
      BY <2>1, ConstantFacts, SMT
    <3>2. q < MAPPED
      BY <1>1
    <3> HIDE DEF q, rest
    <3>3. \A x, y \in Nat : x < y => x * BYTE + BYTE <= y * BYTE
      BY ConstantFacts, SMT
    <3>4. q * BYTE \in Nat /\ q * BYTE + BYTE <= MAPPED * BYTE
      <4>1. \A m, n \in Nat : m * n \in Nat
        BY SMT
      <4> QED
        BY <3>1, <3>2, <3>3, <4>1, ConstantFacts
    <3> QED
      BY <3>1, <3>4, ConstantFacts
  <2>3. (i + 1) % WORD = i + 1
    <3>1. i + 1 < WORD
      BY <2>1, <2>2, ConstantFacts
    <3> QED
      BY <2>1, <3>1, ConstantFacts, SMT
  <2> QED
    BY <1>1, <2>1, <2>2, <2>3
<1>3. /\ region \in DOMAIN regions /\ regions[region] \in Range(regions)
      /\ regions[region].type \in {USABLE, UNUSABLE}
      /\ FrameOf(regions[region].start) \in Nat
  BY <1>1, HasRegionFacts, RegionFacts, FrameOfFacts DEF InSection
<1>4. Typed' /\ CopyOfMap' /\ PlaceBehindKernel' /\ UntouchedAtFirst'
  BY <1>1, <1>2 DEF Typed, CopyOfMap, PlaceBehindKernel, UntouchedAtFirst, Marking
<1>5. InSection'
  BY <1>1, <1>2, <1>3 DEF InSection, HasRegion
<1>6. ReservedStayUsed' /\ KernelAndBitmapApart' /\ OnlyReservedUsed'
  BY <1>1 DEF ReservedStayUsed, KernelAndBitmapApart, OnlyReservedUsed
<1>7. CASE sec_end >= MAPPED * BYTE
  <2>1. Doomed'
    BY <1>1, <1>2, <1>7, ConstantFacts DEF Doomed, Typed
  <2> QED
    BY <1>4, <1>5, <1>6, <2>1
<1>8. CASE ~(sec_end >= MAPPED * BYTE)
  <2>1. Touches(i, regions[region].start, regions[region].size)
    BY <1>1, <1>2, <1>8, InSectionTouches
  <2>2. ReservedMarked /\ OnlyReservedMarked
    <3>1. ~Doomed
      BY <1>1, <1>8, ConstantFacts DEF Doomed, Typed
    <3> QED
      BY <3>1
  <2>3. /\ regions[region].type = UNUSABLE => bits' = bits \union {i}
        /\ regions[region].type = USABLE => bits' \in {bits, bits \ {i}}
    BY <1>1, <1>3 DEF Marked, USABLE, UNUSABLE
  <2>4. OnlyReservedMarked'
    <3> SUFFICES ASSUME NEW f \in bits' \ before
                 PROVE  \E r \in RegionsOf(UNUSABLE) : Touches(f, r.start, r.size)
      BY <1>1 DEF OnlyReservedMarked, RegionsOf
    <3>1. CASE f \in bits
      BY <1>1, <2>2, <3>1 DEF OnlyReservedMarked
    <3>2. CASE f \notin bits
      BY <1>3, <2>1, <2>3, <3>2 DEF RegionsOf
    <3> QED
      BY <3>1, <3>2
  <2>5. ReservedMarked'
    <3> SUFFICES ASSUME NEW k \in DOMAIN regions, NEW f \in Nat,
                        GoneOver(k, f)', KnownReserved(regions[k]),
                        Touches(f, regions[k].start, regions[k].size),
                        \A r \in RegionsOf(USABLE) : ~Touches(f, r.start, r.size)
                 PROVE  f \in bits'
      BY <1>1 DEF ReservedMarked, RegionsOf
    <3>1. f # i \/ regions[region].type = UNUSABLE
      BY <1>3, <2>1 DEF RegionsOf
    <3>2. CASE GoneOver(k, f)
      <4>1. f \in bits
        BY <1>1, <2>2, <3>2 DEF ReservedMarked, Marking
      <4> QED
        BY <1>3, <2>3, <3>1, <4>1
    <3>3. CASE ~GoneOver(k, f)
      <4>1. k = region /\ f = i
        BY <1>1, <1>2, <3>3 DEF GoneOver
      <4> QED
        BY <2>3, <3>1, <4>1
    <3> QED
      BY <3>2, <3>3
  <2> QED
    BY <1>4, <1>5, <1>6, <2>4, <2>5
<1> QED
  BY <1>7, <1>8

\* The end of a section, which one that is bound to fault does not come to.
LEMMA NextSectionStep ==
  ASSUME BInv, NextSection
  PROVE  BInv'
<1> USE DEF BInv
<1>1. /\ pc = "frame" /\ pc' = "create_bitmap" /\ i > sec_end /\ region' = region + 1
      /\ UNCHANGED <<mbmap, regions, i, sec_end, place, bits, before>>
  BY DEF NextSection
<1>2. /\ region \in DOMAIN regions /\ regions[region].size > 0
      /\ regions[region].start \in Nat /\ regions[region].start < WORD
      /\ regions[region].size \in Nat /\ regions[region].size < WORD
      /\ sec_end = FrameOf(RegionEnd(regions[region]))
  BY <1>1, HasRegionFacts, RegionFacts DEF InSection
<1>3. Typed' /\ CopyOfMap' /\ PlaceBehindKernel' /\ UntouchedAtFirst' /\ InSection'
  BY <1>1 DEF Typed, CopyOfMap, PlaceBehindKernel, Placed, UntouchedAtFirst, Marking, InSection
<1>4. ReservedStayUsed' /\ KernelAndBitmapApart' /\ OnlyReservedUsed'
  BY <1>1 DEF ReservedStayUsed, KernelAndBitmapApart, OnlyReservedUsed
<1>5. ReservedMarked /\ OnlyReservedMarked
  <2>1. ~Doomed
    BY <1>1, ConstantFacts DEF Doomed, Typed
  <2> QED
    BY <2>1
<1>6. OnlyReservedMarked'
  BY <1>1, <1>5 DEF OnlyReservedMarked, RegionsOf
<1>7. ReservedMarked'
  <2> SUFFICES ASSUME NEW k \in DOMAIN regions, NEW f \in Nat,
                      GoneOver(k, f)', KnownReserved(regions[k]),
                      Touches(f, regions[k].start, regions[k].size),
                      \A r \in RegionsOf(USABLE) : ~Touches(f, r.start, r.size)
               PROVE  f \in bits
    BY <1>1 DEF ReservedMarked, RegionsOf
  <2>1. region \in Nat /\ k \in Nat /\ k <= region
    <3>1. DOMAIN regions = 1..Len(regions)
      BY <1>1, HasRegionFacts
    <3> QED
      BY <1>1, <3>1 DEF GoneOver, Typed
  <2>2. k = region => f < i
    <3> SUFFICES ASSUME k = region PROVE f < i
      OBVIOUS
    <3> DEFINE end == RegionEnd(regions[region])
    <3>1. /\ end = regions[region].start + regions[region].size - 1
          /\ end \in Nat /\ end < WORD /\ end < WORD \div 2
      BY <1>2, ConstantFacts, RegionEndFacts DEF KnownReserved, RegionEnd
    <3>2. f * PAGE <= end
      <4>1. f * PAGE \in Nat
        <5>1. \A m, n \in Nat : m * n \in Nat
          BY SMT
        <5> QED
          BY <5>1, ConstantFacts
      <4> QED
        BY <1>2, <3>1, <4>1 DEF Touches
    <3> HIDE DEF end
    <3>3. sec_end = end \div PAGE
      BY <1>2, <3>1, FrameOfFacts DEF end
    <3>4. f <= sec_end
      BY <3>1, <3>2, <3>3, FrameHolds
    <3> QED
      BY <1>1, <3>4 DEF Typed
  <2>3. GoneOver(k, f)
    BY <1>1, <2>1, <2>2 DEF GoneOver
  <2> QED
    BY <1>1, <1>5, <2>3 DEF ReservedMarked, Marking
<1> QED
  BY <1>3, <1>4, <1>6, <1>7

\* A page fault ends everything.
LEMMA FaultStep ==
  ASSUME BInv, FrameFaults
  PROVE  BInv'
<1>1. pc' = "fault" /\ UNCHANGED <<mbmap, regions, region, i, sec_end, place, bits, before>>
  BY DEF FrameFaults
<1>2. Typed' /\ CopyOfMap' /\ PlaceBehindKernel' /\ UntouchedAtFirst' /\ InSection' /\ Doomed'
  BY <1>1 DEF FrameFaults, BInv, Typed, CopyOfMap, PlaceBehindKernel, Placed, UntouchedAtFirst,
              InSection, Doomed
<1> QED
  BY <1>1, <1>2 DEF BInv, ReservedStayUsed, KernelAndBitmapApart, OnlyReservedUsed

\* All sections were gone over: low memory, the kernel and the bitmap's first
\* page are marked, too, and what the walks said of the map holds at the end.
LEMMA ReserveStep ==
  ASSUME BInv, Reserve
  PROVE  BInv'
<1> USE DEF BInv
<1> DEFINE Low == 0..(LOW - 1)
           First == FramesFrom(place, place)
           Kernel == FramesFrom(KERNEL_START, KERNEL_END)
<1>1. /\ pc = "create_bitmap" /\ pc' = "done" /\ ~HasRegion
      /\ bits' = bits \union Low \union Kernel \union First
      /\ UNCHANGED <<mbmap, regions, region, i, sec_end, place, before>>
  BY DEF Reserve
<1>2. Typed' /\ CopyOfMap' /\ PlaceBehindKernel' /\ UntouchedAtFirst' /\ InSection'
  BY <1>1 DEF Typed, CopyOfMap, PlaceBehindKernel, Placed, UntouchedAtFirst, InSection
<1>3. ReservedMarked /\ OnlyReservedMarked
  BY <1>1 DEF Doomed
<1>4. place \in Nat /\ place < WORD /\ place = ROUND_UP(KERNEL_END)
  BY <1>1 DEF PlaceBehindKernel, Placed
<1>5. First = {place \div PAGE}
  <2>1. place \div PAGE \in Nat /\ place \div PAGE \in 0..(WORD \div PAGE)
    <3>1. place \div PAGE \in Nat /\ WORD \div PAGE \in Nat /\ WORD \in Nat
      BY <1>4, ConstantFacts, FrameHolds
    <3>2. (place \div PAGE) * PAGE <= WORD
      BY <1>4, <3>1, FrameHolds, ConstantFacts, SMT
    <3>3. place \div PAGE <= WORD \div PAGE
      BY <3>1, <3>2, FrameHolds
    <3> QED
      BY <3>1, <3>3
  <2>2. \A f \in Nat : f * PAGE + (place % PAGE) <= place <=> f <= place \div PAGE
    <3> DEFINE q == place \div PAGE
               rest == place % PAGE
    <3>1. q \in Nat /\ rest \in Nat /\ place = q * PAGE + rest
      <4>1. \A a \in Nat : /\ a \div PAGE \in Nat /\ a % PAGE \in Nat
                           /\ a = (a \div PAGE) * PAGE + (a % PAGE)
        BY ConstantFacts, SMT
      <4> QED
        BY <1>4, <4>1
    <3> HIDE DEF q, rest
    <3>2. \A x, y \in Nat : x <= y <=> x * PAGE <= y * PAGE
      BY ConstantFacts, SMT
    <3>3. \A x \in Nat : x * PAGE \in Nat
      BY ConstantFacts, SMT
    <3>4. \A f \in Nat : f * PAGE + rest <= place <=> f <= q
      BY <3>1, <3>2, <3>3
    <3> QED
      BY <3>4 DEF q, rest
  <2>3. ASSUME NEW f \in 0..(WORD \div PAGE)
        PROVE  f \in First <=> f = place \div PAGE
    <3>1. WORD \div PAGE \in Nat
      BY ConstantFacts, FrameHolds
    <3>2. f \in Nat /\ (f * PAGE + (place % PAGE) <= place <=> f <= place \div PAGE)
      BY <2>2, <3>1
    <3> QED
      BY <2>1, <3>2 DEF FramesFrom
  <2>4. First \subseteq 0..(WORD \div PAGE)
    BY DEF FramesFrom
  <2> QED
    BY <2>1, <2>3, <2>4
<1> HIDE DEF First
<1>0. WORD \div PAGE \in Nat /\ Frames \subseteq 0..(WORD \div PAGE) /\ Frames \subseteq Nat
  <2>1. WORD \div PAGE \in Nat
    BY ConstantFacts, FrameHolds
  <2> QED
    BY <2>1 DEF Frames
<1>6. KernelAndBitmapApart'
  <2> SUFFICES ASSUME NEW f \in Frames
               PROVE  /\ KernelFrame(f) \/ BitmapFrame(f) => f \in bits'
                      /\ ~(KernelFrame(f) /\ BitmapFrame(f))
    BY <1>1 DEF KernelAndBitmapApart, KernelFrame, BitmapFrame
  <2>1. /\ BitmapFrame(f) <=> f = place \div PAGE
        /\ ~(KernelFrame(f) /\ BitmapFrame(f))
    BY <1>0, <1>4, BitmapFrames
  <2>2. KernelFrame(f) <=> f \in Kernel
    BY <1>0, KernelFrames
  <2> QED
    BY <1>1, <1>5, <2>1, <2>2
<1>7. OnlyReservedUsed'
  <2> SUFFICES ASSUME NEW f \in bits' \ before
               PROVE  \/ f < LOW \/ KernelFrame(f) \/ BitmapFrame(f)
                      \/ \E r \in RegionsOf(UNUSABLE) : Touches(f, r.start, r.size)
    BY <1>1 DEF OnlyReservedUsed, RegionsOf, KernelFrame, BitmapFrame
  <2>1. CASE f \in Low
    BY <2>1, BootMemoryAssumption
  <2>2. CASE f \in bits
    BY <1>1, <1>3, <2>2 DEF OnlyReservedMarked
  <2>3. CASE f \in Kernel
    <3>1. f \in 0..(WORD \div PAGE)
      BY <2>3 DEF FramesFrom
    <3> QED
      BY <2>3, <3>1, KernelFrames
  <2>4. CASE f \in First
    BY <1>4, <1>5, <2>4, FrameHolds, BitmapFrames
  <2> QED
    BY <1>1, <2>1, <2>2, <2>3, <2>4
<1>8. ReservedStayUsed'
  <2> SUFFICES ASSUME NEW f \in Frames, Reserved(f),
                      \A r \in RegionsOf(USABLE) : ~Touches(f, r.start, r.size)
               PROVE  f \in bits
    BY <1>1 DEF ReservedStayUsed, RegionsOf, Reserved
  <2>1. PICK k \in DOMAIN mbmap :
          /\ mbmap[k].type # RAM /\ Touches(f, mbmap[k].addr, mbmap[k].len)
          /\ mbmap[k].addr + mbmap[k].len <= WORD \div 2
          /\ \A j \in 1..k : mbmap[j].len % WORD # 0
    BY DEF Reserved
  <2>2. regions = [l \in DOMAIN mbmap |-> Copied(mbmap[l])]
    BY <1>1 DEF CopyOfMap
  <2>3. /\ k \in DOMAIN regions /\ regions[k] = Copied(mbmap[k]) /\ mbmap[k] \in Entries
        /\ DOMAIN regions = 1..Len(regions)
    BY <1>1, <2>1, <2>2, RegionFacts, HasRegionFacts
  <2>4. mbmap[k].addr \in Nat /\ mbmap[k].len \in Nat \ {0}
    BY <2>3 DEF Entries
  <2>5. mbmap[k].addr % WORD = mbmap[k].addr /\ mbmap[k].len % WORD = mbmap[k].len
    <3>1. mbmap[k].addr < WORD /\ mbmap[k].len < WORD
      BY <2>1, <2>4, ConstantFacts
    <3>2. \A n \in Nat : n < WORD => n % WORD = n
      BY ConstantFacts, SMT
    <3> QED
      BY <2>4, <3>1, <3>2
  <2>6. /\ regions[k].start = mbmap[k].addr /\ regions[k].size = mbmap[k].len
        /\ regions[k].type = UNUSABLE
    BY <2>1, <2>3, <2>5 DEF Copied
  <2>7. k < region
    <3> SUFFICES ASSUME region <= k PROVE FALSE
      BY <2>3 DEF Typed
    <3>1. region \in 1..k /\ region \in DOMAIN mbmap
      BY <2>1, <2>2, <2>3 DEF Typed
    <3>2. regions[region].size = mbmap[region].len % WORD /\ regions[region].size \in Nat
      <4>1. region \in DOMAIN regions
        BY <2>2, <3>1
      <4>2. regions[region] = Copied(mbmap[region]) /\ regions[region].size \in Nat
        BY <1>1, <4>1, RegionFacts
      <4> QED
        BY <4>2 DEF Copied
    <3>3. regions[region].size > 0
      BY <2>1, <3>1, <3>2
    <3>4. Len(regions) \in Nat /\ region <= Len(regions)
      <4>1. Len(regions) = Len(mbmap) /\ k \in 1..Len(mbmap) /\ Len(mbmap) \in Nat
        BY <1>1, <2>3, RegionFacts DEF Typed
      <4> QED
        BY <3>1, <4>1
    <3> QED
      BY <1>1, <3>3, <3>4 DEF HasRegion
  <2>8. f \in Nat
    BY ConstantFacts, FrameHolds DEF Frames
  <2> QED
    BY <1>1, <1>3, <2>1, <2>3, <2>6, <2>7, <2>8 DEF ReservedMarked, Marking, GoneOver, KnownReserved
<1>9. ReservedMarked' /\ OnlyReservedMarked'
  BY <1>1 DEF ReservedMarked, OnlyReservedMarked, Marking
<1> QED
  BY <1>2, <1>6, <1>7, <1>8, <1>9

\* The invariant is inductive.
LEMMA NextBInv == BInv /\ [Next]_vars => BInv'
<1> SUFFICES ASSUME BInv, [Next]_vars PROVE BInv'
  OBVIOUS
<1>1. CASE create_mmap \/ FindPlace \/ NoPlace
  BY <1>1, BeforeMarkingStep
<1>2. CASE Section \/ Frame \/ FrameFaults \/ NextSection \/ Reserve
  BY <1>2, SectionStep, FrameStep, FaultStep, NextSectionStep, ReserveStep
<1>3. CASE Ended \/ UNCHANGED vars
  <2>1. UNCHANGED vars
    BY <1>3 DEF Ended
  <2> QED
    BY <2>1 DEF vars, BInv, Typed, CopyOfMap, PlaceBehindKernel, InSection, UntouchedAtFirst,
       HasRegion, Doomed, ReservedMarked, GoneOver, OnlyReservedMarked, RegionsOf,
       ReservedStayUsed, Reserved, KernelAndBitmapApart, KernelFrame, BitmapFrame,
       OnlyReservedUsed
<1> QED
  BY <1>1, <1>2, <1>3 DEF Next

-----------------------------------------------------------------------------
(* The theorems.                                                           *)

\* The invariant holds in every reachable state.
THEOREM Invariant == Spec => []BInv
BY InitBInv, NextBInv, PTL DEF Spec

\* Whatever map the boot loader passes and whatever the memory held, what it
\* reserves in the lower half is used, unless the kernel's copy also calls it
\* usable (bitmap.c:124-163).
THEOREM ReservedAreUsed == Spec => []ReservedStayUsed
<1>1. BInv => ReservedStayUsed
  BY DEF BInv
<1> QED
  BY <1>1, Invariant, PTL

\* Wherever the linker puts the kernel and whatever the sections left: every
\* frame with a byte from kernel_start to kernel_end is used, the bitmap's first
\* frame is used, and it is none of the kernel's (mem_init.c:41-70,
\* bitmap.c:165-180).
THEOREM KernelIsUsed == Spec => []KernelAndBitmapApart
<1>1. BInv => KernelAndBitmapApart
  BY DEF BInv
<1> QED
  BY <1>1, Invariant, PTL

\* No frame is lost: every bit that create_bitmap sets has a reason
\* (bitmap.c:124-180).
THEOREM NothingLost == Spec => []OnlyReservedUsed
<1>1. BInv => OnlyReservedUsed
  BY DEF BInv
<1> QED
  BY <1>1, Invariant, PTL
=============================================================================
