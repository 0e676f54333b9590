---------------------------- MODULE FrameBitmap -----------------------------
(***************************************************************************)
(* The page frame allocator, kernel/mm/bitmap.c behind kernel/mm/pmm.c:    *)
(* one bit for each frame, and a hint, last_checked, where the next search *)
(* starts.                                                                 *)
(*                                                                         *)
(* used is the set of frames whose bit is 1.  The bits are kept BYTE to an *)
(* element of kernel_bitmap.ptr, and frame f is bit f % BYTE, counted from *)
(* the high end, of element f \div BYTE, so a search in order of elements  *)
(* and bits is a search in order of frames.                                *)
(***************************************************************************)
EXTENDS Integers

CONSTANTS
  BYTE,     \* bits of an element of kernel_bitmap.ptr (8)
  NumFrames,\* bound: frames whose bit a search may look at
  Reserved  \* the frames create_bitmap left marked

Frame == 0 .. NumFrames - 1
NULL == -1

ASSUME FrameAssumption ==
  /\ BYTE \in Nat \ {0} /\ NumFrames \in Nat
  /\ Reserved \subseteq Frame

VARIABLES
  used,         \* frames whose bit is set
  last_checked, \* kernel_bitmap.last_checked
  owned,        \* frames handed out by get_frame and not given back since
  returned,     \* history: frames given back and not handed out again
  freed         \* history: the frame that the last call gave back, or NULL

vars == <<used, last_checked, owned, returned, freed>>

Init ==
  /\ used = Reserved /\ owned = {} /\ returned = {} /\ freed = NULL
  /\ last_checked = 0

-----------------------------------------------------------------------------
(* get_frame, that is pmm_alloc(0).                                        *)

\* The search starts at element last_checked / 8, though free_frame stores an
\* element there and not a bit.
SearchStart == (last_checked \div BYTE) * BYTE

\* Faulty variant: any clear bit will do, whatever the search start.
ClearAnywhere(f) == f \in Frame

\* The first clear bit at or after the start.
FirstClear(f) ==
  /\ f \in Frame \ used /\ f >= SearchStart
  /\ \A g \in Frame : g >= SearchStart /\ g < f => g \in used

\* Faulty variant: the bit is not set.
KeepBit(f) == used
MarkUsed(f) == used \union {f}

\* The search has no end of its own (kernel_bitmap.length is never read): the
\* model stops it at the bound NumFrames.
GetFrame(f) ==
  /\ FirstClear(f)
  /\ used' = MarkUsed(f)
  /\ owned' = owned \union {f} /\ returned' = returned \ {f}
  /\ freed' = NULL
  /\ UNCHANGED last_checked

\* pmm_alloc with a size: address 0, whatever the size.
PmmAllocSized == freed' = NULL /\ UNCHANGED <<used, last_checked, owned, returned>>

-----------------------------------------------------------------------------
(* free_frame, that is pmm_free.                                           *)

\* Faulty variant: the bit after the freed one's element.
HintAfter(f)  == (f \div BYTE + 1) * BYTE
HintAt(f) == f \div BYTE

\* Faulty variant: the bit is not cleared.
StaysMarked(f) == used
Unmarked(f) == used \ {f}

free_frame(f) ==
  /\ last_checked' = HintAt(f)
  /\ used' = Unmarked(f)
  /\ owned' = owned \ {f} /\ returned' = returned \union {f}
  /\ freed' = IF f \in used THEN f ELSE NULL

\* The call, for a frame that its caller owns, or has given back already: it
\* fails then, and moves the hint all the same.
FreeFrame(f) == f \in owned \union returned /\ free_frame(f)

Next ==
  \/ \E f \in Frame : GetFrame(f) \/ FreeFrame(f)
  \/ PmmAllocSized

Spec == Init /\ [][Next]_vars

-----------------------------------------------------------------------------
(* Properties.                                                             *)

TypeOK ==
  /\ used \subseteq Frame /\ owned \subseteq Frame
  /\ returned \subseteq Frame \ used
  /\ last_checked \in Nat /\ freed \in Frame \union {NULL}

\* The bitmap knows exactly what is set aside or owned: no frame is lost as
\* used, and no frame in use is marked free.
BitsAreOwners == used = Reserved \union owned /\ Reserved \intersect owned = {}

\* Each frame has one owner, and the frames set aside have none.
Contract == INSTANCE FrameContract
FrameSpec == Contract!Spec

\* A frame just given back is within reach of the next search: the hint never
\* moves past it, so get_frame returns that frame or a lower one.
JustFreedIsReached == freed # NULL => freed \notin used /\ SearchStart <= freed
=============================================================================
