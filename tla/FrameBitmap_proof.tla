------------------------- MODULE FrameBitmap_proof --------------------------
(***************************************************************************)
(* Proofs about FrameBitmap for every element width, number of frames and  *)
(* set of reserved frames.                                                 *)
(***************************************************************************)
EXTENDS FrameBitmap, TLAPS

\* What makes BitsAreOwners inductive: frames given back are marked free, and
\* the hint points at the element of the last frame given back.
HintAtFreed == freed # NULL => freed \in returned /\ last_checked = HintAt(freed)

IInv == TypeOK /\ BitsAreOwners /\ HintAtFreed

-----------------------------------------------------------------------------
(* Dividing by the element width rounds down.                              *)

LEMMA DivDown ==
  ASSUME NEW x \in Nat
  PROVE  x \div BYTE \in Nat /\ (x \div BYTE) * BYTE <= x /\ x \div BYTE <= x
<1>1. BYTE \in Nat /\ BYTE > 0
  BY FrameAssumption
<1>2. x = BYTE * (x \div BYTE) + (x % BYTE) /\ x % BYTE \in 0 .. BYTE - 1
  BY <1>1
<1>3. x \div BYTE \in Nat
  BY <1>1
<1>4. (x \div BYTE) * BYTE = BYTE * (x \div BYTE)
  BY <1>1, <1>3
<1>5. x \div BYTE <= BYTE * (x \div BYTE)
  BY <1>1, <1>3
<1> QED BY <1>1, <1>2, <1>3, <1>4, <1>5

LEMMA SearchReaches ==
  ASSUME TypeOK, NEW f \in Frame, last_checked = HintAt(f)
  PROVE  SearchStart <= f
<1>1. f \in Nat /\ f \div BYTE \in Nat /\ f \div BYTE <= f
  BY DivDown DEF Frame
<1>2. SearchStart <= f \div BYTE
  BY <1>1, DivDown DEF SearchStart, HintAt
<1>3. SearchStart \in Int
  BY FrameAssumption DEF SearchStart, TypeOK
<1> QED BY <1>1, <1>2, <1>3

-----------------------------------------------------------------------------
LEMMA InitIInv == Init => IInv
BY FrameAssumption DEF Init, IInv, TypeOK, BitsAreOwners, HintAtFreed, NULL

LEMMA GetFrameInv == ASSUME IInv, NEW f \in Frame, GetFrame(f) PROVE IInv'
<1>1. f \notin used /\ f \notin owned /\ f \notin Reserved
  BY DEF GetFrame, FirstClear, IInv, BitsAreOwners
<1>2. TypeOK' /\ HintAtFreed'
  BY DEF GetFrame, MarkUsed, IInv, TypeOK, HintAtFreed
<1>3. BitsAreOwners'
  BY <1>1 DEF GetFrame, MarkUsed, IInv, BitsAreOwners
<1> QED BY <1>2, <1>3 DEF IInv

LEMMA FreeFrameInv == ASSUME IInv, NEW f \in Frame, FreeFrame(f) PROVE IInv'
<1>1. f \notin Reserved
  BY DEF FreeFrame, free_frame, Unmarked, IInv, TypeOK, BitsAreOwners
<1>2. HintAt(f) \in Nat
  BY DivDown DEF HintAt, Frame
<1>3. TypeOK'
  BY <1>2 DEF FreeFrame, free_frame, Unmarked, IInv, TypeOK
<1>4. BitsAreOwners'
  BY <1>1 DEF FreeFrame, free_frame, Unmarked, IInv, BitsAreOwners
<1>5. HintAtFreed'
  BY DEF FreeFrame, free_frame, HintAtFreed, HintAt, NULL
<1> QED BY <1>3, <1>4, <1>5 DEF IInv

LEMMA NextIInv == ASSUME IInv, [Next]_vars PROVE IInv'
<1>1. ASSUME NEW f \in Frame, GetFrame(f) PROVE IInv'
  BY <1>1, GetFrameInv
<1>2. ASSUME NEW f \in Frame, FreeFrame(f) PROVE IInv'
  BY <1>2, FreeFrameInv
<1>3. CASE PmmAllocSized \/ UNCHANGED vars
  BY <1>3 DEF PmmAllocSized, vars, IInv, TypeOK, BitsAreOwners, HintAtFreed, HintAt
<1> QED BY <1>1, <1>2, <1>3 DEF Next

\* The inductive invariant holds in every reachable state (bitmap.c:31-108).
THEOREM Inductive == Spec => []IInv
BY InitIInv, NextIInv, PTL DEF Spec

\* Bits, owners and hint keep their types, for every number of frames.
THEOREM TypeCorrect == Spec => []TypeOK
<1>1. IInv => TypeOK
  BY DEF IInv
<1> QED BY <1>1, Inductive, PTL

\* A set bit stands for a frame in use, and for nothing else.
THEOREM BitsExact == Spec => []BitsAreOwners
<1>1. IInv => BitsAreOwners
  BY DEF IInv
<1> QED BY <1>1, Inductive, PTL

\* The search that follows free_frame reaches the frame given back.
THEOREM FreedReached == Spec => []JustFreedIsReached
<1>1. IInv => JustFreedIsReached
  BY SearchReaches DEF IInv, TypeOK, HintAtFreed, JustFreedIsReached
<1> QED BY <1>1, Inductive, PTL

\* get_frame and free_frame keep the promise of FrameContract.
THEOREM Refinement == Spec => FrameSpec
<1>1. Init => Contract!Init
  BY DEF Init, Contract!Init
<1>2. ASSUME IInv, [Next]_vars PROVE [Contract!Next]_owned
  <2>1. ASSUME NEW f \in Frame, GetFrame(f) PROVE Contract!Next
    <3>1. f \notin owned /\ f \notin Reserved /\ owned' = owned \union {f}
      BY <2>1, <1>2 DEF GetFrame, FirstClear, IInv, BitsAreOwners
    <3> QED BY <3>1 DEF Contract!Next, Contract!Get
  <2>2. ASSUME NEW f \in Frame, FreeFrame(f) PROVE Contract!Next \/ UNCHANGED owned
    BY <2>2 DEF FreeFrame, free_frame, Contract!Next, Contract!Free
  <2>3. CASE PmmAllocSized \/ UNCHANGED vars
    BY <2>3 DEF PmmAllocSized, vars
  <2> QED BY <1>2, <2>1, <2>2, <2>3 DEF Next
<1> QED BY <1>1, <1>2, Inductive, PTL DEF Spec, FrameSpec, Contract!Spec
=============================================================================
