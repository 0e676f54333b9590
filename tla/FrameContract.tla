--------------------------- MODULE FrameContract ----------------------------
(***************************************************************************)
(* What get_frame and free_frame promise: a frame has one owner at a time, *)
(* and the frames that boot set aside never get one.                       *)
(***************************************************************************)
CONSTANTS
  Frame,   \* the frames that can be handed out or set aside
  Reserved \* those set aside

VARIABLE owned  \* the frames handed out and not yet given back

Init == owned = {}

Get(f) ==
  /\ f \notin owned /\ f \notin Reserved
  /\ owned' = owned \union {f}

Free(f) == f \in owned /\ owned' = owned \ {f}

Next == \E f \in Frame : Get(f) \/ Free(f)

Spec == Init /\ [][Next]_owned
=============================================================================
