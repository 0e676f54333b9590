---------------------------- MODULE HeapContract ----------------------------
(***************************************************************************)
(* What kmalloc and kfree promise to the rest of the kernel, without the   *)
(* list: a caller holds intervals of the heap, a new one overlaps none of  *)
(* those held, a held one stays where it is until its owner frees it, and  *)
(* the heap only grows.                                                    *)
(***************************************************************************)
EXTENDS Integers

CONSTANTS
  Addresses, \* where a block may start
  Sizes      \* the byte counts callers ask for

VARIABLES
  held,  \* byte count of each interval held, by its first address
  limit  \* bytes mapped for the heap

Overlap(p, m, q, n) == p < q + n /\ q < p + m

Init == held = [p \in {} |-> 0] /\ limit \in Nat

Alloc(p, n) ==
  /\ p \notin DOMAIN held
  /\ p + n <= limit
  /\ \A q \in DOMAIN held : ~Overlap(p, n, q, held[q])
  /\ held' = [q \in DOMAIN held \union {p} |-> IF q = p THEN n ELSE held[q]]
  /\ UNCHANGED limit

Free(p) ==
  /\ p \in DOMAIN held
  /\ held' = [q \in DOMAIN held \ {p} |-> held[q]]
  /\ UNCHANGED limit

Grow == limit' \in Nat /\ limit' > limit /\ UNCHANGED held

Next ==
  \/ \E p \in Addresses, n \in Sizes : Alloc(p, n)
  \/ \E p \in Addresses : Free(p)
  \/ Grow

Spec == Init /\ [][Next]_<<held, limit>>
=============================================================================
