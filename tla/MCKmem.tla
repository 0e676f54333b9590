------------------------------- MODULE MCKmem -------------------------------
(***************************************************************************)
(* Instances of Kmem for TLC, scaled down: a header of 2 bytes, a grain of *)
(* 2, pages of 8.                                                          *)
(***************************************************************************)
EXTENDS Kmem

\* The first block has 4 bytes, those of the first request but not its header:
\* two that need one page more, and one that may need two.
MCRequests == {4, 6, 9}
=============================================================================
