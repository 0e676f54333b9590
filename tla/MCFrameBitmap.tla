--------------------------- MODULE MCFrameBitmap ----------------------------
(***************************************************************************)
(* Instances of FrameBitmap for TLC: elements of 2 bits, so that the hint, *)
(* divided by 2 a second time, takes several values over 12 frames.        *)
(***************************************************************************)
EXTENDS FrameBitmap

\* The first two frames stand for low memory, two more for the kernel image.
MCReserved == {0, 1, 4, 5}
=============================================================================
