------------------------------ MODULE MCFrames ------------------------------
EXTENDS Frames

\* No code, and one that is told from a dummy.
MCErrorCodes == {0, 2}

\* Stubs of 16 bytes behind 0xC01001C0, so that a carry falls into the second byte.
MCStubAt ==
  [v \in Vectors |-> <<(448 + 16 * v) % 256, 16 + (448 + 16 * v) \div 256, 16, 192>>]
=============================================================================
