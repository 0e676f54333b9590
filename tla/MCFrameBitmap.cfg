SPECIFICATION Spec
CONSTANTS
  BYTE = 2
  NumFrames = 12
  Reserved <- MCReserved
INVARIANTS
  TypeOK
  BitsAreOwners
  JustFreedIsReached
PROPERTY
  FrameSpec
