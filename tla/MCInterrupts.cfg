SPECIFICATION FairSpec
CONSTANTS
  OtherIrqs <- MCOtherIrqs
  TICKS = 3
  QUEUE = 2
INVARIANTS
  TypeOK
  AllServed
  ByteHasInterrupt
  FlagOnlyInPause
PROPERTIES
  FlashEnds
  PauseEndsOrKeyboardLost
