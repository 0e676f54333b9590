SPECIFICATION FairSpec
CONSTANTS
  OtherIrqs <- MCOtherIrqs
  TICKS = 3
  QUEUE = 1
PROPERTY PauseEnds
