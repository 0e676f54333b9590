SPECIFICATION FairSpec
CONSTANTS
  WIDTH = 512
  Calls <- MCCalls
INVARIANTS
  TextIsNumeral
  FormatIsKept
  SameTextAsVprintf
PROPERTY Returns
