SPECIFICATION KeyboardSpec
CONSTANT Letters <- MCLetters
INVARIANTS
  NoPhantomModifier
  ShiftFollowsKeys
