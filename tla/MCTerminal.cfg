SPECIFICATION Spec
CONSTANTS
  VGA_WIDTH = 3
  VGA_HEIGHT = 2
  BASE = 4
  Letters <- MCLetters
  LENGTH = 4
  KEYS = 2
  FLASHES = 1
CHECK_DEADLOCK FALSE
INVARIANTS
  InsideWhenIdle
  CursorHeals
  ScreenShowsText
