SPECIFICATION Spec
CONSTANTS
  PageWords = 8
  InitWords = 12
  RamPages = 3
  PageNumbers = 8
  Sizes = {1, 4, 9}
  MaxBlocks = 3
INVARIANT
  FreedOnce
CHECK_DEADLOCK FALSE
