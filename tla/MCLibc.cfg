SPECIFICATION LibcSpec
CONSTANTS
  PageWords = 8
  InitWords = 6
  RamPages = 4
  PageNumbers = 8
  Sizes = {0, 1, 9}
  MaxBlocks = 3
  LongBits = 8
  ShortBits = 4
  Directives <- MCDirectives
  Values = {0, 1, 9, 127, 128, 200, 255, 256, 2560, 32768, 65535}
  Formats <- MCFormats
  Numbers <- MCNumbers
  Bases = {0, 1, 8, 10, 16, 36}
  Strings <- MCStrings
VIEW LiveView
INVARIANTS
  MemoryPartitioned
  ListsCoalesced
  HeadersIntact
  ContentsKept
  SprintfCorrect
  RoundTrip
  FormatWalked
  StrtoulCorrect
  
CHECK_DEADLOCK FALSE
