SPECIFICATION FrameFairSpec
CONSTANTS
  NULL = NULL
  init = init
  reader = perl
  Task = {init, perl}
  idle_task = idle_task
  keyboard_queue = keyboard_queue
  block_queue = block_queue
  Slice = 1
  Wrap = 8
  BufferSize = 2
  MaxKeys = 4
INVARIANTS
  InputTypeOK
  RingBounded
  NothingLost
  StackBalanced
  ResultsInPlace
PROPERTY
  ReaderServed
