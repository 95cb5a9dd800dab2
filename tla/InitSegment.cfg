SPECIFICATION SegmentSpec
CONSTANTS
  NULL = NULL
  init = init
  Task = {init, perl}
  idle_task = idle_task
  keyboard_queue = keyboard_queue
  block_queue = block_queue
  Slice = 1
  Wrap = 8
INVARIANT
  StartKernelIntact
