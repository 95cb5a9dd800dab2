SPECIFICATION Spec
CONSTANTS
  NULL = NULL
  init = init
  Task = {init, p1, p2}
  idle_task = idle_task
  keyboard_queue = keyboard_queue
  block_queue = block_queue
  Slice = 1
  Wrap = 8
INVARIANT
  ProcessesInterruptible
