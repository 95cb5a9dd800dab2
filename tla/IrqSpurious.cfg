SPECIFICATION Spec
CONSTANTS
  Irq = {0, 2, 7, 15}
  Handler = {timer_int}
  None = None
INVARIANT
  OnlyRegisteredEnabled
