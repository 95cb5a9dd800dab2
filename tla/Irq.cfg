SPECIFICATION FairSpec
CONSTANTS
  Irq = {0, 2, 7, 9, 15}
  Handler = {timer_int, cascade_int, other_int}
  None = None
INVARIANTS
  MaskCached
  NoLineLost
PROPERTY
  RequestsServed
