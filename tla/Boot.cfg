SPECIFICATION Spec
CONSTANTS
  SPT = 4
  HEADS = 2
  TRACKS = 3
  CHUNKS = 8
  SectorSize = 2
  MaxSecond = 4
  SecondSizes = {1, 2, 4}
  KernelSizes = {0, 5, 9, 23, 24, 37, 40}
  BsmithCounter = 5
  BpWrap = 8
  LowWrap = 20
  RamSizes = {4096, 16384, 32768, 65536, 131072}
  Speeds = {3, 5, 6, 8, 9, 21, 63, 64, 65, 100, 127, 128, 129, 300}
  FirstBits = 2
  LPS_PREC = 3
  WordBits = 8
  Latency = 1
INVARIANTS
  KernelLoaded
  GivesUpOnErrors
  MemoryWithinRam
  Calibrated
PROPERTY
  BootEnds
