SPECIFICATION Spec
CONSTANTS
  Driver = {video, telemetry}
  video = video
  Level = {5, 7}
  Message <- Messages
  Output <- Outputs
  LogBufSize = 14
  Chunk = 5
  MaxCalls = 3
  Cols = 3
  Lines = 3
INVARIANTS
  LogIsSuffix
  ConsoleComplete
  CursorOnScreen
  ScreenShowsEnd
CHECK_DEADLOCK FALSE
