SPECIFICATION DrawingSpec
CONSTANTS
  w1 = w1
  w2 = w2
  Window = {w1, w2}
  NoWindow = NoWindow
  Opening <- TwoWindows
  Start <- Overlapping
  Width = 1
  Height = 2
  TitleHeight = 1
  MaxWindows = 2
  Garbage = {0}
  ScreenWidth = 1
  ScreenHeight = 3
  Moves <- Along
  Holds <- LeftOnly
  Key = {}
  BarHeight = 1
  CursorSize = 2
  Thickness = 1
INVARIANTS TypeOK
PROPERTIES DragKept FramesAreTrue ScreenSettles
CHECK_DEADLOCK FALSE
