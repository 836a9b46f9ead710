SPECIFICATION Spec
CONSTANTS
  w1 = w1
  w2 = w2
  Window = {w1, w2}
  NoWindow = NoWindow
  Opening <- TwoWindows
  Start <- Overlapping
  Width = 1
  Height = 1
  TitleHeight = 0
  MaxWindows = 2
  Garbage = {0}
  ScreenWidth = 2
  ScreenHeight = 1
  Moves <- DownAndBack
  Holds <- LeftOnly
  Key = {}
INVARIANTS NoWindowLost

CHECK_DEADLOCK FALSE
