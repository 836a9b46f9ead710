SPECIFICATION FairSpec
CONSTANTS
  w1 = w1
  w2 = w2
  Window = {w1, w2}
  NoWindow = NoWindow
  Opening <- TwoWindows
  Start <- SideBySide
  Width = 1
  Height = 1
  TitleHeight = 0
  MaxWindows = 2
  Garbage = {0, 40000}
  ScreenWidth = 2
  ScreenHeight = 1
  Moves <- BelowTitles
  Holds <- WithRight
  Key = {k1}
INVARIANTS ListInOrder
PROPERTIES PressRaises FocusedHears WindowsOpen
CHECK_DEADLOCK FALSE
