SPECIFICATION Spec
CONSTANTS
  p1 = p1
  p2 = p2
  u1 = u1
  Task = {p1, p2, u1}
  Process = {p1, p2}
  Boot = Boot
  FrameCount = 14
  KernelPages = 4
  LowPages = 4
  UserPages = 1
  InitialPages = 6
  MaxPages = 7
  MinPages = 2
  StackPages = 1
INVARIANTS TypeOK OneOwner MappedIsMarked
PROPERTIES StackKept
CHECK_DEADLOCK FALSE
