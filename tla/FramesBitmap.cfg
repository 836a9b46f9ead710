SPECIFICATION Spec
CONSTANTS
  Entries = 4
  EntryBits = 2
  EntryBytes = 2
INVARIANTS TypeOK MarkedIsHeld LostOnlyWhenFull
PROPERTIES OthersKept ImplementsFramePool
CHECK_DEADLOCK FALSE
