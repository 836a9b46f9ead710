SPECIFICATION Spec
CONSTANTS
  Page = 16
  HeapStart = 128
  InitialEnd = 176
  MinSize = 32
  Top = 300
  Sizes = {3, 11, 20}
  Aligns = {FALSE, TRUE}
  Freeing = TRUE
  Abandoning = TRUE
  MaxCalls = 3
INVARIANTS TypeOK
PROPERTIES MallocKeepsForm FreeKeepsForm AbandonedMallocLosesWords MallocKeepsApart KeepsPromises
CONSTRAINT Apart
CHECK_DEADLOCK FALSE
