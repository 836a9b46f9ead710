SPECIFICATION Spec
CONSTANTS
  Page = 16
  HeapStart = 128
  InitialEnd = 176
  MinSize = 32
  Top = 300
  Sizes = {3, 11, 20}
  Aligns = {FALSE}
  Freeing = TRUE
  Abandoning = FALSE
  MaxCalls = 4
INVARIANTS EndAboveBlocks
CONSTRAINT WellFormed
CHECK_DEADLOCK FALSE
