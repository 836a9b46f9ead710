SPECIFICATION Spec
CONSTANTS
  Page = 16
  HeapStart = 128
  InitialEnd = 176
  MinSize = 32
  Top = 300
  Sizes = {3, 14}
  Aligns = {FALSE, TRUE}
  Freeing = FALSE
  Abandoning = FALSE
  MaxCalls = 5
INVARIANTS BlocksApart
CHECK_DEADLOCK FALSE
