SPECIFICATION Spec
CONSTANTS
  PageSize = 2
  Top = 14
  Sections <- SmallSections
  HeapBegin = 2
  HeapEnd = 8
  Sizes = {1, 3}
  Widths = {1, 3}
  Hints = {0}
  HeapRights <- ReadWrite
  Data = {}
  MaxStores = 0
INVARIANT AllocatedMeansAllBytes
CHECK_DEADLOCK FALSE
