SPECIFICATION Spec
CONSTANTS
  PageSize = 2
  Top = 14
  Sections <- SmallSections
  HeapBegin = 2
  HeapEnd = 8
  Sizes = {1, 2}
  Widths = {1, 2}
  Hints = {0}
  HeapRights <- ReadWrite
  Data = {}
  MaxStores = 0
INVARIANT ReadsStayInPage
CHECK_DEADLOCK FALSE
