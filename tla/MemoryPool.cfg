SPECIFICATION Spec
CONSTANTS
  PageSize = 2
  Top = 14
  Sections <- SmallSections
  HeapBegin = 2
  HeapEnd = 8
  Sizes = {1, 3}
  Widths = {3}
  Hints = {0, 4}
  HeapRights <- ReadWrite
  Data <- OneValue
  MaxStores = 1
INVARIANTS TypeOK BlocksDisjoint InfoSummarises RoomIsFound
PROPERTIES ImplementsFlatMemory
CHECK_DEADLOCK FALSE
