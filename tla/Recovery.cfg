SPECIFICATION Spec
CONSTANTS
  Images <- SmallImages
  EntryPoint = 0
  MaxNode = 20
  MaxExecutions = 3
INVARIANTS
  TypeOK
  UnexploredAreExits
  OneAddressPerNode
  CasesCanBeAdded
  HistoryIsPath
  BranchingsAreRecorded
  SearchSucceeds
  DoneMeansRecovered
PROPERTIES
  RecoveredIsKept
CHECK_DEADLOCK FALSE
