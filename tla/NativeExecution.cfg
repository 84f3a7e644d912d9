SPECIFICATION Spec
CONSTANTS
  Page <- MCPage
  StackEnd <- MCStackEnd
  StackDefault <- MCStackDefault
  TcbSize <- MCTcbSize
  Reserve <- MCReserve
  LibraryBase <- MCLibraryBase
  Allocated <- MCAllocated
  Text <- MCText
  Launches <- MCLaunches
INVARIANTS TypeOK LibrariesStayInOnePiece ImportsAreBound ModulesAreNumbered InitialStackIsLaidOut TlsIsLaidOut StaticAreasAreBlocks PrologueFailsForALack NothingIsLeftBehind
PROPERTIES ImplementsProcessor ComponentsEnd
CHECK_DEADLOCK FALSE
