SPECIFICATION Spec
CONSTANTS
  c1 = c1
  c2 = c2
  Objects <- MCObjects
  Instructions <- MCInstructions
  MaxNode = 3
  MaxList = 2
  MaxEdges = 3
SYMMETRY Symmetry
INVARIANTS
  TypeOK
  ListsMirrorEdges
  ExitsAreSinks
  NodesNotShared
  MergeGlues
PROPERTY IdsNotReused
CHECK_DEADLOCK FALSE
