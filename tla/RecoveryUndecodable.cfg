SPECIFICATION Spec
CONSTANTS
  Images <- Undecodable
  EntryPoint = 0
  MaxNode = 12
  MaxExecutions = 1
INVARIANTS
  NeverUnreachable
CHECK_DEADLOCK FALSE
