SPECIFICATION Spec
CONSTANTS
  Images <- WideMoves
  EntryPoint = 0
  MaxNode = 12
  MaxExecutions = 1
INVARIANTS
  RecoveryAdvances
CHECK_DEADLOCK FALSE
