SPECIFICATION Spec
CONSTANTS
  Blocks <- MCBlocks
  Allocated <- MCAllocated
  Streams <- MCStreams
  Tests <- MCTests
INVARIANTS EffectIsEquivalent FailsAsProcessor TemporariesAreSet TemporariesAreReleased ImpactsCoverDifferences
CHECK_DEADLOCK FALSE
