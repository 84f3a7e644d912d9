SPECIFICATION Spec
CONSTANTS
  NoEngine = NoEngine
  Portfolios <- Two
INVARIANT YesIsTrue
CHECK_DEADLOCK FALSE
