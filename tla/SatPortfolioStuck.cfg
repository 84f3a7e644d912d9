SPECIFICATION FairSpec
CONSTANTS
  NoEngine = NoEngine
  Portfolios <- Two
PROPERTIES CallReturns
CHECK_DEADLOCK FALSE
