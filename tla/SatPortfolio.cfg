SPECIFICATION FairSpec
CONSTANTS
  NoEngine = NoEngine
  Portfolios <- OneOrTwo
INVARIANTS TypeOK 
PROPERTIES ImplementsAnswer AloneReturns
CHECK_DEADLOCK FALSE
