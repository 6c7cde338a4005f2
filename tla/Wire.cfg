SPECIFICATION FairSpec
CONSTANTS
  Longest = 2
  HeaderSize = 2
  MaxHeaderBytes = 2
  Window = 2
  Nothing = Nothing
INVARIANTS TypeOK KeptWhole OkMeansKept FailsForCause
PROPERTIES ExchangeEnds
CHECK_DEADLOCK FALSE
