SPECIFICATION FairSpec
CONSTANTS
  MaxLine = 4
  MaxSent = 6
INVARIANTS TypeOK NothingLost LinesWhole
PROPERTY LineReturned
CHECK_DEADLOCK FALSE
