\* Both processes stop for good in the counterexample: no deadlock check.
SPECIFICATION FairSpecCapture
CONSTANTS
  Capacity = 3
  MaxOutput = 12
  ChildClosesReadEnd = FALSE
  Limit = 8
  FirstCapacity = 2
  ReadSize = 2
PROPERTIES
  OverLimitAnswered
CHECK_DEADLOCK FALSE
