\* The child keeps its read end, so an output above what the pipe and the reader
\* take can stop both processes for good: no deadlock check.
SPECIFICATION FairSpecCapture
CONSTANTS
  Capacity = 3
  MaxOutput = 12
  ChildClosesReadEnd = FALSE
  Limit = 8
  FirstCapacity = 2
  ReadSize = 2
INVARIANTS
  BufferHoldsText
  CapturedWhole
  RefusalMeansLarge
PROPERTIES
  OnlyRefusedLargeCanHang
CHECK_DEADLOCK FALSE
