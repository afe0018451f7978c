\* The copy of src/src/changes.c: the child closes its read end.
SPECIFICATION FairSpec
CONSTANTS
  Capacity = 2
  MaxOutput = 5
  ChildClosesReadEnd = TRUE
INVARIANTS
  OkMeansWholeOutput
  NoChildOutlivesAnswer
  NoDescriptorLeak
PROPERTIES
  ImplementsGitQuery
  Terminates
