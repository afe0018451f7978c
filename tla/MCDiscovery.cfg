SPECIFICATION FairSpec
CONSTANTS
  Depth = 2
  NameCount = 3
  Unsupported = {3}
  Dangling <- MCDangling
  WorkTrees <- MCWorkTrees
  Indexes <- MCIndexes
  GitRoots <- MCGitRoots
  MaxMoves = 1
INVARIANTS
  ClimbIsThorough
  AnsweredFromNearest
  StaysInRepository
PROPERTIES
  Ends
