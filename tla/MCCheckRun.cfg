SPECIFICATION Spec
CONSTANTS
  Paths <- MCPaths
  Trees <- MCTrees
  Targets <- MCTargets
  Invalid = {"r"}
  Modes = {"config", "paths", "stdin0", "staged", "base"}
  MaxMoves = 2
  Texts <- MCTexts
INVARIANTS
  ExitMatchesReports
  DenialsReportedInOrder
  OrphansReported
  ReportsHadCause
  PrintedFaithfully
PROPERTIES
  ReportsOnlyGrow
  ImplementsVerdict
