SPECIFICATION Spec
CONSTANTS
  Runs = {r1, r2, r3}
  Versions = {1, 2}
  MaxMain = 3
  NoBranch = NoBranch
SYMMETRY MCRuns
CHECK_DEADLOCK FALSE
INVARIANTS
  AssetsFirst
PROPERTIES
  WorkKept
  ReplacesWhatWasValidated
