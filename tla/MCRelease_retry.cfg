SPECIFICATION Spec
CONSTANTS
  Runs = {r1, r2}
  Versions = {1}
  MaxMain = 3
  NoBranch = NoBranch
CHECK_DEADLOCK FALSE
INVARIANT RetriesServed
