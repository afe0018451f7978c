SPECIFICATION Spec
CONSTANTS
  Directories <- MCDirectories
  RepositoryOf <- MCRepositoryOf
  TopOf <- MCTopOf
  Environments <- MCEnvironments
  Capacity = 64
INVARIANTS
  TargetsAtTop
