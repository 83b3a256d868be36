SPECIFICATION Spec
CONSTANTS
  FileSystems <- Diamond
  MaxModules = 6
CHECK_DEADLOCK FALSE
INVARIANTS
  LoadedOnce
