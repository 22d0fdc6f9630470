SPECIFICATION Spec
CONSTANTS
  KeepGenerations = 2
  MaxVersion = 3
  MaxCorruptions = 1
INVARIANTS
  NothingOrphaned
