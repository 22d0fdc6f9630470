SPECIFICATION Spec
CONSTANTS
  KeepGenerations = 2
  MaxVersion = 2
  MaxCorruptions = 0
INVARIANTS
  FailsOnlyWithoutGenerations
