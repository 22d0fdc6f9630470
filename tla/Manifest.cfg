SPECIFICATION Spec
CONSTANTS
  KeepGenerations = 3
  MaxVersion = 5
  MaxCorruptions = 2
INVARIANTS
  SaveIsDurable
  DirectoryBounded
  FailsClosedLate
