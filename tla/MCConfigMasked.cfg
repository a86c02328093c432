SPECIFICATION Spec
CONSTANTS
  Names = {"a", "b", "f"}
  FileNames = {"f"}
  InitialDocs <- MCInitialDocs
  Habits <- ShortSession
  MaxVersion = 3
  MaxStages = 3
  MaxStarts = 1
INVARIANT SecretsAlwaysKept
CHECK_DEADLOCK FALSE
