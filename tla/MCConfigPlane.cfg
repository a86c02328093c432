SPECIFICATION Spec
CONSTANTS
  Names = {"a", "b", "f"}
  FileNames = {"f"}
  InitialDocs <- MCInitialDocs
  Habits <- MCHabits
  MaxVersion = 3
  MaxStages = 3
  MaxStarts = 1
INVARIANTS StagedEditsKept LiveIsLatest ExactMeansAccepted
PROPERTIES NoLostUpdate HistoryKeysKept
CHECK_DEADLOCK FALSE
