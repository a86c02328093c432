SPECIFICATION Spec
CONSTANTS
  Names = {"a", "b", "f"}
  FileNames = {"f"}
  InitialDocs <- MCInitialDocs
  Habits <- UnreadDashboard
  MaxVersion = 3
  MaxStages = 3
  MaxStarts = 1
PROPERTY HistoryKeysAlwaysKept
CHECK_DEADLOCK FALSE
