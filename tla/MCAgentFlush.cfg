CONSTANTS
  MaxRounds = 4
  MaxOutages = 1
  Shapes <- MCShapes
  Cap = 3
  MaxBytes = 4
  FlushMax = 3
  FlushBytes = 3
  HubBytes = 2
SPECIFICATION Spec
INVARIANTS NoSilentLoss
PROPERTIES NeverOvertaken KeepsPromise EveryRoundSettled ShutdownEnds
CHECK_DEADLOCK FALSE
