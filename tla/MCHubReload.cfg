CONSTANTS
  maxAlertX = 2
  maxPatternLength = 4
  Names <- MCNames
  Samples <- MCSamples
  Configs <- MCConfigs
  Boot <- Usual
  Vantages = {local}
  Local = local
  MaxRounds = 4
  MaxInFlight = 2
  MaxReloads = 2
  MaxRestarts = 1
  HistoryKept = 2
SPECIFICATION Spec
PROPERTIES ObsoleteOnlyFromSeed NoOrphanResolved ActiveIsDelivered RaisesOnConsecutiveRounds
CHECK_DEADLOCK FALSE
