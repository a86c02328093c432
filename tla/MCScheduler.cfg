CONSTANTS
  Configs <- MCConfigs
  Boot <- MCBoot
  Workers = 1
  MaxSleep = 1
  Lag = 1
  MaxTime = 3
  MaxReloads = 1
SPECIFICATION Spec
INVARIANTS NeverOverlapsItself
PROPERTIES StoredInOrder FiresEveryInterval CancelledLoopReturns
CHECK_DEADLOCK FALSE
