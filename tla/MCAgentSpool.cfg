CONSTANTS
  MaxRounds = 4
  MaxPowerLosses = 1
  Cap = 2
  Setups <- MCSetups
SPECIFICATION Spec
INVARIANTS FlushedRoundsSurvive NeverRefuses SpoolMirrorsBuffer UnlinksAreDurablyDead DiskBounded
PROPERTIES StagedBecomesDurable
CHECK_DEADLOCK FALSE
