CONSTANTS
  maxAlertX = 3
  maxPatternLength = 6
  MaxSamples = 5
  Rounds <- MCRounds
  Matchers <- MCMatchers
  Spare = {0, 2}
  Keys <- MCKeys
  Inputs <- MCInputs
  Refs <- MCRefs
  ToGroups <- MCGroups
  NewNames = {"a", "c"}
  Settings <- MCSettings
  File <- MCFile
  Root <- MCRoot
SPECIFICATION SpecAlgorithms
INVARIANTS FiresAsDocumented EditsKeepTargets DiffTellsAll ImportsKeepTargets
CHECK_DEADLOCK FALSE
