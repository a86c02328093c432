CONSTANTS
  Issuers = {"p", "q"}
  Scenes <- MCScenes
  Ids = {"x", "y"}
  Configs <- MCConfigs
  Boots <- MCBoots
  Runnable = {"d1", "d2"}
  StatKey <- MCStatKey
  MaxRounds = 3
  PastSkew = 1
  Slots = {1, 2}
SPECIFICATION Spec
CHECK_DEADLOCK FALSE
INVARIANTS
  RoundsKeepTheirMeaning
  AlertsSeeEachRoundOnce
  ShownReadingIsNewest
  CredentialsFollowRegistration
PROPERTIES
  AgentSettles
