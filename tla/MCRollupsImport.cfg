CONSTANTS
  Targets = {"a"}
  RawDays = 3
  HourlyPolicy = 2
  HourlyBackfill = 3
  MinSpan = 1
  Late = 2
  Histories <- MCHistories
  MaxDay = 5
  MaxRounds = 2
  MaxEvents = 2
SPECIFICATION Spec
CHECK_DEADLOCK FALSE
PROPERTY
  DailyTierPersists
