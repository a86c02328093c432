CONSTANTS
  Workers = {w1, w2}
  QueueSize = 2
  MaxAttempts = 2
  MaxEvents = 5
SPECIFICATION Spec
INVARIANTS EachEventInOnePlace FailsOnlyWhenDue OvertakingIsBounded
PROPERTIES EventsAreSettled CloseReturns
CHECK_DEADLOCK FALSE
