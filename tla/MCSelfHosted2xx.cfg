CONSTANTS
  None = None
  Platforms = {"chat"}
  PollAttempts = 2
  HealthRetries = 2
  HealthReplies <- MCHealthReplies
CHECK_DEADLOCK FALSE
SPECIFICATION Spec
INVARIANTS
  AcceptedMeans2xx
