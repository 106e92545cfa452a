CONSTANTS
  None = None
  Zoneless = Zoneless
  Threshold = 15
  Deployments = {"d1", "d2"}
  Platforms = {"chat"}
  NumTargets = 1
  Concurrency = 3
  HealthRetries = 2
  WaitAttempts = 3
  StatusReplies <- AllReplies
  HealthReplies <- BothAnswers
CHECK_DEADLOCK FALSE
SPECIFICATION Spec
INVARIANTS
  MutationNamed
