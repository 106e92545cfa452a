CONSTANTS
  None = None
  HOST_ALIAS = HOST_ALIAS
  Conditions <- MCConditions
  NumTargets = 3
  Concurrency = 2
  Budget = 1
  JobLimit = 3
  SelfHosted = FALSE
  Webui = FALSE
  MaxFaults = 0
SPECIFICATION Spec
INVARIANTS RunBounded
PROPERTIES OutageReported
