CONSTANTS
  None = None
  HOST_ALIAS = HOST_ALIAS
  Conditions <- MCConditions
  NumTargets = 2
  Concurrency = 1
  Budget = 2
  JobLimit = 3
  SelfHosted = FALSE
  Webui = FALSE
  MaxFaults = 0
SPECIFICATION Spec
PROPERTIES OutageReported
