CONSTANTS
  None = None
  NumTargets = 2
  HOST_ALIAS = HOST_ALIAS
  SelfHosted = FALSE
  Conditions <- MCConditions
  MaxFaults = 1
SPECIFICATION Spec
INVARIANTS
  LaterOutageAlerts
