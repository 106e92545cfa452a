CONSTANTS
  None = None
  Zoneless = Zoneless
  Platforms = {}
  Threshold = 15
  Deployments = {"d1", "d2"}
  Budget = 4
  MaxRetries = 2
  BackoffBase = 1
  Replies <- MCReplies
SPECIFICATION Spec
INVARIANTS ClientInv AttemptsBounded RestartTruthful RestartsOwn RunningIsSeen StatusComparable
PROPERTIES BudgetKept
