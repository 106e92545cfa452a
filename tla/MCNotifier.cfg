CONSTANTS
  None = None
  NumTargets = 2
  HOST_ALIAS = HOST_ALIAS
  SelfHosted = TRUE
  Conditions <- MCConditions
  MaxFaults = 1
SPECIFICATION Spec
INVARIANTS
  CInv
  MarkerWasMailed
  MarkersConverge
  RecipientKnows
PROPERTIES
  NoRepeat
  LingeringMarkerCleared
