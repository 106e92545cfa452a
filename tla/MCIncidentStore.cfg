CONSTANTS
  None = None
  Mention = Mention
  Keys <- MCKeys
  Fingerprints <- MCFingerprints
  LookupLimit = 3
  MaxInbox = 5
  MaxMentions = 2
SPECIFICATION Spec
INVARIANTS TypeOK MarkersAlternate
PROPERTIES ImplementsRegister
