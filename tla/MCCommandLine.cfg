CONSTANTS
  None = None
  Blank = Blank
  Ignored = Ignored
  EXPECTED_TARGET_COUNT = 2
  OpaqueNames <- MCOpaqueNames
  OtherNames <- MCOtherNames
  Ids <- MCAllIds
  Environments <- MCEnvironments
  Arguments <- MCArguments
  Chars <- MCChars
  Mask = "M"
  Spaces <- MCSpaces
  Joined <- MCJoined
  Names <- MCNames
  Secrets <- MCSecrets
  FollowedRuns <- MCFollowed
SPECIFICATION Spec
INVARIANTS
  OwnServices
  ModesSeparate
  NoSecretShown
  MaskedWhole
  RendersAsWritten
CHECK_DEADLOCK FALSE
