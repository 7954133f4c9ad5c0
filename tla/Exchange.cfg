SPECIFICATION Spec
CONSTANTS
  URIs <- MCURIs
  Targets <- MCTargets
  Words <- MCWords
  Order <- MCOrder
  NoOrigin = "none"
  Settings <- MCSettings
  Cases <- MCCases
INVARIANTS TypeOK ConfinedPath ItemsOfFields TargetReadBack ReplyReadBack CORSReadBack
