SPECIFICATION MCSpec
CONSTANTS
  Alphabet <- MCAlphabet
  Keys = {}
  Plans = {}
  Contracts <- MCContracts
  Segments <- MCSegments
  Dotted <- MCDotted
  Materializers <- MCMaterializers
  Needs <- MCNeeds
  StageOf <- MCStageOf
  MaxRepeat = 2
  MaxDepth = 3
  NoStage = NoStage
INVARIANTS
  OrderAgrees
  DependenciesFirst
  AllowedIsMounted
  MountedIsAllowed
  WorkKept
  PinnedUnlessCut
CHECK_DEADLOCK FALSE
