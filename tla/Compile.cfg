SPECIFICATION AffectedSpec
CONSTANTS
  Refs <- MCRefs
  NoTarget <- NoTargetValue
  TypeOf <- MCTypeOf
  NameOf <- MCNameOf
  LabelOf <- MCLabelOf
  HostLabel <- MCHostLabel
  NoHost <- MCNoHost
  Path <- MCPath
  DefaultConfig <- MCDefaultConfig
  Binaries <- MCBinaries
  TypesInOrder <- MCTypes
  Me <- MCMe
  Cases <- MCCases
INVARIANTS
  ManifestIsTheMerge
  ConflictsAreRefused
  FilesComeFromTheirLayer
  LeastTopologicalOrder
  OnlySoundGraphsAreBuilt
  ProtectedIsOutOfReach
  ClosestClaimServes
  VerdictsAreOfTheInstructions
CHECK_DEADLOCK FALSE
