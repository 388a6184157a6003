SPECIFICATION AffectedSpec
CONSTANTS
  Refs <- MCRefs
  NoTarget <- NoTargetValue
  TypeOf <- MCTypeOf
  NameOf <- MCNameOf
  LabelOf <- MCLabelOf
  HostLabel <- MCHostLabel
  NoHost <- MCNoHost
  Path <- MCPath
  DefaultConfig <- MCDefaultConfig
  Binaries <- MCBinaries
  TypesInOrder <- MCTypes
  Me <- MCMe
  Cases <- MCCases
INVARIANT
  EqualPrecedenceIsUnanimous
CHECK_DEADLOCK FALSE
