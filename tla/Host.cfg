SPECIFICATION FairSpec
CONSTANTS
  Worlds <- MCWorlds
  Versions <- MCVersions
  MaxFaults = 2
  MaxMeddling = 1
  MaxRevisions = 1
INVARIANTS
  
  ConvergedIsMet
  
  NothingHalfDone
  NoTraces
  AccountsKeepTheirIds
  OutagesAreAskedFor
PROPERTIES
  EventuallyMet
