SPECIFICATION FairSpec
CONSTANTS
  N <- MCN
  Worlds <- MCWorlds
  MaxFaults = 2
INVARIANTS
  TypeOK
  PrerequisitesHold
  BlockedOnlyBehindAFailure
  ConvergedWasRead
  OutcomeMeansWhatItSays
  SecondPassIsEmpty
  ChangedMeansReacted
  ReactionHasACause
PROPERTIES
  KeepsContract
  EventuallyDeclared
