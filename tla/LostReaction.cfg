SPECIFICATION Spec
CONSTANTS
  N <- MCN
  Worlds <- MCWorlds
  MaxFaults = 1
INVARIANT NoReactionLost
