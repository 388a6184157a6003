SPECIFICATION Spec
CONSTANTS
  Worlds <- MCWorlds
  Versions <- MCVersions
  MaxFaults = 2
  MaxMeddling = 1
  MaxRevisions = 1
INVARIANT ConvergedSatisfiesDesired
