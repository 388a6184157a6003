SPECIFICATION FairSpec
CONSTANTS
  base = base
  good = good
  broken = broken
  mended = mended
  fork = fork
  Commits <- MCCommits
  Descends <- MCDescends
  Settings <- MCSettings
  Remotes <- MCRemotes
  None = None
  Torn = Torn
  Nobody = Nobody
  Agents = {a1}
  Reconciles = {r1}
  MaxMoves = 2
  MaxFaults = 2
INVARIANTS
  OnePassAtATime
PROPERTIES
  LockIsReleased
  EventuallyCurrent
