SPECIFICATION Spec
CONSTANTS
  base = base
  good = good
  broken = broken
  mended = mended
  fork = fork
  Commits <- MCCommits
  Descends <- MCDescends
  Settings <- MCSettings
  Remotes <- MCRemotes
  None = None
  Torn = Torn
  Nobody = Nobody
  Agents = {a1}
  Reconciles = {}
  MaxMoves = 0
  MaxFaults = 1
INVARIANTS
  NoFetchIntoHalfAClone
