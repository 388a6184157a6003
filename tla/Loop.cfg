SPECIFICATION FairSpec
CONSTANTS
  Settings <- MCSettings
  Longest = 1000
  Never <- MCNever
  Passes <- MCPasses
  MaxFailures = 3
  Jumps = {11}
  MaxTrouble = 2
INVARIANTS
  TimerIsTheNextTick
  OnlyTheRemoteBacksOff
  MetricsAreOfTheLastPass
PROPERTY
  KeepsGoingUntilStopped
