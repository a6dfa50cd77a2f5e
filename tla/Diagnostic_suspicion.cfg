\* The smallest run in which one lookup can use up the time of the next.
CONSTANTS
  NTargets = 1
  Concurrency = 1
  NEndpoints = 2
  Timeout = 3
SPECIFICATION EngineSpec
INVARIANT SuspicionJustified
