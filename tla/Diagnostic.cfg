\* Three targets for two workers, two endpoints, a deadline of three ticks.
CONSTANTS
  NTargets = 3
  Concurrency = 2
  NEndpoints = 2
  Timeout = 3
SPECIFICATION EngineFairSpec
INVARIANT ReportComplete
PROPERTY RunReturns
