\* Two clients, one of them with two requests; three events.
CONSTANTS
  Conns = {k1, k2}
  MaxRequests <- MCRequests
  MaxEvents = 3
  TelemetryLimit = 1
  DiagnosticLimit = 2
SPECIFICATION FairSpec
INVARIANTS TypeOK AbiExclusive BatchesContiguous StageTellsRuntime
PROPERTIES ShutdownReleases RequestAnswered ShutdownCompletes
