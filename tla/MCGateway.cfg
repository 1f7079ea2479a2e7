\* One report at a time, a demo or another, under the wiring of main.py with any
\* stub registered later; two deaths of the gateway, an ingester that restarts at
\* will, and an auditor who asks both processes all along.
SPECIFICATION GatewaySpec
CONSTANTS
  NoProvider = NoProvider
  Requests = {r1}
  ReportRequests <- MCReports
  Providers <- Stubs
  StubProviders <- Stubs
  DeclaredStrategy <- MCStrategies
  InitialRegistries <- MCMainRegistries
  ProducerConfigured = TRUE
  MaxRestarts = 2
INVARIANTS
  AuditAgreesWithAnswer
  DemosDoWhatTheySay
PROPERTIES
  AuditTrailOnlyGrows
  GovernanceKept
