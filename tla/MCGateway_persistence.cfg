\* Does the ingester persist the evidence it accepted?
SPECIFICATION GatewaySpec
CONSTANTS
  NoProvider = NoProvider
  Requests = {r1}
  ReportRequests <- MCReports
  Providers <- Stubs
  StubProviders <- Stubs
  DeclaredStrategy <- MCStrategies
  InitialRegistries <- MCMainRegistries
  ProducerConfigured = TRUE
  MaxRestarts = 2
PROPERTY EvidenceIsPersisted
