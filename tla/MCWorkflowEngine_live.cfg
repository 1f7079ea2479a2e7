\* The event loop, handlers and providers make progress: a request of any kind
\* is answered, unless the process dies with it.
SPECIFICATION FairSpec
CONSTANTS
  r1 = r1
  r2 = r2
  narrator = narrator
  scorer = scorer
  vendor = vendor
  Requests = {r1}
  ReportRequests <- MCReportRequests
  Providers = {narrator, scorer, vendor}
  NoProvider = NoProvider
  StubProviders = {narrator, scorer}
  DeclaredStrategy <- MCDeclaredStrategy
  InitialRegistries <- MCInitialRegistries
  ProducerConfigured = TRUE
  MaxRestarts = 1
PROPERTIES
  EveryRequestAnswered
