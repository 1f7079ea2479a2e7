\* Does a request outlive a provider that never answers?
SPECIFICATION LoopSpec
CONSTANTS
  r1 = r1
  r2 = r2
  narrator = narrator
  scorer = scorer
  vendor = vendor
  Requests = {r1}
  ReportRequests <- MCFewRequests
  Providers = {narrator, scorer, vendor}
  NoProvider = NoProvider
  StubProviders = {narrator, scorer}
  DeclaredStrategy <- MCDeclaredStrategy
  InitialRegistries <- MCInitialRegistries
  ProducerConfigured = TRUE
  MaxRestarts = 0
PROPERTY ProviderCallsTimeOut
