\* Does the primary data of a report flow through when its provider fails?
SPECIFICATION Spec
CONSTANTS
  r1 = r1
  r2 = r2
  narrator = narrator
  scorer = scorer
  vendor = vendor
  Requests = {r1, r2}
  ReportRequests <- MCReportRequests
  Providers = {narrator, scorer, vendor}
  NoProvider = NoProvider
  StubProviders = {narrator, scorer}
  DeclaredStrategy <- MCDeclaredStrategy
  InitialRegistries <- MCInitialRegistries
  ProducerConfigured = TRUE
  MaxRestarts = 0
INVARIANT FallbackCarriesPrimaryData
