\* Two concurrent requests and up to two process deaths, at any point of either.
SPECIFICATION Spec
CONSTANTS
  r1 = r1
  r2 = r2
  narrator = narrator
  scorer = scorer
  vendor = vendor
  Requests = {r1, r2}
  ReportRequests <- MCFewRequests
  Providers = {narrator, vendor}
  NoProvider = NoProvider
  StubProviders = {narrator}
  DeclaredStrategy <- MCDeclaredStrategy
  InitialRegistries <- MCInitialRegistries
  ProducerConfigured = TRUE
  MaxRestarts = 2
SYMMETRY RequestSymmetry
INVARIANTS
  CompletedIffSubmitted
  EvidenceAgreement
PROPERTIES ClosedRecordFrozen GovernanceKept
