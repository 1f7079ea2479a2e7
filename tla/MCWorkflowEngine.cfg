\* Two concurrent requests of every kind, with a producer, while providers are
\* registered; the process stays up.
SPECIFICATION Spec
CONSTANTS
  r1 = r1
  r2 = r2
  narrator = narrator
  scorer = scorer
  vendor = vendor
  Requests = {r1, r2}
  ReportRequests <- MCReportRequests
  Providers = {narrator, scorer, vendor}
  NoProvider = NoProvider
  StubProviders = {narrator, scorer}
  DeclaredStrategy <- MCDeclaredStrategy
  InitialRegistries <- MCInitialRegistries
  ProducerConfigured = TRUE
  MaxRestarts = 0
SYMMETRY RequestSymmetry
INVARIANTS
  TypeOK
  SubmittedOnlyWhenPermitted
  CompletedIffSubmitted
  EvidenceTellsTheStory
  AnswersLeaveEvidence
  FallbackFollowsProvider
  SubscribersSeeClosedEvidence
  MetricsBalance
