\* Every request of the input space, through the engine and directly.
SPECIFICATION Spec
\* One request, one decision: nothing is left to do after it.
CHECK_DEADLOCK FALSE
CONSTANTS
  TenantKeys <- MCTenantKeys
  Scenarios <- MCScenarios
  ReportTypes <- MCReportTypes
  Jurisdictions <- MCJurisdictions
INVARIANTS
  TypeOK
  AdmitsExactlyPermitted
  SpellingIsIrrelevant
  JurisdictionBlamedOnlyWhenDecisive
  RoutedToContractedProvider
