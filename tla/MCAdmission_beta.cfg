\* README: bank_beta is configured to allow only the analysis scenario.
SPECIFICATION Spec
CONSTANTS
  TenantKeys <- MCTenantKeys
  Scenarios <- MCScenarios
  ReportTypes <- MCReportTypes
  Jurisdictions <- MCJurisdictions
INVARIANT BetaAllowsAnalysisOnly
