---------------------------- MODULE MCAdmission ----------------------------
(* Inputs for Admission: every tenant, one unknown id and the empty one;   *)
(* the values the rules name, one they do not name, "" and None.           *)
EXTENDS Admission

MCTenantKeys == Tenants \cup {"bank_gamma", ""}
MCScenarios == {None, "", "analysis", "reporting"}
MCReportTypes == {None, "standard", "sensitive", "confidential"}
MCJurisdictions == {None, "", "EU", "US", "APAC", "UK"}
=============================================================================
