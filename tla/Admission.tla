----------------------------- MODULE Admission -----------------------------
(***************************************************************************)
(* One report request on its way through the two components that decide    *)
(* about it: TenantContextManager, which knows the tenants, and            *)
(* PolicyService, which keeps tables of its own for the same tenants.      *)
(* Besides the engine's path, the PolicyService can be asked directly, as  *)
(* its tests and any other embedder do; then the tenant may be unknown and *)
(* the jurisdiction may be None.                                           *)
(***************************************************************************)
EXTENDS TenantPolicy, FiniteSets

CONSTANTS TenantKeys,       \* normalised tenant ids a caller may send
          Scenarios,        \* scenario values, None among them
          ReportTypes,      \* report_type values, None among them
          Jurisdictions     \* jurisdiction values, None and "" among them

ASSUME AdmissionAssumption ==
  /\ None \in Scenarios \cap ReportTypes \cap Jurisdictions
  /\ Tenants \subseteq TenantKeys

\* The empty string has no letters.
TenantIds ==
  {id \in [key : TenantKeys, form : TenantForms] : id.key = "" => "mixed_case" \notin id.form}

RequestsOf ==
  [tenant_id : TenantIds, scenario : Scenarios,
   report_type : ReportTypes, jurisdiction : Jurisdictions]

VARIABLES req,        \* the request, fixed for the whole behaviour
          phase,      \* "received", "unknown_tenant", "decided", "decided_directly"
          decision    \* the PolicyDecision, NoDecision before there is one

vars == <<req, phase, decision>>

NoDecision == [reason |-> "undecided"]

Init == /\ req \in RequestsOf
        /\ phase = "received"
        /\ decision = NoDecision

\* resolve() raises UnknownTenantError; process_report ends with it.
RefuseUnknownTenant ==
  /\ phase = "received" /\ ~Resolvable(req.tenant_id)
  /\ phase' = "unknown_tenant"
  /\ UNCHANGED <<req, decision>>

\* The engine resolves, fills in the jurisdiction and evaluates.
DecideForEngine ==
  /\ phase = "received" /\ Resolvable(req.tenant_id)
  /\ decision' = Decide(req)
  /\ phase' = "decided"
  /\ UNCHANGED req

\* PolicyService.evaluate called with the caller's own values.
EvaluateDirectly ==
  /\ phase = "received"
  /\ decision' = Evaluate(req.tenant_id, req.scenario, req.report_type, req.jurisdiction)
  /\ phase' = "decided_directly"
  /\ UNCHANGED req

Next == RefuseUnknownTenant \/ DecideForEngine \/ EvaluateDirectly

Spec == Init /\ [][Next]_vars

-----------------------------------------------------------------------------
\* The policies a PolicyDecision lists, which its reason determines.
PoliciesBehind(reason) ==
  CASE reason = "no_policy"    -> <<"default_policy">>
    [] reason = "jurisdiction" -> <<"tenant_policy", "jurisdiction_policy">>
    [] OTHER                   -> <<"tenant_policy">>

\* The decision, once there is one, is a PolicyDecision whose fields agree: it
\* gives a reason for a refusal exactly when it refuses, names a provider
\* exactly when it allows, and the policies it lists are those that were
\* consulted up to the one that refused.
TypeOK ==
  /\ req \in RequestsOf
  /\ phase \in {"received", "unknown_tenant", "decided", "decided_directly"}
  /\ IF phase \in {"received", "unknown_tenant"} THEN decision = NoDecision
     ELSE /\ decision \in
               [tenant_id : [key : TenantKeys, form : TenantForms],
                allowed : BOOLEAN, reason : Refusals \cup {None},
                policies_applied : {PoliciesBehind(decision.reason)},
                selected_provider : ProviderNames \cup {None}]
          /\ decision.allowed <=> decision.reason = None
          /\ decision.allowed <=> decision.selected_provider # None

\* The two tenant tables and the ordered checks of evaluate() together admit
\* what the README's rules admit and, beyond them, only the reports Permitted
\* names; and the tenants nobody knows are those without rules.
AdmitsExactlyPermitted ==
  /\ phase = "decided" => (decision.allowed <=> Permitted(req))
  /\ phase = "unknown_tenant" => ~Permitted(req)

\* Case and surrounding blanks of the tenant id change nothing but the id the
\* decision repeats: registry and policy convert it apart from each other, and
\* must convert it alike.  The engine's decision repeats the registry's id; the
\* policy, asked directly, has rules for exactly the tenants that resolve.
SpellingIsIrrelevant ==
  LET plain == [req EXCEPT !.tenant_id = Spelled(req.tenant_id.key)]
      directly(r) == Evaluate(r.tenant_id, r.scenario, r.report_type, r.jurisdiction) IN
  /\ phase = "decided" => decision = Decide(plain) /\ decision.tenant_id = plain.tenant_id
  /\ phase = "decided_directly" =>
       /\ decision = [directly(plain) EXCEPT !.tenant_id = req.tenant_id]
       /\ decision.reason # "no_policy" <=> Resolvable(req.tenant_id)
  /\ phase = "unknown_tenant" => directly(req).reason = "no_policy"

\* The jurisdiction is blamed exactly when it is what decides: the request names
\* one that is not its tenant's home, and from home it would be allowed.  So a
\* report from home, named or left to the registry, is never refused for it.
JurisdictionBlamedOnlyWhenDecisive ==
  phase = "decided" =>
    LET home == HomeJurisdiction[req.tenant_id.key]
        fromHome == [req EXCEPT !.jurisdiction = home] IN
    /\ decision.reason = "jurisdiction" <=>
         req.jurisdiction \notin {None, "", home} /\ Permitted(fromHome)
    /\ req.jurisdiction \in {None, ""} => decision = Decide(fromHome)

\* An allowed report is routed to its own tenant's contracted provider and a
\* refused one to none; the default policy and the default provider, which
\* exist for tenants without rules, never apply to an allowed report.
RoutedToContractedProvider ==
  phase \in {"decided", "decided_directly"} =>
    /\ decision.selected_provider =
         IF decision.allowed THEN ContractedProvider(req.tenant_id.key) ELSE None
    /\ decision.allowed => req.tenant_id.key \in Tenants

\* The README says of bank_beta that it is configured to allow only the
\* analysis scenario.
BetaAllowsAnalysisOnly ==
  phase = "decided" /\ req.tenant_id.key = "bank_beta" /\ decision.allowed
    => req.scenario = "analysis"
=============================================================================
