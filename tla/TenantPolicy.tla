---------------------------- MODULE TenantPolicy ----------------------------
(***************************************************************************)
(* The pure part of admission: TenantContextManager.resolve, the           *)
(* construction of RequestMetadata in process_report, and                  *)
(* PolicyService.evaluate.  Nothing here has state.                        *)
(*                                                                         *)
(* A tenant id is a record [key, form]: form is the set of ways in which   *)
(* its spelling deviates from key, a string in lower case with no blanks   *)
(* around it.  Python's None is the string None below; "" is the empty     *)
(* string, which the code does not always treat alike.                     *)
(***************************************************************************)
EXTENDS Sequences

None == "None"

Tenants == {"bank_alpha", "bank_beta", "bank_mars", "bank_neptune"}
TenantForms == SUBSET {"mixed_case", "padded"}
ProviderNames == {"stub_a", "stub_b"}
DefaultProviderName == "stub_a"

-----------------------------------------------------------------------------
(* The three tables, kept in two files of the source.                      *)

HomeJurisdiction ==
  [t \in Tenants |-> CASE t = "bank_mars"    -> "US"
                       [] t = "bank_neptune" -> "APAC"
                       [] OTHER              -> "EU"]

AllowedJurisdictions ==
  [t \in Tenants |-> CASE t = "bank_alpha"   -> {"EU"}
                       [] t = "bank_beta"    -> {"EU"}
                       [] t = "bank_mars"    -> {"US"}
                       [] t = "bank_neptune" -> {"APAC"}]

\* Mutant: bank_neptune is missing from the map.
ProviderForTenantIncomplete(t) ==
  IF t = "bank_beta" THEN "stub_b" ELSE DefaultProviderName

ProviderForTenant(t) ==
  CASE t \in {"bank_alpha", "bank_mars"}    -> "stub_a"
    [] t \in {"bank_beta", "bank_neptune"}  -> "stub_b"
    [] OTHER                                -> DefaultProviderName

-----------------------------------------------------------------------------
(* Tenant ids.  The registry and the policy each convert what they are     *)
(* given to a key of their own tables.                                     *)

Spelled(key) == [key |-> key, form |-> {}]
Lower(raw) == [key |-> raw.key, form |-> raw.form \ {"mixed_case"}]
Strip(raw) == [key |-> raw.key, form |-> raw.form \ {"padded"}]

\* The key of a table that a string is equal to: one still spelled in another
\* way is equal to none.
NoEntry == "no_entry"
Entry(raw) == IF raw.form = {} THEN raw.key ELSE NoEntry

\* TenantContextManager.resolve.
RegistryKey(raw) == Entry(Strip(Lower(raw)))
Resolvable(raw) == RegistryKey(raw) \in Tenants

\* Mutant: lower() without strip(); a padded key is nobody's.
PolicyKeyUnstripped(raw) == Entry(Lower(raw))

\* PolicyService.evaluate.
PolicyKey(raw) == Entry(Strip(Lower(raw)))

\* `request.get("jurisdiction") or tenant_context.jurisdiction`
EffectiveJurisdiction(jurisdiction, t) ==
  IF jurisdiction \in {None, ""} THEN HomeJurisdiction[t] ELSE jurisdiction

-----------------------------------------------------------------------------
(* PolicyService.evaluate.                                                 *)

\* Mutant: the check accepts any jurisdiction that some tenant may submit from.
JurisdictionAllowedOfAny(t, jurisdiction) ==
  jurisdiction \in {None} \cup UNION {AllowedJurisdictions[u] : u \in Tenants}

JurisdictionAllowed(t, jurisdiction) ==
  \/ jurisdiction = None
  \/ t \notin Tenants
  \/ t \in Tenants /\ jurisdiction \in AllowedJurisdictions[t]

\* Mutant: only the scenario is looked at for bank_beta.
TenantRefusalScenarioOnly(t, scenario, report_type) ==
  CASE t \notin Tenants -> "no_policy"
    [] t = "bank_beta" /\ scenario \notin {None, "analysis"} -> "scenario"
    [] OTHER -> None

\* Mutant: only the report type is looked at for bank_beta.
TenantRefusalReportTypeOnly(t, scenario, report_type) ==
  CASE t \notin Tenants -> "no_policy"
    [] t = "bank_beta" /\ report_type \in {"sensitive", "confidential"} -> "report_type"
    [] OTHER -> None

\* Why the tenant's own rules refuse the report, or None.  A refusal for the
\* report type overrides one for the scenario.
TenantRefusal(t, scenario, report_type) ==
  CASE t \notin Tenants -> "no_policy"
    [] t = "bank_beta" /\ report_type \in {"sensitive", "confidential"} -> "report_type"
    [] t = "bank_beta" /\ report_type \notin {"sensitive", "confidential"}
         /\ scenario \notin {None, "analysis"} -> "scenario"
    [] OTHER -> None

Refusals == {"no_policy", "report_type", "scenario", "jurisdiction"}

\* Mutant: the jurisdiction is checked first and reported first.
RefusalJurisdictionFirst(t, scenario, report_type, jurisdiction) ==
  IF ~JurisdictionAllowed(t, jurisdiction) THEN "jurisdiction"
  ELSE TenantRefusal(t, scenario, report_type)

\* The jurisdiction check runs last and only when nothing refused before.
Refusal(t, scenario, report_type, jurisdiction) ==
  LET own == TenantRefusal(t, scenario, report_type) IN
  IF own = None /\ ~JurisdictionAllowed(t, jurisdiction) THEN "jurisdiction" ELSE own

\* Mutant: the jurisdiction check is noted whether or not it refused.
EvaluateNotingEveryCheck(raw, scenario, report_type, jurisdiction) ==
  LET t == PolicyKey(raw)
      refusal == Refusal(t, scenario, report_type, jurisdiction) IN
  [tenant_id         |-> raw,
   allowed           |-> refusal = None,
   reason            |-> refusal,
   policies_applied  |-> <<IF t \in Tenants THEN "tenant_policy" ELSE "default_policy",
                           "jurisdiction_policy">>,
   selected_provider |-> IF refusal = None THEN ProviderForTenant(t) ELSE None]

\* PolicyDecision: reason names the refusal, None for an allow; the id is the
\* caller's, as he spelled it, and so is the one quoted in the reason's text.
Evaluate(raw, scenario, report_type, jurisdiction) ==
  LET t == PolicyKey(raw)
      refusal == Refusal(t, scenario, report_type, jurisdiction) IN
  [tenant_id         |-> raw,
   allowed           |-> refusal = None,
   reason            |-> refusal,
   policies_applied  |->
      <<IF t \in Tenants THEN "tenant_policy" ELSE "default_policy">>
        \o (IF refusal = "jurisdiction" THEN <<"jurisdiction_policy">> ELSE <<>>),
   selected_provider |-> IF refusal = None THEN ProviderForTenant(t) ELSE None]

\* What process_report asks of the policy for a request whose tenant resolved.
\* The engine passes the registry's own spelling of the tenant id.
Decide(req) ==
  LET t == RegistryKey(req.tenant_id) IN
  Evaluate(Spelled(t), req.scenario, req.report_type,
           EffectiveJurisdiction(req.jurisdiction, t))

-----------------------------------------------------------------------------
(* Reference: the rules the README states beside its tenant table, and its *)
(* provider column.  They are not written the way the code checks them: no *)
(* order of checks, and no table of allowed jurisdictions.                 *)

\* bank_beta: the analysis scenario only, no sensitive and no confidential
\* report; and no tenant reports from another jurisdiction than its home.
Documented(t, scenario, report_type, jurisdiction) ==
  /\ t \in Tenants
  /\ jurisdiction \in {None, "", HomeJurisdiction[t]}
  /\ t = "bank_beta" => /\ scenario = "analysis"
                        /\ report_type \notin {"sensitive", "confidential"}

\* What the gateway lets through beyond these rules, and all it lets through: a
\* report without a scenario passes as one for analysis.
Permitted(req) ==
  LET admitted(scenario) ==
        Documented(req.tenant_id.key, scenario, req.report_type, req.jurisdiction) IN
  \/ admitted(req.scenario)
  \/ req.scenario = None /\ admitted("analysis")

\* The provider column of the README's tenant table.
ContractedProvider(t) == IF t \in {"bank_alpha", "bank_mars"} THEN "stub_a" ELSE "stub_b"
=============================================================================
