-------------------------- MODULE Admission_proofs --------------------------
(***************************************************************************)
(* Admission is correct for every request, whatever ids, scenarios, report *)
(* types and jurisdictions its callers use.                                *)
(***************************************************************************)
EXTENDS Admission, EvidenceRecord_proofs

\* What each phase remembers of the request: enough to name the decision.
PhaseInv ==
  /\ req \in RequestsOf
  /\ phase \in {"received", "unknown_tenant", "decided", "decided_directly"}
  /\ phase \in {"received", "unknown_tenant"} => decision = NoDecision
  /\ phase = "unknown_tenant" => ~Resolvable(req.tenant_id)
  /\ phase = "decided" => Resolvable(req.tenant_id) /\ decision = Decide(req)
  /\ phase = "decided_directly" =>
       decision = Evaluate(req.tenant_id, req.scenario, req.report_type, req.jurisdiction)

LEMMA PhaseInvInit == Init => PhaseInv
BY DEF Init, PhaseInv

LEMMA PhaseInvNext == PhaseInv /\ [Next]_vars => PhaseInv'
<1> SUFFICES ASSUME PhaseInv, [Next]_vars PROVE PhaseInv'
  OBVIOUS
<1>1. CASE RefuseUnknownTenant
  BY <1>1 DEF RefuseUnknownTenant, PhaseInv
<1>2. CASE DecideForEngine
  BY <1>2 DEF DecideForEngine, PhaseInv
<1>3. CASE EvaluateDirectly
  BY <1>3 DEF EvaluateDirectly, PhaseInv
<1>4. CASE UNCHANGED vars
  BY <1>4 DEF PhaseInv, vars
<1> QED BY <1>1, <1>2, <1>3, <1>4 DEF Next

LEMMA PhaseInvariance == Spec => []PhaseInv
BY PhaseInvInit, PhaseInvNext, PTL DEF Spec

\* The engine's decision is an allow exactly for the permitted requests, and a
\* request turned away for its tenant was not permitted.
THEOREM AdmissionIsExact == Spec => []AdmitsExactlyPermitted
<1>1. PhaseInv => AdmitsExactlyPermitted
  <2> SUFFICES ASSUME PhaseInv PROVE AdmitsExactlyPermitted
    OBVIOUS
  <2>1. phase = "decided" => (decision.allowed <=> Permitted(req))
    BY DecideIsPermitted DEF PhaseInv
  <2>2. phase = "unknown_tenant" => ~Permitted(req)
    <3>1. req.tenant_id.form \in TenantForms
      BY DEF PhaseInv, RequestsOf, TenantIds
    <3> QED BY <3>1, KeysOfSpelling DEF PhaseInv, Permitted, Documented
  <2> QED BY <2>1, <2>2 DEF AdmitsExactlyPermitted
<1> QED BY <1>1, PhaseInvariance, PTL

\* What evaluate() makes of an id, whoever asks it.
LEMMA EvaluateByKey ==
  ASSUME NEW raw, NEW scenario, NEW report_type, NEW j
  PROVE  LET d == Evaluate(raw, scenario, report_type, j)
             t == PolicyKey(raw) IN
         /\ d.tenant_id = raw
         /\ d.reason = Refusal(t, scenario, report_type, j)
         /\ d.reason \in Refusals \cup {None}
         /\ d.allowed = (d.reason = None)
         /\ d.policies_applied = PoliciesBehind(d.reason)
         /\ d.selected_provider = IF d.allowed THEN ProviderForTenant(t) ELSE None
         /\ d.reason = "no_policy" <=> t \notin Tenants
         /\ d = [tenant_id |-> raw, allowed |-> d.allowed, reason |-> d.reason,
                 policies_applied |-> d.policies_applied,
                 selected_provider |-> d.selected_provider]
<1> DEFINE t == PolicyKey(raw)
           own == TenantRefusal(t, scenario, report_type)
           refusal == Refusal(t, scenario, report_type, j)
           base == <<IF t \in Tenants THEN "tenant_policy" ELSE "default_policy">>
           noted == IF refusal = "jurisdiction" THEN <<"jurisdiction_policy">> ELSE <<>>
<1>1. /\ own \in Refusals \cup {None} /\ own # "jurisdiction"
      /\ own = "no_policy" <=> t \notin Tenants
  <2> HIDE DEF t
  <2>1. t \notin Tenants => own = "no_policy"
    BY DEF TenantRefusal, Tenants
  <2>2. t \in Tenants => own \in {"report_type", "scenario", None}
    BY DEF TenantRefusal
  <2> QED BY <2>1, <2>2 DEF Refusals, None
<1>2. refusal \in Refusals \cup {None} /\ (refusal = "no_policy" <=> t \notin Tenants)
  BY <1>1 DEF Refusal, Refusals, JurisdictionAllowed, None
<1>3. base \o noted = PoliciesBehind(refusal)
  <2>1. CASE refusal = "jurisdiction"
    <3>1. base = <<"tenant_policy">> /\ noted = <<"jurisdiction_policy">>
      BY <1>2, <2>1
    <3> QED BY <2>1, <3>1, AppendOne DEF PoliciesBehind
  <2>2. CASE refusal # "jurisdiction"
    <3>1. base \o noted = base
      BY <2>2
    <3> QED BY <1>2, <2>2, <3>1 DEF PoliciesBehind
  <2> QED BY <2>1, <2>2
<1> HIDE DEF own, refusal, t
<1> QED BY <1>2, <1>3 DEF Evaluate, refusal, t

\* An allowed report goes to its own tenant's contracted provider, on the
\* engine's path and when the PolicyService is asked directly.
THEOREM RoutingIsContracted == Spec => []RoutedToContractedProvider
<1> DEFINE t == req.tenant_id.key
<1>1. ASSUME PhaseInv
      PROVE  LET d == Evaluate(req.tenant_id, req.scenario, req.report_type, req.jurisdiction) IN
             /\ d.selected_provider = IF d.allowed THEN ContractedProvider(t) ELSE None
             /\ d.allowed => t \in Tenants
  <2> DEFINE d == Evaluate(req.tenant_id, req.scenario, req.report_type, req.jurisdiction)
  <2>1. PolicyKey(req.tenant_id) = t
    BY <1>1, KeysOfSpelling DEF PhaseInv, RequestsOf, TenantIds
  <2>2. /\ d.allowed => t \in Tenants
        /\ d.selected_provider = IF d.allowed THEN ProviderForTenant(t) ELSE None
    <3>1. /\ d.selected_provider = IF d.allowed THEN ProviderForTenant(t) ELSE None
          /\ d.allowed = (d.reason = None)
          /\ d.reason = "no_policy" <=> t \notin Tenants
      BY <2>1, EvaluateByKey
    <3> HIDE DEF d, t
    <3> QED BY <3>1 DEF None
  <2>3. t \in Tenants => ProviderForTenant(t) = ContractedProvider(t)
    BY DEF ProviderForTenant, ContractedProvider, Tenants
  <2> QED BY <2>2, <2>3
<1>2. PhaseInv => RoutedToContractedProvider
  <2> SUFFICES ASSUME PhaseInv, phase \in {"decided", "decided_directly"}
               PROVE  /\ decision.selected_provider =
                           IF decision.allowed THEN ContractedProvider(t) ELSE None
                      /\ decision.allowed => t \in Tenants
    BY DEF RoutedToContractedProvider
  <2>1. CASE phase = "decided_directly"
    BY <2>1, <1>1 DEF PhaseInv
  <2>2. CASE phase = "decided"
    <3>1. Resolvable(req.tenant_id) /\ decision = Decide(req)
      BY <2>2 DEF PhaseInv
    <3>2. RegistryKey(req.tenant_id) = t /\ t \in Tenants
      BY <3>1, RegistryKeyOfResolved
    <3>3. decision.allowed => decision.selected_provider = ContractedProvider(t)
      BY <3>1, <3>2, DecideRoutes
    <3>4. ~decision.allowed => decision.selected_provider = None
      BY <3>1, EvaluateByKey DEF Decide
    <3> QED BY <3>2, <3>3, <3>4
  <2> QED BY <2>1, <2>2
<1> QED BY <1>2, PhaseInvariance, PTL

\* A decision is always a complete PolicyDecision whose fields agree: a reason
\* exactly when it refuses, a provider exactly when it allows, and the list of
\* policies that tells which check refused.
THEOREM DecisionsAreWellFormed == Spec => []TypeOK
<1>1. ASSUME NEW raw \in [key : TenantKeys, form : TenantForms],
             NEW scenario, NEW report_type, NEW j
      PROVE  LET d == Evaluate(raw, scenario, report_type, j) IN
             /\ d \in [tenant_id : [key : TenantKeys, form : TenantForms],
                       allowed : BOOLEAN, reason : Refusals \cup {None},
                       policies_applied : {PoliciesBehind(d.reason)},
                       selected_provider : ProviderNames \cup {None}]
             /\ d.allowed <=> d.reason = None
             /\ d.allowed <=> d.selected_provider # None
  <2> DEFINE d == Evaluate(raw, scenario, report_type, j)
             t == PolicyKey(raw)
  <2>1. /\ d.tenant_id = raw /\ d.reason \in Refusals \cup {None}
        /\ d.allowed = (d.reason = None)
        /\ d.policies_applied = PoliciesBehind(d.reason)
        /\ d.selected_provider = IF d.allowed THEN ProviderForTenant(t) ELSE None
        /\ d = [tenant_id |-> raw, allowed |-> d.allowed, reason |-> d.reason,
                policies_applied |-> d.policies_applied,
                selected_provider |-> d.selected_provider]
    BY EvaluateByKey
  <2>2. ProviderForTenant(t) \in ProviderNames /\ None \notin ProviderNames
    BY DEF ProviderForTenant, ProviderNames, DefaultProviderName, None
  <2> HIDE DEF d, t
  <2>3. d.allowed \in BOOLEAN /\ d.selected_provider \in ProviderNames \cup {None}
    BY <2>1, <2>2
  <2> QED BY <2>1, <2>2, <2>3 DEF d
<1>2. PhaseInv => TypeOK
  <2> SUFFICES ASSUME PhaseInv PROVE TypeOK
    OBVIOUS
  <2>1. /\ req.tenant_id \in [key : TenantKeys, form : TenantForms]
        /\ phase = "decided" =>
             Spelled(RegistryKey(req.tenant_id)) \in [key : TenantKeys, form : TenantForms]
    BY AdmissionAssumption DEF PhaseInv, RequestsOf, TenantIds, Resolvable, Spelled, TenantForms
  <2>2. phase \in {"decided", "decided_directly"} =>
          /\ decision \in
               [tenant_id : [key : TenantKeys, form : TenantForms],
                allowed : BOOLEAN, reason : Refusals \cup {None},
                policies_applied : {PoliciesBehind(decision.reason)},
                selected_provider : ProviderNames \cup {None}]
          /\ decision.allowed <=> decision.reason = None
          /\ decision.allowed <=> decision.selected_provider # None
    <3>1. CASE phase = "decided"
      BY <1>1, <2>1, <3>1 DEF PhaseInv, Decide
    <3>2. CASE phase = "decided_directly"
      BY <1>1, <2>1, <3>2 DEF PhaseInv
    <3> QED BY <3>1, <3>2
  <2> QED BY <2>2 DEF PhaseInv, TypeOK
<1> QED BY <1>2, PhaseInvariance, PTL

\* How the tenant id is spelled has no influence on what becomes of a request:
\* the two conversions, each in a component of its own, agree on every id.
THEOREM SpellingDoesNotMatter == Spec => []SpellingIsIrrelevant
<1>1. PhaseInv => SpellingIsIrrelevant
  <2> SUFFICES ASSUME PhaseInv PROVE SpellingIsIrrelevant
    OBVIOUS
  <2> DEFINE k == req.tenant_id.key
             plain == [req EXCEPT !.tenant_id = Spelled(k)]
             directly(r) == Evaluate(r.tenant_id, r.scenario, r.report_type, r.jurisdiction)
  <2>1. /\ plain.tenant_id = Spelled(k)
        /\ plain.scenario = req.scenario /\ plain.report_type = req.report_type
        /\ plain.jurisdiction = req.jurisdiction
    BY DEF PhaseInv, RequestsOf
  <2> HIDE DEF plain
  <2>2. /\ RegistryKey(req.tenant_id) = k /\ PolicyKey(req.tenant_id) = k
        /\ Resolvable(req.tenant_id) <=> k \in Tenants
    BY KeysOfSpelling DEF PhaseInv, RequestsOf, TenantIds
  <2>3. RegistryKey(plain.tenant_id) = k /\ PolicyKey(plain.tenant_id) = k
    BY <2>1, KeyOfPlain
  <2>4. /\ Decide(plain) = Decide(req)
        /\ Decide(req).tenant_id = plain.tenant_id
    BY <2>1, <2>2, <2>3, EvaluateByKey DEF Decide
  <2>5. directly(req) = [directly(plain) EXCEPT !.tenant_id = req.tenant_id]
    BY <2>1, <2>2, <2>3 DEF Evaluate
  <2>6. directly(req).reason # "no_policy" <=> Resolvable(req.tenant_id)
    BY <2>2, EvaluateByKey
  <2>7. phase = "decided" => decision = Decide(plain) /\ decision.tenant_id = plain.tenant_id
    BY <2>4 DEF PhaseInv
  <2>8. phase = "decided_directly" =>
          /\ decision = [directly(plain) EXCEPT !.tenant_id = req.tenant_id]
          /\ decision.reason # "no_policy" <=> Resolvable(req.tenant_id)
    BY <2>5, <2>6 DEF PhaseInv
  <2>9. phase = "unknown_tenant" => directly(req).reason = "no_policy"
    BY <2>6 DEF PhaseInv
  <2> QED BY <2>7, <2>8, <2>9 DEF SpellingIsIrrelevant, plain
<1> QED BY <1>1, PhaseInvariance, PTL

\* A refusal names the jurisdiction exactly when the jurisdiction decides, which
\* the tenant's home never does.
THEOREM JurisdictionIsBlamedFairly == Spec => []JurisdictionBlamedOnlyWhenDecisive
<1>1. PhaseInv => JurisdictionBlamedOnlyWhenDecisive
  <2> SUFFICES ASSUME PhaseInv, phase = "decided"
               PROVE  LET home == HomeJurisdiction[req.tenant_id.key]
                          fromHome == [req EXCEPT !.jurisdiction = home] IN
                      /\ decision.reason = "jurisdiction" <=>
                           req.jurisdiction \notin {None, "", home} /\ Permitted(fromHome)
                      /\ req.jurisdiction \in {None, ""} => decision = Decide(fromHome)
    BY DEF JurisdictionBlamedOnlyWhenDecisive
  <2> DEFINE t == req.tenant_id.key
             home == HomeJurisdiction[t]
             fromHome == [req EXCEPT !.jurisdiction = home]
             own == TenantRefusal(t, req.scenario, req.report_type)
             j == EffectiveJurisdiction(req.jurisdiction, t)
  <2>1. /\ t \in Tenants /\ decision = Decide(req)
        /\ RegistryKey(req.tenant_id) = t /\ Resolvable(req.tenant_id)
    BY RegistryKeyOfResolved DEF PhaseInv
  <2>2. /\ fromHome.tenant_id = req.tenant_id /\ fromHome.scenario = req.scenario
        /\ fromHome.report_type = req.report_type /\ fromHome.jurisdiction = home
    BY DEF PhaseInv, RequestsOf
  <2> HIDE DEF fromHome
  <2>3. decision.reason = Refusal(t, req.scenario, req.report_type, j)
    BY <2>1, KeyOfPlain, EvaluateByKey DEF Decide
  <2>4. own # "jurisdiction"
    BY DEF TenantRefusal, None
  <2>5. Permitted(fromHome) <=> own = None
    BY <2>1, <2>2, TenantRuleCheck DEF Permitted, Documented
  <2>6. JurisdictionAllowed(t, j) <=> req.jurisdiction \in {None, "", home}
    BY <2>1, JurisdictionCheck
  <2>7. decision.reason = "jurisdiction" <=>
          req.jurisdiction \notin {None, "", home} /\ Permitted(fromHome)
    BY <2>3, <2>4, <2>5, <2>6 DEF Refusal
  <2>8. req.jurisdiction \in {None, ""} => decision = Decide(fromHome)
    <3>1. req.jurisdiction \in {None, ""} =>
            j = home /\ EffectiveJurisdiction(fromHome.jurisdiction, t) = j
      BY <2>1, <2>2, HomeIsAJurisdiction DEF EffectiveJurisdiction
    <3> QED BY <2>1, <2>2, <3>1 DEF Decide
  <2> QED BY <2>7, <2>8 DEF fromHome
<1> QED BY <1>1, PhaseInvariance, PTL
=============================================================================
