-------------------------- MODULE MCWorkflowEngine --------------------------
(* Instances of WorkflowEngine for TLC.                                    *)
EXTENDS WorkflowGovernance, TLC

CONSTANTS r1, r2,       \* requests
          narrator,     \* StubAIProvider: DROP_AND_SIGNAL
          scorer,       \* StubRiskScorer: FAIL_CLOSED
          vendor        \* a provider of someone else's, with no strategy

\* form: how the id deviates from key.
Report(key, form, scenario, jurisdiction, failure) ==
  [tenant_id |-> [key |-> key, form |-> form], scenario |-> scenario,
   report_type |-> "standard", jurisdiction |-> jurisdiction,
   payload_asks_failure |-> failure]

\* One request per way through the engine: served (by each provider name, and
\* once for bank_beta without a scenario), served with a failing provider, denied
\* by the tenant's rule and by its jurisdiction, of an unknown tenant.
MCReportRequests ==
  {Report("bank_alpha", {}, "reporting", None, FALSE),
   Report("bank_mars", {"padded"}, "reporting", "US", TRUE),
   Report("bank_beta", {}, None, "", FALSE),
   Report("bank_beta", {"mixed_case"}, "reporting", None, FALSE),
   Report("bank_alpha", {}, "analysis", "US", FALSE),
   Report("bank_gamma", {}, None, None, FALSE)}

\* Fewer requests, for the run with process deaths.
MCFewRequests ==
  {Report("bank_alpha", {}, "reporting", None, FALSE),
   Report("bank_neptune", {}, "reporting", None, TRUE),
   Report("bank_alpha", {}, "analysis", "US", FALSE)}

MCDeclaredStrategy ==
  [p \in Providers |-> CASE p = narrator -> "drop_and_signal"
                         [] p = scorer   -> "fail_closed"
                         [] OTHER        -> "undeclared"]

\* The registry of main.py, and one whose stub_b was never registered.
MCMainRegistry == {[n \in ProviderNames |-> narrator]}
MCInitialRegistries ==
  MCMainRegistry \cup
  {[n \in ProviderNames |-> IF n = "stub_a" THEN narrator ELSE NoProvider]}

RequestSymmetry == Permutations(Requests)
=============================================================================
