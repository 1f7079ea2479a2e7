--------------------------- MODULE EvidenceRecord ---------------------------
(***************************************************************************)
(* An evidence record and the three operations of EvidenceService on one   *)
(* record.  The service's store and its hand-over to the producer belong   *)
(* to WorkflowEngine.  Of the record's fields only those a property tells  *)
(* apart are kept; a hash is represented by what was hashed.               *)
(***************************************************************************)
EXTENDS TenantPolicy, Naturals

EventTypes == {"WORKFLOW_STARTED", "POLICY_EVALUATED", "PROVIDER_SELECTED",
               "PROVIDER_FAILED", "PROVIDER_FALLBACK_APPLIED",
               "PROVIDER_FALLBACK_BLOCKED", "WORKFLOW_COMPLETED"}

ClosedStatuses == {"blocked", "completed", "blocked_provider_failure", "fallback"}
Statuses == ClosedStatuses \cup {"in_progress"}

\* What a provider returned: a JSON object, or one holding a NaN or an infinity.
Enrichments == {"plain", "non_finite"}

DecisionOutcomes ==
  {None, "denied", "approved", "provider_failure", "provider_failure_blocked"}

Records ==
  [tenant_id : Tenants, status : Statuses,
   decision_outcome : DecisionOutcomes,
   provider_name : ProviderNames \cup {None},
   output_hash : Enrichments \cup {None},
   events : Seq(EventTypes)]

\* The store has no record under the request id.
NoRecord == [status |-> "no_record"]

StartRecord(t) ==
  [tenant_id |-> t, status |-> "in_progress", decision_outcome |-> None,
   provider_name |-> None, output_hash |-> None, events |-> <<"WORKFLOW_STARTED">>]

AddEvent(record, event_type) ==
  [record EXCEPT !.events = Append(@, event_type)]

\* Mutant: the output hash is not recorded.
FinalizeWithoutHash(record, status, outcome, provider_name, output_hash) ==
  [AddEvent(record, "WORKFLOW_COMPLETED") EXCEPT
     !.status = status, !.decision_outcome = outcome,
     !.provider_name = IF provider_name = None THEN @ ELSE provider_name]

\* finalize(): a provider name of None leaves the record's own.
Finalize(record, status, outcome, provider_name, output_hash) ==
  [AddEvent(record, "WORKFLOW_COMPLETED") EXCEPT
     !.status = status,
     !.decision_outcome = outcome,
     !.provider_name = IF provider_name = None THEN @ ELSE provider_name,
     !.output_hash = output_hash]
=============================================================================
