------------------------ MODULE WorkflowEngine_proofs ------------------------
(***************************************************************************)
(* Safety of WorkflowEngine for any number of requests, any report         *)
(* requests, any providers and any number of process deaths.               *)
(*                                                                         *)
(* The tasks share only the registry and the counters, so the inductive    *)
(* invariant is TypeOK and, for each request on its own, TaskInv: what is  *)
(* known at each point of process_report, how it relates to what has left  *)
(* the process, and what is left of it after the process died.  Each       *)
(* action of one request gets a lemma; UntouchedTask carries TaskInv over  *)
(* for all the others.                                                     *)
(*                                                                         *)
(* On top of it, Accounts is inductive: AccountInv says for each request   *)
(* what its records, its events and the verdict on it tell, and CountInv   *)
(* that each counter counts the requests with its label, which makes a     *)
(* statement about the counters one about each request.                    *)
(***************************************************************************)
EXTENDS WorkflowEngine, EvidenceRecord_proofs, FiniteSetTheorems

\* Points before the policy, between the policy and finalize, after finalize.
Serving == {"evaluated", "selected", "submitted"}
Ending == {"sending", "closed", "announced"}

\* What the task of r knows at each point.
PointInv(r) ==
  /\ pc[r] \in {"new", "resolved", "lost"} => store[r] = NoRecord
  /\ pc[r] \in {"resolved"} \cup Serving \cup Ending => Resolvable(request[r].tenant_id)
  /\ pc[r] \in Serving => store[r] \in Records /\ store[r].status = "in_progress"
  /\ pc[r] \in {"selected", "submitted"} => Decision(r).allowed /\ provider[r] \in Providers
  /\ pc[r] = "submitted" => enrichment[r] \in Enrichments
  /\ pc[r] \in Ending => store[r] \in Records /\ store[r].status \in ClosedStatuses
  /\ pc[r] \in {"returned", "done"} /\ Resolvable(request[r].tenant_id) => store[r] \in Records
  /\ pc[r] \in {"returned", "done"} /\ store[r].status = "in_progress" =>
       Decision(r).allowed /\ submitted[r] = 0

\* Where a submission stands, and what record and answer say of it.
SubmissionInv(r) ==
  /\ submitted[r] \in {0, 1}
  /\ pc[r] \in {"new", "resolved", "evaluated", "selected"} => submitted[r] = 0
  /\ pc[r] = "submitted" => submitted[r] = 1
  /\ submitted[r] = 1 => Resolvable(request[r].tenant_id) /\ Decision(r).allowed
  /\ store[r].status \in ClosedStatuses => (store[r].status = "completed" <=> submitted[r] = 1)
  /\ response[r].status \in ClosedStatuses =>
       (response[r].status = "completed" <=> submitted[r] = 1)
  /\ response[r] = ErrorResponse /\ submitted[r] = 1 /\ pc[r] # "lost" =>
       enrichment[r] = "non_finite"

\* What has left the process: nothing before finalize, then the record itself.
EvidenceInv(r) ==
  /\ pc[r] \in {"new", "resolved"} \cup Serving =>
       wire[r] = NoRecord /\ ingested[r] = NoRecord
  /\ pc[r] # "lost" /\ store[r] = NoRecord => wire[r] = NoRecord /\ ingested[r] = NoRecord
  /\ store[r] # NoRecord => {wire[r], ingested[r]} \subseteq {store[r], NoRecord}
  /\ pc[r] \in {"new"} \cup InFlight => response[r] = NoResponse
  /\ ~Resolvable(request[r].tenant_id) =>
       /\ {store[r], wire[r], ingested[r]} = {NoRecord}
       /\ response[r] \in {NoResponse, ErrorResponse}
  /\ pc[r] = "done" /\ store[r].status \notin ClosedStatuses => response[r] = ErrorResponse
  /\ response[r].status \notin ClosedStatuses => response[r] \in {NoResponse, ErrorResponse}
  /\ store[r].status \in ClosedStatuses =>
       store[r].output_hash = IF store[r].status = "completed" THEN enrichment[r] ELSE None
  /\ response[r].status \in ClosedStatuses =>
       \A record \in {store[r], wire[r], ingested[r]} \ {NoRecord} :
         record.status = response[r].status /\ record.output_hash = response[r].result

\* The trail of a record, as far as a submission depends on it.
TrailInv(r) ==
  /\ pc[r] \in {"evaluated", "selected"} => Len(store[r].events) = 2
  /\ submitted[r] = 1 /\ pc[r] # "lost" =>
       /\ store[r] \in Records /\ Len(store[r].events) >= 3
       /\ store[r].events[3] = "PROVIDER_SELECTED"

\* How a failed provider was dealt with.
FallbackInv(r) ==
  store[r].status \in {"fallback", "blocked_provider_failure"} =>
    /\ provider[r] \in Providers
    /\ store[r].status = "blocked_provider_failure"
         <=> DeclaredStrategy[provider[r]] = "fail_closed"

TaskInv(r) ==
  PointInv(r) /\ SubmissionInv(r) /\ EvidenceInv(r) /\ TrailInv(r) /\ FallbackInv(r)

IInv == TypeOK /\ \A r \in Requests : TaskInv(r)

-----------------------------------------------------------------------------
(* Facts about the pieces of handlers.                                     *)

USE EngineAssumption

\* A missing record has no closed status, and is not a record.
LEMMA MissingRecord ==
  /\ NoRecord \notin Records
  /\ NoRecord.status \notin ClosedStatuses \cup {"in_progress"}
BY NoRecordIsNoRecord DEF NoRecord, ClosedStatuses

\* Counting keeps the counters natural numbers.
LEMMA CountType ==
  ASSUME metric \in [Labels -> Nat], NEW S, Count(S)
  PROVE  metric' \in [Labels -> Nat]
BY DEF Count

\* publish records one event and suspends one task.
LEMMA PublishType ==
  ASSUME published \in [Requests -> Seq(EventNames)],
         bus \in [Requests -> {"idle", "pending"}],
         NEW r \in Requests, NEW e \in EventNames, Publish(r, e)
  PROVE  /\ published' \in [Requests -> Seq(EventNames)]
         /\ bus' \in [Requests -> {"idle", "pending"}]
BY DEF Publish

\* finalize stores the closed record and posts it, or posts nothing.
LEMMA ConcludeType ==
  ASSUME pc \in [Requests -> Points], store \in [Requests -> Records \cup {NoRecord}],
         wire \in [Requests -> Records \cup {NoRecord}],
         NEW r \in Requests, NEW record \in Records, Conclude(r, record)
  PROVE  /\ pc' \in [Requests -> Points]
         /\ store' \in [Requests -> Records \cup {NoRecord}]
         /\ wire' \in [Requests -> Records \cup {NoRecord}]
         /\ pc'[r] \in {"sending", "closed"}
         /\ store'[r] = record
         /\ wire'[r] \in {record, wire[r]}
         /\ \A q \in Requests \ {r} :
              pc'[q] = pc[q] /\ store'[q] = store[q] /\ wire'[q] = wire[q]
<1>1. CASE ProducerConfigured
  BY <1>1 DEF Conclude, Goto, Points
<1>2. CASE ~ProducerConfigured
  BY <1>2 DEF Conclude, Goto, Points
<1> QED BY <1>1, <1>2

\* The trail of a record that the except block closes.
FailedTrail(trail, applied) ==
  Append(Append(Append(trail, "PROVIDER_FAILED"), applied), "WORKFLOW_COMPLETED")

\* The except block closes the record as the provider's strategy demands.
LEMMA ConcludeFailureRecord ==
  ASSUME NEW r \in Requests, NEW record \in Records, ConcludeFailure(r, record),
         provider[r] \in Providers, SelectedName(r) \in ProviderNames
  PROVE  \E closed \in Records :
           /\ Conclude(r, closed)
           /\ closed.output_hash = None
           /\ closed.tenant_id = record.tenant_id /\ closed.provider_name = SelectedName(r)
           /\ \/ /\ closed.status = "blocked_provider_failure"
                 /\ DeclaredStrategy[provider[r]] = "fail_closed"
                 /\ closed.events = FailedTrail(record.events, "PROVIDER_FALLBACK_BLOCKED")
              \/ /\ closed.status = "fallback"
                 /\ DeclaredStrategy[provider[r]] # "fail_closed"
                 /\ closed.events = FailedTrail(record.events, "PROVIDER_FALLBACK_APPLIED")
<1> DEFINE failed == AddEvent(record, "PROVIDER_FAILED")
           blocked == AddEvent(failed, "PROVIDER_FALLBACK_BLOCKED")
           applied == AddEvent(failed, "PROVIDER_FALLBACK_APPLIED")
           B == Finalize(blocked, "blocked_provider_failure", "provider_failure_blocked",
                         SelectedName(r), None)
           A == Finalize(applied, "fallback", "provider_failure", SelectedName(r), None)
<1>0. SelectedName(r) # None
  BY DEF ProviderNames, None
<1>1. failed \in Records /\ failed.tenant_id = record.tenant_id
      /\ failed.events = Append(record.events, "PROVIDER_FAILED")
  BY AddEventType DEF EventTypes
<1>2. /\ blocked \in Records /\ blocked.tenant_id = record.tenant_id
      /\ blocked.events = Append(failed.events, "PROVIDER_FALLBACK_BLOCKED")
      /\ applied \in Records /\ applied.tenant_id = record.tenant_id
      /\ applied.events = Append(failed.events, "PROVIDER_FALLBACK_APPLIED")
  <2> HIDE DEF failed
  <2> QED BY <1>1, AddEventType DEF EventTypes
<1> HIDE DEF failed, blocked, applied
<1>3. /\ B \in Records /\ B.status = "blocked_provider_failure" /\ B.output_hash = None
      /\ B.tenant_id = record.tenant_id /\ B.provider_name = SelectedName(r)
      /\ B.events = FailedTrail(record.events, "PROVIDER_FALLBACK_BLOCKED")
  BY <1>1, <1>2, <1>0, FinalizeType DEF ClosedStatuses, DecisionOutcomes, FailedTrail
<1>4. /\ A \in Records /\ A.status = "fallback" /\ A.output_hash = None
      /\ A.tenant_id = record.tenant_id /\ A.provider_name = SelectedName(r)
      /\ A.events = FailedTrail(record.events, "PROVIDER_FALLBACK_APPLIED")
  BY <1>1, <1>2, <1>0, FinalizeType DEF ClosedStatuses, DecisionOutcomes, FailedTrail
<1>5. StrategyOf(provider[r]) = "fail_closed" <=> DeclaredStrategy[provider[r]] = "fail_closed"
  BY DEF StrategyOf
<1> HIDE DEF A, B
<1>6. Conclude(r, IF StrategyOf(provider[r]) = "fail_closed" THEN B ELSE A)
  BY DEF ConcludeFailure, A, B, failed, blocked, applied
<1>7. CASE StrategyOf(provider[r]) = "fail_closed"
  BY <1>3, <1>5, <1>6, <1>7
<1>8. CASE StrategyOf(provider[r]) # "fail_closed"
  BY <1>4, <1>5, <1>6, <1>8
<1> QED BY <1>7, <1>8

\* A step that leaves alone what concerns q leaves q's invariant alone.
Untouched(q) ==
  /\ pc'[q] = pc[q] /\ request' = request /\ provider'[q] = provider[q]
  /\ enrichment'[q] = enrichment[q] /\ store'[q] = store[q]
  /\ submitted'[q] = submitted[q] /\ wire'[q] = wire[q]
  /\ ingested'[q] = ingested[q] /\ response'[q] = response[q]

LEMMA UntouchedTask ==
  ASSUME NEW q \in Requests, TaskInv(q), Untouched(q)
  PROVE  TaskInv(q)'
BY DEF TaskInv, Untouched, PointInv, SubmissionInv, EvidenceInv, TrailInv, FallbackInv,
       Decision

\* A step of one task preserves the invariant if it preserves it for that task.
LEMMA OneTaskStep ==
  ASSUME IInv, NEW r \in Requests, TypeOK', TaskInv(r)',
         \A q \in Requests \ {r} : Untouched(q)
  PROVE  IInv'
BY UntouchedTask DEF IInv

-----------------------------------------------------------------------------
(* The invariant holds initially and is preserved by every action.         *)

LEMMA InitIInv == Init => IInv
<1> SUFFICES ASSUME Init PROVE IInv
  OBVIOUS
<1>1. TypeOK
  BY DEF Init, TypeOK, Points, Labels, ProviderLabels, NoResponse, Registries
<1>2. ASSUME NEW r \in Requests PROVE TaskInv(r)
  BY <1>2, MissingRecord
     DEF Init, TaskInv, PointInv, SubmissionInv, EvidenceInv, TrailInv, FallbackInv,
         Serving, Ending, InFlight, Points, NoResponse, ErrorResponse, ClosedStatuses, NoRecord
<1> QED BY <1>1, <1>2 DEF IInv

LEMMA ResolveTenantStep ==
  ASSUME IInv, NEW r \in Requests, ResolveTenant(r)
  PROVE  IInv'
<1>1. TypeOK'
  <2>1. /\ published' \in [Requests -> Seq(EventNames)]
        /\ bus' \in [Requests -> {"idle", "pending"}]
    BY PublishType DEF IInv, TypeOK, ResolveTenant, EventNames
  <2> QED BY <2>1 DEF IInv, TypeOK, ResolveTenant, Goto, Points, envVars
<1>2. TaskInv(r)'
  BY MissingRecord
     DEF IInv, TypeOK, ResolveTenant, At, Goto, envVars, Decision, TaskInv, PointInv,
         SubmissionInv, EvidenceInv, TrailInv, FallbackInv, Serving, Ending, InFlight, Points
<1>3. \A q \in Requests \ {r} : Untouched(q)
  BY DEF IInv, TypeOK, ResolveTenant, Goto, envVars, Untouched
<1> QED BY <1>1, <1>2, <1>3, OneTaskStep

LEMMA RefuseUnknownTenantStep ==
  ASSUME IInv, NEW r \in Requests, RefuseUnknownTenant(r)
  PROVE  IInv'
<1>1. TypeOK'
  BY DEF IInv, TypeOK, RefuseUnknownTenant, Goto, Points, envVars
<1>2. TaskInv(r)'
  BY MissingRecord
     DEF IInv, TypeOK, RefuseUnknownTenant, ClosedStatuses, At, Goto, envVars, Decision,
         TaskInv, PointInv, SubmissionInv, EvidenceInv, TrailInv, FallbackInv, Serving,
         Ending, InFlight, Points
<1>3. \A q \in Requests \ {r} : Untouched(q)
  BY DEF IInv, TypeOK, RefuseUnknownTenant, Goto, envVars, Untouched
<1> QED BY <1>1, <1>2, <1>3, OneTaskStep

LEMMA EvaluatePolicyStep ==
  ASSUME IInv, NEW r \in Requests, EvaluatePolicy(r)
  PROVE  IInv'
<1> DEFINE started == StartRecord(TenantOf(r))
           record == AddEvent(started, "POLICY_EVALUATED")
<1>1. TenantOf(r) \in Tenants
  BY DEF IInv, EvaluatePolicy, At, TaskInv, PointInv, TenantOf, Resolvable
<1>2. record \in Records /\ record.status = "in_progress" /\ Len(record.events) = 2
  <2>1. started \in Records /\ started.status = "in_progress" /\ Len(started.events) = 1
    BY <1>1, StartRecordType
  <2>2. started.events \in Seq(EventTypes)
    BY <2>1 DEF Records
  <2>3. /\ record \in Records /\ record.status = started.status
        /\ record.events = Append(started.events, "POLICY_EVALUATED")
    BY <2>1, AddEventType DEF EventTypes
  <2> HIDE DEF started, record
  <2> QED BY <2>1, <2>2, <2>3
<1> HIDE DEF record
<1>3. /\ store' = [store EXCEPT ![r] = record]
      /\ pc' = [pc EXCEPT ![r] = "evaluated"]
      /\ At(r, "resolved")
      /\ UNCHANGED <<request, provider, enrichment, submitted, wire, response, registry,
                     ingested, restarts>>
  BY DEF EvaluatePolicy, record, Goto, envVars
<1>4. TypeOK'
  <2>1. metric' \in [Labels -> Nat]
    BY CountType DEF IInv, TypeOK, EvaluatePolicy
  <2>2. /\ published' \in [Requests -> Seq(EventNames)]
        /\ bus' \in [Requests -> {"idle", "pending"}]
    BY PublishType DEF IInv, TypeOK, EvaluatePolicy, EventNames
  <2> QED BY <1>2, <1>3, <2>1, <2>2 DEF IInv, TypeOK, Points
<1>5. TaskInv(r)'
  BY <1>2, <1>3, MissingRecord
     DEF IInv, TypeOK, At, Decision, TaskInv, PointInv, SubmissionInv, EvidenceInv, TrailInv,
         FallbackInv, Serving, Ending, InFlight, Points, ClosedStatuses, NoResponse,
         ErrorResponse
<1>6. \A q \in Requests \ {r} : Untouched(q)
  BY <1>3 DEF IInv, TypeOK, Untouched
<1> QED BY <1>4, <1>5, <1>6, OneTaskStep

LEMMA BlockReportStep ==
  ASSUME IInv, NEW r \in Requests, BlockReport(r)
  PROVE  IInv'
<1> DEFINE open == store[r]
           record == Finalize(open, "blocked", "denied", None, None)
<1>1. record \in Records /\ record.status = "blocked" /\ record.output_hash = None
  <2>1. open \in Records
    BY DEF IInv, BlockReport, At, TaskInv, PointInv, Serving
  <2>2. "blocked" \in ClosedStatuses /\ "denied" \in DecisionOutcomes
    BY DEF ClosedStatuses, DecisionOutcomes
  <2> HIDE DEF open
  <2> QED BY <2>1, <2>2, FinalizeType
<1> HIDE DEF record
<1>2. /\ Conclude(r, record) /\ At(r, "evaluated")
      /\ UNCHANGED <<request, provider, enrichment, bus, published, submitted, response,
                     registry, ingested, restarts>>
  BY DEF BlockReport, record, envVars
<1>3. /\ pc' \in [Requests -> Points]
      /\ store' \in [Requests -> Records \cup {NoRecord}]
      /\ wire' \in [Requests -> Records \cup {NoRecord}]
      /\ pc'[r] \in {"sending", "closed"}
      /\ store'[r] = record
      /\ wire'[r] \in {record, wire[r]}
      /\ \A q \in Requests \ {r} :
           pc'[q] = pc[q] /\ store'[q] = store[q] /\ wire'[q] = wire[q]
  BY <1>1, <1>2, ConcludeType DEF IInv, TypeOK
<1>4. TypeOK'
  <2>1. metric' \in [Labels -> Nat]
    BY CountType DEF IInv, TypeOK, BlockReport
  <2> QED BY <1>2, <1>3, <2>1 DEF IInv, TypeOK
<1>5. TaskInv(r)'
  <2>1. /\ Resolvable(request[r].tenant_id) /\ submitted[r] = 0 /\ response[r] = NoResponse
        /\ wire[r] = NoRecord /\ ingested[r] = NoRecord /\ TaskInv(r)
    BY <1>2 DEF IInv, At, TaskInv, PointInv, SubmissionInv, EvidenceInv, Serving, InFlight, Points
  <2>2. PointInv(r)' /\ TrailInv(r)' /\ FallbackInv(r)'
    BY <1>1, <1>2, <1>3, <2>1
       DEF PointInv, TrailInv, FallbackInv, Serving, Ending, Decision, ClosedStatuses
  <2>3. SubmissionInv(r)'
    BY <1>1, <1>2, <1>3, <2>1 DEF SubmissionInv, ClosedStatuses, NoResponse, ErrorResponse
  <2>4. EvidenceInv(r)'
    BY <1>1, <1>2, <1>3, <2>1, MissingRecord DEF EvidenceInv, Serving, ClosedStatuses, NoResponse
  <2> QED BY <2>2, <2>3, <2>4 DEF TaskInv
<1>6. \A q \in Requests \ {r} : Untouched(q)
  BY <1>2, <1>3 DEF Untouched
<1> QED BY <1>4, <1>5, <1>6, OneTaskStep

LEMMA SelectProviderStep ==
  ASSUME IInv, NEW r \in Requests, SelectProvider(r)
  PROVE  IInv'
<1>1. SelectedName(r) \in ProviderNames
  <2>1. Resolvable(request[r].tenant_id) /\ Decision(r).allowed
    BY DEF IInv, SelectProvider, At, TaskInv, PointInv, Serving
  <2> QED BY <2>1, DecideRoutes DEF Decision, SelectedName
<1>2. registry[SelectedName(r)] \in Providers
  BY <1>1 DEF IInv, TypeOK, Registries, SelectProvider
<1>3. /\ provider' = [provider EXCEPT ![r] = registry[SelectedName(r)]]
      /\ pc' = [pc EXCEPT ![r] = "selected"]
      /\ At(r, "evaluated") /\ Decision(r).allowed
      /\ UNCHANGED <<request, enrichment, store, metric, submitted, wire, response, registry,
                     ingested, restarts>>
  BY DEF SelectProvider, Goto, envVars
<1>4. TypeOK'
  <2>1. /\ published' \in [Requests -> Seq(EventNames)]
        /\ bus' \in [Requests -> {"idle", "pending"}]
    BY PublishType DEF IInv, TypeOK, SelectProvider, EventNames
  <2> QED BY <1>2, <1>3, <2>1 DEF IInv, TypeOK, Points
<1>5. TaskInv(r)'
  BY <1>2, <1>3, MissingRecord
     DEF IInv, TypeOK, At, Decision, TaskInv, PointInv, SubmissionInv, EvidenceInv, TrailInv,
         FallbackInv, Serving, Ending, InFlight, Points, ClosedStatuses
<1>6. \A q \in Requests \ {r} : Untouched(q)
  BY <1>3 DEF IInv, TypeOK, Untouched
<1> QED BY <1>4, <1>5, <1>6, OneTaskStep

LEMMA ProviderMissingStep ==
  ASSUME IInv, NEW r \in Requests, ProviderMissing(r)
  PROVE  IInv'
<1>1. TypeOK'
  BY DEF IInv, TypeOK, ProviderMissing, Goto, Points, envVars
<1>2. TaskInv(r)'
  BY MissingRecord
     DEF IInv, TypeOK, ProviderMissing, ClosedStatuses, At, Goto, envVars, Decision, TaskInv,
         PointInv, SubmissionInv, EvidenceInv, TrailInv, FallbackInv, Serving, Ending,
         InFlight, Points
<1>3. \A q \in Requests \ {r} : Untouched(q)
  BY DEF IInv, TypeOK, ProviderMissing, Goto, envVars, Untouched
<1> QED BY <1>1, <1>2, <1>3, OneTaskStep

LEMMA SubmitEnrichedStep ==
  ASSUME IInv, NEW r \in Requests, SubmitEnriched(r)
  PROVE  IInv'
<1> DEFINE record == AddEvent(store[r], "PROVIDER_SELECTED")
<1>1. /\ record \in Records /\ record.status = "in_progress"
      /\ Len(record.events) = 3 /\ record.events[3] = "PROVIDER_SELECTED"
  <2>1. store[r] \in Records /\ store[r].status = "in_progress" /\ Len(store[r].events) = 2
    BY DEF IInv, SubmitEnriched, At, TaskInv, PointInv, TrailInv, Serving
  <2>2. store[r].events \in Seq(EventTypes)
    BY <2>1 DEF Records
  <2>3. /\ record \in Records /\ record.status = store[r].status
        /\ record.events = Append(store[r].events, "PROVIDER_SELECTED")
    BY <2>1, AddEventType DEF EventTypes
  <2>4. "PROVIDER_SELECTED" \in EventTypes
    BY DEF EventTypes
  <2> HIDE DEF record
  <2> QED BY <2>1, <2>2, <2>3, <2>4, AppendToTwo
<1> HIDE DEF record
<1>2. PICK outcome \in Enrichments : enrichment' = [enrichment EXCEPT ![r] = outcome]
  BY DEF SubmitEnriched, SubmitReport
<1>3. /\ store' = [store EXCEPT ![r] = record]
      /\ submitted' = [submitted EXCEPT ![r] = @ + 1]
      /\ pc' = [pc EXCEPT ![r] = "submitted"]
      /\ At(r, "selected")
      /\ UNCHANGED <<request, provider, wire, response, registry, ingested, restarts>>
  BY DEF SubmitEnriched, SubmitReport, record, Goto, envVars
<1>4. TypeOK'
  <2>1. metric' \in [Labels -> Nat]
    BY CountType DEF IInv, TypeOK, SubmitEnriched, SubmitReport
  <2>2. /\ published' \in [Requests -> Seq(EventNames)]
        /\ bus' \in [Requests -> {"idle", "pending"}]
    BY PublishType DEF IInv, TypeOK, SubmitEnriched, EventNames
  <2>3. submitted' \in [Requests -> Nat]
    BY <1>3 DEF IInv, TypeOK
  <2>4. store' \in [Requests -> Records \cup {NoRecord}]
    BY <1>1, <1>3 DEF IInv, TypeOK
  <2> QED BY <1>2, <1>3, <2>1, <2>2, <2>3, <2>4 DEF IInv, TypeOK, Points
<1>5. TaskInv(r)'
  <2>1. /\ pc[r] = "selected" /\ pc'[r] = "submitted" /\ store'[r] = record
        /\ submitted'[r] = submitted[r] + 1 /\ enrichment'[r] = outcome
        /\ TaskInv(r)
    BY <1>2, <1>3 DEF IInv, TypeOK, At
  <2>2. PointInv(r)'
    BY <1>1, <1>3, <2>1 DEF TaskInv, PointInv, Serving, Ending, Decision
  <2>3. submitted[r] = 0 /\ Resolvable(request[r].tenant_id) /\ Decision(r).allowed
        /\ response[r] = NoResponse /\ wire[r] = NoRecord /\ ingested[r] = NoRecord
    BY <2>1 DEF TaskInv, PointInv, SubmissionInv, EvidenceInv, Serving, InFlight, Points
  <2>4. SubmissionInv(r)'
    BY <1>1, <1>3, <2>1, <2>3
       DEF SubmissionInv, Decision, ClosedStatuses, NoResponse, ErrorResponse
  <2>5. EvidenceInv(r)'
    BY <1>1, <1>3, <2>1, <2>3, MissingRecord DEF EvidenceInv, Ending, ClosedStatuses, NoResponse
  <2>6. TrailInv(r)' /\ FallbackInv(r)'
    BY <1>1, <2>1 DEF TrailInv, FallbackInv
  <2> QED BY <2>2, <2>4, <2>5, <2>6 DEF TaskInv
<1>6. \A q \in Requests \ {r} : Untouched(q)
  BY <1>2, <1>3 DEF IInv, TypeOK, Untouched
<1> QED BY <1>4, <1>5, <1>6, OneTaskStep

LEMMA ProviderFailsStep ==
  ASSUME IInv, NEW r \in Requests, ProviderFails(r)
  PROVE  IInv'
<1>1. /\ At(r, "selected")
      /\ UNCHANGED <<request, provider, enrichment, bus, metric, published, submitted,
                     response, registry, ingested, restarts>>
  BY DEF ProviderFails, envVars
<1>2. /\ store[r] \in Records /\ provider[r] \in Providers /\ TaskInv(r)
      /\ Resolvable(request[r].tenant_id) /\ Decision(r).allowed
  BY <1>1 DEF IInv, At, TaskInv, PointInv, Serving
<1>3. SelectedName(r) \in ProviderNames
  BY <1>2, DecideRoutes DEF Decision, SelectedName
<1>4. PICK record \in Records : ConcludeFailure(r, record)
  <2> DEFINE open == store[r]
  <2>1. AddEvent(open, "PROVIDER_SELECTED") \in Records
    <3>1. open \in Records
      BY <1>2
    <3> HIDE DEF open
    <3> QED BY <3>1, AddEventType DEF EventTypes
  <2> QED BY <1>2, <2>1 DEF ProviderFails
<1>5. PICK closed \in Records :
        /\ Conclude(r, closed)
        /\ closed.output_hash = None
        /\ \/ /\ closed.status = "blocked_provider_failure"
              /\ DeclaredStrategy[provider[r]] = "fail_closed"
           \/ /\ closed.status = "fallback"
              /\ DeclaredStrategy[provider[r]] # "fail_closed"
  BY <1>2, <1>3, <1>4, ConcludeFailureRecord
<1>6. /\ pc' \in [Requests -> Points]
      /\ store' \in [Requests -> Records \cup {NoRecord}]
      /\ wire' \in [Requests -> Records \cup {NoRecord}]
      /\ pc'[r] \in {"sending", "closed"}
      /\ store'[r] = closed
      /\ wire'[r] \in {closed, wire[r]}
      /\ \A q \in Requests \ {r} :
           pc'[q] = pc[q] /\ store'[q] = store[q] /\ wire'[q] = wire[q]
  BY <1>5, ConcludeType DEF IInv, TypeOK
<1>7. TypeOK'
  BY <1>1, <1>6 DEF IInv, TypeOK
<1>8. TaskInv(r)'
  BY <1>1, <1>2, <1>5, <1>6, MissingRecord
     DEF At, Decision, TaskInv, PointInv, SubmissionInv, EvidenceInv, TrailInv, FallbackInv,
         Serving, Ending, InFlight, Points, ClosedStatuses, NoResponse, ErrorResponse
<1>9. \A q \in Requests \ {r} : Untouched(q)
  BY <1>1, <1>6 DEF Untouched
<1> QED BY <1>7, <1>8, <1>9, OneTaskStep

LEMMA CompleteReportStep ==
  ASSUME IInv, NEW r \in Requests, CompleteReport(r)
  PROVE  IInv'
<1> DEFINE open == store[r]
           name == SelectedName(r)
           hash == enrichment[r]
           record == Finalize(open, "completed", "approved", name, hash)
<1>1. /\ Conclude(r, record) /\ At(r, "submitted")
      /\ UNCHANGED <<request, provider, enrichment, bus, metric, published, submitted,
                     response, registry, ingested, restarts>>
  BY DEF CompleteReport, envVars
<1>2. /\ open \in Records /\ hash \in Enrichments /\ TaskInv(r)
      /\ Resolvable(request[r].tenant_id) /\ Decision(r).allowed
  BY <1>1 DEF IInv, At, TaskInv, PointInv, Serving
<1>3. name \in ProviderNames
  BY <1>2, DecideRoutes DEF Decision, SelectedName
<1>4. Len(open.events) >= 3 /\ open.events[3] = "PROVIDER_SELECTED" /\ submitted[r] = 1
  BY <1>1, <1>2 DEF At, TaskInv, TrailInv, SubmissionInv
<1>5. record \in Records /\ record.status = "completed" /\ record.output_hash = hash
      /\ record.events = Append(open.events, "WORKFLOW_COMPLETED")
  <2> HIDE DEF open, name, hash
  <2> QED BY <1>2, <1>3, FinalizeType DEF ClosedStatuses, DecisionOutcomes
<1> HIDE DEF record
<1>6. Len(record.events) >= 3 /\ record.events[3] = "PROVIDER_SELECTED"
  <2>1. open.events \in Seq(EventTypes)
    BY <1>2 DEF Records
  <2> QED BY <1>4, <1>5, <2>1
<1>7. /\ pc' \in [Requests -> Points]
      /\ store' \in [Requests -> Records \cup {NoRecord}]
      /\ wire' \in [Requests -> Records \cup {NoRecord}]
      /\ pc'[r] \in {"sending", "closed"}
      /\ store'[r] = record
      /\ wire'[r] \in {record, wire[r]}
      /\ \A q \in Requests \ {r} :
           pc'[q] = pc[q] /\ store'[q] = store[q] /\ wire'[q] = wire[q]
  BY <1>1, <1>5, ConcludeType DEF IInv, TypeOK
<1>8. TypeOK'
  BY <1>1, <1>7 DEF IInv, TypeOK
<1>9. TaskInv(r)'
  BY <1>1, <1>2, <1>4, <1>5, <1>6, <1>7, MissingRecord
     DEF At, Decision, TaskInv, PointInv, SubmissionInv, EvidenceInv, TrailInv, FallbackInv,
         Serving, Ending, InFlight, Points, ClosedStatuses, NoResponse, ErrorResponse
<1>10. \A q \in Requests \ {r} : Untouched(q)
  BY <1>1, <1>7 DEF Untouched
<1> QED BY <1>8, <1>9, <1>10, OneTaskStep

LEMMA AnnounceStep ==
  ASSUME IInv, NEW r \in Requests, Announce(r)
  PROVE  IInv'
<1>1. ClosingEvent(store[r].status) \in EventNames
  BY DEF IInv, Announce, At, TaskInv, PointInv, Ending, ClosedStatuses, ClosingEvent, EventNames
<1>2. TypeOK'
  <2>1. /\ published' \in [Requests -> Seq(EventNames)]
        /\ bus' \in [Requests -> {"idle", "pending"}]
    BY <1>1, PublishType DEF IInv, TypeOK, Announce
  <2> QED BY <2>1 DEF IInv, TypeOK, Announce, Goto, Points, envVars
<1>3. TaskInv(r)'
  BY DEF IInv, TypeOK, Announce, At, Goto, envVars, Decision, TaskInv, PointInv,
         SubmissionInv, EvidenceInv, TrailInv, FallbackInv, Serving, Ending, InFlight, Points
<1>4. \A q \in Requests \ {r} : Untouched(q)
  BY DEF IInv, TypeOK, Announce, Goto, envVars, Untouched
<1> QED BY <1>2, <1>3, <1>4, OneTaskStep

LEMMA ReturnStep ==
  ASSUME IInv, NEW r \in Requests, NEW status \in ClosedStatuses, NEW labels,
         Return(r, status, labels)
  PROVE  IInv'
<1>1. TypeOK'
  <2>1. metric' \in [Labels -> Nat]
    BY CountType DEF IInv, TypeOK, Return
  <2> QED BY <2>1 DEF IInv, TypeOK, Return, Goto, Points, envVars
<1>2. TaskInv(r)'
  BY DEF IInv, TypeOK, Return, ClosedStatuses, At, Goto, envVars, Decision, TaskInv,
         PointInv, SubmissionInv, EvidenceInv, TrailInv, FallbackInv, Serving, Ending,
         InFlight, Points
<1>3. \A q \in Requests \ {r} : Untouched(q)
  BY DEF IInv, TypeOK, Return, Goto, envVars, Untouched
<1> QED BY <1>1, <1>2, <1>3, OneTaskStep

LEMMA ReturnsStep ==
  ASSUME IInv, NEW r \in Requests,
         ReturnDenied(r) \/ ReturnCompleted(r) \/ ReturnBlocked(r) \/ ReturnFallback(r)
  PROVE  IInv'
BY ReturnStep
   DEF ReturnDenied, ReturnCompleted, ReturnBlocked, ReturnFallback, ClosedStatuses

\* The answer is an error, or the closed record's status and output.
LEMMA RenderedAnswer ==
  ASSUME IInv, NEW r \in Requests
  PROVE  /\ Rendered(r) \in [status : ClosedStatuses \cup {"no_response", "error"},
                             result : Enrichments \cup {None}]
         /\ Rendered(r) # NoResponse
         /\ Rendered(r).status \in ClosedStatuses =>
              /\ store[r].status = Rendered(r).status
              /\ store[r].output_hash = Rendered(r).result
         /\ Rendered(r).status \notin ClosedStatuses => Rendered(r) = ErrorResponse
         /\ Rendered(r) = ErrorResponse /\ store[r].status \in ClosedStatuses =>
              store[r].status = "completed" /\ enrichment[r] = "non_finite"
         /\ store[r].status \notin ClosedStatuses => Rendered(r) = ErrorResponse
<1> DEFINE status == store[r].status
           result == IF status = "completed" THEN enrichment[r] ELSE None
<1>1. /\ result \in Enrichments \cup {None}
      /\ status \in ClosedStatuses => store[r].output_hash = result
  BY DEF IInv, TypeOK, TaskInv, EvidenceInv
<1>2. Rendered(r) = IF status \notin ClosedStatuses \/ result = "non_finite"
                    THEN ErrorResponse ELSE [status |-> status, result |-> result]
  BY DEF Rendered
<1>3. result = "non_finite" => status = "completed" /\ enrichment[r] = "non_finite"
  BY DEF None
<1> HIDE DEF result, status
<1>4. CASE status \notin ClosedStatuses \/ result = "non_finite"
  BY <1>2, <1>3, <1>4 DEF status, ErrorResponse, NoResponse, ClosedStatuses
<1>5. CASE status \in ClosedStatuses /\ result # "non_finite"
  BY <1>1, <1>2, <1>5 DEF status, ErrorResponse, NoResponse, ClosedStatuses
<1> QED BY <1>4, <1>5

LEMMA RespondStep ==
  ASSUME IInv, NEW r \in Requests, Respond(r)
  PROVE  IInv'
<1> DEFINE status == store[r].status
           answer == Rendered(r)
<1>1. /\ At(r, "returned")
      /\ response' = [response EXCEPT ![r] = answer]
      /\ pc' = [pc EXCEPT ![r] = "done"]
      /\ UNCHANGED <<request, provider, enrichment, bus, store, published, submitted, wire,
                     registry, ingested, restarts>>
  BY DEF Respond, Goto, envVars
<1>2. /\ answer \in [status : ClosedStatuses \cup {"no_response", "error"},
                     result : Enrichments \cup {None}]
      /\ answer.status \in ClosedStatuses =>
           status = answer.status /\ store[r].output_hash = answer.result
      /\ answer.status \notin ClosedStatuses => answer = ErrorResponse
      /\ answer = ErrorResponse /\ status \in ClosedStatuses =>
           status = "completed" /\ enrichment[r] = "non_finite"
      /\ status \notin ClosedStatuses => answer = ErrorResponse
  BY RenderedAnswer
<1> HIDE DEF answer
<1>3. TaskInv(r)
  BY DEF IInv
<1>4. TypeOK'
  <2>1. metric' \in [Labels -> Nat]
    BY CountType DEF IInv, TypeOK, Respond
  <2> QED BY <1>1, <1>2, <2>1 DEF IInv, TypeOK, Points
<1>5. TaskInv(r)'
  <2>1. pc[r] = "returned" /\ pc'[r] = "done" /\ response'[r] = answer
    BY <1>1 DEF IInv, TypeOK, At
  <2>2. store[r] # NoRecord => Resolvable(request[r].tenant_id) /\ store[r] \in Records
    BY <1>3, <2>1 DEF TaskInv, PointInv, EvidenceInv
  <2>3. status \in ClosedStatuses \/ submitted[r] = 0
    <3>1. CASE store[r] = NoRecord
      BY <1>3, <2>1, <2>2, <3>1 DEF TaskInv, PointInv, SubmissionInv, IInv, TypeOK, Records, Statuses
    <3>2. CASE store[r] # NoRecord
      BY <1>3, <2>1, <2>2, <3>2 DEF TaskInv, PointInv, Records, Statuses
    <3> QED BY <3>1, <3>2
  <2>4. PointInv(r)'
    BY <1>1, <1>3, <2>1 DEF TaskInv, PointInv, Serving, Ending, Decision
  <2>5. SubmissionInv(r)'
    BY <1>1, <1>2, <1>3, <2>1, <2>3 DEF TaskInv, SubmissionInv, Decision
  <2>6. EvidenceInv(r)'
    <3>1. answer.status \in ClosedStatuses =>
            \A record \in {store[r], wire[r], ingested[r]} \ {NoRecord} : record = store[r]
      BY <1>2, <1>3, MissingRecord DEF TaskInv, EvidenceInv
    <3>2. ~Resolvable(request[r].tenant_id) => answer = ErrorResponse
      BY <1>2, <1>3, MissingRecord DEF TaskInv, EvidenceInv
    <3> QED BY <1>1, <1>2, <1>3, <2>1, <3>1, <3>2
            DEF TaskInv, EvidenceInv, Serving, InFlight, Points
  <2>7. TrailInv(r)' /\ FallbackInv(r)'
    BY <1>1, <1>3, <2>1 DEF TaskInv, TrailInv, FallbackInv
  <2> QED BY <2>4, <2>5, <2>6, <2>7 DEF TaskInv
<1>6. \A q \in Requests \ {r} : Untouched(q)
  BY <1>1 DEF IInv, TypeOK, Untouched
<1> QED BY <1>4, <1>5, <1>6, OneTaskStep

LEMMA WaitEndsStep ==
  ASSUME IInv, NEW r \in Requests, HandlersReturn(r) \/ PostReturns(r)
  PROVE  IInv'
<1>1. CASE HandlersReturn(r)
  <2>1. TypeOK'
    BY <1>1 DEF IInv, TypeOK, HandlersReturn, envVars
  <2>2. \A q \in Requests : Untouched(q)
    BY <1>1 DEF HandlersReturn, envVars, Untouched
  <2> QED BY <2>1, <2>2, UntouchedTask DEF IInv
<1>2. CASE PostReturns(r)
  <2>1. TypeOK'
    BY <1>2 DEF IInv, TypeOK, PostReturns, Goto, Points, envVars
  <2>2. TaskInv(r)'
    BY <1>2 DEF IInv, TypeOK, PostReturns, Goto, envVars, Decision, TaskInv, PointInv,
                SubmissionInv, EvidenceInv, TrailInv, FallbackInv, Serving, Ending, InFlight,
                Points
  <2>3. \A q \in Requests \ {r} : Untouched(q)
    BY <1>2 DEF IInv, TypeOK, PostReturns, Goto, envVars, Untouched
  <2> QED BY <2>1, <2>2, <2>3, OneTaskStep
<1> QED BY <1>1, <1>2

LEMMA RegisterStep ==
  ASSUME IInv, NEW name \in ProviderNames, NEW p \in Providers, Register(name, p)
  PROVE  IInv'
<1>1. TypeOK'
  BY DEF IInv, TypeOK, Register, Registries, taskVars
<1>2. \A q \in Requests : Untouched(q)
  BY DEF Register, taskVars, Untouched
<1> QED BY <1>1, <1>2, UntouchedTask DEF IInv

LEMMA NetworkStep ==
  ASSUME IInv, NEW r \in Requests, IngesterStores(r) \/ PostLost(r)
  PROVE  IInv'
<1>1. /\ wire' = [wire EXCEPT ![r] = NoRecord]
      /\ \/ ingested' = [ingested EXCEPT ![r] = wire[r]]
         \/ ingested' = ingested
      /\ UNCHANGED <<taskVars, request, store, registry, metric, published, submitted,
                     response, restarts>>
  BY DEF IngesterStores, PostLost, envVars
<1>2. TypeOK'
  BY <1>1 DEF IInv, TypeOK, taskVars
<1>3. TaskInv(r)'
  <2>1. /\ wire'[r] = NoRecord /\ ingested'[r] \in {wire[r], ingested[r]} /\ TaskInv(r)
        /\ UNCHANGED <<pc, request, provider, enrichment, store, submitted, response>>
    BY <1>1 DEF IInv, TypeOK, taskVars
  <2>2. PointInv(r)' /\ SubmissionInv(r)' /\ TrailInv(r)' /\ FallbackInv(r)'
    BY <2>1 DEF TaskInv, PointInv, SubmissionInv, TrailInv, FallbackInv, Decision
  <2>3. EvidenceInv(r)'
    BY <2>1 DEF TaskInv, EvidenceInv
  <2> QED BY <2>2, <2>3 DEF TaskInv
<1>4. \A q \in Requests \ {r} : Untouched(q)
  BY <1>1 DEF IInv, TypeOK, taskVars, Untouched
<1> QED BY <1>2, <1>3, <1>4, OneTaskStep

\* A process death takes every task to a point where nothing is known, and
\* leaves what has left the process in agreement with the answers given.
LEMMA RestartStep ==
  ASSUME IInv, Restart
  PROVE  IInv'
<1>1. TypeOK'
  <2>1. registry' \in Registries /\ restarts' \in 0..MaxRestarts
    BY DEF IInv, TypeOK, Restart
  <2> QED BY <2>1 DEF IInv, TypeOK, Restart, Points
<1>2. ASSUME NEW r \in Requests PROVE TaskInv(r)'
  <2>1. /\ pc'[r] = IF pc[r] = "new" THEN "new" ELSE "lost"
        /\ store'[r] = NoRecord
        /\ UNCHANGED <<request, submitted, wire, ingested, response>>
        /\ TaskInv(r)
    BY DEF IInv, Restart
  <2>2. PointInv(r)'
    BY <2>1 DEF PointInv, Serving, Ending
  <2>3. SubmissionInv(r)'
    <3>1. pc[r] = "new" => response[r] = NoResponse
      BY <2>1 DEF TaskInv, EvidenceInv
    <3> QED BY <2>1, <3>1, MissingRecord
            DEF TaskInv, SubmissionInv, Decision, NoResponse, ErrorResponse
  <2>4. EvidenceInv(r)'
    BY <2>1, MissingRecord DEF TaskInv, EvidenceInv, Serving, InFlight, Points
  <2>5. TrailInv(r)'
    BY <2>1 DEF TaskInv, TrailInv, SubmissionInv
  <2>6. FallbackInv(r)'
    BY <2>1, MissingRecord DEF FallbackInv, ClosedStatuses
  <2> QED BY <2>2, <2>3, <2>4, <2>5, <2>6 DEF TaskInv
<1> QED BY <1>1, <1>2 DEF IInv

LEMMA NextIInv == IInv /\ [Next]_vars => IInv'
<1> SUFFICES ASSUME IInv, [Next]_vars PROVE IInv'
  OBVIOUS
<1>1. ASSUME NEW r \in Requests, Arrive(r) PROVE IInv'
  BY <1>1, ResolveTenantStep, RefuseUnknownTenantStep DEF Arrive
<1>2. ASSUME NEW r \in Requests, EngineStep(r) PROVE IInv'
  BY <1>2, EvaluatePolicyStep, BlockReportStep, SelectProviderStep, ProviderMissingStep,
     CompleteReportStep, AnnounceStep, ReturnsStep, RespondStep DEF EngineStep
<1>3. ASSUME NEW r \in Requests, ProviderAnswers(r) PROVE IInv'
  BY <1>3, SubmitEnrichedStep, ProviderFailsStep DEF ProviderAnswers
<1>4. ASSUME NEW r \in Requests, HandlersReturn(r) \/ PostReturns(r) PROVE IInv'
  BY <1>4, WaitEndsStep
<1>5. CASE Environment
  BY <1>5, RegisterStep, NetworkStep, RestartStep DEF Environment
<1>6. CASE UNCHANGED vars
  <2>1. TypeOK'
    BY <1>6 DEF IInv, TypeOK, vars
  <2>2. \A q \in Requests : Untouched(q)
    BY <1>6 DEF vars, Untouched
  <2> QED BY <2>1, <2>2, UntouchedTask DEF IInv
<1> QED BY <1>1, <1>2, <1>3, <1>4, <1>5, <1>6 DEF Next

LEMMA Invariance == Spec => []IInv
BY InitIInv, NextIInv, PTL DEF Spec

-----------------------------------------------------------------------------
(* The properties.                                                         *)

\* Every variable keeps its type.
THEOREM TypeCorrect == Spec => []TypeOK
<1>1. IInv => TypeOK
  BY DEF IInv
<1> QED BY <1>1, Invariance, PTL

\* What the invariants say, property by property: here of submissions.
LEMMA PermittedFollows == IInv => SubmittedOnlyWhenPermitted
<1> SUFFICES ASSUME IInv, NEW r \in Requests, submitted[r] > 0
             PROVE  Permitted(request[r]) /\ submitted[r] = 1
  BY DEF SubmittedOnlyWhenPermitted
<1>1. submitted[r] = 1 /\ Resolvable(request[r].tenant_id) /\ Decision(r).allowed
  BY DEF IInv, TaskInv, SubmissionInv
<1> QED BY <1>1, DecideIsPermitted DEF Decision

\* Only permitted reports reach the supervisory service, each at most once,
\* however many requests, providers and process deaths there are.
THEOREM SubmissionsArePermitted == Spec => []SubmittedOnlyWhenPermitted
BY PermittedFollows, Invariance, PTL

\* Of record, answer and submission.
LEMMA CompletionFollows == IInv => CompletedIffSubmitted
<1> SUFFICES ASSUME IInv, NEW r \in Requests
             PROVE  /\ submitted[r] > 0 /\ pc[r] # "lost" =>
                         Known(r) /\ store[r].events[3] = "PROVIDER_SELECTED"
                    /\ Known(r) /\ Closed(store[r]) =>
                         (store[r].status = "completed" <=> submitted[r] > 0)
                    /\ response[r].status \in ClosedStatuses =>
                         (response[r].status = "completed" <=> submitted[r] > 0)
                    /\ response[r] = ErrorResponse /\ submitted[r] > 0 /\ pc[r] # "lost" =>
                         enrichment[r] = "non_finite"
  BY DEF CompletedIffSubmitted
<1>1. submitted[r] > 0 <=> submitted[r] = 1
  BY DEF IInv, TaskInv, SubmissionInv
<1> QED BY <1>1, MissingRecord DEF IInv, TaskInv, SubmissionInv, TrailInv, Known, Closed

\* Record, answer and submission tell the same story.
THEOREM CompletionsAreSubmissions == Spec => []CompletedIffSubmitted
BY CompletionFollows, Invariance, PTL

\* Of the copies of a record and the answer.
LEMMA AgreementFollows == IInv => EvidenceAgreement
BY DEF IInv, TaskInv, EvidenceInv, EvidenceAgreement, Known

\* The gateway, the message in flight, the ingester and the answer agree.
THEOREM EvidenceAgrees == Spec => []EvidenceAgreement
BY AgreementFollows, Invariance, PTL

\* Of failed providers.
LEMMA FallbackFollows == IInv => FallbackFollowsProvider
BY DEF IInv, TaskInv, FallbackInv, FallbackFollowsProvider

\* The strategy of the provider that was called decides.
THEOREM FallbacksFollowProviders == Spec => []FallbackFollowsProvider
BY FallbackFollows, Invariance, PTL

\* Every step either leaves a closed record as it is or is a process death.
THEOREM ClosedRecordsAreFrozen == Spec => ClosedRecordFrozen
<1> DEFINE Frozen(r) ==
      Known(r) /\ Closed(store[r]) => store'[r] = store[r] \/ restarts' # restarts
<1>1. IInv /\ [Next]_vars => [\A r \in Requests : Frozen(r)]_vars
  <2> SUFFICES ASSUME IInv, Next, NEW q \in Requests, Known(q), Closed(store[q])
               PROVE  store'[q] = store[q] \/ restarts' # restarts
    BY DEF vars
  <2>1. pc[q] \notin {"resolved", "evaluated", "selected", "submitted"}
    BY DEF IInv, TaskInv, PointInv, Serving, Known, Closed, ClosedStatuses
  <2>2. ASSUME NEW r \in Requests, NEW record, Conclude(r, record), r # q
        PROVE  store'[q] = store[q]
    BY <2>2 DEF IInv, TypeOK, Conclude
  <2>3. ASSUME NEW r \in Requests, Arrive(r) PROVE store' = store
    BY <2>3 DEF Arrive, ResolveTenant, RefuseUnknownTenant
  <2>4. ASSUME NEW r \in Requests, EngineStep(r) PROVE store'[q] = store[q]
    <3>1. CASE EvaluatePolicy(r)
      BY <2>1, <3>1 DEF IInv, TypeOK, EvaluatePolicy, At
    <3>2. CASE BlockReport(r)
      BY <2>1, <2>2, <3>2 DEF BlockReport, At
    <3>3. CASE CompleteReport(r)
      BY <2>1, <2>2, <3>3 DEF CompleteReport, At
    <3>4. CASE SelectProvider(r) \/ ProviderMissing(r) \/ Announce(r) \/ Respond(r)
      BY <3>4 DEF SelectProvider, ProviderMissing, Announce, Respond
    <3>5. CASE ReturnDenied(r) \/ ReturnCompleted(r) \/ ReturnBlocked(r) \/ ReturnFallback(r)
      BY <3>5 DEF ReturnDenied, ReturnCompleted, ReturnBlocked, ReturnFallback, Return
    <3> QED BY <2>4, <3>1, <3>2, <3>3, <3>4, <3>5 DEF EngineStep
  <2>5. ASSUME NEW r \in Requests, ProviderAnswers(r) PROVE store'[q] = store[q]
    <3>1. CASE SubmitEnriched(r)
      BY <2>1, <3>1 DEF IInv, TypeOK, SubmitEnriched, At
    <3>2. CASE ProviderFails(r)
      BY <2>1, <2>2, <3>2 DEF ProviderFails, ConcludeFailure, At
    <3> QED BY <2>5, <3>1, <3>2 DEF ProviderAnswers
  <2>6. ASSUME NEW r \in Requests, HandlersReturn(r) \/ PostReturns(r) PROVE store' = store
    BY <2>6 DEF HandlersReturn, PostReturns
  <2>7. CASE Environment
    <3>1. CASE Restart
      BY <3>1 DEF IInv, TypeOK, Restart
    <3>2. ASSUME NEW name \in ProviderNames, NEW p \in Providers, Register(name, p)
          PROVE  store' = store
      BY <3>2 DEF Register
    <3>3. ASSUME NEW r \in Requests, IngesterStores(r) \/ PostLost(r) PROVE store' = store
      BY <3>3 DEF IngesterStores, PostLost
    <3> QED BY <2>7, <3>1, <3>2, <3>3 DEF Environment
  <2> QED BY <2>3, <2>4, <2>5, <2>6, <2>7 DEF Next
<1>2. Spec => [][\A r \in Requests : Frozen(r)]_vars
  BY <1>1, Invariance, PTL DEF Spec
<1> QED BY <1>2 DEF ClosedRecordFrozen

-----------------------------------------------------------------------------
(* The accounts given of a report: its evidence, its events, its verdict   *)
(* and the counters.                                                       *)

Opening == <<"WORKFLOW_STARTED", "POLICY_EVALUATED">>
ClosingEvents == {"workflow.completed", "workflow.blocked", "workflow.fallback"}

\* What EvidenceTellsTheStory asks of one record of r.
Tells(r, record) ==
  /\ LegalTrail(record)
  /\ record.tenant_id = request[r].tenant_id.key
  /\ record.provider_name = IF record.status \in {"in_progress", "blocked"} THEN None
                            ELSE ContractedProvider(record.tenant_id)

\* The records of r wherever they are, and the trail at each point of the task.
StoryInv(r) ==
  /\ \A record \in {store[r], wire[r], ingested[r]} \ {NoRecord} : Tells(r, record)
  /\ \A record \in {wire[r], ingested[r]} \ {NoRecord} : Closed(record)
  /\ pc[r] \in {"evaluated", "selected"} => store[r].events = Opening
  /\ pc[r] = "submitted" => store[r].events = Append(Opening, "PROVIDER_SELECTED")
  /\ wire[r] # NoRecord /\ ingested[r] # NoRecord => wire[r] = ingested[r]

\* What the events published for r say, and that the closing one is the last.
EventsInv(r) ==
  /\ pc[r] \notin {"announced", "returned", "done", "lost"} =>
       \A i \in 1..Len(published[r]) : published[r][i] \notin ClosingEvents
  /\ submitted[r] = 0 =>
       \A i \in 1..Len(published[r]) : published[r][i] # "supervisory.submitted"
  /\ published[r] # <<>> =>
       LET last == published[r][Len(published[r])] IN
       /\ last \in ClosingEvents /\ Known(r)
            => Closed(store[r]) /\ last = ClosingEvent(store[r].status)
       /\ last \in {"workflow.blocked", "workflow.fallback"} => submitted[r] = 0

\* The events published for r before a provider is selected.
EarlyInv(r) ==
  /\ pc[r] = "new" \/ ~Resolvable(request[r].tenant_id) => published[r] = <<>>
  /\ pc[r] = "resolved" => published[r] = <<"tenant.resolved">>
  /\ \/ pc[r] = "evaluated"
     \/ pc[r] \in {"returned", "done"} /\ store[r].status = "in_progress"
     => published[r] = <<"tenant.resolved", "policy.evaluated">>

\* The provider's call may succeed, or fail, for the request of r.
MayServe(r) == \E p \in Providers : ProviderOutcomes(p, request[r]) \cap Enrichments # {}
MayFail(r) == \E p \in Providers : ProviderOutcomes(p, request[r]) \ Enrichments # {}

\* A verdict on r that the policy and some provider account for.
Justified(r, status) ==
  /\ status = "blocked" => ~Decision(r).allowed
  /\ status \in ClosedStatuses \ {"blocked"} => Decision(r).allowed
  /\ status = "completed" => MayServe(r)
  /\ status \in {"fallback", "blocked_provider_failure"} => MayFail(r)

\* A provider may be missing, and an answer of one may not be rendered.
MayBeMissing ==
  \E reg \in InitialRegistries : \E name \in ProviderNames : reg[name] = NoProvider
MaySpoil(r) == \E p \in Providers : "non_finite" \in ProviderOutcomes(p, request[r])

VerdictInv(r) ==
  /\ Justified(r, store[r].status) /\ Justified(r, response[r].status)
  /\ submitted[r] = 1 => MayServe(r)
  /\ enrichment[r] = "non_finite" => MaySpoil(r)
  /\ pc[r] \in {"returned", "done"} /\ store[r].status = "in_progress" => MayBeMissing
  /\ response[r] = ErrorResponse =>
       ~Resolvable(request[r].tenant_id) \/ MayBeMissing \/ MaySpoil(r)

AccountInv(r) == StoryInv(r) /\ EventsInv(r) /\ EarlyInv(r) /\ VerdictInv(r)

\* register() only ever fills a name.
RegistryInv == (\E name \in ProviderNames : registry[name] = NoProvider) => MayBeMissing

\* The label of the outcome an answered request is counted under.
OutcomeLabel(status) ==
  CASE status = "completed"                -> {"ok"}
    [] status = "fallback"                 -> {"fallback"}
    [] status = "blocked_provider_failure" -> {"blocked_fail_closed"}
    [] OTHER                               -> {}

\* The labels under which the living process has counted r.
CountedUnder(r) ==
  (IF store[r] = NoRecord THEN {} ELSE {IF Decision(r).allowed THEN "allowed" ELSE "denied"})
  \cup (IF store[r].status = "blocked" THEN {"none"} ELSE {})
  \cup (IF submitted[r] = 1 /\ pc[r] # "lost" THEN {"accepted"} ELSE {})
  \cup (IF pc[r] \in {"returned", "done"} THEN OutcomeLabel(store[r].status) ELSE {})
  \cup (IF pc[r] = "done" THEN {IF response[r] = ErrorResponse THEN "500" ELSE "200"} ELSE {})

Counted(l) == {r \in Requests : l \in CountedUnder(r)}

\* Only requests that were begun are counted, and those are finitely many.
CountInv ==
  /\ IsFiniteSet({r \in Requests : pc[r] # "new"})
  /\ \A l \in Labels : metric[l] = Cardinality(Counted(l))

\* Points after which a closing event may have been published.
Late == {"announced", "returned", "done", "lost"}

-----------------------------------------------------------------------------
(* Trails.                                                                 *)

\* The concatenations of LegalTrail, as the appends of the code.
LEMMA TrailSums ==
  ASSUME NEW s \in Seq(EventTypes), NEW a \in EventTypes, NEW b \in EventTypes,
         NEW c \in EventTypes, NEW d \in EventTypes
  PROVE  /\ s \o <<>> \o <<>> = s
         /\ s \o <<a>> \o <<>> = Append(s, a)
         /\ s \o <<>> \o <<d>> = Append(s, d)
         /\ s \o <<a>> \o <<d>> = Append(Append(s, a), d)
         /\ s \o <<b, c>> \o <<d>> = Append(Append(Append(s, b), c), d)
         /\ s \o (<<a>> \o <<b, c>>) \o <<d>> = Append(Append(Append(Append(s, a), b), c), d)
<1>1. s \o <<>> \o <<>> = s
  OBVIOUS
<1>2. s \o <<a>> \o <<>> = Append(s, a)
  OBVIOUS
<1>3. s \o <<>> \o <<d>> = Append(s, d)
  OBVIOUS
<1>4. s \o <<a>> \o <<d>> = Append(Append(s, a), d)
  OBVIOUS
<1>5. s \o <<b, c>> \o <<d>> = Append(Append(Append(s, b), c), d)
  OBVIOUS
<1>6. s \o (<<a>> \o <<b, c>>) \o <<d>> = Append(Append(Append(Append(s, a), b), c), d)
  OBVIOUS
<1> QED BY <1>1, <1>2, <1>3, <1>4, <1>5, <1>6

\* The trails of the code are legal: of an open record, of a report that was
\* denied or completed, and of one whose provider failed, before or after its
\* answer was noted.
LEMMA LegalTrails ==
  ASSUME NEW record, NEW base \in {Opening, Append(Opening, "PROVIDER_SELECTED")},
         \/ record.status = "in_progress" /\ record.events = base
         \/ record.status = "blocked" /\ record.events = Append(Opening, "WORKFLOW_COMPLETED")
         \/ /\ record.status = "completed"
            /\ record.events = Append(Append(Opening, "PROVIDER_SELECTED"), "WORKFLOW_COMPLETED")
         \/ /\ record.status = "fallback"
            /\ record.events = FailedTrail(base, "PROVIDER_FALLBACK_APPLIED")
         \/ /\ record.status = "blocked_provider_failure"
            /\ record.events = FailedTrail(base, "PROVIDER_FALLBACK_BLOCKED")
  PROVE  LegalTrail(record)
<1> DEFINE o == Opening
           ps == "PROVIDER_SELECTED"
           pf == "PROVIDER_FAILED"
           pa == "PROVIDER_FALLBACK_APPLIED"
           pb == "PROVIDER_FALLBACK_BLOCKED"
           wc == "WORKFLOW_COMPLETED"
<1>1. o \in Seq(EventTypes)
  BY DEF Opening, EventTypes
<1>2. ps \in EventTypes /\ pf \in EventTypes /\ pa \in EventTypes /\ pb \in EventTypes
      /\ wc \in EventTypes
  BY DEF EventTypes
<1> HIDE DEF o
<1>3. /\ o \o <<>> \o <<>> = o
      /\ o \o <<ps>> \o <<>> = Append(o, ps)
      /\ o \o <<>> \o <<wc>> = Append(o, wc)
      /\ o \o <<ps>> \o <<wc>> = Append(Append(o, ps), wc)
      /\ o \o <<pf, pa>> \o <<wc>> = Append(Append(Append(o, pf), pa), wc)
      /\ o \o <<pf, pb>> \o <<wc>> = Append(Append(Append(o, pf), pb), wc)
  BY <1>1, <1>2, TrailSums
<1>4. /\ o \o (<<ps>> \o <<pf, pa>>) \o <<wc>> = Append(Append(Append(Append(o, ps), pf), pa), wc)
      /\ o \o (<<ps>> \o <<pf, pb>>) \o <<wc>> = Append(Append(Append(Append(o, ps), pf), pb), wc)
  BY <1>1, <1>2, TrailSums
<1>5. base = o \/ base = Append(o, ps)
  BY DEF o
<1>6. LegalTrail(record) <=>
        LET trails == CASE record.status = "in_progress" -> {<<>>, <<ps>>}
                        [] record.status = "blocked" -> {<<>>}
                        [] record.status = "completed" -> {<<ps>>}
                        [] record.status = "fallback" -> {<<pf, pa>>, <<ps>> \o <<pf, pa>>}
                        [] OTHER -> {<<pf, pb>>, <<ps>> \o <<pf, pb>>}
            ending == IF Closed(record) THEN <<wc>> ELSE <<>> IN
        \E t \in trails : record.events = o \o t \o ending
  BY DEF LegalTrail, Opening, o
<1>7. CASE record.status = "in_progress" /\ record.events = base
  BY <1>3, <1>5, <1>6, <1>7 DEF Closed, ClosedStatuses
<1>8. CASE record.status = "blocked" /\ record.events = Append(o, wc)
  BY <1>3, <1>6, <1>8 DEF Closed, ClosedStatuses
<1>9. CASE record.status = "completed" /\ record.events = Append(Append(o, ps), wc)
  BY <1>3, <1>6, <1>9 DEF Closed, ClosedStatuses
<1>10. CASE record.status = "fallback" /\ record.events = FailedTrail(base, pa)
  BY <1>3, <1>4, <1>5, <1>6, <1>10 DEF Closed, ClosedStatuses, FailedTrail
<1>11. CASE record.status = "blocked_provider_failure" /\ record.events = FailedTrail(base, pb)
  BY <1>3, <1>4, <1>5, <1>6, <1>11 DEF Closed, ClosedStatuses, FailedTrail
<1> QED BY <1>7, <1>8, <1>9, <1>10, <1>11 DEF o

-----------------------------------------------------------------------------
(* The parts of the accounts that a step leaves alone.                     *)

\* The step counts r under the labels L, none of which it was counted under.
Counts(r, L) == CountedUnder(r)' = CountedUnder(r) \cup L /\ CountedUnder(r) \cap L = {}

\* A step that does not concern q changes nothing that is told of it.
LEMMA UntouchedAccount ==
  ASSUME NEW q \in Requests, AccountInv(q), Untouched(q), published'[q] = published[q]
  PROVE  AccountInv(q)' /\ CountedUnder(q)' = CountedUnder(q)
<1>1. StoryInv(q)'
  BY DEF AccountInv, Untouched, StoryInv, Tells, Closed
<1>2. EventsInv(q)'
  BY DEF AccountInv, Untouched, EventsInv, Known, Closed
<1>3. EarlyInv(q)'
  BY DEF AccountInv, Untouched, EarlyInv
<1>4. VerdictInv(q)'
  BY DEF AccountInv, Untouched, VerdictInv, Justified, Decision, MayServe, MayFail, MaySpoil
<1>5. CountedUnder(q)' = CountedUnder(q)
  BY DEF Untouched, CountedUnder, Decision
<1> QED BY <1>1, <1>2, <1>3, <1>4, <1>5 DEF AccountInv

\* The records stay what they are, and the task learns of no new one.
LEMMA SameStory ==
  ASSUME NEW r \in Requests, StoryInv(r), request' = request, store'[r] = store[r],
         wire'[r] = wire[r], ingested'[r] = ingested[r],
         \/ pc'[r] \notin Serving
         \/ pc'[r] = pc[r]
         \/ pc[r] = "evaluated" /\ pc'[r] = "selected"
  PROVE  StoryInv(r)'
BY DEF StoryInv, Tells, Closed, Serving

\* No event is published, and a record changes only before the closing event.
LEMMA QuietEvents ==
  ASSUME NEW r \in Requests, EventsInv(r), published \in [Requests -> Seq(EventNames)],
         published'[r] = published[r], submitted'[r] = submitted[r],
         pc[r] \notin Late \/ store'[r] = store[r],
         pc[r] \in Late => pc'[r] \in Late
  PROVE  EventsInv(r)'
<1>1. CASE pc[r] \in Late
  BY <1>1 DEF EventsInv, Late, Known, Closed
<1>2. CASE pc[r] \notin Late
  <2>1. \A i \in 1..Len(published[r]) : published[r][i] \notin ClosingEvents
    BY <1>2 DEF EventsInv, Late
  <2>2. published[r] # <<>> => published[r][Len(published[r])] \notin ClosingEvents
    BY <2>1
  <2> QED BY <2>1, <2>2 DEF EventsInv, ClosingEvents
<1> QED BY <1>1, <1>2

\* An event other than a closing one is published, before any closing one.
LEMMA OpenEvents ==
  ASSUME NEW r \in Requests, EventsInv(r), published \in [Requests -> Seq(EventNames)],
         NEW e \in EventNames \ ClosingEvents, Publish(r, e), pc[r] \notin Late,
         submitted'[r] = 0 => submitted[r] = 0 /\ e # "supervisory.submitted"
  PROVE  EventsInv(r)'
<1> DEFINE old == published[r]
           new == published'[r]
<1>1. old \in Seq(EventNames) /\ new = Append(old, e)
  BY DEF Publish
<1>2. \A i \in 1..Len(old) : old[i] \notin ClosingEvents
  BY DEF EventsInv, Late
<1>3. submitted'[r] = 0 => \A i \in 1..Len(old) : old[i] # "supervisory.submitted"
  BY DEF EventsInv
<1>4. Len(new) = Len(old) + 1 /\ Len(old) \in Nat /\ new[Len(new)] = e
      /\ \A i \in 1..Len(old) : new[i] = old[i]
  BY <1>1
<1> HIDE DEF old, new
<1>5. \A i \in 1..Len(new) : new[i] = e \/ \E j \in 1..Len(old) : new[i] = old[j]
  BY <1>4
<1>6. \A i \in 1..Len(new) : new[i] \notin ClosingEvents
  BY <1>2, <1>5
<1>7. submitted'[r] = 0 => \A i \in 1..Len(new) : new[i] # "supervisory.submitted"
  BY <1>3, <1>5
<1>8. new[Len(new)] \notin ClosingEvents
  BY <1>4
<1> QED BY <1>6, <1>7, <1>8 DEF EventsInv, ClosingEvents, new

\* Once a provider is selected, the events before it are of no interest.
LEMMA EarlyEventsOver ==
  ASSUME NEW r \in Requests, Resolvable(request[r].tenant_id), request' = request,
         \/ pc'[r] \in {"selected", "submitted"} \cup Ending
         \/ pc'[r] = "returned" /\ store'[r].status \in ClosedStatuses
  PROVE  EarlyInv(r)'
BY DEF EarlyInv, Ending, ClosedStatuses

\* Record and answer keep their status, and nothing is left open at the end.
LEMMA SameVerdict ==
  ASSUME NEW r \in Requests, VerdictInv(r), request' = request,
         store'[r].status = store[r].status, response'[r] = response[r],
         submitted'[r] = submitted[r], enrichment'[r] = enrichment[r],
         pc'[r] \notin {"returned", "done"} \/ store'[r].status # "in_progress"
  PROVE  VerdictInv(r)'
BY DEF VerdictInv, Justified, Decision, MayServe, MayFail, MaySpoil

-----------------------------------------------------------------------------
(* The accounts after each action.                                         *)

LEMMA ResolveTenantAccount ==
  ASSUME IInv, NEW r \in Requests, AccountInv(r), ResolveTenant(r)
  PROVE  AccountInv(r)' /\ Counts(r, {})
<1>1. /\ Publish(r, "tenant.resolved") /\ pc[r] = "new" /\ pc'[r] = "resolved"
      /\ Resolvable(request[r].tenant_id)
      /\ UNCHANGED <<request, enrichment, store, submitted, wire, ingested, response>>
  BY DEF IInv, TypeOK, ResolveTenant, At, Goto, envVars
<1>2. StoryInv(r)'
  BY <1>1, SameStory DEF AccountInv, Serving
<1>3. EventsInv(r)'
  BY <1>1, OpenEvents DEF IInv, TypeOK, AccountInv, Late, EventNames, ClosingEvents
<1>4. VerdictInv(r)'
  BY <1>1, SameVerdict DEF AccountInv
<1>5. Counts(r, {})
  BY <1>1 DEF Counts, CountedUnder, Decision
<1>6. EarlyInv(r)'
  <2>1. published'[r] = Append(<<>>, "tenant.resolved")
    BY <1>1 DEF AccountInv, EarlyInv, Publish, IInv, TypeOK
  <2> QED BY <1>1, <2>1 DEF EarlyInv
<1> QED BY <1>2, <1>3, <1>4, <1>5, <1>6 DEF AccountInv

LEMMA SelectProviderAccount ==
  ASSUME IInv, NEW r \in Requests, AccountInv(r), SelectProvider(r)
  PROVE  AccountInv(r)' /\ Counts(r, {})
<1>1. /\ Publish(r, "provider.selected") /\ pc[r] = "evaluated" /\ pc'[r] = "selected"
      /\ UNCHANGED <<request, enrichment, store, submitted, wire, ingested, response>>
  BY DEF IInv, TypeOK, SelectProvider, At, Goto, envVars
<1>2. StoryInv(r)'
  BY <1>1, SameStory DEF AccountInv
<1>3. EventsInv(r)'
  BY <1>1, OpenEvents DEF IInv, TypeOK, AccountInv, Late, EventNames, ClosingEvents
<1>4. VerdictInv(r)'
  BY <1>1, SameVerdict DEF AccountInv
<1>5. Counts(r, {})
  BY <1>1 DEF Counts, CountedUnder, Decision
<1>6. EarlyInv(r)'
  BY <1>1, EarlyEventsOver DEF IInv, TaskInv, PointInv, Serving
<1> QED BY <1>2, <1>3, <1>4, <1>5, <1>6 DEF AccountInv

LEMMA AnnounceAccount ==
  ASSUME IInv, NEW r \in Requests, AccountInv(r), Announce(r)
  PROVE  AccountInv(r)' /\ Counts(r, {})
<1> DEFINE e == ClosingEvent(store[r].status)
           old == published[r]
           new == published'[r]
<1>1. /\ Publish(r, e) /\ pc[r] = "closed" /\ pc'[r] = "announced"
      /\ UNCHANGED <<request, enrichment, store, submitted, wire, ingested, response>>
  BY DEF IInv, TypeOK, Announce, At, Goto, envVars
<1>2. StoryInv(r)'
  BY <1>1, SameStory DEF AccountInv, Serving
<1>3. EventsInv(r)'
  <2>1. store[r].status \in ClosedStatuses
    BY <1>1 DEF IInv, TaskInv, PointInv, Ending
  <2>2. submitted[r] \in {0, 1} /\ (store[r].status = "completed" <=> submitted[r] = 1)
    BY <2>1 DEF IInv, TaskInv, SubmissionInv
  <2>3. e \in ClosingEvents /\ (e \in {"workflow.blocked", "workflow.fallback"} => submitted[r] = 0)
    BY <2>1, <2>2 DEF ClosingEvent, ClosedStatuses, ClosingEvents
  <2>4. old \in Seq(EventNames) /\ new = Append(old, e)
    BY <1>1 DEF IInv, TypeOK, Publish
  <2>5. submitted[r] = 0 => \A i \in 1..Len(old) : old[i] # "supervisory.submitted"
    BY DEF AccountInv, EventsInv
  <2> HIDE DEF e, old, new
  <2>6. Len(new) = Len(old) + 1 /\ Len(old) \in Nat /\ new[Len(new)] = e
        /\ \A i \in 1..Len(old) : new[i] = old[i]
    BY <2>3, <2>4 DEF ClosingEvents, EventNames
  <2>7. submitted[r] = 0 => \A i \in 1..Len(new) : new[i] # "supervisory.submitted"
    BY <2>3, <2>5, <2>6 DEF ClosingEvents
  <2> QED BY <1>1, <2>1, <2>3, <2>6, <2>7 DEF EventsInv, Closed, e, new
<1>4. VerdictInv(r)'
  BY <1>1, SameVerdict DEF AccountInv
<1>5. Counts(r, {})
  BY <1>1 DEF Counts, CountedUnder, Decision
<1>6. EarlyInv(r)'
  BY <1>1, EarlyEventsOver DEF IInv, TaskInv, PointInv, Ending
<1> QED BY <1>2, <1>3, <1>4, <1>5, <1>6 DEF AccountInv

LEMMA WaitEndsAccount ==
  ASSUME IInv, NEW r \in Requests, AccountInv(r), HandlersReturn(r) \/ PostReturns(r)
  PROVE  AccountInv(r)' /\ Counts(r, {})
<1>1. CASE HandlersReturn(r)
  <2>1. Untouched(r) /\ published' = published
    BY <1>1 DEF HandlersReturn, envVars, Untouched
  <2> QED BY <2>1, UntouchedAccount DEF Counts
<1>2. CASE PostReturns(r)
  <2>1. /\ pc[r] = "sending" /\ pc'[r] = "closed"
        /\ UNCHANGED <<request, enrichment, store, published, submitted, wire, ingested,
                       response>>
    BY <1>2 DEF IInv, TypeOK, PostReturns, Goto, envVars
  <2>2. StoryInv(r)'
    BY <2>1, SameStory DEF AccountInv, Serving
  <2>3. EventsInv(r)'
    BY <2>1, QuietEvents DEF IInv, TypeOK, AccountInv, Late
  <2>4. VerdictInv(r)'
    BY <2>1, SameVerdict DEF AccountInv
  <2>5. Counts(r, {})
    BY <2>1 DEF Counts, CountedUnder, Decision
  <2>6. EarlyInv(r)'
    BY <2>1, EarlyEventsOver DEF IInv, TaskInv, PointInv, Ending
  <2> QED BY <2>2, <2>3, <2>4, <2>5, <2>6 DEF AccountInv
<1> QED BY <1>1, <1>2

LEMMA RefuseUnknownTenantAccount ==
  ASSUME IInv, NEW r \in Requests, AccountInv(r), RefuseUnknownTenant(r)
  PROVE  AccountInv(r)' /\ Counts(r, {})
<1>1. /\ pc[r] = "new" /\ pc'[r] = "returned"
      /\ UNCHANGED <<request, enrichment, store, published, submitted, wire, ingested, response>>
  BY DEF IInv, TypeOK, RefuseUnknownTenant, At, Goto, envVars
<1>2. store[r] = NoRecord
  BY <1>1 DEF IInv, TaskInv, PointInv
<1>3. StoryInv(r)'
  BY <1>1, SameStory DEF AccountInv, Serving
<1>4. EventsInv(r)'
  BY <1>1, QuietEvents DEF IInv, TypeOK, AccountInv, Late
<1>5. EarlyInv(r)'
  BY <1>1, <1>2, MissingRecord DEF AccountInv, EarlyInv
<1>6. VerdictInv(r)'
  BY <1>1, <1>2, SameVerdict, MissingRecord DEF AccountInv
<1>7. Counts(r, {})
  BY <1>1, <1>2, MissingRecord
     DEF Counts, CountedUnder, OutcomeLabel, ClosedStatuses, Decision
<1> QED BY <1>3, <1>4, <1>5, <1>6, <1>7 DEF AccountInv

LEMMA ProviderMissingAccount ==
  ASSUME IInv, RegistryInv, NEW r \in Requests, AccountInv(r), ProviderMissing(r)
  PROVE  AccountInv(r)' /\ Counts(r, {})
<1>1. /\ pc[r] = "evaluated" /\ pc'[r] = "returned"
      /\ Decision(r).allowed /\ registry[SelectedName(r)] = NoProvider
      /\ UNCHANGED <<request, enrichment, store, published, submitted, wire, ingested, response>>
  BY DEF IInv, TypeOK, ProviderMissing, At, Goto, envVars
<1>2. /\ store[r] \in Records /\ store[r].status = "in_progress"
      /\ Resolvable(request[r].tenant_id)
  BY <1>1 DEF IInv, TaskInv, PointInv, Serving
<1>3. MayBeMissing
  BY <1>1, <1>2, DecideRoutes DEF RegistryInv, Decision, SelectedName
<1>4. StoryInv(r)'
  BY <1>1, SameStory DEF AccountInv, Serving
<1>5. EventsInv(r)'
  BY <1>1, QuietEvents DEF IInv, TypeOK, AccountInv, Late
<1>6. EarlyInv(r)'
  BY <1>1, <1>2 DEF AccountInv, EarlyInv
<1>7. VerdictInv(r)'
  BY <1>1, <1>3
     DEF AccountInv, VerdictInv, Justified, Decision, MayServe, MayFail, MaySpoil
<1>8. Counts(r, {})
  BY <1>1, <1>2 DEF Counts, CountedUnder, OutcomeLabel, Decision
<1> QED BY <1>4, <1>5, <1>6, <1>7, <1>8 DEF AccountInv

LEMMA EvaluatePolicyAccount ==
  ASSUME IInv, NEW r \in Requests, AccountInv(r), EvaluatePolicy(r)
  PROVE  AccountInv(r)' /\ Counts(r, {IF Decision(r).allowed THEN "allowed" ELSE "denied"})
<1> DEFINE started == StartRecord(TenantOf(r))
           record == AddEvent(started, "POLICY_EVALUATED")
<1>1. /\ Publish(r, "policy.evaluated") /\ pc[r] = "resolved" /\ pc'[r] = "evaluated"
      /\ store'[r] = record
      /\ UNCHANGED <<request, enrichment, submitted, wire, ingested, response>>
  BY DEF IInv, TypeOK, EvaluatePolicy, At, Goto, envVars
<1>2. /\ store[r] = NoRecord /\ submitted[r] = 0
      /\ TenantOf(r) \in Tenants /\ TenantOf(r) = request[r].tenant_id.key
      /\ wire[r] = NoRecord /\ ingested[r] = NoRecord
  BY <1>1, RegistryKeyOfResolved
     DEF IInv, TaskInv, PointInv, SubmissionInv, EvidenceInv, TenantOf
<1>3. /\ record \in Records /\ record.status = "in_progress" /\ record.provider_name = None
      /\ record.tenant_id = request[r].tenant_id.key /\ record.events = Opening
  <2>1. /\ started \in Records /\ started.status = "in_progress"
        /\ started.tenant_id = TenantOf(r) /\ started.provider_name = None
        /\ started.events = <<"WORKFLOW_STARTED">>
    BY <1>2, StartRecordType
  <2> HIDE DEF started
  <2>2. /\ record \in Records /\ record.status = started.status
        /\ record.provider_name = started.provider_name
        /\ record.tenant_id = started.tenant_id
        /\ record.events = Append(started.events, "POLICY_EVALUATED")
    BY <2>1, AddEventType DEF EventTypes
  <2>3. Append(<<"WORKFLOW_STARTED">>, "POLICY_EVALUATED") = Opening
    BY AppendOne DEF Opening
  <2> HIDE DEF record
  <2> QED BY <1>2, <2>1, <2>2, <2>3
<1> HIDE DEF record
<1>4. StoryInv(r)'
  <2>1. LegalTrail(record)
    BY <1>3, LegalTrails
  <2> QED BY <1>1, <1>2, <1>3, <2>1, MissingRecord DEF StoryInv, Tells
<1>5. EventsInv(r)'
  BY <1>1, <1>2, OpenEvents DEF IInv, TypeOK, AccountInv, Late, EventNames, ClosingEvents
<1>6. VerdictInv(r)'
  BY <1>1, <1>2, <1>3
     DEF AccountInv, VerdictInv, Justified, ClosedStatuses, Decision, MayServe, MayFail, MaySpoil
<1>7. Counts(r, {IF Decision(r).allowed THEN "allowed" ELSE "denied"})
  BY <1>1, <1>2, <1>3, MissingRecord DEF Counts, CountedUnder, ClosedStatuses, Decision
<1>8. EarlyInv(r)'
  <2>1. published'[r] = Append(<<"tenant.resolved">>, "policy.evaluated")
    BY <1>1 DEF AccountInv, EarlyInv, Publish, IInv, TypeOK
  <2>2. Resolvable(request[r].tenant_id)
    BY <1>1 DEF IInv, TaskInv, PointInv
  <2> QED BY <1>1, <2>1, <2>2, AppendOne DEF EarlyInv
<1> QED BY <1>4, <1>5, <1>6, <1>7, <1>8 DEF AccountInv

LEMMA SubmitEnrichedAccount ==
  ASSUME IInv, NEW r \in Requests, AccountInv(r), SubmitEnriched(r)
  PROVE  AccountInv(r)' /\ Counts(r, {"accepted"})
<1> DEFINE open == store[r]
           record == AddEvent(open, "PROVIDER_SELECTED")
<1>1. /\ Publish(r, "supervisory.submitted") /\ pc[r] = "selected" /\ pc'[r] = "submitted"
      /\ store'[r] = record /\ submitted'[r] = submitted[r] + 1
      /\ UNCHANGED <<request, wire, ingested, response>>
  BY DEF IInv, TypeOK, SubmitEnriched, SubmitReport, At, Goto, envVars
<1>2. /\ open \in Records /\ open.status = "in_progress" /\ submitted[r] = 0
      /\ wire[r] = NoRecord /\ ingested[r] = NoRecord /\ provider[r] \in Providers
      /\ response[r] = NoResponse
  BY <1>1 DEF IInv, TaskInv, PointInv, SubmissionInv, EvidenceInv, Serving, InFlight, Points
<1>3. open.events = Opening /\ Tells(r, open)
  BY <1>1, <1>2, MissingRecord DEF AccountInv, StoryInv
<1>4. MayServe(r) /\ (enrichment'[r] = "non_finite" => MaySpoil(r))
  BY <1>2 DEF SubmitEnriched, MayServe, MaySpoil, IInv, TypeOK
<1>5. /\ record \in Records /\ record.status = "in_progress"
      /\ record.provider_name = open.provider_name /\ record.tenant_id = open.tenant_id
      /\ record.events = Append(Opening, "PROVIDER_SELECTED")
  <2> HIDE DEF open
  <2> QED BY <1>2, <1>3, AddEventType DEF EventTypes
<1> HIDE DEF record
<1>6. StoryInv(r)'
  <2>1. LegalTrail(record)
    BY <1>5, LegalTrails
  <2> QED BY <1>1, <1>2, <1>3, <1>5, <2>1, MissingRecord DEF StoryInv, Tells
<1>7. EventsInv(r)'
  <2>1. submitted'[r] # 0
    BY <1>1, <1>2
  <2> QED BY <1>1, <2>1, OpenEvents DEF IInv, TypeOK, AccountInv, Late, EventNames, ClosingEvents
<1>8. VerdictInv(r)'
  BY <1>1, <1>2, <1>4, <1>5
     DEF VerdictInv, Justified, ClosedStatuses, Decision, MayServe, MayFail, MaySpoil, NoResponse,
         ErrorResponse
<1>9. Counts(r, {"accepted"})
  BY <1>1, <1>2, <1>5, MissingRecord DEF Counts, CountedUnder, ClosedStatuses, Decision
<1>10. EarlyInv(r)'
  BY <1>1, EarlyEventsOver DEF IInv, TaskInv, PointInv, Serving
<1> QED BY <1>6, <1>7, <1>8, <1>9, <1>10 DEF AccountInv

\* finalize, with whatever record it closes: denied, completed or failed.
LEMMA ConcludeAccount ==
  ASSUME IInv, NEW r \in Requests, AccountInv(r), pc[r] \in Serving,
         NEW closed \in Records, Conclude(r, closed), closed.status \in ClosedStatuses,
         Tells(r, closed), Justified(r, closed.status),
         UNCHANGED <<request, enrichment, published, submitted, ingested, response>>
  PROVE  AccountInv(r)' /\ Counts(r, IF closed.status = "blocked" THEN {"none"} ELSE {})
<1>1. /\ store[r] \in Records /\ store[r].status = "in_progress"
      /\ wire[r] = NoRecord /\ ingested[r] = NoRecord /\ response[r] = NoResponse
  BY DEF IInv, TaskInv, PointInv, EvidenceInv, Serving, InFlight, Points
<1>2. /\ pc'[r] \in {"sending", "closed"} /\ store'[r] = closed
      /\ wire'[r] \in {closed, NoRecord}
  BY <1>1, ConcludeType DEF IInv, TypeOK
<1>3. StoryInv(r)'
  BY <1>1, <1>2, MissingRecord DEF StoryInv, Tells, Closed
<1>4. EventsInv(r)'
  BY <1>2, QuietEvents DEF IInv, TypeOK, AccountInv, Late, Serving
<1>5. VerdictInv(r)'
  BY <1>1, <1>2
     DEF AccountInv, VerdictInv, Justified, Decision, MayServe, MayFail, MaySpoil, NoResponse,
         ClosedStatuses
<1>6. Counts(r, IF closed.status = "blocked" THEN {"none"} ELSE {})
  BY <1>1, <1>2, MissingRecord
     DEF Counts, CountedUnder, ClosedStatuses, Decision, Serving
<1>7. EarlyInv(r)'
  BY <1>2, EarlyEventsOver DEF IInv, TaskInv, PointInv, Ending
<1> QED BY <1>3, <1>4, <1>5, <1>6, <1>7 DEF AccountInv

LEMMA BlockReportAccount ==
  ASSUME IInv, NEW r \in Requests, AccountInv(r), BlockReport(r)
  PROVE  AccountInv(r)' /\ Counts(r, {"none"})
<1> DEFINE open == store[r]
           record == Finalize(open, "blocked", "denied", None, None)
<1>1. /\ Conclude(r, record) /\ pc[r] = "evaluated" /\ ~Decision(r).allowed
      /\ UNCHANGED <<request, enrichment, published, submitted, ingested, response>>
  BY DEF BlockReport, At, envVars
<1>2. /\ open \in Records /\ open.events = Opening /\ Tells(r, open)
      /\ open.provider_name = None
  BY <1>1, MissingRecord DEF IInv, TaskInv, PointInv, Serving, AccountInv, StoryInv, Tells
<1>3. /\ record \in Records /\ record.status = "blocked"
      /\ record.provider_name = open.provider_name /\ record.tenant_id = open.tenant_id
      /\ record.events = Append(Opening, "WORKFLOW_COMPLETED")
  <2> HIDE DEF open
  <2> QED BY <1>2, FinalizeType DEF ClosedStatuses, DecisionOutcomes
<1> HIDE DEF record
<1>4. LegalTrail(record)
  BY <1>3, LegalTrails
<1>5. Tells(r, record) /\ Justified(r, record.status) /\ record.status \in ClosedStatuses
  BY <1>1, <1>2, <1>3, <1>4 DEF Tells, Justified, ClosedStatuses
<1> QED BY <1>1, <1>3, <1>5, ConcludeAccount DEF Serving

\* A completed record has the one trail of a report that went out.
LEMMA CompleteReportAccount ==
  ASSUME IInv, NEW r \in Requests, AccountInv(r), CompleteReport(r)
  PROVE  AccountInv(r)' /\ Counts(r, {})
<1> DEFINE open == store[r]
           name == SelectedName(r)
           hash == enrichment[r]
           record == Finalize(open, "completed", "approved", name, hash)
<1>1. /\ Conclude(r, record) /\ pc[r] = "submitted"
      /\ UNCHANGED <<request, enrichment, published, submitted, ingested, response>>
  BY DEF CompleteReport, At, envVars
<1>2. /\ open \in Records /\ hash \in Enrichments /\ submitted[r] = 1
      /\ Resolvable(request[r].tenant_id) /\ Decision(r).allowed
  BY <1>1 DEF IInv, TaskInv, PointInv, SubmissionInv, Serving
<1>3. open.events = Append(Opening, "PROVIDER_SELECTED") /\ Tells(r, open) /\ MayServe(r)
  BY <1>1, <1>2, MissingRecord DEF AccountInv, StoryInv, VerdictInv
<1>4. name \in ProviderNames /\ name = ContractedProvider(request[r].tenant_id.key)
  BY <1>2, DecideRoutes, RegistryKeyOfResolved DEF Decision, SelectedName
<1>5. /\ record \in Records /\ record.status = "completed"
      /\ record.provider_name = name /\ record.tenant_id = open.tenant_id
      /\ record.events = Append(Append(Opening, "PROVIDER_SELECTED"), "WORKFLOW_COMPLETED")
  <2>1. name \in ProviderNames \cup {None} /\ name # None
    BY <1>4 DEF ProviderNames, None
  <2>2. /\ hash \in Enrichments \cup {None} /\ "completed" \in ClosedStatuses
        /\ "approved" \in DecisionOutcomes
    BY <1>2 DEF ClosedStatuses, DecisionOutcomes
  <2> HIDE DEF open, name, hash
  <2>3. /\ record \in Records /\ record.status = "completed"
        /\ record.provider_name = name /\ record.tenant_id = open.tenant_id
        /\ record.events = Append(open.events, "WORKFLOW_COMPLETED")
    BY <1>2, <2>1, <2>2, FinalizeType
  <2> QED BY <1>3, <2>3
<1> HIDE DEF record
<1>6. LegalTrail(record)
  BY <1>5, LegalTrails
<1>7. Tells(r, record) /\ Justified(r, record.status) /\ record.status \in ClosedStatuses
  BY <1>2, <1>3, <1>4, <1>5, <1>6 DEF Tells, Justified, ClosedStatuses
<1> QED BY <1>1, <1>5, <1>7, ConcludeAccount DEF Serving

\* A failed provider leaves one of four trails, by its strategy and by whether
\* its answer had been noted.
LEMMA ProviderFailsAccount ==
  ASSUME IInv, NEW r \in Requests, AccountInv(r), ProviderFails(r)
  PROVE  AccountInv(r)' /\ Counts(r, {})
<1> DEFINE open == store[r]
           noted == AddEvent(open, "PROVIDER_SELECTED")
           name == SelectedName(r)
<1>1. /\ pc[r] = "selected"
      /\ UNCHANGED <<request, enrichment, published, submitted, ingested, response>>
  BY DEF ProviderFails, At, envVars
<1>2. /\ open \in Records /\ provider[r] \in Providers
      /\ Resolvable(request[r].tenant_id) /\ Decision(r).allowed
  BY <1>1 DEF IInv, TaskInv, PointInv, Serving
<1>3. open.events = Opening /\ Tells(r, open)
  BY <1>1, <1>2, MissingRecord DEF AccountInv, StoryInv
<1>4. name \in ProviderNames /\ name = ContractedProvider(request[r].tenant_id.key)
  BY <1>2, DecideRoutes, RegistryKeyOfResolved DEF Decision, SelectedName
<1>5. /\ noted \in Records /\ noted.tenant_id = open.tenant_id
      /\ noted.events = Append(Opening, "PROVIDER_SELECTED")
  <2> HIDE DEF open
  <2> QED BY <1>2, <1>3, AddEventType DEF EventTypes
<1>6. MayFail(r)
  <2>1. {"raised", "unserializable"} \cap ProviderOutcomes(provider[r], request[r]) # {}
    BY DEF ProviderFails
  <2> QED BY <1>2, <2>1 DEF MayFail, Enrichments
<1>7. PICK record \in {open, noted} : ConcludeFailure(r, record)
  BY DEF ProviderFails
<1>8. /\ record \in Records /\ record.tenant_id = request[r].tenant_id.key
      /\ record.events \in {Opening, Append(Opening, "PROVIDER_SELECTED")}
  BY <1>2, <1>3, <1>5, <1>7 DEF Tells
<1> HIDE DEF noted
<1>9. PICK closed \in Records :
        /\ Conclude(r, closed)
        /\ closed.tenant_id = record.tenant_id /\ closed.provider_name = name
        /\ \/ /\ closed.status = "blocked_provider_failure"
              /\ closed.events = FailedTrail(record.events, "PROVIDER_FALLBACK_BLOCKED")
           \/ /\ closed.status = "fallback"
              /\ closed.events = FailedTrail(record.events, "PROVIDER_FALLBACK_APPLIED")
  BY <1>2, <1>4, <1>7, <1>8, ConcludeFailureRecord
<1>10. LegalTrail(closed)
  BY <1>8, <1>9, LegalTrails
<1>11. /\ Tells(r, closed) /\ Justified(r, closed.status)
       /\ closed.status \in ClosedStatuses \ {"blocked"}
  BY <1>2, <1>4, <1>6, <1>8, <1>9, <1>10 DEF Tells, Justified, ClosedStatuses
<1> QED BY <1>1, <1>9, <1>11, ConcludeAccount DEF Serving

\* What process_report returns is counted under its outcome.
LEMMA ReturnAccount ==
  ASSUME IInv, NEW r \in Requests, AccountInv(r), NEW status \in ClosedStatuses,
         NEW L, L = OutcomeLabel(status), Return(r, status, L)
  PROVE  L \in SUBSET Labels /\ AccountInv(r)' /\ Counts(r, L)
<1>1. /\ pc[r] = "announced" /\ pc'[r] = "returned" /\ store[r].status = status
      /\ UNCHANGED <<request, enrichment, store, published, submitted, wire, ingested, response>>
  BY DEF IInv, TypeOK, Return, At, Goto, envVars
<1>2. L \in SUBSET {"ok", "fallback", "blocked_fail_closed"}
  BY DEF OutcomeLabel
<1>3. StoryInv(r)'
  BY <1>1, SameStory DEF AccountInv, Serving
<1>4. EventsInv(r)'
  BY <1>1, QuietEvents DEF IInv, TypeOK, AccountInv, Late
<1>5. EarlyInv(r)'
  BY <1>1, EarlyEventsOver DEF IInv, TaskInv, PointInv, Ending
<1>6. VerdictInv(r)'
  BY <1>1, SameVerdict DEF AccountInv, ClosedStatuses
<1>7. Counts(r, L)
  <2>1. CountedUnder(r)' = CountedUnder(r) \cup L
    BY <1>1 DEF CountedUnder, Decision
  <2>2. CountedUnder(r) \subseteq {"allowed", "denied", "none", "accepted"}
    BY <1>1 DEF CountedUnder
  <2> QED BY <1>2, <2>1, <2>2 DEF Counts
<1> QED BY <1>2, <1>3, <1>4, <1>5, <1>6, <1>7 DEF AccountInv, Labels, ProviderLabels

LEMMA ReturnsAccount ==
  ASSUME IInv, NEW r \in Requests, AccountInv(r),
         ReturnDenied(r) \/ ReturnCompleted(r) \/ ReturnBlocked(r) \/ ReturnFallback(r)
  PROVE  \E L \in SUBSET Labels : Count(L) /\ AccountInv(r)' /\ Counts(r, L)
<1>1. PICK status \in ClosedStatuses : Return(r, status, OutcomeLabel(status))
  BY DEF ReturnDenied, ReturnCompleted, ReturnBlocked, ReturnFallback, OutcomeLabel,
         ClosedStatuses
<1>2. Count(OutcomeLabel(status))
  BY <1>1 DEF Return
<1> QED BY <1>1, <1>2, ReturnAccount

\* The answer is counted under the status it is sent with.
LEMMA RespondAccount ==
  ASSUME IInv, NEW r \in Requests, AccountInv(r), Respond(r)
  PROVE  \E L \in SUBSET Labels : Count(L) /\ AccountInv(r)' /\ Counts(r, L)
<1> DEFINE answer == Rendered(r)
           L == {IF answer = ErrorResponse THEN "500" ELSE "200"}
<1>1. /\ pc[r] = "returned" /\ pc'[r] = "done" /\ Count(L) /\ response'[r] = answer
      /\ UNCHANGED <<request, enrichment, store, published, submitted, wire, ingested>>
  BY DEF IInv, TypeOK, Respond, At, Goto, envVars
<1>2. L \in SUBSET Labels
  BY DEF Labels
<1>3. /\ answer.status \in ClosedStatuses => answer.status = store[r].status
      /\ answer.status \notin ClosedStatuses => answer = ErrorResponse
      /\ answer = ErrorResponse /\ store[r].status \in ClosedStatuses =>
           enrichment[r] = "non_finite"
  BY RenderedAnswer
<1> HIDE DEF answer
<1>4. StoryInv(r)'
  BY <1>1, SameStory DEF AccountInv, Serving
<1>5. EventsInv(r)'
  BY <1>1, QuietEvents DEF IInv, TypeOK, AccountInv, Late
<1>6. EarlyInv(r)'
  BY <1>1 DEF AccountInv, EarlyInv
<1>7. VerdictInv(r)'
  <2>1. /\ Justified(r, store[r].status)' /\ (submitted[r] = 1 => MayServe(r))'
        /\ (enrichment[r] = "non_finite" => MaySpoil(r))'
        /\ store'[r].status = "in_progress" => MayBeMissing
    BY <1>1 DEF AccountInv, VerdictInv, Justified, Decision, MayServe, MayFail, MaySpoil
  <2>2. Justified(r, response[r].status)'
    BY <1>1, <1>3, <2>1 DEF Justified, ErrorResponse, ClosedStatuses
  <2>3. \/ store[r].status \in ClosedStatuses \cup {"in_progress"}
        \/ ~Resolvable(request[r].tenant_id)
    BY <1>1 DEF IInv, TaskInv, PointInv, Records, Statuses
  <2>4. response'[r] = ErrorResponse =>
          ~Resolvable(request[r].tenant_id) \/ MayBeMissing \/ MaySpoil(r)
    BY <1>1, <1>3, <2>3 DEF AccountInv, VerdictInv
  <2> QED BY <1>1, <2>1, <2>2, <2>4 DEF VerdictInv, MaySpoil
<1>8. Counts(r, L)
  <2>1. CountedUnder(r)' = CountedUnder(r) \cup L
    BY <1>1 DEF CountedUnder, Decision
  <2>2. CountedUnder(r) \cap {"200", "500"} = {}
    BY <1>1 DEF CountedUnder, OutcomeLabel
  <2> QED BY <2>1, <2>2 DEF Counts
<1> QED BY <1>1, <1>2, <1>4, <1>5, <1>6, <1>7, <1>8 DEF AccountInv

\* A message reaches the ingester or does not; the accounts stay the same.
LEMMA NetworkAccount ==
  ASSUME IInv, NEW r \in Requests, AccountInv(r), IngesterStores(r) \/ PostLost(r)
  PROVE  AccountInv(r)' /\ Counts(r, {})
<1>1. /\ wire'[r] = NoRecord /\ ingested'[r] \in {wire[r], ingested[r]}
      /\ UNCHANGED <<pc, request, enrichment, store, published, submitted, response>>
  BY DEF IInv, TypeOK, IngesterStores, PostLost, taskVars, envVars
<1>2. StoryInv(r)'
  BY <1>1 DEF AccountInv, StoryInv, Tells, Closed
<1>3. EventsInv(r)'
  BY <1>1 DEF AccountInv, EventsInv, Known, Closed
<1>4. VerdictInv(r)'
  BY <1>1 DEF AccountInv, VerdictInv, Justified, Decision, MayServe, MayFail, MaySpoil
<1>5. Counts(r, {})
  BY <1>1 DEF Counts, CountedUnder, Decision
<1>6. EarlyInv(r)'
  BY <1>1 DEF AccountInv, EarlyInv
<1> QED BY <1>2, <1>3, <1>4, <1>5, <1>6 DEF AccountInv

\* After a process death only what has left the process is told, and nobody is
\* counted.
LEMMA RestartAccount ==
  ASSUME IInv, NEW r \in Requests, AccountInv(r), Restart
  PROVE  AccountInv(r)' /\ CountedUnder(r)' = {}
<1>1. /\ pc'[r] = IF pc[r] = "new" THEN "new" ELSE "lost"
      /\ store'[r] = NoRecord /\ enrichment'[r] = None
      /\ UNCHANGED <<request, published, submitted, wire, ingested, response>>
  BY DEF Restart
<1>2. StoryInv(r)'
  BY <1>1 DEF AccountInv, StoryInv, Tells, Closed
<1>3. EventsInv(r)'
  BY <1>1 DEF AccountInv, EventsInv, Known
<1>4. VerdictInv(r)'
  BY <1>1, MissingRecord
     DEF AccountInv, VerdictInv, Justified, ClosedStatuses, Decision, MayServe, MayFail, MaySpoil,
         None
<1>5. pc[r] = "new" => submitted[r] = 0
  BY DEF IInv, TaskInv, SubmissionInv
<1>6. CountedUnder(r)' = {}
  BY <1>1, <1>5, MissingRecord DEF CountedUnder, ClosedStatuses
<1>7. EarlyInv(r)'
  BY <1>1 DEF AccountInv, EarlyInv
<1> QED BY <1>2, <1>3, <1>4, <1>6, <1>7 DEF AccountInv

-----------------------------------------------------------------------------
(* The counters.                                                           *)

Accounts == RegistryInv /\ (\A r \in Requests : AccountInv(r)) /\ CountInv

\* Requests that were not begun are counted nowhere, so each label counts
\* finitely many.
LEMMA CountedIsFinite ==
  ASSUME IInv, CountInv, NEW l
  PROVE  IsFiniteSet(Counted(l))
<1>1. ASSUME NEW r \in Requests, pc[r] = "new" PROVE CountedUnder(r) = {}
  <2>1. store[r] = NoRecord /\ submitted[r] = 0
    BY <1>1 DEF IInv, TaskInv, PointInv, SubmissionInv
  <2> QED BY <1>1, <2>1, MissingRecord DEF CountedUnder, ClosedStatuses
<1>2. Counted(l) \subseteq {r \in Requests : pc[r] # "new"}
  BY <1>1 DEF Counted
<1> QED BY <1>2, FS_Subset DEF CountInv

\* The accounts survive a step of one task that counts it as it should.
LEMMA OneTaskAccount ==
  ASSUME IInv, Accounts, NEW r \in Requests, AccountInv(r)',
         NEW L \in SUBSET Labels, Counts(r, L), Count(L) \/ (L = {} /\ metric' = metric),
         \A q \in Requests \ {r} : Untouched(q) /\ published'[q] = published[q],
         registry' = registry
  PROVE  Accounts'
<1>1. \A q \in Requests \ {r} : AccountInv(q)' /\ CountedUnder(q)' = CountedUnder(q)
  BY UntouchedAccount DEF Accounts
<1>2. IsFiniteSet({q \in Requests : pc'[q] # "new"})
  <2> DEFINE begun == {q \in Requests : pc[q] # "new"}
  <2>1. IsFiniteSet(begun)
    BY DEF Accounts, CountInv
  <2>2. {q \in Requests : pc'[q] # "new"} \subseteq begun \cup {r}
    BY DEF Untouched
  <2> HIDE DEF begun
  <2>3. IsFiniteSet(begun \cup {r})
    BY <2>1, FS_AddElement
  <2> QED BY <2>2, <2>3, FS_Subset
<1>3. ASSUME NEW l \in Labels PROVE metric'[l] = Cardinality(Counted(l)')
  <2>1. IsFiniteSet(Counted(l)) /\ metric[l] = Cardinality(Counted(l))
    BY CountedIsFinite DEF Accounts, CountInv
  <2>2. CASE l \in L
    <3>1. r \notin Counted(l) /\ Counted(l)' = Counted(l) \cup {r}
      BY <1>1, <2>2 DEF Counted, Counts
    <3>2. Cardinality(Counted(l) \cup {r}) = Cardinality(Counted(l)) + 1
      BY <2>1, <3>1, FS_AddElement
    <3>3. metric'[l] = metric[l] + 1
      BY <2>2 DEF Count
    <3> QED BY <2>1, <3>1, <3>2, <3>3
  <2>3. CASE l \notin L
    <3>1. Counted(l)' = Counted(l)
      BY <1>1, <2>3 DEF Counted, Counts
    <3>2. metric'[l] = metric[l]
      BY <2>3 DEF Count
    <3> QED BY <2>1, <3>1, <3>2
  <2> QED BY <2>2, <2>3
<1>4. RegistryInv'
  BY DEF Accounts, RegistryInv
<1> QED BY <1>1, <1>2, <1>3, <1>4 DEF Accounts, CountInv

LEMMA InitAccounts == Init => Accounts
<1> SUFFICES ASSUME Init PROVE Accounts
  OBVIOUS
<1>1. ASSUME NEW r \in Requests PROVE AccountInv(r) /\ CountedUnder(r) = {}
  <2>1. /\ pc[r] = "new" /\ store[r] = NoRecord /\ published[r] = <<>> /\ submitted[r] = 0
        /\ wire[r] = NoRecord /\ ingested[r] = NoRecord /\ response[r] = NoResponse
        /\ enrichment[r] = None
    BY DEF Init
  <2>2. StoryInv(r) /\ EventsInv(r) /\ EarlyInv(r)
    BY <2>1 DEF StoryInv, EventsInv, EarlyInv
  <2>3. VerdictInv(r)
    BY <2>1, MissingRecord
       DEF VerdictInv, Justified, NoResponse, ErrorResponse, ClosedStatuses, None
  <2>4. CountedUnder(r) = {}
    BY <2>1, MissingRecord DEF CountedUnder, ClosedStatuses
  <2> QED BY <2>2, <2>3, <2>4 DEF AccountInv
<1>2. {r \in Requests : pc[r] # "new"} = {}
  BY DEF Init
<1>3. ASSUME NEW l \in Labels PROVE metric[l] = Cardinality(Counted(l))
  <2>1. Counted(l) = {} /\ metric[l] = 0
    BY <1>1 DEF Counted, Init
  <2> QED BY <2>1, FS_EmptySet
<1>4. RegistryInv
  BY DEF Init, RegistryInv, MayBeMissing
<1> QED BY <1>1, <1>2, <1>3, <1>4, FS_EmptySet DEF Accounts, CountInv

\* A step of one task leaves what concerns the others alone.
LEMMA OthersUntouched ==
  ASSUME TypeOK, NEW r \in Requests, NEW q \in Requests \ {r},
         \/ Arrive(r) \/ EngineStep(r) \/ ProviderAnswers(r)
         \/ HandlersReturn(r) \/ PostReturns(r) \/ IngesterStores(r) \/ PostLost(r)
  PROVE  Untouched(q) /\ published'[q] = published[q]
<1>1. CASE Arrive(r)
  BY <1>1 DEF TypeOK, Arrive, ResolveTenant, RefuseUnknownTenant, Publish, Goto,
              envVars, Untouched
<1>2. CASE EngineStep(r)
  <2>1. CASE EvaluatePolicy(r) \/ SelectProvider(r) \/ Announce(r)
    BY <2>1 DEF TypeOK, EvaluatePolicy, SelectProvider, Announce, Publish, Goto, envVars,
                Untouched
  <2>2. CASE BlockReport(r) \/ CompleteReport(r)
    BY <2>2 DEF TypeOK, BlockReport, CompleteReport, Conclude, Goto, envVars, Untouched
  <2>3. CASE ProviderMissing(r) \/ Respond(r)
    BY <2>3 DEF TypeOK, ProviderMissing, Respond, Goto, envVars, Untouched
  <2>4. CASE ReturnDenied(r) \/ ReturnCompleted(r) \/ ReturnBlocked(r) \/ ReturnFallback(r)
    BY <2>4 DEF TypeOK, ReturnDenied, ReturnCompleted, ReturnBlocked, ReturnFallback, Return,
                Goto, envVars, Untouched
  <2> QED BY <1>2, <2>1, <2>2, <2>3, <2>4 DEF EngineStep
<1>3. CASE SubmitEnriched(r)
  BY <1>3 DEF TypeOK, SubmitEnriched, SubmitReport, Publish, Goto, envVars, Untouched
<1>4. CASE ProviderFails(r)
  BY <1>4 DEF TypeOK, ProviderFails, ConcludeFailure, Conclude, Goto, envVars, Untouched
<1>5. CASE HandlersReturn(r) \/ PostReturns(r)
  BY <1>5 DEF TypeOK, HandlersReturn, PostReturns, Goto, envVars, Untouched
<1>6. CASE IngesterStores(r) \/ PostLost(r)
  BY <1>6 DEF TypeOK, IngesterStores, PostLost, taskVars, envVars, Untouched
<1> QED BY <1>1, <1>2, <1>3, <1>4, <1>5, <1>6 DEF ProviderAnswers

\* Only register() and the start of a process touch the registry.
LEMMA OwnStepsKeepRegistry ==
  ASSUME NEW r \in Requests,
         \/ Arrive(r) \/ EngineStep(r) \/ ProviderAnswers(r)
         \/ HandlersReturn(r) \/ PostReturns(r) \/ IngesterStores(r) \/ PostLost(r)
  PROVE  registry' = registry
BY DEF Arrive, ResolveTenant, RefuseUnknownTenant, EngineStep, EvaluatePolicy, BlockReport,
       SelectProvider, ProviderMissing, CompleteReport, Announce, ReturnDenied, ReturnCompleted,
       ReturnBlocked, ReturnFallback, Return, Respond, ProviderAnswers, SubmitEnriched,
       ProviderFails, HandlersReturn, PostReturns, IngesterStores, PostLost, envVars

LEMMA NextAccounts == IInv /\ Accounts /\ [Next]_vars => Accounts'
<1> SUFFICES ASSUME IInv, Accounts, [Next]_vars PROVE Accounts'
  OBVIOUS
<1> DEFINE Tallied(r) ==
      \E L \in SUBSET Labels :
        AccountInv(r)' /\ Counts(r, L) /\ (Count(L) \/ (L = {} /\ metric' = metric))
<1>1. ASSUME NEW r \in Requests, Arrive(r) PROVE Tallied(r)
  <2>1. CASE ResolveTenant(r)
    BY <2>1, ResolveTenantAccount DEF Accounts, ResolveTenant
  <2>2. CASE RefuseUnknownTenant(r)
    BY <2>2, RefuseUnknownTenantAccount DEF Accounts, RefuseUnknownTenant
  <2> QED BY <1>1, <2>1, <2>2 DEF Arrive
<1>2. ASSUME NEW r \in Requests, EngineStep(r) PROVE Tallied(r)
  <2>1. CASE EvaluatePolicy(r)
    BY <2>1, EvaluatePolicyAccount DEF Accounts, EvaluatePolicy, Labels
  <2>2. CASE BlockReport(r)
    BY <2>2, BlockReportAccount DEF Accounts, BlockReport, Labels, ProviderLabels
  <2>3. CASE SelectProvider(r)
    BY <2>3, SelectProviderAccount DEF Accounts, SelectProvider
  <2>4. CASE ProviderMissing(r)
    BY <2>4, ProviderMissingAccount DEF Accounts, ProviderMissing
  <2>5. CASE CompleteReport(r)
    BY <2>5, CompleteReportAccount DEF Accounts, CompleteReport
  <2>6. CASE Announce(r)
    BY <2>6, AnnounceAccount DEF Accounts, Announce
  <2>7. CASE ReturnDenied(r) \/ ReturnCompleted(r) \/ ReturnBlocked(r) \/ ReturnFallback(r)
    BY <2>7, ReturnsAccount DEF Accounts
  <2>8. CASE Respond(r)
    BY <2>8, RespondAccount DEF Accounts
  <2> QED BY <1>2, <2>1, <2>2, <2>3, <2>4, <2>5, <2>6, <2>7, <2>8 DEF EngineStep
<1>3. ASSUME NEW r \in Requests, ProviderAnswers(r) PROVE Tallied(r)
  <2>1. CASE SubmitEnriched(r)
    BY <2>1, SubmitEnrichedAccount DEF Accounts, SubmitEnriched, SubmitReport, Labels
  <2>2. CASE ProviderFails(r)
    BY <2>2, ProviderFailsAccount DEF Accounts, ProviderFails
  <2> QED BY <1>3, <2>1, <2>2 DEF ProviderAnswers
<1>4. ASSUME NEW r \in Requests, HandlersReturn(r) \/ PostReturns(r) PROVE Tallied(r)
  BY <1>4, WaitEndsAccount DEF Accounts, HandlersReturn, PostReturns
<1>5. ASSUME NEW r \in Requests, IngesterStores(r) \/ PostLost(r) PROVE Tallied(r)
  BY <1>5, NetworkAccount DEF Accounts, IngesterStores, PostLost
<1>6. ASSUME NEW r \in Requests, Tallied(r),
             \A q \in Requests \ {r} : Untouched(q) /\ published'[q] = published[q],
             registry' = registry
      PROVE  Accounts'
  BY <1>6, OneTaskAccount
<1>7. ASSUME NEW r \in Requests,
             \/ Arrive(r) \/ EngineStep(r) \/ ProviderAnswers(r)
             \/ HandlersReturn(r) \/ PostReturns(r) \/ IngesterStores(r) \/ PostLost(r)
      PROVE  Accounts'
  <2>1. Tallied(r)
    BY <1>1, <1>2, <1>3, <1>4, <1>5, <1>7
  <2>2. registry' = registry
    BY <1>7, OwnStepsKeepRegistry
  <2> HIDE DEF Tallied
  <2> QED BY <1>6, <1>7, <2>1, <2>2, OthersUntouched DEF IInv
<1>8. CASE Restart
  <2>1. \A r \in Requests : AccountInv(r)' /\ CountedUnder(r)' = {}
    BY <1>8, RestartAccount DEF Accounts
  <2>2. {r \in Requests : pc'[r] # "new"} = {r \in Requests : pc[r] # "new"}
    BY <1>8 DEF Restart
  <2>3. ASSUME NEW l \in Labels PROVE Counted(l)' = {} /\ metric'[l] = 0
    BY <1>8, <2>1 DEF Counted, Restart
  <2>4. RegistryInv'
    BY <1>8 DEF Restart, RegistryInv, MayBeMissing
  <2> QED BY <2>1, <2>2, <2>3, <2>4, FS_EmptySet DEF Accounts, CountInv
<1>9. ASSUME \A r \in Requests : Untouched(r) /\ published'[r] = published[r], metric' = metric,
             RegistryInv'
      PROVE  Accounts'
  <2>1. \A r \in Requests : AccountInv(r)' /\ CountedUnder(r)' = CountedUnder(r)
    BY <1>9, UntouchedAccount DEF Accounts
  <2>2. {r \in Requests : pc'[r] # "new"} = {r \in Requests : pc[r] # "new"}
    BY <1>9 DEF Untouched
  <2>3. \A l : Counted(l)' = Counted(l)
    BY <2>1 DEF Counted
  <2> QED BY <1>9, <2>1, <2>2, <2>3 DEF Accounts, CountInv
<1>10. ASSUME NEW name \in ProviderNames, NEW p \in Providers, Register(name, p)
       PROVE  Accounts'
  <2>1. RegistryInv'
    BY <1>10 DEF Accounts, RegistryInv, Register, IInv, TypeOK, Registries
  <2> QED BY <1>9, <1>10, <2>1 DEF Register, taskVars, Untouched
<1>11. CASE UNCHANGED vars
  <2>1. RegistryInv'
    BY <1>11 DEF Accounts, RegistryInv, vars
  <2> QED BY <1>9, <1>11, <2>1 DEF vars, Untouched
<1> HIDE DEF Tallied
<1> QED BY <1>7, <1>8, <1>10, <1>11 DEF Next, Environment

LEMMA AccountsInvariance == Spec => [](IInv /\ Accounts)
<1>1. IInv /\ Accounts /\ [Next]_vars => (IInv /\ Accounts)'
  BY NextIInv, NextAccounts
<1> QED BY <1>1, InitIInv, InitAccounts, PTL DEF Spec

\* What each label counts.
LEMMA Labelled ==
  ASSUME IInv, NEW r \in Requests
  PROVE  /\ "allowed" \in CountedUnder(r) <=> Known(r) /\ Decision(r).allowed
         /\ "denied" \in CountedUnder(r) <=> Known(r) /\ ~Decision(r).allowed
         /\ "none" \in CountedUnder(r) <=> store[r].status = "blocked"
         /\ "accepted" \in CountedUnder(r) <=> submitted[r] = 1 /\ pc[r] # "lost"
         /\ "ok" \in CountedUnder(r)
              <=> pc[r] \in {"returned", "done"} /\ store[r].status = "completed"
         /\ "fallback" \in CountedUnder(r)
              <=> pc[r] \in {"returned", "done"} /\ store[r].status = "fallback"
         /\ "blocked_fail_closed" \in CountedUnder(r)
              <=> pc[r] \in {"returned", "done"} /\ store[r].status = "blocked_provider_failure"
         /\ "200" \in CountedUnder(r) <=> pc[r] = "done" /\ response[r] # ErrorResponse
         /\ "500" \in CountedUnder(r) <=> pc[r] = "done" /\ response[r] = ErrorResponse
<1> DEFINE outcome == IF pc[r] \in {"returned", "done"}
                      THEN OutcomeLabel(store[r].status) ELSE {}
<1>1. /\ outcome \subseteq {"ok", "fallback", "blocked_fail_closed"}
      /\ "ok" \in outcome
           <=> pc[r] \in {"returned", "done"} /\ store[r].status = "completed"
      /\ "fallback" \in outcome
           <=> pc[r] \in {"returned", "done"} /\ store[r].status = "fallback"
      /\ "blocked_fail_closed" \in outcome
           <=> pc[r] \in {"returned", "done"} /\ store[r].status = "blocked_provider_failure"
  BY DEF OutcomeLabel
<1>2. CountedUnder(r) =
        (IF Known(r) THEN {IF Decision(r).allowed THEN "allowed" ELSE "denied"} ELSE {})
        \cup (IF store[r].status = "blocked" THEN {"none"} ELSE {})
        \cup (IF submitted[r] = 1 /\ pc[r] # "lost" THEN {"accepted"} ELSE {})
        \cup outcome
        \cup (IF pc[r] = "done" THEN {IF response[r] = ErrorResponse THEN "500" ELSE "200"}
              ELSE {})
  BY DEF CountedUnder, Known
<1> HIDE DEF outcome
<1> QED BY <1>1, <1>2

\* What is known of a request once nothing is in flight.
LEMMA Settled ==
  ASSUME IInv, NEW r \in Requests, AccountInv(r), pc[r] \notin InFlight
  PROVE  /\ Known(r) => pc[r] = "done" /\ store[r].status \in ClosedStatuses \cup {"in_progress"}
         /\ submitted[r] = 1 /\ pc[r] # "lost" => pc[r] = "done" /\ store[r].status = "completed"
         /\ Known(r) => (~Decision(r).allowed <=> store[r].status = "blocked")
<1>1. pc[r] \in {"new", "done", "lost"} /\ store[r] \in Records \cup {NoRecord}
  BY DEF IInv, TypeOK, InFlight
<1>2. Known(r) => pc[r] = "done" /\ store[r].status \in ClosedStatuses \cup {"in_progress"}
  BY <1>1 DEF IInv, TaskInv, PointInv, Known, Records, Statuses
<1>3. submitted[r] = 1 /\ pc[r] # "lost" => Known(r)
  BY MissingRecord DEF IInv, TaskInv, TrailInv, Known
<1>4. submitted[r] = 1 /\ pc[r] # "lost" => pc[r] = "done" /\ store[r].status = "completed"
  BY <1>2, <1>3 DEF IInv, TaskInv, PointInv, SubmissionInv
<1>5. Known(r) => (~Decision(r).allowed <=> store[r].status = "blocked")
  BY <1>2 DEF IInv, TaskInv, PointInv, AccountInv, VerdictInv, Justified, ClosedStatuses
<1> QED BY <1>2, <1>4, <1>5

\* The sizes of two finite sets without a common element add up.
LEMMA DisjointUnion ==
  ASSUME NEW S, NEW T, IsFiniteSet(S), IsFiniteSet(T), S \cap T = {}
  PROVE  /\ IsFiniteSet(S \cup T)
         /\ Cardinality(S \cup T) = Cardinality(S) + Cardinality(T)
<1>1. Cardinality(S \cap T) = 0
  BY FS_EmptySet
<1>2. Cardinality(S) \in Nat /\ Cardinality(T) \in Nat
  BY FS_CardinalityType
<1>3. /\ IsFiniteSet(S \cup T)
      /\ Cardinality(S \cup T) = Cardinality(S) + Cardinality(T) - Cardinality(S \cap T)
  BY FS_Union, Zenon
<1> QED BY <1>1, <1>2, <1>3

-----------------------------------------------------------------------------
(* The properties about the accounts.                                      *)

\* Of the trails.
LEMMA StoryFollows == Accounts => EvidenceTellsTheStory
BY DEF Accounts, AccountInv, StoryInv, Tells, EvidenceTellsTheStory

\* Every record, wherever it is, tells a possible story of its own request.
THEOREM EvidenceTellsStories == Spec => []EvidenceTellsTheStory
BY StoryFollows, AccountsInvariance, PTL

\* Of what an answer leaves behind.
LEMMA AnswersFollow == IInv /\ Accounts => AnswersLeaveEvidence
<1> SUFFICES ASSUME IInv, Accounts, NEW r \in Requests
             PROVE  /\ pc[r] = "done" => (Known(r) <=> request[r].tenant_id.key \in Tenants)
                    /\ response[r] # NoResponse /\ request[r].tenant_id.key \notin Tenants =>
                         /\ response[r] = ErrorResponse
                         /\ published[r] = <<>> /\ submitted[r] = 0
                         /\ wire[r] = NoRecord /\ ingested[r] = NoRecord
                    /\ pc[r] = "done" /\ Known(r) /\ ~Closed(store[r]) =>
                         /\ response[r] = ErrorResponse
                         /\ Permitted(request[r]) /\ submitted[r] = 0
                         /\ published[r] = <<"tenant.resolved", "policy.evaluated">>
  BY DEF AnswersLeaveEvidence
<1> DEFINE raw == request[r].tenant_id
<1>1. Resolvable(raw) <=> raw.key \in Tenants
  <2>1. raw.form \in TenantForms
    BY DEF IInv, TypeOK
  <2> QED BY <2>1, KeysOfSpelling
<1>2. TaskInv(r) /\ AccountInv(r)
  BY DEF IInv, Accounts
<1>3. pc[r] = "done" => (Known(r) <=> Resolvable(raw))
  BY <1>2, MissingRecord DEF TaskInv, PointInv, EvidenceInv, Known
<1>4. ASSUME response[r] # NoResponse, ~Resolvable(raw)
      PROVE  /\ response[r] = ErrorResponse
             /\ published[r] = <<>> /\ submitted[r] = 0
             /\ wire[r] = NoRecord /\ ingested[r] = NoRecord
  BY <1>2, <1>4 DEF TaskInv, SubmissionInv, EvidenceInv, AccountInv, EarlyInv
<1>5. ASSUME pc[r] = "done", Known(r), ~Closed(store[r])
      PROVE  /\ response[r] = ErrorResponse
             /\ Permitted(request[r]) /\ submitted[r] = 0
             /\ published[r] = <<"tenant.resolved", "policy.evaluated">>
  <2>1. Resolvable(raw) /\ store[r].status = "in_progress"
    BY <1>3, <1>5 DEF Known, Closed, IInv, TypeOK, Records, Statuses
  <2>2. Decision(r).allowed /\ submitted[r] = 0
    BY <1>2, <1>5, <2>1 DEF TaskInv, PointInv
  <2> QED BY <1>2, <1>5, <2>1, <2>2, DecideIsPermitted
          DEF TaskInv, EvidenceInv, AccountInv, EarlyInv, Closed, Decision
<1> QED BY <1>1, <1>3, <1>4, <1>5

\* Whoever has an answer has a record behind it, unless nobody knows his tenant;
\* and one still open is that of a permitted report no provider was there for.
THEOREM AnswersAreEvidenced == Spec => []AnswersLeaveEvidence
BY AnswersFollow, AccountsInvariance, PTL

\* Of the events.
LEMMA SubscribersFollow == IInv /\ Accounts => SubscribersSeeClosedEvidence
<1> SUFFICES ASSUME IInv, Accounts, NEW r \in Requests, published[r] # <<>>
             PROVE  LET last == published[r][Len(published[r])]
                        earlier == {published[r][i] : i \in 1..(Len(published[r]) - 1)} IN
                    /\ last \in {"workflow.completed", "workflow.blocked", "workflow.fallback"}
                         /\ Known(r)
                       => Closed(store[r]) /\ last = ClosingEvent(store[r].status)
                    /\ last \in {"workflow.blocked", "workflow.fallback"}
                       => "supervisory.submitted" \notin earlier
  BY DEF SubscribersSeeClosedEvidence
<1>1. EventsInv(r) /\ published[r] \in Seq(EventNames)
  BY DEF Accounts, AccountInv, IInv, TypeOK
<1>2. \A i \in 1..(Len(published[r]) - 1) : i \in 1..Len(published[r])
  BY <1>1
<1> QED BY <1>1, <1>2 DEF EventsInv, ClosingEvents

\* A closing event finds the closed record, and the status it speaks of.
THEOREM SubscribersAreTold == Spec => []SubscribersSeeClosedEvidence
BY SubscribersFollow, AccountsInvariance, PTL

\* Of the counters: each is the size of a set of requests that Labelled
\* describes, and the sets are compared.
LEMMA BalanceFollows == IInv /\ Accounts => MetricsBalance
<1> SUFFICES ASSUME IInv, Accounts PROVE MetricsBalance
  OBVIOUS
<1> DEFINE having(S) == {r \in Requests : Known(r) /\ store[r].status \in S}
           done == {r \in Requests : pc[r] = "done"}
<1>1. \A l \in Labels : /\ IsFiniteSet(Counted(l)) /\ Cardinality(Counted(l)) \in Nat
                        /\ metric[l] = Cardinality(Counted(l))
  BY CountedIsFinite, FS_CardinalityType DEF Accounts, CountInv
<1>2. Labels = {"allowed", "denied", "accepted", "200", "500", "none", "ok", "fallback",
                "blocked_fail_closed"}
  BY DEF Labels, ProviderLabels
<1>3. \A r \in Requests : /\ store[r].status = "blocked" => Known(r) /\ ~Decision(r).allowed
                          /\ store[r].status = "completed" => submitted[r] = 1
  BY MissingRecord
     DEF Accounts, AccountInv, VerdictInv, Justified, IInv, TaskInv, SubmissionInv, Known,
         ClosedStatuses
<1>4. metric["none"] = Cardinality(having({"blocked"}))
  <2>1. Counted("none") = having({"blocked"})
    BY <1>3, Labelled DEF Counted
  <2> QED BY <1>1, <1>2, <2>1
<1>5. metric["none"] <= metric["denied"]
  <2>1. Counted("none") \subseteq Counted("denied")
    BY <1>3, Labelled DEF Counted
  <2> QED BY <1>1, <1>2, <2>1, FS_Subset
<1>6. metric["ok"] <= metric["accepted"]
  <2>1. Counted("ok") \subseteq Counted("accepted")
    BY <1>3, Labelled DEF Counted
  <2> QED BY <1>1, <1>2, <2>1, FS_Subset
<1>7. ASSUME \A r \in Requests : pc[r] \notin InFlight
      PROVE  /\ metric["denied"] = metric["none"]
             /\ metric["accepted"] = metric["ok"]
             /\ metric["fallback"] = Cardinality(having({"fallback"}))
             /\ metric["allowed"] = metric["ok"] + metric["fallback"]
                  + metric["blocked_fail_closed"] + Cardinality(having({"in_progress"}))
             /\ metric["200"] + metric["500"] = Cardinality(done)
  <2>1. \A r \in Requests :
          /\ Known(r) => /\ pc[r] = "done"
                         /\ store[r].status \in ClosedStatuses \cup {"in_progress"}
          /\ submitted[r] = 1 /\ pc[r] # "lost" => /\ pc[r] = "done"
                                                   /\ store[r].status = "completed"
          /\ Known(r) => (~Decision(r).allowed <=> store[r].status = "blocked")
    BY <1>7, Settled DEF Accounts
  <2>2. \A r \in Requests : store[r].status \in ClosedStatuses => Known(r)
    BY MissingRecord DEF Known
  <2>3. Counted("denied") = Counted("none") /\ Counted("accepted") = Counted("ok")
    BY <1>3, <2>1, Labelled DEF Counted
  <2>4. /\ Counted("fallback") = having({"fallback"})
        /\ Counted("ok") = having({"completed"})
        /\ Counted("blocked_fail_closed") = having({"blocked_provider_failure"})
    BY <2>1, <2>2, Labelled DEF Counted, ClosedStatuses
  <2>5. Counted("allowed") = having({"completed", "fallback", "blocked_provider_failure", "in_progress"})
    BY <2>1, Labelled DEF Counted, ClosedStatuses
  <2>6. /\ Counted("200") \cup Counted("500") = done
        /\ Counted("200") \cap Counted("500") = {}
    BY Labelled DEF Counted
  <2>7. metric["200"] + metric["500"] = Cardinality(done)
    <3> HIDE DEF done
    <3>1. /\ IsFiniteSet(Counted("200")) /\ metric["200"] = Cardinality(Counted("200"))
          /\ IsFiniteSet(Counted("500")) /\ metric["500"] = Cardinality(Counted("500"))
      BY <1>1, <1>2
    <3> QED BY <2>6, <3>1, DisjointUnion
  <2>8. Cardinality(Counted("allowed")) =
          Cardinality(Counted("ok")) + Cardinality(Counted("fallback"))
            + Cardinality(Counted("blocked_fail_closed")) + Cardinality(having({"in_progress"}))
    <3> DEFINE A == Counted("ok")
               B == Counted("fallback")
               C == Counted("blocked_fail_closed")
               D == having({"in_progress"})
    <3>1. Counted("allowed") = ((A \cup B) \cup C) \cup D
      BY <2>4, <2>5
    <3>2. A \cap B = {} /\ (A \cup B) \cap C = {} /\ ((A \cup B) \cup C) \cap D = {}
      BY <2>4
    <3>3. IsFiniteSet(Counted("allowed")) /\ IsFiniteSet(A) /\ IsFiniteSet(B) /\ IsFiniteSet(C)
      BY <1>1, <1>2
    <3> HIDE DEF A, B, C, D
    <3>4. IsFiniteSet(D)
      BY <3>1, <3>3, FS_Subset
    <3>5. IsFiniteSet(A \cup B) /\ Cardinality(A \cup B) = Cardinality(A) + Cardinality(B)
      BY <3>2, <3>3, DisjointUnion
    <3>6. /\ IsFiniteSet((A \cup B) \cup C)
          /\ Cardinality((A \cup B) \cup C) = Cardinality(A \cup B) + Cardinality(C)
      BY <3>2, <3>3, <3>5, DisjointUnion
    <3>7. Cardinality(((A \cup B) \cup C) \cup D)
            = Cardinality((A \cup B) \cup C) + Cardinality(D)
      BY <3>2, <3>4, <3>6, DisjointUnion
    <3> QED BY <3>1, <3>5, <3>6, <3>7 DEF A, B, C, D
  <2> HIDE DEF having, done
  <2> QED BY <1>1, <1>2, <2>3, <2>4, <2>7, <2>8
<1> HIDE DEF having
<1> QED BY <1>4, <1>5, <1>6, <1>7 DEF MetricsBalance, having

\* The counters of one process balance, with each other and with its records,
\* for any number of requests.
THEOREM CountersBalance == Spec => []MetricsBalance
BY BalanceFollows, AccountsInvariance, PTL
=============================================================================
