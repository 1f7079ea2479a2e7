--------------------------- MODULE WorkflowEngine ---------------------------
(***************************************************************************)
(* process_report of app/workflow/engine.py, one task per POST /reports on *)
(* one event loop, with the components it calls: the evidence store and    *)
(* producer, the provider registry, the supervisory service, the event     *)
(* bus, the metrics and the HTTP route that renders its answer.            *)
(*                                                                         *)
(* A step of a request is what the coroutine does between two awaits that  *)
(* can suspend it: gathering event handlers, a provider's call, the POST   *)
(* to the evidence ingester, the hand-over of its answer to the middleware *)
(* that counts it.  Around the engine, providers are registered, the       *)
(* ingester receives or misses messages, and the process may die, which    *)
(* loses everything in its memory and every request in it.                 *)
(***************************************************************************)
EXTENDS EvidenceRecord, Integers, FiniteSets

CONSTANTS Requests,            \* request ids (one uuid4 per call)
          ReportRequests,      \* the requests clients may post
          Providers,           \* provider objects that may be registered
          NoProvider,          \* nothing registered under a name
          StubProviders,       \* those behaving like the repository's stubs
          DeclaredStrategy,    \* fallback_strategy each declares, or "undeclared"
          InitialRegistries,   \* registries the process may start with
          ProducerConfigured,  \* EvidenceService has a producer
          MaxRestarts          \* bound on process deaths

Strategies == {"drop_and_signal", "fail_closed"}
Registries == [ProviderNames -> Providers \cup {NoProvider}]

ASSUME EngineAssumption ==
  /\ \A req \in ReportRequests : req.tenant_id.form \in TenantForms
  /\ NoProvider \notin Providers
  /\ StubProviders \subseteq Providers
  /\ DeclaredStrategy \in [Providers -> Strategies \cup {"undeclared"}]
  /\ InitialRegistries \subseteq Registries
  /\ ProducerConfigured \in BOOLEAN
  /\ MaxRestarts \in Nat

VARIABLES
  pc,          \* where each request's task is
  request,     \* what each client posts, fixed for the behaviour
  provider,    \* the provider object the task holds
  enrichment,  \* what that provider returned
  bus,         \* "pending" while the handlers of the task's publish run
  store,       \* EvidenceService._store
  registry,    \* ProviderRegistry._providers
  metric,      \* the Prometheus counters, summed over tenants and scenarios
  published,   \* ghost: events published for each request, in order
  submitted,   \* times the supervisory service took the request's report
  wire,        \* the POST of each record to the ingester, while in flight
  ingested,    \* the record the ingester holds
  response,    \* the HTTP answer the client has
  restarts     \* process deaths so far

taskVars == <<pc, provider, enrichment, bus>>
envVars == <<registry, ingested, restarts>>
vars == <<pc, request, provider, enrichment, bus, store, registry, metric,
          published, submitted, wire, ingested, response, restarts>>

Points == {"new", "resolved", "evaluated", "selected", "submitted", "sending",
           "closed", "announced", "returned", "done", "lost"}
InFlight == Points \ {"new", "done", "lost"}
EventNames == {"tenant.resolved", "policy.evaluated", "provider.selected",
               "supervisory.submitted", "workflow.completed",
               "workflow.blocked", "workflow.fallback"}
ProviderLabels == {"none", "ok", "fallback", "blocked_fail_closed"}
Labels == {"allowed", "denied", "accepted", "200", "500"} \cup ProviderLabels

NoResponse == [status |-> "no_response", result |-> None]
ErrorResponse == [status |-> "error", result |-> None]

-----------------------------------------------------------------------------
(* What the request is decided to be, and who serves it.                   *)

TenantOf(r) == RegistryKey(request[r].tenant_id)
Decision(r) == Decide(request[r])
SelectedName(r) == Decision(r).selected_provider

\* getattr(provider, "fallback_strategy", FallbackStrategy.DROP_AND_SIGNAL)
StrategyOf(p) ==
  IF DeclaredStrategy[p] = "undeclared" THEN "drop_and_signal" ELSE DeclaredStrategy[p]

\* A stub raises exactly when the request asks it to.  Any other provider may
\* raise, return an object json.dumps rejects, or one with a non-finite number.
ProviderOutcomes(p, req) ==
  IF p \in StubProviders
  THEN IF req.scenario = "provider_failure" \/ req.payload_asks_failure
       THEN {"raised"} ELSE {"plain"}
  ELSE {"raised", "unserializable"} \cup Enrichments

-----------------------------------------------------------------------------
(* Pieces of handlers.                                                     *)

Count(labels) ==
  metric' = [l \in Labels |-> IF l \in labels THEN metric[l] + 1 ELSE metric[l]]

\* EventBus.publish up to the gathering of the handlers.
Publish(r, event) ==
  /\ published' = [published EXCEPT ![r] = Append(@, event)]
  /\ bus' = [bus EXCEPT ![r] = "pending"]

Suspended(r) == bus[r] # "idle"

\* The task of r is at this point and runs.
At(r, point) == pc[r] = point /\ ~Suspended(r)
Goto(r, point) == pc' = [pc EXCEPT ![r] = point]

\* Mutant: the record is posted as it was before it is closed.
ConcludePostingFirst(r, record) ==
  /\ store' = [store EXCEPT ![r] = record]
  /\ IF ProducerConfigured
     THEN wire' = [wire EXCEPT ![r] = store[r]] /\ Goto(r, "sending")
     ELSE UNCHANGED wire /\ Goto(r, "closed")

\* EvidenceService.finalize: the store first, then the POST of a snapshot.
Conclude(r, record) ==
  /\ store' = [store EXCEPT ![r] = record]
  /\ IF ProducerConfigured
     THEN wire' = [wire EXCEPT ![r] = record] /\ Goto(r, "sending")
     ELSE UNCHANGED wire /\ Goto(r, "closed")

\* Mutant: the strategy is asked of whatever is registered now.
ConcludeFailureOfRegistered(r, record) ==
  LET failed == AddEvent(record, "PROVIDER_FAILED") IN
  Conclude(r,
    IF StrategyOf(registry[SelectedName(r)]) = "fail_closed"
    THEN Finalize(AddEvent(failed, "PROVIDER_FALLBACK_BLOCKED"),
                  "blocked_provider_failure", "provider_failure_blocked",
                  SelectedName(r), None)
    ELSE Finalize(AddEvent(failed, "PROVIDER_FALLBACK_APPLIED"),
                  "fallback", "provider_failure", SelectedName(r), None))

\* The except block of process_report.
ConcludeFailure(r, record) ==
  LET failed == AddEvent(record, "PROVIDER_FAILED") IN
  Conclude(r,
    IF StrategyOf(provider[r]) = "fail_closed"
    THEN Finalize(AddEvent(failed, "PROVIDER_FALLBACK_BLOCKED"),
                  "blocked_provider_failure", "provider_failure_blocked",
                  SelectedName(r), None)
    ELSE Finalize(AddEvent(failed, "PROVIDER_FALLBACK_APPLIED"),
                  "fallback", "provider_failure", SelectedName(r), None))

-----------------------------------------------------------------------------
(* process_report, one action per stretch between two awaits.              *)

ResolveTenant(r) ==
  /\ At(r, "new") /\ Resolvable(request[r].tenant_id)
  /\ Publish(r, "tenant.resolved")
  /\ Goto(r, "resolved")
  /\ UNCHANGED <<request, provider, enrichment, store, metric, submitted, wire,
                 response, envVars>>

\* Mutant: a record is started before the tenant is known.
RefuseUnknownTenantRecorded(r) ==
  /\ At(r, "new") /\ ~Resolvable(request[r].tenant_id)
  /\ store' = [store EXCEPT ![r] = StartRecord(request[r].tenant_id.key)]
  /\ Goto(r, "returned")
  /\ UNCHANGED <<request, provider, enrichment, bus, metric, published, submitted,
                 wire, response, envVars>>

\* UnknownTenantError leaves process_report: no record was started.
RefuseUnknownTenant(r) ==
  /\ At(r, "new") /\ ~Resolvable(request[r].tenant_id)
  /\ Goto(r, "returned")
  /\ UNCHANGED <<request, provider, enrichment, bus, store, metric, published,
                 submitted, wire, response, envVars>>

EvaluatePolicy(r) ==
  /\ At(r, "resolved")
  /\ store' = [store EXCEPT ![r] = AddEvent(StartRecord(TenantOf(r)), "POLICY_EVALUATED")]
  /\ Count({IF Decision(r).allowed THEN "allowed" ELSE "denied"})
  /\ Publish(r, "policy.evaluated")
  /\ Goto(r, "evaluated")
  /\ UNCHANGED <<request, provider, enrichment, submitted, wire, response, envVars>>

BlockReport(r) ==
  /\ At(r, "evaluated") /\ ~Decision(r).allowed
  /\ Count({"none"})
  /\ Conclude(r, Finalize(store[r], "blocked", "denied", None, None))
  /\ UNCHANGED <<request, provider, enrichment, bus, published, submitted,
                 response, envVars>>

\* Mutant: the task keeps the provider's name and not the object.
SelectProviderByName(r) ==
  /\ At(r, "evaluated") /\ Decision(r).allowed
  /\ provider' = [provider EXCEPT ![r] = SelectedName(r)]
  /\ Publish(r, "provider.selected")
  /\ Goto(r, "selected")
  /\ UNCHANGED <<request, enrichment, store, metric, submitted, wire, response, envVars>>

\* registry.get hands out the object; a later registration does not change it.
SelectProvider(r) ==
  /\ At(r, "evaluated") /\ Decision(r).allowed
  /\ registry[SelectedName(r)] # NoProvider
  /\ provider' = [provider EXCEPT ![r] = registry[SelectedName(r)]]
  /\ Publish(r, "provider.selected")
  /\ Goto(r, "selected")
  /\ UNCHANGED <<request, enrichment, store, metric, submitted, wire, response, envVars>>

\* ProviderNotRegisteredError leaves before the try: the record stays open.
ProviderMissing(r) ==
  /\ At(r, "evaluated") /\ Decision(r).allowed
  /\ registry[SelectedName(r)] = NoProvider
  /\ Goto(r, "returned")
  /\ UNCHANGED <<request, provider, enrichment, bus, store, metric, published,
                 submitted, wire, response, envVars>>

\* SupervisoryReportingService.submit_report, which has no await.
SubmitReport(r) ==
  /\ submitted' = [submitted EXCEPT ![r] = @ + 1]
  /\ Count({"accepted"})

\* Mutant: the provider's answer is submitted before it is hashed, so one that
\* json.dumps rejects is noticed only after the supervisory service has it.
SubmitBeforeHashing(r) ==
  /\ At(r, "selected")
  /\ \E outcome \in ProviderOutcomes(provider[r], request[r]) \ {"raised"} :
       LET record == AddEvent(store[r], "PROVIDER_SELECTED") IN
       /\ SubmitReport(r)
       /\ IF outcome \in Enrichments
          THEN /\ enrichment' = [enrichment EXCEPT ![r] = outcome]
               /\ store' = [store EXCEPT ![r] = record]
               /\ Publish(r, "supervisory.submitted")
               /\ Goto(r, "submitted") /\ UNCHANGED wire
          ELSE ConcludeFailure(r, record) /\ UNCHANGED <<enrichment, bus, published>>
  /\ UNCHANGED <<request, provider, response, envVars>>

\* The provider answered with something json.dumps can hash; the report goes
\* to the supervisory service.
SubmitEnriched(r) ==
  /\ At(r, "selected")
  /\ \E outcome \in ProviderOutcomes(provider[r], request[r]) \cap Enrichments :
       enrichment' = [enrichment EXCEPT ![r] = outcome]
  /\ store' = [store EXCEPT ![r] = AddEvent(@, "PROVIDER_SELECTED")]
  /\ SubmitReport(r)
  /\ Publish(r, "supervisory.submitted")
  /\ Goto(r, "submitted")
  /\ UNCHANGED <<request, provider, wire, response, envVars>>

\* The provider raised, or hashing its answer did (after PROVIDER_SELECTED).
ProviderFails(r) ==
  /\ At(r, "selected")
  /\ \/ /\ "raised" \in ProviderOutcomes(provider[r], request[r])
        /\ ConcludeFailure(r, store[r])
     \/ /\ "unserializable" \in ProviderOutcomes(provider[r], request[r])
        /\ ConcludeFailure(r, AddEvent(store[r], "PROVIDER_SELECTED"))
  /\ UNCHANGED <<request, provider, enrichment, bus, metric, published, submitted,
                 response, envVars>>

\* Mutant: workflow.completed is published before the record is closed.
CompleteReportAnnouncedFirst(r) ==
  /\ At(r, "submitted")
  /\ IF Len(published[r]) = 4
     THEN Publish(r, "workflow.completed") /\ UNCHANGED <<pc, store, wire>>
     ELSE /\ Conclude(r, Finalize(store[r], "completed", "approved", SelectedName(r),
                                  enrichment[r]))
          /\ UNCHANGED <<bus, published>>
  /\ UNCHANGED <<request, provider, enrichment, metric, submitted, response, envVars>>

CompleteReport(r) ==
  /\ At(r, "submitted")
  /\ Conclude(r, Finalize(store[r], "completed", "approved", SelectedName(r),
                          enrichment[r]))
  /\ UNCHANGED <<request, provider, enrichment, bus, metric, published, submitted,
                 response, envVars>>

\* The event published after finalize().
ClosingEvent(status) ==
  CASE status \in {"blocked", "completed"}    -> "workflow.completed"
    [] status = "blocked_provider_failure"    -> "workflow.blocked"
    [] status = "fallback"                    -> "workflow.fallback"

Announce(r) ==
  /\ At(r, "closed")
  /\ Publish(r, ClosingEvent(store[r].status))
  /\ Goto(r, "announced")
  /\ UNCHANGED <<request, provider, enrichment, store, metric, submitted, wire,
                 response, envVars>>

\* process_report counts the outcome and returns.
Return(r, status, labels) ==
  /\ At(r, "announced") /\ store[r].status = status
  /\ Count(labels)
  /\ Goto(r, "returned")
  /\ UNCHANGED <<request, provider, enrichment, bus, store, published, submitted,
                 wire, response, envVars>>

\* A denied report was counted before its record was closed.
ReturnDenied(r) == Return(r, "blocked", {})
ReturnCompleted(r) == Return(r, "completed", {"ok"})
ReturnFallback(r) == Return(r, "fallback", {"fallback"})

\* Mutant: a provider that failed closed is counted as a fallback.
ReturnBlockedAsFallback(r) == Return(r, "blocked_provider_failure", {"fallback"})

ReturnBlocked(r) == Return(r, "blocked_provider_failure", {"blocked_fail_closed"})

\* What the route makes of it: process_report raised, with no record or an open
\* one left behind, or JSONResponse refuses a non-finite number in its result,
\* after everything else has happened; otherwise the verdict and the result.
Rendered(r) ==
  LET status == store[r].status
      result == IF status = "completed" THEN enrichment[r] ELSE None IN
  IF status \notin ClosedStatuses \/ result = "non_finite"
  THEN ErrorResponse ELSE [status |-> status, result |-> result]

\* call_next hands it to the task of the middleware, which counts and answers.
Respond(r) ==
  /\ At(r, "returned")
  /\ response' = [response EXCEPT ![r] = Rendered(r)]
  /\ Count({IF Rendered(r) = ErrorResponse THEN "500" ELSE "200"})
  /\ Goto(r, "done")
  /\ UNCHANGED <<request, provider, enrichment, bus, store, published, submitted,
                 wire, envVars>>

-----------------------------------------------------------------------------
(* What the task waits for.                                                *)

\* Mutant: a failing handler is not isolated; inside the try it is taken for
\* a failure of the provider.
HandlersReturnOrBreakTheEngine(r) ==
  /\ Suspended(r)
  /\ bus' = [bus EXCEPT ![r] = "idle"]
  /\ \/ UNCHANGED <<pc, store, wire>>
     \/ /\ \/ pc[r] = "submitted"
           \/ pc[r] = "announced" /\ store[r].status = "completed"
        /\ ConcludeFailure(r, store[r])
  /\ UNCHANGED <<request, provider, enrichment, metric, published, submitted,
                 response, envVars>>

\* Mutant: a publish whose handler failed is never over.
HandlersReturnWhenAllSucceed(r) ==
  /\ bus[r] = "pending"
  /\ \E outcome \in {"returned", "raised"} :
       bus' = [bus EXCEPT ![r] = IF outcome = "returned" THEN "idle" ELSE "stuck"]
  /\ UNCHANGED <<pc, request, provider, enrichment, store, metric, published,
                 submitted, wire, response, envVars>>

\* gather() is over: every handler returned, or raised and was logged by
\* _safe_invoke; the engine cannot tell which.
HandlersReturn(r) ==
  /\ Suspended(r)
  /\ bus' = [bus EXCEPT ![r] = "idle"]
  /\ UNCHANGED <<pc, request, provider, enrichment, store, metric, published,
                 submitted, wire, response, envVars>>

\* Mutant: an error of the POST escapes send_record; for a completed report that
\* is inside the try, and is taken for a failure of the provider.
PostReturnsOrRaises(r) ==
  /\ pc[r] = "sending"
  /\ \/ Goto(r, "closed") /\ UNCHANGED <<store, wire>>
     \/ store[r].status = "completed" /\ ConcludeFailure(r, store[r])
  /\ UNCHANGED <<request, provider, enrichment, bus, metric, published, submitted,
                 response, envVars>>

\* send_record comes back: answered, refused, or after its 30 seconds, with the
\* message still under way.  Every Exception is swallowed and nothing retried.
PostReturns(r) ==
  /\ pc[r] = "sending"
  /\ Goto(r, "closed")
  /\ UNCHANGED <<request, provider, enrichment, bus, store, metric, published,
                 submitted, wire, response, envVars>>

-----------------------------------------------------------------------------
(* The environment.                                                        *)

\* ProviderRegistry.register.
Register(name, p) ==
  /\ registry' = [registry EXCEPT ![name] = p]
  /\ UNCHANGED <<taskVars, request, store, metric, published, submitted, wire,
                 ingested, response, restarts>>

\* The ingester stores a message that reached it, however late.
IngesterStores(r) ==
  /\ wire[r] # NoRecord
  /\ ingested' = [ingested EXCEPT ![r] = wire[r]]
  /\ wire' = [wire EXCEPT ![r] = NoRecord]
  /\ UNCHANGED <<taskVars, request, store, registry, metric, published, submitted,
                 response, restarts>>

\* The message is lost, or the ingester refuses it.
PostLost(r) ==
  /\ wire[r] # NoRecord
  /\ wire' = [wire EXCEPT ![r] = NoRecord]
  /\ UNCHANGED <<taskVars, request, store, metric, published, submitted, response,
                 envVars>>

\* The gateway's process dies and a new one starts: tasks, records, counters
\* and registrations are gone, what left the process is not.
Restart ==
  /\ restarts < MaxRestarts
  /\ restarts' = restarts + 1
  /\ pc' = [r \in Requests |-> IF pc[r] = "new" THEN "new" ELSE "lost"]
  /\ provider' = [r \in Requests |-> NoProvider]
  /\ enrichment' = [r \in Requests |-> None]
  /\ bus' = [r \in Requests |-> "idle"]
  /\ store' = [r \in Requests |-> NoRecord]
  /\ metric' = [l \in Labels |-> 0]
  /\ registry' \in InitialRegistries
  /\ UNCHANGED <<request, published, submitted, wire, ingested, response>>

-----------------------------------------------------------------------------
Init ==
  /\ pc = [r \in Requests |-> "new"]
  /\ request \in [Requests -> ReportRequests]
  /\ provider = [r \in Requests |-> NoProvider]
  /\ enrichment = [r \in Requests |-> None]
  /\ bus = [r \in Requests |-> "idle"]
  /\ store = [r \in Requests |-> NoRecord]
  /\ registry \in InitialRegistries
  /\ metric = [l \in Labels |-> 0]
  /\ published = [r \in Requests |-> <<>>]
  /\ submitted = [r \in Requests |-> 0]
  /\ wire = [r \in Requests |-> NoRecord]
  /\ ingested = [r \in Requests |-> NoRecord]
  /\ response = [r \in Requests |-> NoResponse]
  /\ restarts = 0

Arrive(r) == ResolveTenant(r) \/ RefuseUnknownTenant(r)

\* The steps the event loop runs as soon as the task is ready.
EngineStep(r) ==
  \/ EvaluatePolicy(r) \/ BlockReport(r) \/ SelectProvider(r) \/ ProviderMissing(r)
  \/ CompleteReport(r) \/ Announce(r)
  \/ ReturnDenied(r) \/ ReturnCompleted(r) \/ ReturnBlocked(r) \/ ReturnFallback(r)
  \/ Respond(r)

\* The provider's call comes back.
ProviderAnswers(r) == SubmitEnriched(r) \/ ProviderFails(r)

Environment ==
  \/ \E name \in ProviderNames, p \in Providers : Register(name, p)
  \/ \E r \in Requests : IngesterStores(r) \/ PostLost(r)
  \/ Restart

Next ==
  \/ \E r \in Requests : \/ Arrive(r) \/ EngineStep(r) \/ ProviderAnswers(r)
                         \/ HandlersReturn(r) \/ PostReturns(r)
  \/ Environment

Spec == Init /\ [][Next]_vars

\* What a suspended task waits for ends by itself: event handlers are assumed to
\* end, httpx gives up after 30 silent seconds, a stub's call never suspends one.
WaitEnds(r) ==
  \/ HandlersReturn(r) \/ PostReturns(r)
  \/ provider[r] \in StubProviders /\ ProviderAnswers(r)

\* The event loop runs every ready task.
LoopFairness == \A r \in Requests : WF_vars(EngineStep(r) \/ WaitEnds(r))

\* Other providers are not bounded by the gateway; assume that they answer.
ProviderFairness == \A r \in Requests : WF_vars(ProviderAnswers(r))

LoopSpec == Spec /\ LoopFairness
FairSpec == LoopSpec /\ ProviderFairness

-----------------------------------------------------------------------------
TypeOK ==
  /\ pc \in [Requests -> Points]
  /\ request \in [Requests -> ReportRequests]
  /\ provider \in [Requests -> Providers \cup {NoProvider}]
  /\ enrichment \in [Requests -> Enrichments \cup {None}]
  /\ bus \in [Requests -> {"idle", "pending"}]
  /\ store \in [Requests -> Records \cup {NoRecord}]
  /\ registry \in Registries
  /\ metric \in [Labels -> Nat]
  /\ published \in [Requests -> Seq(EventNames)]
  /\ submitted \in [Requests -> Nat]
  /\ wire \in [Requests -> Records \cup {NoRecord}]
  /\ ingested \in [Requests -> Records \cup {NoRecord}]
  /\ response \in [Requests -> [status : ClosedStatuses \cup {"no_response", "error"},
                                result : Enrichments \cup {None}]]
  /\ restarts \in 0..MaxRestarts

Known(r) == store[r] # NoRecord
Closed(record) == record.status \in ClosedStatuses

\* No report reaches the supervisory service unless the admission rules permit
\* the request, and none reaches it twice: the rules are applied in one step
\* and the submission happens several awaits later, in another component.
SubmittedOnlyWhenPermitted ==
  \A r \in Requests :
    submitted[r] > 0 => Permitted(request[r]) /\ submitted[r] = 1

\* What is said of a report and what happened to it agree.  While the process
\* lives, a submitted report has a record that names a selected provider, and
\* a closed record says "completed" iff the report was submitted; an answer,
\* which outlives the process, says so iff it was.  A client told of an error
\* may send its report again: it was not submitted, unless the enrichment is
\* what could not be rendered.
CompletedIffSubmitted ==
  \A r \in Requests :
    /\ submitted[r] > 0 /\ pc[r] # "lost" =>
         Known(r) /\ store[r].events[3] = "PROVIDER_SELECTED"
    /\ Known(r) /\ Closed(store[r]) => (store[r].status = "completed" <=> submitted[r] > 0)
    /\ response[r].status \in ClosedStatuses =>
         (response[r].status = "completed" <=> submitted[r] > 0)
    /\ response[r] = ErrorResponse /\ submitted[r] > 0 /\ pc[r] # "lost" =>
         enrichment[r] = "non_finite"

\* The event trails an auditor may find in a record, by its status.
LegalTrail(record) ==
  LET opening == <<"WORKFLOW_STARTED", "POLICY_EVALUATED">>
      selected == <<"PROVIDER_SELECTED">>
      applied == <<"PROVIDER_FAILED", "PROVIDER_FALLBACK_APPLIED">>
      blocked == <<"PROVIDER_FAILED", "PROVIDER_FALLBACK_BLOCKED">>
      trails == CASE record.status = "in_progress" -> {<<>>, selected}
                  [] record.status = "blocked" -> {<<>>}
                  [] record.status = "completed" -> {selected}
                  [] record.status = "fallback" -> {applied, selected \o applied}
                  [] OTHER -> {blocked, selected \o blocked}
      ending == IF Closed(record) THEN <<"WORKFLOW_COMPLETED">> ELSE <<>> IN
  \E t \in trails : record.events = opening \o t \o ending

\* Every record, in the gateway, in flight and in the ingester, tells a story
\* that can have happened, of the request's own tenant and, once the report is
\* served or failed, of the provider contracted for it; only closed records leave the gateway.
EvidenceTellsTheStory ==
  \A r \in Requests : \A record \in {store[r], wire[r], ingested[r]} \ {NoRecord} :
    /\ LegalTrail(record)
    /\ record.tenant_id = request[r].tenant_id.key
    /\ record.provider_name = IF record.status \in {"in_progress", "blocked"} THEN None
                              ELSE ContractedProvider(record.tenant_id)
    /\ record \in {wire[r], ingested[r]} => Closed(record)

\* GET /evidence of the gateway and of the ingester never contradict each
\* other, and neither contradicts the answer the client was given, even when
\* the message arrives after the answer or after the process died.
EvidenceAgreement ==
  \A r \in Requests :
    /\ Known(r) => {wire[r], ingested[r]} \subseteq {store[r], NoRecord}
    /\ response[r].status \in ClosedStatuses =>
         \A record \in {store[r], wire[r], ingested[r]} \ {NoRecord} :
           /\ record.status = response[r].status
           /\ record.output_hash = response[r].result

\* What an answer leaves behind in the process that gave it: a record, exactly
\* if the tenant is known.  A request of nobody's leaves nothing at all, here or
\* elsewhere, but its error.  And the record is closed, unless the rules allowed
\* the report and no provider was there to serve it: then the client got an
\* error, and nobody was told of a provider.
AnswersLeaveEvidence ==
  \A r \in Requests :
    /\ pc[r] = "done" => (Known(r) <=> request[r].tenant_id.key \in Tenants)
    /\ response[r] # NoResponse /\ request[r].tenant_id.key \notin Tenants =>
         /\ response[r] = ErrorResponse
         /\ published[r] = <<>> /\ submitted[r] = 0
         /\ wire[r] = NoRecord /\ ingested[r] = NoRecord
    /\ pc[r] = "done" /\ Known(r) /\ ~Closed(store[r]) =>
         /\ response[r] = ErrorResponse
         /\ Permitted(request[r]) /\ submitted[r] = 0
         /\ published[r] = <<"tenant.resolved", "policy.evaluated">>

\* A closed record is never touched again while the process lives.
ClosedRecordFrozen ==
  [][\A r \in Requests :
       Known(r) /\ Closed(store[r]) => store'[r] = store[r] \/ restarts' # restarts]_vars

\* A failed provider's own strategy decides, the one it had when it was called
\* and whatever has been registered under its name since.
FallbackFollowsProvider ==
  \A r \in Requests :
    Known(r) /\ store[r].status \in {"fallback", "blocked_provider_failure"} =>
      /\ provider[r] \in Providers
      /\ store[r].status = "blocked_provider_failure"
           <=> DeclaredStrategy[provider[r]] = "fail_closed"

\* A subscriber that looks a report up when its closing event arrives finds the
\* closed record, with the status the event speaks of; and no report is
\* announced as submitted and then as failed.
SubscribersSeeClosedEvidence ==
  \A r \in Requests :
    published[r] # <<>> =>
      LET last == published[r][Len(published[r])]
          earlier == {published[r][i] : i \in 1..(Len(published[r]) - 1)} IN
      /\ last \in {"workflow.completed", "workflow.blocked", "workflow.fallback"} /\ Known(r)
           => Closed(store[r]) /\ last = ClosingEvent(store[r].status)
      /\ last \in {"workflow.blocked", "workflow.fallback"}
           => "supervisory.submitted" \notin earlier

\* The counters of one process are consistent with its records: each denial is
\* counted in both families, each submission is, and once nothing is in flight
\* the allowed requests are those with a provider outcome and those whose
\* provider was not registered.
MetricsBalance ==
  LET counted(S) == Cardinality({r \in Requests : Known(r) /\ store[r].status \in S}) IN
  /\ metric["none"] = counted({"blocked"}) /\ metric["none"] <= metric["denied"]
  /\ metric["ok"] <= metric["accepted"]
  /\ (\A r \in Requests : pc[r] \notin InFlight) =>
       /\ metric["denied"] = metric["none"]
       /\ metric["accepted"] = metric["ok"]
       /\ metric["fallback"] = counted({"fallback"})
       /\ metric["allowed"] = metric["ok"] + metric["fallback"]
                                + metric["blocked_fail_closed"] + counted({"in_progress"})
       /\ metric["200"] + metric["500"] = Cardinality({r \in Requests : pc[r] = "done"})

\* Every request the process has begun with is answered, unless it dies.
EveryRequestAnswered ==
  \A r \in Requests :
    pc[r] \in InFlight ~> response[r] # NoResponse \/ pc[r] = "lost"

-----------------------------------------------------------------------------
(* Promises of the documentation that the code does not keep.              *)

\* FallbackStrategy and the engine's comment: under DROP_AND_SIGNAL the primary
\* data flows through unchanged, to the caller or to the supervisory service.
FallbackCarriesPrimaryData ==
  \A r \in Requests :
    response[r].status = "fallback" => submitted[r] > 0 \/ response[r].result # None

\* Settings: a provider request has a timeout, so a provider that does not
\* answer does not hold its request for ever.
ProviderCallsTimeOut ==
  \A r \in Requests :
    At(r, "selected") ~> pc[r] # "selected"
=============================================================================
