# infra-steward-gateway in TLA+

The gateway takes report requests of banks over HTTP. For each it resolves the
tenant, asks a policy whether the report may be served and by which AI
provider, has the provider enrich it, submits the result to a supervisory
reporting service, and keeps an *evidence record* of everything that happened,
a copy of which is posted to an ingester. The point of the program is
governance: an auditor reading the evidence, the counters, the events or the
answer must get the same story, and it must be the true one. That is what the
modules here specify, check and prove.

Paths below are those of the repository, without the leading `src/`.

## 1. Inventory

### Components

| Component | State | Operations | Must hold |
|---|---|---|---|
| `TenantContextManager` (`app/tenants/context_manager.py`) | a fixed table of four tenants | `resolve`, `known_tenants` | knows the same tenants, spelled in the same ways, as the policy |
| `PolicyService` (`app/policy/service.py`) | three fixed tables; a bundle that is loaded and never read | `evaluate` | admits exactly what the tenant table of the README permits, routes to the contracted provider, blames the jurisdiction only when it decides |
| `WorkflowEngine` (`app/workflow/engine.py`) | one coroutine per request | `process_report` | see section 4: permitted reports only, at most once, every outcome told truthfully everywhere |
| `EvidenceService` (`app/evidence/service.py`) | `_store`, request id to record | `start_record`, `add_event`, `finalize`, `get_record`, `list_records` | a closed record is never touched again and its trail is one that can have happened |
| `EvidenceProducer` (`app/evidence/producer.py`) | an httpx client | `send_record` | a failed, refused or late POST changes nothing in the gateway |
| `ProviderRegistry` (`app/providers/registry.py`) | `_providers`, name to object | `register`, `get` | a request keeps the provider it selected |
| Providers (`app/providers/stub*.py`, `enrichment_class.py`) | none | `generate_enrichment` | the declared strategy of the provider that failed decides what happens |
| `SupervisoryReportingService` (`app/supervisory/service.py`) | none; a counter | `submit_report` | called only for permitted reports, at most once each |
| `EventBus` (`app/workflow/events.py`) | `_subscribers`, event name to list | `subscribe`, `publish` | a failing handler disturbs neither the others nor the engine; events arrive in order, one of a report at a time |
| HTTP routes and metrics (`app/main.py`, `app/observability/metrics.py`) | the Prometheus counters | `POST /reports`, `GET /evidence...`, demo scenarios | the counters balance; every request is answered and its answer leaves the evidence it should; whoever reads evidence is never given a record that falls short of an earlier one (after a restart he may be given none) |
| Evidence ingester (`go/evidence_ingester`) | a map behind an RWMutex, a counter | `POST /events`, `GET /evidence/{id}`, queries, `/metrics` | is a store that answers one call at a time, for whoever looks at it from outside |
| Settings (`app/config.py`) | the environment | - | - |
| Scenario runner (`app/workflow/scenarios.py`) | none | three fixed requests | each ends as its route says |
| Deployment, pipeline and dashboard files (`ops/`, `docker-compose.yaml`) | - | - | - |

### How they interact

The route handler calls `process_report`, which calls everything else: the
tenant registry, the policy, the evidence service and the supervisory service
by plain calls; event handlers by `EventBus.publish`, which gathers them and
waits for all; the provider and the producer by `await`. All requests run as
tasks of one asyncio event loop, so between two awaits that really suspend a
task runs alone. They share the provider registry, the evidence store (each
under its own request id) and the counters. The producer posts each record,
once it is closed, to the ingester, a separate process with concurrent
handlers; nothing flows back. Everything is in memory: if the gateway dies, its
records, counters and tasks are gone, while submissions, answers and posted
records remain.

### What is hard here

`PROJECT.json` lists each hazard at its line. In groups:

* **One `try` around too much.** `engine.py` 193-253 catches every exception of
  the provider, but also of the hashing, the submission, two publishes and
  `finalize`. What escapes from any of these after the report was submitted is
  taken for a failure of the provider.
* **What is awaited between a decision and its use.** The policy decides, the
  registry is consulted an await later, the strategy of a failed provider
  several awaits after that, while anyone may call `register`.
* **Several accounts of one report.** Record, posted record, ingested record,
  events, counters and answer are written at different points, with awaits,
  failures and process deaths in between.
* **Messages.** A POST may be lost, refused, or time out at the gateway and
  arrive all the same, even after the process that sent it died.
* **Facts kept twice.** Tenants and their jurisdictions stand in two classes,
  and both normalise the tenant id.
* **Waiting.** The engine waits for handlers and providers with no timeout. In
  the ingester readers and writers wait for one another.
* **Pointers that outlive a lock.** The ingester's GET handlers encode records
  after the read lock is gone, and its counter is not under the lock at all.
* **Exceptions that are no `Exception`.** A `CancelledError` of a handler passes
  `_safe_invoke`, and `gather` raises it while the other handlers go on.

## 2. The modules

```
TenantPolicy ---> Admission ---> MCAdmission
     |
     v
EvidenceRecord -> WorkflowEngine ---> MCWorkflowEngine
                       |
                       v
                  WorkflowGovernance -- implements --> ReportGovernance
                       |
                       v
                    Gateway ---> MCGateway

EventBus
EvidenceIngester -- implements --> AtomicEvidenceStore
     \---> MCEvidenceIngester
```

| Proofs | Of |
|---|---|
| `EvidenceRecord_proofs` | the operators of `TenantPolicy` and `EvidenceRecord` |
| `Admission_proofs`, `WorkflowEngine_proofs`, `EventBus_proofs` | invariants and action properties |
| `ReportGovernance_proofs` | what the abstract promises imply |
| `WorkflowGovernance_proofs`, `EvidenceIngester_proofs` | the two refinements |
| `Gateway_proofs` | the deployed system: all of the above beside an ingester that forgets, and what an auditor sees |

**TenantPolicy** has no state: `TenantContextManager.resolve`, the effective
jurisdiction computed in `process_report`, and `PolicyService.evaluate` with
its checks in their order and its tables as they stand in the two files. A
tenant id is a key and the set of ways in which its spelling deviates from it;
`Lower` and `Strip` take one away each, and a spelling that still deviates is
equal to no key (`Entry`). The registry and the policy each convert what they
are given, in two places of the code, and so do `RegistryKey` and `PolicyKey`.
A decision repeats the id it was asked about as it was spelled. `Documented` and
`ContractedProvider` are the reference: the rules beside the tenant table of the
repository's README and its provider column, without the code's order of checks
and without the policy's jurisdiction table. `Permitted` is what the gateway
lets through: what is documented and, beyond it, a `bank_beta` report with no
scenario, which the run `admission_beta` shows to be a departure.

**Admission** takes one request through these components, by the engine's path
and by asking `PolicyService` directly, as its tests do (there the tenant may be
unknown and the jurisdiction `None`).

**EvidenceRecord** is a record and the three operations of `EvidenceService` on
it.

**WorkflowEngine** is the core: `process_report` with everything it calls.

| Variable | In the code |
|---|---|
| `pc[r]`, `provider[r]`, `enrichment[r]` | the coroutine of one `process_report`: where it is, `selected_provider`, `enrichment_response` |
| `bus[r]` | the task is inside `EventBus.publish`, waiting for `asyncio.gather` |
| `store` | `EvidenceService._store` |
| `registry` | `ProviderRegistry._providers` |
| `metric` | the counters of `metrics.py`, summed over tenants and scenarios |
| `submitted` | how often the supervisory service took the report |
| `wire`, `ingested` | the record's POST while under way; the ingester's record |
| `response` | what the client was told |
| `published` | history: the events published for the request |
| `request`, `restarts` | the clients' requests; process deaths so far |

| Action | Code |
|---|---|
| `ResolveTenant`, `RefuseUnknownTenant` | `engine.py` from the start to the publish of `tenant.resolved`, or the `UnknownTenantError` |
| `EvaluatePolicy` | metadata, `start_record`, `evaluate`, its counter, the publish of `policy.evaluated` |
| `BlockReport` | the denied branch up to its POST |
| `SelectProvider`, `ProviderMissing` | `registry.get` and the publish of `provider.selected`, or its error, which is outside the `try` |
| `SubmitEnriched` | the provider's answer, its hash, `PROVIDER_SELECTED`, the submission, the publish |
| `ProviderFails` | the provider or the hash raised: the `except` block up to its POST, with either strategy |
| `CompleteReport` | `finalize` of a submitted report up to its POST |
| `Announce` | the publish after `finalize` |
| `ReturnDenied`, `ReturnCompleted`, `ReturnBlocked`, `ReturnFallback` | what follows it on each of the four paths: the outcome counter (a denial was counted before) and the answer of `process_report` |
| `Respond` | the route's rendering of it (`Rendered`), or of an exception, handed over to the middleware, its counter, and the answer to the client |
| `HandlersReturn`, `PostReturns` | what a task waits for ends |
| `Register` | `ProviderRegistry.register`, at any time |
| `IngesterStores`, `PostLost` | the message arrives, however late, or never |
| `Restart` | the gateway dies and starts again |

**ReportGovernance** says what the gateway promises about each report and
nothing of how: it is submitted at most once and only if permitted; one verdict
is given, which is the truth about the submission; evidence of the verdict
exists from then on, until the process that holds it dies; the client is told
the verdict or an error, once. **WorkflowGovernance** maps the engine's state to
it:

| ReportGovernance | WorkflowEngine |
|---|---|
| `permitted[r]` | `Permitted(request[r])`, the reference rules, not the policy's answer |
| `submitted[r]` | `submitted[r] = 1`, so that a second submission would take it back, which no promise allows |
| `evidence[r]` | the verdicts of all closed records of the report: stored, under way, ingested |
| `told[r]` | the status in `response[r]` |
| `abandoned[r]` | the request was lost with a process |

`GovernanceKept` is the abstract specification under this mapping.

**Gateway** is the deployed system: the engine with the registry of `main.py`,
the three stubs with the strategies they declare, the demo requests of the
scenario runner, an ingester that restarts on its own, and an auditor who asks
either process for a record at any time (`GET /evidence/{id}` of each). `seen`
is the last record he was given. `GovernanceKept` is asked of it too, since an
ingester that restarts takes evidence away that the engine's module keeps. The
ingester here is the one variable
`ingested` of the engine; that this is a fair picture of the Go service is what
`EvidenceIngester` shows.

**EventBus** opens up what `WorkflowEngine` takes as one suspension: the list of
handlers read when `publish` is called, one task per handler, started by the
loop in the order of creation, suspended for any time, ending in a return, an
`Exception` or a `CancelledError`; `gather`, and what it raises. A publisher
goes on only when its publish has returned, as `process_report` does. It
justifies what the engine's module takes for granted, that a publish ends
whatever its handlers do short of never ending.

**EvidenceIngester** is the Go service: one goroutine per call, each step
between two points where another can come in (decode, both halves of
`RWMutex.Lock`, the write of the map, `Unlock`, the counter, `RLock`, each key
of a read, `RUnlock`, encoding and answering), with memory as a heap of records
and the map as pointers into it, so that a handler that encodes after it let the
lock go reads what is there then. **AtomicEvidenceStore** is the interface
without any of that: a call arrives, takes effect at one moment, is answered.
The mapping: `store` is what the map's pointers lead to; `result` is set once
the map is written (a POST), or once the read lock is given back (a GET or a
query), and is what the handler *would* encode at any moment from then on, so
the mapping itself fails if a later step could change it.

The **MC** modules give the constants values for TLC; `EventBus` needs none.

### Decisions a reader should know

* An action is what runs between two awaits that can suspend. Every publish is
  taken to suspend, also when nobody subscribed; that adds interleavings and
  removes none. A stub's call never suspends, so for a stub `ProviderAnswers`
  runs soon; for any other provider it may take for ever.
* The `except` block contains no await before `finalize`, so a provider's
  failure and its record are one action. What follows the last publish in
  `process_report` and in the route contains no await, but Starlette's
  `call_next` hands the response from the route's task to the middleware's. So
  the outcome counter is one step, and the middleware's counter, with the
  answer, another. The rendering, which touches nothing shared, is written into
  the second.
* A handler that raised and one that returned are the same to the engine,
  because `_safe_invoke` catches every `Exception` (the mutants of
  `HandlersReturn` are what happens when it does not). A handler that ends in
  `asyncio.CancelledError`, which is no `Exception`, breaks the publish and with
  it the request; that is modelled in `EventBus` (`PublishRaises`), and the
  engine's module assumes handlers that do not, as the gateway subscribes none.
* Go's `RWMutex` is modelled by its documented rules: a waiting writer shuts new
  readers out, and a writer that leaves lets in the readers that wait before the
  next writer. A write of the map is one step: that nobody else touches the map
  meanwhile is `MapIsWrittenAlone`.
* The ingester refuses a body it cannot decode, a record without `request_id`
  and a path no GET can reach in one step, as none of these touches shared
  state. `Unroutable` are the request ids that the mux gives to another handler
  or that contain a `/`; they can be posted and queried, not fetched.
* `PostReturns` stands for an answer, a refusal and the 30 second timeout of
  httpx, which `send_record` treats alike; so the message may still be under way.
* The output hash is represented by what was hashed. The input hash is left out:
  it is computed before the `try`, from the payload, and nothing depends on it.
* Providers other than the stubs may raise, return something `json.dumps`
  rejects (noticed when it is hashed), or return a NaN or an infinity, which
  `json.dumps` hashes and `JSONResponse` refuses to render.
* `NoRecord` is the absence of a record; `NoProvider` of a registration.
* `Restart` loses requests in flight; their clients get no answer. A new request
  id is drawn for every call, so a client's retry is another request.

## 3. Runs

| Run | Question | Instance | Expected |
|---|---|---|---|
| `admission` | Do the tenant registry and the policy together admit what is documented (and one thing more), route by the table and convert ids alike? | every combination of 6 tenant ids in up to 4 spellings, 4 scenarios, 4 report types, 6 jurisdictions; both paths | pass, 6,336 states |
| `admission_beta` | Does `bank_beta` get analysis reports only? | same | violation |
| `engine_interleaved` | Do submissions, records, events, counters and answers tell one story while two requests interleave? | 2 requests drawn from 6 kinds, 3 providers, `register` at any time | pass, 967,167 states |
| `engine_crash` | Is what leaves the process consistent across its deaths, and does the engine keep its promises? | 2 requests of 3 kinds, 2 providers, 2 deaths | pass, 603,356 states |
| `engine_live` | Is every request that was begun answered? | 1 request of 6 kinds, 3 providers, `register` at any time, 1 death | pass, 11,100 states |
| `engine_primary_data` | Does the primary data flow through when an enrichment is dropped? | as `engine_interleaved` | violation |
| `engine_provider_timeout` | Does the configured provider timeout end a call that hangs? | 1 request | violation |
| `gateway` | What may one conclude from reading both processes, do the demos end as their routes say, and are the promises kept when evidence goes with either process? | 1 request of 4, the 3 stubs, 2 deaths of the gateway, any number of the ingester's, an auditor | pass, 23,166 states |
| `gateway_persistence` | Does the ingester persist what it accepted? | same | violation |
| `bus` | Do handlers run one event at a time, in order, and to their end? | 2 publishers, 3 publications, 2 handlers, 2 subscriptions at any time | pass, 109,973 states |
| `ingester` | Does the Go service look like an atomic store? | 2 connections, every kind of call, 2 posts, 2 ids, 4 records, 1 death | pass, 115,310 states |
| `ingester_live` | Does every call end, however many others come? | 3 connections, POSTs, GETs and queries of 1 id without end | pass, 51,008 states |

**Why the bounds are enough.** The request space of `admission` has every value
the rules name, one they do not name, the empty string and `None`; the code
compares for equality only, so another unnamed value behaves like the one there.
In the engine two requests meet only in the registry, the counters and on the
event loop; every interleaving of two tasks is explored, and a third would meet
them in the same three places. The six kinds of request are one per way through
`process_report`: served by either provider name (one of them a `bank_beta`
report without a scenario), served with a provider that fails on demand, denied
by the tenant's rule, denied by its jurisdiction, unknown tenant. The providers
are one of each strategy and one that declares none. A request's trail, counters
and messages are bounded by the code itself; the only bounds added are the
number of requests and `MaxRestarts`. Two deaths are enough for a message to
outlive two processes. `engine_live` has one request: tasks wait for handlers,
providers and POSTs of their own and never for one another, so a second one
could only add interleavings. The runs have a producer configured; that the
invariants hold without one, as the tests build the EvidenceService, is proved.
Requests are interchangeable, so the safety runs use symmetry over them; the
liveness runs do not.

In `gateway` one request is enough, since the auditor's question is about one
report; the fourth request adds the second tenant that a stub serves. In `bus`
two publications of one publisher and one between them make every order there
is, and one handler may be subscribed twice; `HandledInPublicationOrder` and
`OneEventAtATime` are proved for any number. In `ingester` two calls are what a
refinement to one-at-a-time needs to fail: a read beside a write, two writes of
one id, a read of two keys with a write between. Two records of one id and two
of one tenant or scenario let every filter tell. `ingester_live` has a third
connection, as two are needed to keep the lock from another by turns. Its calls
never stop coming: `MCEvidenceIngester` collects memory that no pointer leads to
(`Collect`), as Go does, and keeps the counter relative to it, so that
`MaxPosts` bounds what is reachable, one record in the map and one in each
handler, and never holds a POST back. Only calls that take the lock are made
there, one of each kind. `MaxPosts` and `MaxPublications` bound what only grows;
`MaxSubscriptions` and `MaxRestarts` likewise.

**Deadlock** is checked in every engine run (`Register` is always possible, so
there it says little, and `EveryRequestAnswered` is what rules out a stuck
task), in `gateway` and in both ingester runs; `Admission` ends by design and
the bus when `MaxPublications` is used up, and they switch the check off.

**Fairness.** `LoopFairness`: asyncio runs every ready task, so a step of a task
that can run is taken, and what a suspended task waits for ends: handlers are
assumed to return or raise, httpx gives up on an ingester that is silent for 30
seconds, and a stub's call does not suspend. `ProviderFairness` adds that other
providers answer. The code does not ensure this one, so it is a separate formula: with it
every request is answered (`engine_live`), without it one may not be
(`engine_provider_timeout`). No client, network or ingester is assumed to do
anything. `EventBus.FairSpec`: the loop starts ready tasks, each handler ends,
and a publish that can end does; nobody is assumed to publish or subscribe.
`EvidenceIngester.FairSpec`: the Go scheduler runs every goroutine that can go
on (weak fairness of each handler's steps), and `RWMutex.Lock` does not starve
among writers (strong fairness of `LockOut`, which Go's starvation mode gives);
that readers cannot starve a writer, nor writers a reader, is not assumed but
follows from the lock's rules as long as the code gives every lock back; the
mutant is a `Get` that finds nothing and forgets to (`RUnlockUnlessNotFound`).

### The properties

| Property | What could go wrong |
|---|---|
| `AdmitsExactlyPermitted` | two tables, ordered checks and two notions of "no value" admit less than the documented rules, or more than they do by the one known departure |
| `SpellingIsIrrelevant` | the two components convert tenant ids differently, so one knows a tenant the other does not |
| `JurisdictionBlamedOnlyWhenDecisive` | a refusal overrides, or hides, another; a report from home is refused for its jurisdiction |
| `RoutedToContractedProvider` | a tenant is missing from the provider map and falls to the default |
| `SubmittedOnlyWhenPermitted` | a report goes out that must not, or twice |
| `CompletedIffSubmitted` | an exception after the submission turns a completed report into a failed one; a failure before it leaves an answer of success |
| `EvidenceTellsTheStory` | a record, here or in flight or ingested, has an impossible trail, another tenant's name, a wrong provider or none, or is out before it is closed |
| `EvidenceAgreement` | gateway, ingester and answer disagree, in particular after a late message or a death |
| `ClosedRecordFrozen` | something writes to a closed record |
| `FallbackFollowsProvider` | the strategy is that of whatever is registered now |
| `SubscribersSeeClosedEvidence` | an event is published before the state it announces, or contradicts an earlier one |
| `MetricsBalance` | a counter is incremented on the wrong path, twice, or not at all |
| `AnswersLeaveEvidence` | an error leaves by a path that began a record too early or never closed it; a request of nobody's leaves traces; a known tenant's is answered without any |
| `EveryRequestAnswered` | a wait that nothing ends |
| `GovernanceKept` | a report goes through a history that no promise allows: a second verdict, a verdict that is not true, a verdict told that no record gives, evidence that goes while its process lives |
| `AuditTrailOnlyGrows` | whoever asks both processes in turn is shown an older state after a newer one |
| `AuditAgreesWithAnswer` | what an auditor was ever shown and the answer contradict each other |
| `DemosDoWhatTheySay` | a demo is denied, served or failed by another rule than the one it shows |
| `EvidenceIsPersisted` | evidence that was accepted is gone (it can be: the run finds it) |
| `OneEventAtATime` | a slow handler of one event meets the report's next event first |
| `HandledInPublicationOrder` | events of different reports overtake each other |
| `EveryHandlerRuns` | a failing or cancelled handler takes others with it, or leaves the publisher waiting |
| `MapIsWrittenAlone` | a concurrent map access, which ends a Go process |
| `CounterBetween` | a scrape misses a record its client was told is accepted, or counts one not stored |
| `CallsAreAtomic` | a GET encodes a record half replaced; a query mixes records of different moments; an answer shows what the store never held |
| `EveryCallEnds` | readers keep a writer out, or writers a reader; a lock is not given back |

Each that holds is broken by at least one mutant of the code's definitions; the mutants
stand before the definitions they change.

### Where the code and its documentation differ

* `README.md` 131: `bank_beta` allows only the `analysis` scenario. The policy
  tests the scenario only when there is one, and it is optional
  (`policy/service.py` 80).
* `enrichment_class.py` 56-57 and `engine.py` 329-330: when an enrichment is
  dropped the primary data flows through unchanged. The report is neither
  submitted nor returned.
* `config.py` 36: `provider_timeout_seconds`. Nothing reads it.

* `README.md` 13 and 107 say the Go service persists records. They are in a map
  in memory (`storage/memory.go` 20), which a restart empties: a record the
  gateway was told is accepted may be gone, with the gateway's own copy, and
  nothing sends it again.

Two more that no run is spent on:

* `README.md` 9 says that for every request an evidence record is captured. One
  of an unknown tenant is refused before there is any (`engine.py` 70), which
  `AnswersLeaveEvidence` states as what the code does.
* `events.py` 41: one failing handler must not break the engine. A
  `CancelledError` is not caught at `events.py` 57 and leaves `publish`
  (`PublishRaises`); the other handlers do go on, which is the rest of that
  comment and what `EveryHandlerRuns` shows. Likewise the docstring names an
  event `report.enriched` that nothing publishes.

## 4. Proofs

TLAPS proves these for every value of the constants: any sets of requests,
report requests (of any tenant, scenario, type and jurisdiction), providers with
any declared strategies, handlers, publishers, connections, ids and records;
with or without a producer; any number of process deaths. The assumptions are
`AdmissionAssumption`, `EngineAssumption`, `BusAssumption` and
`IngesterAssumption`, which only say what kind of values the constants are
(and, for the ingester, that its connections are finitely many, as its counter
is compared with numbers of them).

| Theorem | Property |
|---|---|
| `DecisionsAreWellFormed` | `TypeOK` of the admission |
| `AdmissionIsExact` | `AdmitsExactlyPermitted` |
| `SpellingDoesNotMatter` | `SpellingIsIrrelevant` |
| `JurisdictionIsBlamedFairly` | `JurisdictionBlamedOnlyWhenDecisive` |
| `RoutingIsContracted` | `RoutedToContractedProvider` |
| `TypeCorrect` | `TypeOK` of the engine |
| `SubmissionsArePermitted` | `SubmittedOnlyWhenPermitted` |
| `CompletionsAreSubmissions` | `CompletedIffSubmitted` |
| `EvidenceAgrees` | `EvidenceAgreement` |
| `FallbacksFollowProviders` | `FallbackFollowsProvider` |
| `ClosedRecordsAreFrozen` | `ClosedRecordFrozen` |
| `EvidenceTellsStories` | `EvidenceTellsTheStory` |
| `AnswersAreEvidenced` | `AnswersLeaveEvidence` |
| `SubscribersAreTold` | `SubscribersSeeClosedEvidence` |
| `CountersBalance` | `MetricsBalance` |
| `EngineImplementsGovernance` | `GovernanceKept` |
| `PromisesTellOneStory` | `OneTrueStory` of `ReportGovernance` |
| `EngineKeepsItsPromises` | all invariants of the engine, in the deployed system |
| `GatewayImplementsGovernance` | `GovernanceKept`, in the deployed system |
| `GatewayTellsOneTrueStory` | `OneTrueStory` by refinement, in the deployed system |
| `AuditsAgree` | `AuditAgreesWithAnswer` |
| `AuditTrailsGrow` | `AuditTrailOnlyGrows` |
| `DemosDoAsTheySay` | `DemosDoWhatTheySay` |
| `TypeCorrect` | `TypeOK` of the ingester |
| `WriterIsAlone` | `MapIsWrittenAlone` |
| `CounterTells` | `CounterBetween` |
| `IngesterImplementsStore` | `CallsAreAtomic` |
| `EventsComeOneAtATime` | `OneEventAtATime` |
| `EventsComeInOrder` | `HandledInPublicationOrder` |

One theorem has hypotheses of its own. `DemosDoAsTheySay` assumes that nothing
but the repository's stubs is ever registered, under whichever names, and that
a process starts with one under each name. That is the gateway as it stands,
whose `main.py` registers two of the three; a vendor's provider may fail any
request, the compliant demo too, and a name nobody is registered under ends it
with an error.

**Admission.** `EvidenceRecord_proofs` shows that the code's ordered checks and
the reference agree for any request (`DecideIsPermitted`, `DecideRoutes`): first
that the two tables agree, then each check on its own. `Admission_proofs` adds
that the decision of a behaviour is the one computed from its request; the
other properties then speak of the decision on two requests, the one made and
the one spelled plainly, or made from home. That the two conversions find the
same key is a lemma about both (`KeysOfSpelling`), and the policy depends on an
id through that key only, except for repeating it (`EvaluateByKey`).

**The engine.** None of the properties is inductive. An answer agrees with a
submission because the record it is made from does, the record because of the
point at which it was closed, and that point because of what the task had done
before. The inductive invariant `IInv` says these things: `PointInv`, what a
task at each point knows; `SubmissionInv`, where its submission stands;
`EvidenceInv`, what may have left the process; `TrailInv`, the trail as far as
a submission depends on it; `FallbackInv`, how a failure was dealt with. A
`lost` task has lost its record but not its message or its submission, which is
why the answer is related to the message directly and not through the record.
Tasks share only the registry and the counters, so `TaskInv` is stated for one
request: a lemma per action shows that it is kept for the request that moves,
and `UntouchedTask` carries it over for all others.

**The accounts.** What a trail, an event or a counter tells is a second layer,
`Accounts`, inductive on top of `IInv`. `StoryInv` gives the whole trail at each
point of a task, so that each way of closing a record continues it to one of
`LegalTrail`. `EventsInv` says that a closing event is the last one published
and agrees with the record, and that before it there is none. `EarlyInv` names
the events published until a provider is selected, and of a request that gets no
further: none if its tenant is unknown, two if its provider is missing;
`AnswersLeaveEvidence` is read off it. `RegistryInv` says that a name without a
provider had none from the start. `VerdictInv` traces each verdict, and each
error answer, to the policy's decision and to what some provider can do with
that request, which is what the demos need. The counters are the one thing all
tasks write. `CountInv` takes them apart again: each counter is the number of
requests that carry its label, and `CountedUnder(r)` reads the labels of a
request off its own state. A step of one task then adds some labels to one
request (`Counts`), a death takes all of them and the counters with them, and
`OneTaskAccount` is the only place where a counter and a cardinality meet.
`MetricsBalance` compares such sets: at rest, each allowed request with a record
is in exactly one of four of them (`Settled`, `DisjointUnion`). For this the
requests begun must be finitely many, which the invariant says; `Requests` need
not be finite.

**The engine and its promises.** `WorkflowGovernance_proofs` reads off `IInv`
which verdicts exist at each point: none before the record is closed
(`NothingBefore`), the record's own from then on (`VerdictOnRecord`). Each
action then gets a lemma that names the abstract step it is: closing a record is
`Conclude`, for every path by the one lemma `ConcludeMaps`; the submission is
`Submit`; an error before the `try` is `TellError`; the answer is `TellVerdict`,
or `TellError` of a completed report; a death, and a message that reaches the
ingester or is lost after one, is `Die` (`LossMaps`); all else is a stutter.
`PromisesTellOneStory` says what the promises imply together, and
`GovernanceTellsOneStory` reads it through the mapping, so it holds of whatever
keeps the promises.

**The deployed system.** No part of `IInv` or `Accounts` says that the ingester
keeps what it stored, so both survive `IngesterRestarts`, and the engine's
properties hold beside an ingester that forgets (`EngineKeepsItsPromises`). The
auditor needs one more part. `SeenInv` says that whatever can still be read of a
report, in the gateway, under way or ingested, extends what was read last, and
that a closed record that was read is what the answer says. It holds after a
read because all copies of a record are equal, and after a step of the engine
because a task only continues the trail of an open record and never touches a
closed one (`KnownMoves`, `EvidenceMoves`). A death can leave nothing to read;
then nothing contradicts what was seen. The next reading is one of the records
`SeenInv` speaks of, so `AuditTrailOnlyGrows` follows step by step. For
`GovernanceKept` an ingester that restarts takes away only verdicts of reports
whose process died: of the others the gateway has the record
(`IngesterRestartsMaps`).

**The ingester.** The invariant has four parts: `Typed`; `LockInv`, who holds the
lock; `CallInv`, what a goroutine knows at each point, in particular that what a
read has found is what the map holds *now* for the keys it passed, which a write
cannot break because it waits for the readers; and `CountInv`, that the counter
and the POSTs still to be counted make up the records decoded. `CounterBetween`
follows by comparing sets of connections. For the refinement, a record in the
heap never changes (`HeapGrows`), so what a call would encode is fixed from the
moment the lock is given back (`ResultKept`): the step at which it is set is the
one abstract step of the call (`StoreMaps`, `RUnlockMaps`, `RefuseMaps`).

**The bus.** The queue of the loop holds exactly the invocations that have not
begun, in the order of publication (`ReadyInv`), so what begins next is the
earliest. A publisher publishes again only after a publish that returned, and
that left nothing running (`OutcomeInv`).

**Only model-checked:** the three liveness properties `EveryRequestAnswered`,
`EveryHandlerRuns` and `EveryCallEnds`, since liveness, fairness and `ENABLED` are
beyond the prover. Every other property of a run that passes is stated by a theorem
above. No definition is recursive, so nothing is left out for want of induction
over data. The four runs that end in a violation are counterexamples and need
no proof.

## 5. What is not modelled, and why

* The contents of payloads, the text of reasons, errors and log lines,
  timestamps (and the layouts `domain/evidence.go` accepts for them) and
  durations: no property tells them apart.
* The routes that answer with constants (`/health`, `/info`, `/`), the text of
  `/metrics`, `event_names`, `known_tenants`, and the labels of the counters
  other than the outcome. `evidenceEventsHandler` of the Go `main.go` is
  registered nowhere.
* `Settings`, `ops/`: configuration.
* A provider's answer that hashes but is no mapping: `submit_report` would count
  it as accepted and then raise. Answers here are the JSON objects the
  provider's signature promises.
* A cancelled route handler. The middleware and the server do not cancel one
  when a client leaves.
* The HTTP between the ingester and its clients: a call that arrives is a call
  that runs, an answer is written whether or not anyone reads it.

## 6. Plan

The planned modules are written and each safety property that holds is proved.
What may be added:

1. What the liveness properties rest on and a prover can reach: that a task in
   flight always has a step of its own or one of what it waits for, and that
   each of its steps takes it forward, so that a request that is not answered
   can only be one that waits for a provider.
2. The same for the bus (a publish that has not returned has a handler that can
   start or end) and for the ingester (who holds or waits for the lock can go on,
   or somebody can who will let it).
3. Admission through the whole system: that each refusal the client reads gives the
   reason the reference rules give.
