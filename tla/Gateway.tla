------------------------------ MODULE Gateway ------------------------------
(***************************************************************************)
(* The deployed system: the engine as main.py wires it, with the stubs and *)
(* the demo requests of the repository, beside an evidence ingester that   *)
(* restarts on its own, and an auditor who asks both processes for the     *)
(* record of a report, whenever and as often as he likes.                  *)
(*                                                                         *)
(* The ingester is what AtomicEvidenceStore says it is: IngesterStores of  *)
(* the engine is its store, ReadIngester its lookup.                       *)
(***************************************************************************)
EXTENDS WorkflowGovernance, SequencesExt

-----------------------------------------------------------------------------
(* What main.py, the stubs and the scenario runner bring along.            *)

StubAIProvider  == [class |-> "StubAIProvider",  fallback_strategy |-> "drop_and_signal"]
StubAIProviderB == [class |-> "StubAIProviderB", fallback_strategy |-> "drop_and_signal"]
StubRiskScorer  == [class |-> "StubRiskScorer",  fallback_strategy |-> "fail_closed"]
Stubs == {StubAIProvider, StubAIProviderB, StubRiskScorer}
StrategyOfStub == [p \in Stubs |-> p.fallback_strategy]

MainRegistry ==
  [name \in ProviderNames |-> IF name = "stub_a" THEN StubAIProvider ELSE StubAIProviderB]

\* A request of the scenario runner: no jurisdiction of its own.
Demo(tenant, scenario, failure) ==
  [tenant_id |-> Spelled(tenant), scenario |-> scenario,
   report_type |-> "standard", jurisdiction |-> None, payload_asks_failure |-> failure]

BankAlphaCompliant == Demo("bank_alpha", "reporting", FALSE)
BankBetaBlocked == Demo("bank_beta", "reporting", FALSE)
BankAlphaProviderFailure == Demo("bank_alpha", "provider_failure", TRUE)
Demos == {BankAlphaCompliant, BankBetaBlocked, BankAlphaProviderFailure}

-----------------------------------------------------------------------------
VARIABLE seen   \* the last record of each report the auditor was given

gatewayVars == <<vars, seen>>

\* GET /evidence/{request_id} of the gateway; 404 when it has no record.
ReadGateway(r) ==
  /\ store[r] # NoRecord
  /\ seen' = [seen EXCEPT ![r] = store[r]]
  /\ UNCHANGED vars

\* GET /evidence/{request_id} of the ingester; 404 when it has no record.
ReadIngester(r) ==
  /\ ingested[r] # NoRecord
  /\ seen' = [seen EXCEPT ![r] = ingested[r]]
  /\ UNCHANGED vars

\* The ingester's process restarts with an empty map.
IngesterRestarts ==
  /\ ingested' = [r \in Requests |-> NoRecord]
  /\ UNCHANGED <<taskVars, request, store, registry, metric, published, submitted,
                 wire, response, restarts, seen>>

GatewayInit == Init /\ seen = [r \in Requests |-> NoRecord]

GatewayNext ==
  \/ Next /\ UNCHANGED seen
  \/ \E r \in Requests : ReadGateway(r) \/ ReadIngester(r)
  \/ IngesterRestarts

GatewaySpec == GatewayInit /\ [][GatewayNext]_gatewayVars

-----------------------------------------------------------------------------
SeenOK == seen \in [Requests -> Records \cup {NoRecord}]

\* Whichever process he asks, and whatever died in between, the records the
\* auditor is given of a report only grow: each extends the one he was given
\* before, and a closed one is final.  That he is given one is not promised: a
\* process that died has none.
AuditTrailOnlyGrows ==
  [][\A r \in Requests : seen[r] # NoRecord =>
       /\ IsPrefix(seen[r].events, seen'[r].events)
       /\ Closed(seen[r]) => seen'[r] = seen[r]]_gatewayVars

\* The README says that a separate Go microservice persists evidence records:
\* a record that reached it stays there.
EvidenceIsPersisted ==
  [][\A r \in Requests : ingested[r] # NoRecord => ingested'[r] = ingested[r]]_gatewayVars

\* What the auditor was ever shown as closed agrees with the answer the client
\* got, whichever came first.
AuditAgreesWithAnswer ==
  \A r \in Requests :
    seen[r] # NoRecord /\ Closed(seen[r]) /\ response[r].status \in ClosedStatuses =>
      seen[r].status = response[r].status /\ seen[r].output_hash = response[r].result

\* Each demo route does what its path says, whichever of the stubs serves it, and
\* none ends with an error.
DemosDoWhatTheySay ==
  \A r \in Requests :
    response[r] # NoResponse /\ request[r] \in Demos =>
      response[r].status \in
        CASE request[r] = BankAlphaCompliant       -> {"completed"}
          [] request[r] = BankBetaBlocked          -> {"blocked"}
          [] request[r] = BankAlphaProviderFailure -> {"fallback", "blocked_provider_failure"}
=============================================================================
