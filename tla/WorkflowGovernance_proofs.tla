--------------------- MODULE WorkflowGovernance_proofs ---------------------
(***************************************************************************)
(* WorkflowEngine implements ReportGovernance for any number of requests,  *)
(* any providers and any number of process deaths.  The invariant of       *)
(* WorkflowEngine_proofs says at each point of process_report which        *)
(* verdicts exist; SameReport carries the abstract state over where a step *)
(* does not concern it, and each action gets a lemma that names the        *)
(* abstract step it is.                                                    *)
(***************************************************************************)
EXTENDS WorkflowGovernance, WorkflowEngine_proofs

\* What the mapping reads of a request is left as it is.
SameReport(q) ==
  /\ VerdictsOf(q)' = VerdictsOf(q) /\ ToldOf(q)' = ToldOf(q)
  /\ (submitted[q] = 1)' = (submitted[q] = 1) /\ (pc[q] = "lost")' = (pc[q] = "lost")

LEMMA SameRecords ==
  ASSUME NEW q \in Requests, store'[q] = store[q], wire'[q] = wire[q],
         ingested'[q] = ingested[q]
  PROVE  VerdictsOf(q)' = VerdictsOf(q)
BY DEF VerdictsOf, RecordsOf, Closed

LEMMA UntouchedReport ==
  ASSUME NEW q \in Requests, Untouched(q)
  PROVE  SameReport(q)
<1>1. VerdictsOf(q)' = VerdictsOf(q)
  BY SameRecords DEF Untouched
<1> QED BY <1>1 DEF SameReport, Untouched, ToldOf

LEMMA Stutter ==
  ASSUME request' = request, \A q \in Requests : SameReport(q)
  PROVE  UNCHANGED Gov!vars
BY DEF SameReport, Gov!vars, Permission, Submission, Evidence, Told, Abandoned

-----------------------------------------------------------------------------
(* Which verdicts exist at which point.                                    *)

LEMMA NothingBefore ==
  ASSUME IInv, NEW r \in Requests, pc[r] \in {"new", "resolved"} \cup Serving
  PROVE  VerdictsOf(r) = {} /\ ToldOf(r) = "nothing" /\ pc[r] # "lost"
<1>1. /\ wire[r] = NoRecord /\ ingested[r] = NoRecord /\ response[r] = NoResponse
      /\ ~Closed(store[r])
  BY MissingRecord
     DEF IInv, TaskInv, PointInv, EvidenceInv, Serving, InFlight, Points, Closed, ClosedStatuses
<1> QED BY <1>1 DEF VerdictsOf, RecordsOf, ToldOf, Serving

\* While the process lives, the record in its store tells the verdict.
LEMMA VerdictOnRecord ==
  ASSUME IInv, NEW r \in Requests, pc[r] # "lost"
  PROVE  VerdictsOf(r) = IF store[r].status \in ClosedStatuses THEN {store[r].status} ELSE {}
<1>1. CASE store[r] = NoRecord
  <2>1. wire[r] = NoRecord /\ ingested[r] = NoRecord
    BY <1>1 DEF IInv, TaskInv, EvidenceInv
  <2> QED BY <1>1, <2>1, MissingRecord DEF VerdictsOf, RecordsOf
<1>2. CASE store[r] # NoRecord
  <2>1. {wire[r], ingested[r]} \subseteq {store[r], NoRecord}
    BY <1>2 DEF IInv, TaskInv, EvidenceInv
  <2>2. RecordsOf(r) = {store[r]}
    BY <1>2, <2>1 DEF RecordsOf
  <2> QED BY <2>2 DEF VerdictsOf, Closed
<1> QED BY <1>1, <1>2

\* Closing a record gives the verdict it says.
LEMMA ConcludeMaps ==
  ASSUME IInv, NEW r \in Requests, pc[r] \in Serving,
         NEW record \in Records, record.status \in ClosedStatuses, Conclude(r, record),
         UNCHANGED <<request, submitted, response, ingested>>,
         record.status = "completed" <=> submitted[r] = 1,
         record.status = "blocked" <=> ~Permitted(request[r])
  PROVE  Gov!Next
<1>1. VerdictsOf(r) = {} /\ ToldOf(r) = "nothing" /\ pc[r] # "lost"
  BY NothingBefore
<1>2. wire[r] = NoRecord /\ ingested[r] = NoRecord
  BY DEF IInv, TaskInv, EvidenceInv
<1>3. /\ pc'[r] \in {"sending", "closed"} /\ store'[r] = record
      /\ wire'[r] \in {record, NoRecord} /\ ingested'[r] = NoRecord
      /\ \A q \in Requests \ {r} :
           pc'[q] = pc[q] /\ store'[q] = store[q] /\ wire'[q] = wire[q]
  BY <1>2, ConcludeType DEF IInv, TypeOK
<1>4. VerdictsOf(r)' = {record.status}
  <2>1. RecordsOf(r)' = {record}
    BY <1>3, MissingRecord DEF RecordsOf
  <2> QED BY <2>1 DEF VerdictsOf, Closed
<1>5. \A q \in Requests \ {r} : VerdictsOf(q)' = VerdictsOf(q)
  BY <1>3, SameRecords
<1>6. Evidence' = [Evidence EXCEPT ![r] = {record.status}]
  BY <1>4, <1>5 DEF Evidence
<1>7. UNCHANGED <<Permission, Submission, Told, Abandoned>>
  BY <1>1, <1>3 DEF Permission, Submission, Told, ToldOf, Abandoned
<1>8. Gov!Conclude(r, record.status)
  BY <1>1, <1>6, <1>7 DEF Gov!Conclude, Gov!Open, Gov!TrueVerdict, Evidence, Told, Abandoned,
                          Permission, Submission
<1> QED BY <1>8 DEF Gov!Next, Gov!Verdicts, ClosedStatuses

-----------------------------------------------------------------------------
(* The steps.                                                              *)

LEMMA ArriveMaps ==
  ASSUME IInv, NEW r \in Requests, Arrive(r)
  PROVE  [Gov!Next]_Gov!vars
<1>1. CASE ResolveTenant(r)
  <2>1. /\ pc' = [pc EXCEPT ![r] = "resolved"] /\ pc[r] = "new"
        /\ UNCHANGED <<request, store, submitted, wire, ingested, response>>
    BY <1>1 DEF ResolveTenant, At, Goto, envVars
  <2>2. \A q \in Requests : SameReport(q)
    BY <2>1, SameRecords DEF SameReport, ToldOf, IInv, TypeOK
  <2> QED BY <2>1, <2>2, Stutter
<1>2. CASE RefuseUnknownTenant(r)
  <2>1. /\ pc' = [pc EXCEPT ![r] = "returned"] /\ pc[r] = "new"
        /\ UNCHANGED <<request, store, submitted, wire, ingested, response>>
    BY <1>2 DEF RefuseUnknownTenant, At, Goto, envVars
  <2>2. \A q \in Requests : SameReport(q)
    BY <2>1, SameRecords DEF SameReport, ToldOf, IInv, TypeOK
  <2> QED BY <2>1, <2>2, Stutter
<1> QED BY <1>1, <1>2 DEF Arrive

LEMMA EvaluatePolicyMaps ==
  ASSUME IInv, NEW r \in Requests, EvaluatePolicy(r)
  PROVE  [Gov!Next]_Gov!vars
<1>1. IInv'
  BY EvaluatePolicyStep
<1>2. /\ pc' = [pc EXCEPT ![r] = "evaluated"] /\ pc[r] = "resolved"
      /\ UNCHANGED <<request, submitted, wire, ingested, response>>
      /\ \A q \in Requests \ {r} : store'[q] = store[q]
  BY DEF EvaluatePolicy, At, Goto, envVars, IInv, TypeOK
<1>3. VerdictsOf(r) = {}
  BY <1>2, NothingBefore
<1>4. VerdictsOf(r)' = {}
  <2>1. pc'[r] = "evaluated"
    BY <1>2 DEF IInv, TypeOK
  <2>2. /\ wire'[r] = NoRecord /\ ingested'[r] = NoRecord
        /\ ~Closed(store'[r])
    BY <1>1, <2>1 DEF IInv, TaskInv, PointInv, EvidenceInv, Serving, Closed, ClosedStatuses
  <2> QED BY <2>2 DEF VerdictsOf, RecordsOf, Closed
<1>5. \A q \in Requests : SameReport(q)
  BY <1>2, <1>3, <1>4, SameRecords DEF SameReport, ToldOf, IInv, TypeOK
<1> QED BY <1>2, <1>5, Stutter

LEMMA BlockReportMaps ==
  ASSUME IInv, NEW r \in Requests, BlockReport(r)
  PROVE  [Gov!Next]_Gov!vars
<1> DEFINE open == store[r]
           record == Finalize(open, "blocked", "denied", None, None)
<1>1. /\ Conclude(r, record) /\ pc[r] = "evaluated" /\ ~Decision(r).allowed
      /\ UNCHANGED <<request, submitted, response, ingested>>
  BY DEF BlockReport, At, envVars
<1>2. record \in Records /\ record.status = "blocked"
  <2>1. open \in Records
    BY <1>1 DEF IInv, TaskInv, PointInv, Serving
  <2> HIDE DEF open
  <2> QED BY <2>1, FinalizeType DEF ClosedStatuses, DecisionOutcomes
<1> HIDE DEF record
<1>3. submitted[r] = 0 /\ ~Permitted(request[r])
  <2>1. Resolvable(request[r].tenant_id)
    BY <1>1 DEF IInv, TaskInv, PointInv, Serving
  <2> QED BY <1>1, <2>1, DecideIsPermitted DEF IInv, TaskInv, SubmissionInv, Decision
<1> QED BY <1>1, <1>2, <1>3, ConcludeMaps DEF Serving, ClosedStatuses

LEMMA SelectProviderMaps ==
  ASSUME IInv, NEW r \in Requests, SelectProvider(r)
  PROVE  [Gov!Next]_Gov!vars
<1>1. /\ pc' = [pc EXCEPT ![r] = "selected"] /\ pc[r] = "evaluated"
      /\ UNCHANGED <<request, store, submitted, wire, ingested, response>>
  BY DEF SelectProvider, At, Goto, envVars
<1>2. \A q \in Requests : SameReport(q)
  BY <1>1, SameRecords DEF SameReport, ToldOf, IInv, TypeOK
<1> QED BY <1>1, <1>2, Stutter

LEMMA ProviderMissingMaps ==
  ASSUME IInv, NEW r \in Requests, ProviderMissing(r)
  PROVE  [Gov!Next]_Gov!vars
<1>1. /\ pc' = [pc EXCEPT ![r] = "returned"] /\ pc[r] = "evaluated"
      /\ UNCHANGED <<request, store, submitted, wire, ingested, response>>
  BY DEF ProviderMissing, At, Goto, envVars
<1>2. \A q \in Requests : SameReport(q)
  BY <1>1, SameRecords DEF SameReport, ToldOf, IInv, TypeOK
<1> QED BY <1>1, <1>2, Stutter

LEMMA SubmitEnrichedMaps ==
  ASSUME IInv, NEW r \in Requests, SubmitEnriched(r)
  PROVE  [Gov!Next]_Gov!vars
<1>1. IInv'
  BY SubmitEnrichedStep
<1>2. /\ pc' = [pc EXCEPT ![r] = "submitted"] /\ pc[r] = "selected"
      /\ submitted' = [submitted EXCEPT ![r] = @ + 1]
      /\ UNCHANGED <<request, wire, ingested, response>>
      /\ \A q \in Requests \ {r} : store'[q] = store[q]
  BY DEF SubmitEnriched, SubmitReport, At, Goto, envVars, IInv, TypeOK
<1>3. VerdictsOf(r) = {} /\ ToldOf(r) = "nothing"
  BY <1>2, NothingBefore DEF Serving
<1>4. VerdictsOf(r)' = {}
  <2>1. pc'[r] = "submitted"
    BY <1>2 DEF IInv, TypeOK
  <2>2. /\ wire'[r] = NoRecord /\ ingested'[r] = NoRecord
        /\ ~Closed(store'[r])
    BY <1>1, <2>1 DEF IInv, TaskInv, PointInv, EvidenceInv, Serving, Closed, ClosedStatuses
  <2> QED BY <2>2 DEF VerdictsOf, RecordsOf, Closed
<1>5. UNCHANGED <<Permission, Evidence, Told, Abandoned>>
  <2>1. \A q \in Requests : VerdictsOf(q)' = VerdictsOf(q)
    BY <1>2, <1>3, <1>4, SameRecords
  <2> QED BY <1>2, <2>1 DEF Permission, Evidence, Told, ToldOf, Abandoned, IInv, TypeOK
<1>6. ~(submitted[r] = 1) /\ submitted'[r] = 1
  BY <1>2 DEF IInv, TypeOK, TaskInv, SubmissionInv
<1>7. Submission' = [Submission EXCEPT ![r] = TRUE]
  <2>1. \A q \in Requests \ {r} : submitted'[q] = submitted[q]
    BY <1>2 DEF IInv, TypeOK
  <2>2. ASSUME NEW q \in Requests
        PROVE  (submitted'[q] = 1) = IF q = r THEN TRUE ELSE submitted[q] = 1
    BY <1>6, <2>1
  <2> QED BY <2>2, Zenon DEF Submission
<1>8. Permitted(request[r])
  <2>1. Resolvable(request[r].tenant_id) /\ Decision(r).allowed
    BY <1>2 DEF IInv, TaskInv, PointInv, Serving
  <2> QED BY <2>1, DecideIsPermitted DEF Decision
<1>9. Gov!Submit(r)
  <2>1. /\ Told[r] = "nothing" /\ ~Abandoned[r] /\ ~Submission[r]
        /\ Evidence[r] = {} /\ Permission[r]
    BY <1>2, <1>3, <1>6, <1>8, Zenon DEF Told, Abandoned, Submission, Evidence, Permission
  <2> QED BY <1>5, <1>7, <2>1, Zenon DEF Gov!Submit, Gov!Open
<1> QED BY <1>9 DEF Gov!Next

LEMMA ProviderFailsMaps ==
  ASSUME IInv, NEW r \in Requests, ProviderFails(r)
  PROVE  [Gov!Next]_Gov!vars
<1>1. /\ pc[r] = "selected"
      /\ UNCHANGED <<request, submitted, response, ingested>>
      /\ \/ ConcludeFailure(r, store[r])
         \/ ConcludeFailure(r, AddEvent(store[r], "PROVIDER_SELECTED"))
  BY DEF ProviderFails, At, envVars
<1>2. /\ store[r] \in Records /\ provider[r] \in Providers
      /\ Resolvable(request[r].tenant_id) /\ Decision(r).allowed /\ submitted[r] = 0
  BY <1>1 DEF IInv, TaskInv, PointInv, SubmissionInv, Serving
<1>3. SelectedName(r) \in ProviderNames
  BY <1>2, DecideRoutes DEF Decision, SelectedName
<1>4. Permitted(request[r])
  BY <1>2, DecideIsPermitted DEF Decision
<1>5. PICK record \in Records : ConcludeFailure(r, record)
  <2>1. AddEvent(store[r], "PROVIDER_SELECTED") \in Records
    BY <1>2, AddEventType DEF EventTypes
  <2> QED BY <1>1, <1>2, <2>1
<1>6. PICK closed \in Records :
        /\ Conclude(r, closed)
        /\ closed.status \in {"blocked_provider_failure", "fallback"}
  BY <1>2, <1>3, <1>5, ConcludeFailureRecord
<1> QED BY <1>1, <1>2, <1>4, <1>6, ConcludeMaps DEF Serving, ClosedStatuses

LEMMA CompleteReportMaps ==
  ASSUME IInv, NEW r \in Requests, CompleteReport(r)
  PROVE  [Gov!Next]_Gov!vars
<1> DEFINE open == store[r]
           record == Finalize(open, "completed", "approved", SelectedName(r), enrichment[r])
<1>1. /\ Conclude(r, record) /\ pc[r] = "submitted"
      /\ UNCHANGED <<request, submitted, response, ingested>>
  BY DEF CompleteReport, At, envVars
<1>2. /\ open \in Records /\ Resolvable(request[r].tenant_id) /\ Decision(r).allowed
      /\ enrichment[r] \in Enrichments /\ submitted[r] = 1
  BY <1>1 DEF IInv, TaskInv, PointInv, SubmissionInv, Serving
<1> HIDE DEF open
<1>3. record \in Records /\ record.status = "completed"
  <2>1. SelectedName(r) \in ProviderNames
    BY <1>2, DecideRoutes DEF Decision, SelectedName
  <2>2. SelectedName(r) \in ProviderNames \cup {None} /\ enrichment[r] \in Enrichments \cup {None}
    BY <1>2, <2>1
  <2>3. "completed" \in ClosedStatuses /\ "approved" \in DecisionOutcomes
    BY DEF ClosedStatuses, DecisionOutcomes
  <2> QED BY <1>2, <2>2, <2>3, FinalizeType
<1> HIDE DEF record
<1>4. Permitted(request[r])
  BY <1>2, DecideIsPermitted DEF Decision
<1> QED BY <1>1, <1>2, <1>3, <1>4, ConcludeMaps DEF Serving, ClosedStatuses

LEMMA AnnounceMaps ==
  ASSUME IInv, NEW r \in Requests, Announce(r)
  PROVE  [Gov!Next]_Gov!vars
<1>1. /\ pc' = [pc EXCEPT ![r] = "announced"] /\ pc[r] = "closed"
      /\ UNCHANGED <<request, store, submitted, wire, ingested, response>>
  BY DEF Announce, At, Goto, envVars
<1>2. \A q \in Requests : SameReport(q)
  BY <1>1, SameRecords DEF SameReport, ToldOf, IInv, TypeOK
<1> QED BY <1>1, <1>2, Stutter

LEMMA ReturnsMap ==
  ASSUME IInv, NEW r \in Requests,
         ReturnDenied(r) \/ ReturnCompleted(r) \/ ReturnBlocked(r) \/ ReturnFallback(r)
  PROVE  [Gov!Next]_Gov!vars
<1>1. /\ pc' = [pc EXCEPT ![r] = "returned"] /\ pc[r] = "announced"
      /\ UNCHANGED <<request, store, submitted, wire, ingested, response>>
  BY DEF ReturnDenied, ReturnCompleted, ReturnBlocked, ReturnFallback, Return, At, Goto, envVars
<1>2. \A q \in Requests : SameReport(q)
  BY <1>1, SameRecords DEF SameReport, ToldOf, IInv, TypeOK
<1> QED BY <1>1, <1>2, Stutter

\* The answer is the verdict on record, an error about a completed report, or
\* one about a report to which nothing happened.
LEMMA RespondMaps ==
  ASSUME IInv, NEW r \in Requests, Respond(r)
  PROVE  [Gov!Next]_Gov!vars
<1> DEFINE status == store[r].status
           answer == Rendered(r)
<1>1. /\ response' = [response EXCEPT ![r] = answer]
      /\ pc' = [pc EXCEPT ![r] = "done"] /\ pc[r] = "returned"
      /\ UNCHANGED <<request, store, submitted, wire, ingested>>
  BY DEF Respond, At, Goto, envVars
<1>2. /\ VerdictsOf(r) = IF status \in ClosedStatuses THEN {status} ELSE {}
      /\ ToldOf(r) = "nothing"
  BY <1>1, VerdictOnRecord DEF IInv, TaskInv, EvidenceInv, InFlight, Points, ToldOf
<1>3. /\ answer # NoResponse
      /\ answer.status \in ClosedStatuses => status = answer.status
      /\ answer.status \notin ClosedStatuses => answer = ErrorResponse
      /\ answer = ErrorResponse /\ status \in ClosedStatuses => status = "completed"
  BY RenderedAnswer
<1>4. status \in ClosedStatuses \/ submitted[r] = 0
  <2>1. CASE store[r] = NoRecord
    BY <1>1, <2>1, MissingRecord DEF IInv, TaskInv, PointInv, SubmissionInv
  <2>2. CASE store[r] # NoRecord
    BY <1>1, <2>2 DEF IInv, TypeOK, TaskInv, PointInv, Records, Statuses
  <2> QED BY <2>1, <2>2
<1> HIDE DEF status, answer
<1>5. Told' = [Told EXCEPT ![r] = answer.status]
  BY <1>1, <1>3 DEF Told, ToldOf, IInv, TypeOK
<1>6. UNCHANGED <<Permission, Submission, Evidence, Abandoned>>
  <2>1. \A q \in Requests : VerdictsOf(q)' = VerdictsOf(q)
    BY <1>1, SameRecords
  <2> QED BY <1>1, <2>1 DEF Permission, Submission, Evidence, Abandoned, IInv, TypeOK
<1>7. /\ Evidence[r] = IF status \in ClosedStatuses THEN {status} ELSE {}
      /\ Told[r] = "nothing" /\ ~Abandoned[r]
  BY <1>1, <1>2 DEF Evidence, Told, Abandoned
<1>8. CASE answer.status \in ClosedStatuses
  <2>1. Gov!TellVerdict(r)
    BY <1>3, <1>5, <1>6, <1>7, <1>8 DEF Gov!TellVerdict, Gov!Open
  <2> QED BY <2>1 DEF Gov!Next
<1>9. CASE answer.status \notin ClosedStatuses
  <2>1. status \notin ClosedStatuses => ~Submission[r]
    <3>1. submitted[r] = 0 => ~(submitted[r] = 1)
      OBVIOUS
    <3> QED BY <1>4, <3>1, Zenon DEF Submission
  <2>2. answer.status = "error"
    BY <1>3, <1>9 DEF ErrorResponse
  <2>3. Gov!TellError(r)
    BY <1>3, <1>5, <1>6, <1>7, <1>9, <2>1, <2>2 DEF Gov!TellError, Gov!Open
  <2> QED BY <2>3 DEF Gov!Next
<1> QED BY <1>8, <1>9

LEMMA WaitEndsMaps ==
  ASSUME IInv, NEW r \in Requests, HandlersReturn(r) \/ PostReturns(r)
  PROVE  [Gov!Next]_Gov!vars
<1>1. /\ UNCHANGED <<request, store, submitted, wire, ingested, response>>
      /\ \/ pc' = pc
         \/ pc[r] = "sending" /\ pc' = [pc EXCEPT ![r] = "closed"]
  <2>1. CASE HandlersReturn(r)
    BY <2>1 DEF HandlersReturn, envVars
  <2>2. CASE PostReturns(r)
    BY <2>2 DEF PostReturns, Goto, envVars
  <2> QED BY <2>1, <2>2
<1>2. \A q \in Requests : SameReport(q)
  BY <1>1, SameRecords DEF SameReport, ToldOf, IInv, TypeOK
<1> QED BY <1>1, <1>2, Stutter

\* A step after which less evidence is left, but only of abandoned reports.
LEMMA LossMaps ==
  ASSUME UNCHANGED <<request, submitted, response>>,
         \A q \in Requests :
           /\ VerdictsOf(q)' \subseteq VerdictsOf(q)
           /\ VerdictsOf(q) \subseteq ClosedStatuses
           /\ pc[q] = "lost" => pc'[q] = "lost"
           /\ pc'[q] # "lost" => VerdictsOf(q)' = VerdictsOf(q)
  PROVE  Gov!Next
<1>1. UNCHANGED <<Permission, Submission, Told>>
  BY DEF Permission, Submission, Told, ToldOf
<1>2. /\ Abandoned' \in [Requests -> BOOLEAN]
      /\ \A q \in Requests : Abandoned[q] => Abandoned'[q]
  BY DEF Abandoned
<1>3. /\ Evidence' \in [Requests -> SUBSET Gov!Verdicts]
      /\ \A q \in Requests : Evidence'[q] \subseteq Evidence[q]
  BY DEF Evidence, Gov!Verdicts, ClosedStatuses
<1>4. \A q \in Requests : ~Abandoned'[q] => Evidence'[q] = Evidence[q]
  BY DEF Evidence, Abandoned
<1>5. Gov!Die
  BY <1>1, <1>2, <1>3, <1>4, Zenon DEF Gov!Die
<1> QED BY <1>5 DEF Gov!Next

LEMMA NetworkMaps ==
  ASSUME IInv, NEW r \in Requests, IngesterStores(r) \/ PostLost(r)
  PROVE  [Gov!Next]_Gov!vars
<1>1. /\ UNCHANGED <<pc, request, store, submitted, response>> /\ wire[r] # NoRecord
      /\ wire' = [wire EXCEPT ![r] = NoRecord]
      /\ ingested' = ingested \/ ingested' = [ingested EXCEPT ![r] = wire[r]]
  BY DEF IngesterStores, PostLost, envVars, taskVars
<1>2. \A q \in Requests : RecordsOf(q)' \subseteq RecordsOf(q)
  BY <1>1 DEF RecordsOf, IInv, TypeOK
<1>3. ASSUME NEW q \in Requests, pc[q] # "lost"
      PROVE  VerdictsOf(q)' = VerdictsOf(q)
  <2>1. CASE q # r
    BY <1>1, <2>1, SameRecords DEF IInv, TypeOK
  <2>2. CASE q = r
    <3>1. store[r] # NoRecord /\ {wire[r], ingested[r]} \subseteq {store[r], NoRecord}
      BY <1>1, <1>3, <2>2 DEF IInv, TaskInv, EvidenceInv
    <3>2. RecordsOf(r) = {store[r]} /\ RecordsOf(r)' = {store[r]}
      BY <1>1, <3>1 DEF RecordsOf, IInv, TypeOK
    <3> QED BY <2>2, <3>2 DEF VerdictsOf
  <2> QED BY <2>1, <2>2
<1>4. \A q \in Requests : VerdictsOf(q)' \subseteq VerdictsOf(q)
  BY <1>2 DEF VerdictsOf, Closed
<1>5. \A q \in Requests : VerdictsOf(q) \subseteq ClosedStatuses
  BY DEF VerdictsOf, Closed
<1> QED BY <1>1, <1>3, <1>4, <1>5, LossMaps

LEMMA RestartMaps ==
  ASSUME IInv, Restart
  PROVE  [Gov!Next]_Gov!vars
<1>1. /\ UNCHANGED <<request, submitted, wire, ingested, response>>
      /\ \A q \in Requests :
           store'[q] = NoRecord /\ pc'[q] = IF pc[q] = "new" THEN "new" ELSE "lost"
  BY DEF Restart
<1>2. \A q \in Requests : RecordsOf(q)' \subseteq RecordsOf(q)
  BY <1>1 DEF RecordsOf
<1>3. ASSUME NEW q \in Requests PROVE VerdictsOf(q)' \subseteq VerdictsOf(q)
  BY <1>2, <1>3 DEF VerdictsOf, Closed
<1>4. ASSUME NEW q \in Requests, pc'[q] # "lost"
      PROVE  VerdictsOf(q)' = VerdictsOf(q)
  <2>1. VerdictsOf(q) = {}
    BY <1>1, <1>4, NothingBefore
  <2> QED BY <1>3, <2>1
<1>5. \A q \in Requests : VerdictsOf(q) \subseteq ClosedStatuses
  BY DEF VerdictsOf, Closed
<1>6. \A q \in Requests : pc[q] = "lost" => pc'[q] = "lost"
  BY <1>1
<1> QED BY <1>1, <1>3, <1>4, <1>5, <1>6, LossMaps

LEMMA RegisterMaps ==
  ASSUME IInv, NEW name \in ProviderNames, NEW p \in Providers, Register(name, p)
  PROVE  [Gov!Next]_Gov!vars
<1>1. UNCHANGED <<pc, request, store, submitted, wire, ingested, response>>
  BY DEF Register, taskVars
<1>2. \A q \in Requests : SameReport(q)
  BY <1>1, SameRecords DEF SameReport, ToldOf
<1> QED BY <1>1, <1>2, Stutter

LEMMA InitMaps == Init => Gov!Init
<1> SUFFICES ASSUME Init PROVE Gov!Init
  OBVIOUS
<1>1. /\ Permission \in [Requests -> BOOLEAN]
      /\ Abandoned = [r \in Requests |-> FALSE]
  BY DEF Init, Permission, Permitted, Abandoned
<1>2. Submission = [r \in Requests |-> FALSE]
  <2>1. \A r \in Requests : ~(submitted[r] = 1)
    BY DEF Init
  <2>2. \A r \in Requests : (submitted[r] = 1) = FALSE
    BY <2>1
  <2> QED BY <2>2, Zenon DEF Submission
<1>3. Evidence = [r \in Requests |-> {}]
  BY DEF Init, Evidence, VerdictsOf, RecordsOf
<1>4. Told = [r \in Requests |-> "nothing"]
  BY DEF Init, Told, ToldOf
<1> QED BY <1>1, <1>2, <1>3, <1>4, Zenon DEF Gov!Init

LEMMA NextMaps == IInv /\ [Next]_vars => [Gov!Next]_Gov!vars
<1> SUFFICES ASSUME IInv, [Next]_vars PROVE [Gov!Next]_Gov!vars
  OBVIOUS
<1>1. ASSUME NEW r \in Requests, Arrive(r) PROVE [Gov!Next]_Gov!vars
  BY <1>1, ArriveMaps
<1>2. ASSUME NEW r \in Requests, EngineStep(r) PROVE [Gov!Next]_Gov!vars
  BY <1>2, EvaluatePolicyMaps, BlockReportMaps, SelectProviderMaps, ProviderMissingMaps,
     CompleteReportMaps, AnnounceMaps, ReturnsMap, RespondMaps DEF EngineStep
<1>3. ASSUME NEW r \in Requests, ProviderAnswers(r) PROVE [Gov!Next]_Gov!vars
  BY <1>3, SubmitEnrichedMaps, ProviderFailsMaps DEF ProviderAnswers
<1>4. ASSUME NEW r \in Requests, HandlersReturn(r) \/ PostReturns(r)
      PROVE  [Gov!Next]_Gov!vars
  BY <1>4, WaitEndsMaps
<1>5. CASE Environment
  BY <1>5, RegisterMaps, NetworkMaps, RestartMaps DEF Environment
<1>6. CASE UNCHANGED vars
  <2>1. \A q \in Requests : SameReport(q)
    BY <1>6, SameRecords DEF vars, SameReport, ToldOf
  <2> QED BY <1>6, <2>1, Stutter DEF vars
<1> QED BY <1>1, <1>2, <1>3, <1>4, <1>5, <1>6 DEF Next

\* The engine keeps every promise of ReportGovernance, step by step.
THEOREM EngineImplementsGovernance == Spec => GovernanceKept
BY InitMaps, NextMaps, Invariance, PTL DEF Spec, GovernanceKept, Gov!Spec

-----------------------------------------------------------------------------
(* What ReportGovernance_proofs shows of the promises, read of the mapping. *)

Promises == INSTANCE ReportGovernance_proofs WITH
  permitted <- Permission, submitted <- Submission, evidence <- Evidence,
  told <- Told, abandoned <- Abandoned

\* Whatever keeps the promises tells one story of each report, the true one.
LEMMA GovernanceTellsOneStory == GovernanceKept => []Gov!OneTrueStory
<1>1. Gov!Init => Promises!Init
  BY DEF Gov!Init, Promises!Init
<1>2. [Gov!Next]_Gov!vars => [Promises!Next]_Promises!vars
  BY DEF Gov!Next, Gov!vars, Gov!Die, Gov!Submit, Gov!TellVerdict, Gov!TellError, Gov!Conclude,
         Gov!Open, Gov!TrueVerdict, Gov!Verdicts,
         Promises!Next, Promises!vars, Promises!Die, Promises!Submit, Promises!TellVerdict,
         Promises!TellError, Promises!Conclude, Promises!Open, Promises!TrueVerdict,
         Promises!Verdicts
<1>3. Promises!OneTrueStory => Gov!OneTrueStory
  BY DEF Gov!OneTrueStory, Gov!TrueVerdict, Gov!Verdicts,
         Promises!OneTrueStory, Promises!TrueVerdict, Promises!Verdicts
<1> QED BY <1>1, <1>2, <1>3, Promises!PromisesTellOneStory, PTL
        DEF GovernanceKept, Gov!Spec, Promises!Spec
=============================================================================
