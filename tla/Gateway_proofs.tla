--------------------------- MODULE Gateway_proofs ---------------------------
(***************************************************************************)
(* Safety of the deployed system: what the engine promises is kept beside  *)
(* an ingester that restarts on its own, and an auditor who reads both     *)
(* processes never sees a report's story run backwards or contradict the   *)
(* answer, for any number of requests, providers and deaths of either      *)
(* process.                                                                *)
(*                                                                         *)
(* The engine's invariants do not depend on the ingester keeping what it   *)
(* stored, so they are invariants here too.  SeenInv says in addition that *)
(* whatever can still be read of a report extends what was read last.      *)
(***************************************************************************)
EXTENDS Gateway, WorkflowGovernance_proofs

\* b is the same record as a, later: nothing of its trail is lost, and once
\* closed it is final.
Extends(a, b) ==
  /\ IsPrefix(a.events, b.events)
  /\ Closed(a) => b = a

\* What the auditor was given is no later than anything he may be given next,
\* and it agrees with the answer.
SeenInv(r) ==
  /\ seen[r] # NoRecord =>
       /\ pc[r] \notin {"new", "resolved"}
       /\ pc[r] # "lost" => Known(r)
       /\ \A record \in {store[r], wire[r], ingested[r]} \ {NoRecord} : Extends(seen[r], record)
  /\ seen[r] # NoRecord /\ Closed(seen[r]) /\ response[r].status \in ClosedStatuses =>
       seen[r].status = response[r].status /\ seen[r].output_hash = response[r].result

GatewayIInv == IInv /\ Accounts /\ SeenOK /\ \A r \in Requests : SeenInv(r)

-----------------------------------------------------------------------------
(* Records that extend records.                                            *)

\* A prefix agrees element by element.
LEMMA PrefixByElements ==
  ASSUME NEW S, NEW s \in Seq(S), NEW t \in Seq(S)
  PROVE  IsPrefix(s, t) <=> Len(s) <= Len(t) /\ \A i \in 1..Len(s) : s[i] = t[i]
<1>1. ASSUME Len(s) <= Len(t), \A i \in 1..Len(s) : s[i] = t[i] PROVE IsPrefix(s, t)
  <2> DEFINE n == Len(s)
             a == SubSeq(s, 1, n)
             b == SubSeq(t, 1, n)
  <2>1. /\ a \in Seq(S) /\ Len(a) = n /\ \A i \in 1..n : a[i] = s[i]
        /\ b \in Seq(S) /\ Len(b) = n /\ \A i \in 1..n : b[i] = t[i]
    BY <1>1
  <2> HIDE DEF a, b, n
  <2>2. \A i \in 1..Len(a) : a[i] = b[i]
    BY <1>1, <2>1 DEF n
  <2>3. a = b
    BY <2>1, <2>2, SeqEqual
  <2> QED BY <1>1, <2>3 DEF IsPrefix, a, b, n
<1>2. ASSUME IsPrefix(s, t), NEW i \in 1..Len(s) PROVE s[i] = t[i]
  <2>1. Len(s) <= Len(t) /\ SubSeq(s, 1, Len(s))[i] = SubSeq(t, 1, Len(s))[i]
    BY <1>2 DEF IsPrefix
  <2>2. SubSeq(s, 1, Len(s))[i] = s[i]
    BY <2>1
  <2>3. SubSeq(t, 1, Len(s))[i] = t[i]
    BY <2>1
  <2> QED BY <2>1, <2>2, <2>3
<1> QED BY <1>1, <1>2 DEF IsPrefix

\* Extension is reflexive and transitive.
LEMMA ExtendsIsAnOrder ==
  ASSUME NEW a \in Records
  PROVE  /\ Extends(a, a)
         /\ \A b, c \in Records : Extends(a, b) /\ Extends(b, c) => Extends(a, c)
<1>1. \A b \in Records : b.events \in Seq(EventTypes)
  BY DEF Records
<1>2. Extends(a, a)
  BY <1>1, PrefixByElements DEF Extends
<1>3. ASSUME NEW b \in Records, NEW c \in Records, Extends(a, b), Extends(b, c)
      PROVE  Extends(a, c)
  <2> DEFINE x == a.events
             y == b.events
             z == c.events
  <2>1. x \in Seq(EventTypes) /\ y \in Seq(EventTypes) /\ z \in Seq(EventTypes)
    BY <1>1
  <2>2. IsPrefix(x, y) /\ IsPrefix(y, z)
    BY <1>3 DEF Extends
  <2> HIDE DEF x, y, z
  <2>3. /\ Len(x) <= Len(y) /\ \A i \in 1..Len(x) : x[i] = y[i]
        /\ Len(y) <= Len(z) /\ \A i \in 1..Len(y) : y[i] = z[i]
    BY <2>1, <2>2, PrefixByElements
  <2>4. Len(x) <= Len(z) /\ \A i \in 1..Len(x) : x[i] = z[i]
    BY <2>1, <2>3
  <2>5. IsPrefix(x, z)
    BY <2>1, <2>4, PrefixByElements
  <2> QED BY <1>3, <2>5 DEF Extends, x, z
<1> QED BY <1>2, <1>3

\* A trail is a prefix of itself, and of what follows once it is continued.
LEMMA LongerTrails ==
  ASSUME NEW s \in Seq(EventTypes), NEW t \in Seq(EventTypes), IsPrefix(s, t),
         NEW e \in EventTypes
  PROVE  IsPrefix(s, s) /\ Append(t, e) \in Seq(EventTypes) /\ IsPrefix(s, Append(t, e))
<1> DEFINE u == Append(t, e)
<1>1. Len(s) <= Len(t) /\ \A i \in 1..Len(s) : s[i] = t[i]
  BY PrefixByElements
<1>2. u \in Seq(EventTypes) /\ Len(u) = Len(t) + 1 /\ \A i \in 1..Len(t) : u[i] = t[i]
  OBVIOUS
<1> HIDE DEF u
<1>3. Len(s) <= Len(u) /\ \A i \in 1..Len(s) : s[i] = u[i]
  BY <1>1, <1>2
<1>4. IsPrefix(s, u)
  BY <1>2, <1>3, PrefixByElements
<1>5. IsPrefix(s, s)
  BY PrefixByElements
<1> QED BY <1>2, <1>4, <1>5 DEF u

\* Whatever closes a failed report continues the trail it was given.
LEMMA FailedTrailExtends ==
  ASSUME NEW s \in Seq(EventTypes), NEW t \in Seq(EventTypes), IsPrefix(s, t),
         NEW applied \in EventTypes
  PROVE  IsPrefix(s, FailedTrail(t, applied))
<1> DEFINE u == Append(t, "PROVIDER_FAILED")
           v == Append(u, applied)
<1>1. "PROVIDER_FAILED" \in EventTypes /\ "WORKFLOW_COMPLETED" \in EventTypes
  BY DEF EventTypes
<1>2. u \in Seq(EventTypes) /\ IsPrefix(s, u)
  BY <1>1, LongerTrails
<1> HIDE DEF u
<1>3. v \in Seq(EventTypes) /\ IsPrefix(s, v)
  BY <1>2, LongerTrails
<1> HIDE DEF v
<1>4. IsPrefix(s, Append(v, "WORKFLOW_COMPLETED"))
  BY <1>1, <1>3, LongerTrails
<1> QED BY <1>4 DEF FailedTrail, u, v

-----------------------------------------------------------------------------
(* What a step of the engine does to a record.                             *)

\* A step of a task that has a record keeps it or extends it.
LEMMA KnownMoves ==
  ASSUME IInv, NEW r \in Requests, Known(r), EngineStep(r) \/ ProviderAnswers(r)
  PROVE  /\ pc'[r] \notin {"new", "resolved", "lost"}
         /\ store'[r] \in Records /\ Extends(store[r], store'[r])
<1> DEFINE open == store[r]
<1>1. open \in Records /\ pc[r] \notin {"new", "resolved", "lost"}
  BY DEF IInv, TypeOK, TaskInv, PointInv, Known
<1>2. pc[r] \in Serving => ~Closed(open)
  BY DEF IInv, TaskInv, PointInv, Serving, Closed, ClosedStatuses
<1>3. open.events \in Seq(EventTypes) /\ IsPrefix(open.events, open.events)
  <2>1. open.events \in Seq(EventTypes)
    BY <1>1 DEF Records
  <2> QED BY <2>1, PrefixByElements
<1>4. ASSUME NEW e \in EventTypes, NEW trail \in Seq(EventTypes), IsPrefix(open.events, trail)
      PROVE  IsPrefix(open.events, Append(trail, e))
  BY <1>3, <1>4, LongerTrails
<1>5. ASSUME pc[r] \in Serving, NEW record \in Records, Conclude(r, record),
             IsPrefix(open.events, record.events)
      PROVE  /\ pc'[r] \notin {"new", "resolved", "lost"}
             /\ store'[r] \in Records /\ Extends(open, store'[r])
  <2>1. pc'[r] \in {"sending", "closed"} /\ store'[r] = record
    BY <1>5, ConcludeType DEF IInv, TypeOK
  <2> QED BY <1>2, <1>5, <2>1 DEF Extends
<1>6. CASE EvaluatePolicy(r)
  BY <1>1, <1>6 DEF EvaluatePolicy, At
<1>7. CASE \/ SelectProvider(r) \/ ProviderMissing(r) \/ Announce(r) \/ Respond(r)
           \/ ReturnDenied(r) \/ ReturnCompleted(r) \/ ReturnBlocked(r) \/ ReturnFallback(r)
  <2>1. store'[r] = open /\ pc'[r] \in {"selected", "announced", "returned", "done"}
    BY <1>7 DEF IInv, TypeOK, SelectProvider, ProviderMissing, Announce, Respond, ReturnDenied,
                ReturnCompleted, ReturnBlocked, ReturnFallback, Return, Goto
  <2> QED BY <1>1, <2>1, ExtendsIsAnOrder
<1>8. CASE BlockReport(r)
  <2> DEFINE record == Finalize(open, "blocked", "denied", None, None)
  <2>1. pc[r] \in Serving /\ Conclude(r, record)
    BY <1>8 DEF BlockReport, At, Serving
  <2>2. record \in Records /\ record.events = Append(open.events, "WORKFLOW_COMPLETED")
    <3> HIDE DEF open
    <3> QED BY <1>1, FinalizeType DEF ClosedStatuses, DecisionOutcomes
  <2> HIDE DEF record
  <2> QED BY <1>3, <1>4, <1>5, <2>1, <2>2 DEF EventTypes
<1>9. CASE CompleteReport(r)
  <2> DEFINE name == SelectedName(r)
             hash == enrichment[r]
             record == Finalize(open, "completed", "approved", name, hash)
  <2>1. pc[r] \in Serving /\ pc[r] = "submitted" /\ Conclude(r, record)
    BY <1>9 DEF CompleteReport, At, Serving
  <2>2. hash \in Enrichments \cup {None} /\ name \in ProviderNames \cup {None}
    BY <2>1, DecideRoutes
       DEF IInv, TaskInv, PointInv, SubmissionInv, Serving, SelectedName, Decision
  <2>3. "completed" \in ClosedStatuses /\ "approved" \in DecisionOutcomes
    BY DEF ClosedStatuses, DecisionOutcomes
  <2>4. record \in Records /\ record.events = Append(open.events, "WORKFLOW_COMPLETED")
    <3> HIDE DEF open, name, hash
    <3> QED BY <1>1, <2>2, <2>3, FinalizeType
  <2> HIDE DEF record
  <2> QED BY <1>3, <1>4, <1>5, <2>1, <2>4 DEF EventTypes
<1>10. CASE SubmitEnriched(r)
  <2> DEFINE record == AddEvent(open, "PROVIDER_SELECTED")
  <2>1. pc[r] \in Serving /\ pc'[r] = "submitted" /\ store'[r] = record
    BY <1>10 DEF IInv, TypeOK, SubmitEnriched, At, Goto, Serving
  <2>2. record \in Records /\ record.events = Append(open.events, "PROVIDER_SELECTED")
    <3> HIDE DEF open
    <3> QED BY <1>1, AddEventType DEF EventTypes
  <2> HIDE DEF record
  <2>3. IsPrefix(open.events, record.events)
    BY <1>3, <1>4, <2>2 DEF EventTypes
  <2> QED BY <1>2, <2>1, <2>2, <2>3 DEF Extends
<1>11. CASE ProviderFails(r)
  <2> DEFINE noted == AddEvent(open, "PROVIDER_SELECTED")
  <2>1. pc[r] = "selected" /\ pc[r] \in Serving
    BY <1>11 DEF ProviderFails, At, Serving
  <2>2. provider[r] \in Providers /\ SelectedName(r) \in ProviderNames
    BY <2>1, DecideRoutes DEF IInv, TaskInv, PointInv, Serving, SelectedName, Decision
  <2>3. noted \in Records /\ noted.events = Append(open.events, "PROVIDER_SELECTED")
    <3> HIDE DEF open
    <3> QED BY <1>1, AddEventType DEF EventTypes
  <2>4. PICK record \in {open, noted} : ConcludeFailure(r, record)
    BY <1>11 DEF ProviderFails
  <2> HIDE DEF noted
  <2>5. /\ record \in Records /\ record.events \in Seq(EventTypes)
        /\ IsPrefix(open.events, record.events)
    BY <1>1, <1>3, <1>4, <2>3, <2>4 DEF Records, EventTypes
  <2>6. PICK closed \in Records :
          /\ Conclude(r, closed)
          /\ closed.events \in {FailedTrail(record.events, "PROVIDER_FALLBACK_BLOCKED"),
                                FailedTrail(record.events, "PROVIDER_FALLBACK_APPLIED")}
    BY <2>2, <2>4, <2>5, ConcludeFailureRecord
  <2>7. IsPrefix(open.events, closed.events)
    BY <1>3, <2>5, <2>6, FailedTrailExtends DEF EventTypes
  <2> QED BY <1>5, <2>1, <2>6, <2>7
<1> QED BY <1>6, <1>7, <1>8, <1>9, <1>10, <1>11 DEF EngineStep, ProviderAnswers

\* What a step of the engine does to what can be read of a report: after its
\* process died the messages under way are stored or lost; before, its record
\* is kept or extended.
LEMMA EvidenceMoves ==
  ASSUME IInv, Next, NEW q \in Requests
  PROVE  \/ Restart
         \/ /\ pc[q] = "lost" /\ pc'[q] = "lost"
            /\ store'[q] = store[q] /\ response'[q] = response[q]
            /\ {wire'[q], ingested'[q]} \subseteq {wire[q], ingested[q], NoRecord}
         \/ pc[q] # "lost" /\ ~Known(q)
         \/ /\ Known(q) /\ pc'[q] \notin {"new", "resolved", "lost"}
            /\ store'[q] \in Records /\ Extends(store[q], store'[q])
<1> DEFINE Kept ==
      /\ pc'[q] = pc[q] /\ store'[q] = store[q] /\ response'[q] = response[q]
      /\ {wire'[q], ingested'[q]} \subseteq {wire[q], ingested[q], NoRecord}
    Goal ==
      \/ /\ pc[q] = "lost" /\ Kept
      \/ pc[q] # "lost" /\ ~Known(q)
      \/ /\ Known(q) /\ pc'[q] \notin {"new", "resolved", "lost"}
         /\ store'[q] \in Records /\ Extends(store[q], store'[q])
<1>1. Known(q) => store[q] \in Records /\ pc[q] \notin {"new", "resolved", "lost"}
  BY DEF IInv, TypeOK, TaskInv, PointInv, Known
<1>2. ASSUME store'[q] = store[q], Known(q), pc'[q] \notin {"new", "resolved", "lost"} PROVE Goal
  BY <1>1, <1>2, ExtendsIsAnOrder
<1>3. Kept => Goal
  BY <1>1, <1>2
<1>4. ASSUME NEW r \in Requests,
             \/ Arrive(r) \/ EngineStep(r) \/ ProviderAnswers(r)
             \/ HandlersReturn(r) \/ PostReturns(r) \/ IngesterStores(r) \/ PostLost(r)
      PROVE  Goal
  <2>1. CASE r # q
    <3>1. Untouched(q)
      BY <1>4, <2>1, OthersUntouched DEF IInv
    <3>2. Kept
      BY <3>1 DEF Untouched
    <3> QED BY <1>3, <3>2
  <2>2. CASE r = q /\ Arrive(q)
    BY <1>1, <2>2 DEF Arrive, ResolveTenant, RefuseUnknownTenant, At
  <2>3. CASE r = q /\ (EngineStep(q) \/ ProviderAnswers(q))
    <3>1. pc[q] # "lost"
      BY <2>3
         DEF EngineStep, ProviderAnswers, EvaluatePolicy, BlockReport, SelectProvider,
             ProviderMissing, CompleteReport, Announce, ReturnDenied, ReturnCompleted,
             ReturnBlocked, ReturnFallback, Return, Respond, SubmitEnriched, ProviderFails, At
    <3>2. Known(q) => Goal
      BY <2>3, KnownMoves
    <3> QED BY <3>1, <3>2
  <2>4. CASE r = q /\ HandlersReturn(q)
    <3>1. Kept
      BY <2>4 DEF HandlersReturn, envVars
    <3> QED BY <1>3, <3>1
  <2>5. CASE r = q /\ PostReturns(q)
    <3>1. Known(q) /\ store'[q] = store[q] /\ pc'[q] = "closed"
      BY <2>5, MissingRecord
         DEF PostReturns, Goto, IInv, TypeOK, TaskInv, PointInv, Ending, Known
    <3> QED BY <1>2, <3>1
  <2>6. CASE r = q /\ (IngesterStores(q) \/ PostLost(q))
    <3>1. Kept
      BY <2>6 DEF IngesterStores, PostLost, taskVars, envVars, IInv, TypeOK
    <3> QED BY <1>3, <3>1
  <2> HIDE DEF Goal
  <2> QED BY <1>4, <2>1, <2>2, <2>3, <2>4, <2>5, <2>6
<1>5. ASSUME NEW name \in ProviderNames, NEW p \in Providers, Register(name, p) PROVE Goal
  <2>1. Kept
    BY <1>5 DEF Register, taskVars
  <2> QED BY <1>3, <2>1
<1>6. Goal \/ Restart
  <2> HIDE DEF Goal
  <2> QED BY <1>4, <1>5 DEF Next, Environment
<1> QED BY <1>6

-----------------------------------------------------------------------------
(* The invariant of the deployed system.                                   *)

LEMMA InitGateway == GatewayInit => GatewayIInv
<1> SUFFICES ASSUME GatewayInit PROVE GatewayIInv
  OBVIOUS
<1>1. IInv /\ Accounts
  BY InitIInv, InitAccounts DEF GatewayInit
<1>2. SeenOK /\ \A r \in Requests : SeenInv(r)
  BY DEF GatewayInit, SeenOK, SeenInv
<1> QED BY <1>1, <1>2 DEF GatewayIInv

\* A step of the engine keeps what was seen no later than what can be.
LEMMA EngineKeepsSeen ==
  ASSUME GatewayIInv, Next, UNCHANGED seen, IInv', NEW r \in Requests
  PROVE  SeenInv(r)'
<1> SUFFICES ASSUME seen[r] # NoRecord PROVE SeenInv(r)'
  BY DEF SeenInv
<1>1. /\ IInv /\ SeenInv(r) /\ seen[r] \in Records /\ seen'[r] = seen[r]
      /\ pc[r] \notin {"new", "resolved"} /\ (pc[r] # "lost" => Known(r))
  BY DEF GatewayIInv, SeenOK, SeenInv
<1>2. CASE Restart
  <2>1. /\ pc'[r] = "lost" /\ store'[r] = NoRecord
        /\ UNCHANGED <<wire, ingested, response>>
    BY <1>1, <1>2 DEF Restart
  <2> QED BY <1>1, <2>1 DEF SeenInv, Extends, Closed
<1>3. CASE /\ pc[r] = "lost" /\ pc'[r] = "lost"
           /\ store'[r] = store[r] /\ response'[r] = response[r]
           /\ {wire'[r], ingested'[r]} \subseteq {wire[r], ingested[r], NoRecord}
  BY <1>1, <1>3 DEF SeenInv, Extends, Closed
<1>4. CASE /\ Known(r) /\ pc'[r] \notin {"new", "resolved", "lost"}
           /\ store'[r] \in Records /\ Extends(store[r], store'[r])
  <2>1. store[r] \in Records /\ Extends(seen[r], store[r])
    BY <1>1, <1>4 DEF SeenInv, IInv, TypeOK, Known
  <2>2. Extends(seen[r], store'[r])
    BY <1>1, <1>4, <2>1, ExtendsIsAnOrder
  <2>3. Known(r)' /\ {wire'[r], ingested'[r]} \subseteq {store'[r], NoRecord}
    BY <1>4, MissingRecord DEF Known, IInv, TaskInv, EvidenceInv
  <2>4. response'[r].status \in ClosedStatuses =>
          store'[r].status = response'[r].status /\ store'[r].output_hash = response'[r].result
    BY <2>3 DEF Known, IInv, TaskInv, EvidenceInv
  <2> QED BY <1>1, <1>4, <2>2, <2>3, <2>4 DEF SeenInv, Extends, Closed
<1> QED BY <1>1, <1>2, <1>3, <1>4, EvidenceMoves

\* What the auditor is given now is no later than anything else there is.
LEMMA ReadsAreRecent ==
  ASSUME GatewayIInv, NEW r \in Requests, NEW record \in {store[r], ingested[r]} \ {NoRecord}
  PROVE  /\ record \in Records
         /\ pc[r] \notin {"new", "resolved"} /\ (pc[r] # "lost" => Known(r))
         /\ \A other \in {store[r], wire[r], ingested[r]} \ {NoRecord} : other = record
         /\ response[r].status \in ClosedStatuses =>
              record.status = response[r].status /\ record.output_hash = response[r].result
<1>1. TypeOK /\ PointInv(r) /\ EvidenceInv(r) /\ StoryInv(r)
  BY DEF GatewayIInv, IInv, TaskInv, Accounts, AccountInv
<1>2. record \in Records
  BY <1>1 DEF TypeOK
<1>3. pc[r] \notin {"new", "resolved"} /\ (pc[r] # "lost" => Known(r))
  BY <1>1 DEF PointInv, EvidenceInv, Known
<1>4. \A other \in {store[r], wire[r], ingested[r]} \ {NoRecord} : other = record
  BY <1>1 DEF EvidenceInv, StoryInv
<1>5. response[r].status \in ClosedStatuses =>
        record.status = response[r].status /\ record.output_hash = response[r].result
  BY <1>1 DEF EvidenceInv
<1> QED BY <1>2, <1>3, <1>4, <1>5

\* Reading changes nothing but what was seen.
LEMMA ReadStep ==
  ASSUME GatewayIInv, NEW r \in Requests, ReadGateway(r) \/ ReadIngester(r)
  PROVE  GatewayIInv'
<1>1. PICK record \in {store[r], ingested[r]} \ {NoRecord} : seen' = [seen EXCEPT ![r] = record]
  BY DEF ReadGateway, ReadIngester
<1>2. UNCHANGED vars
  BY DEF ReadGateway, ReadIngester
<1>3. IInv' /\ Accounts'
  BY <1>2, NextIInv, NextAccounts DEF GatewayIInv
<1>4. /\ record \in Records
      /\ pc[r] \notin {"new", "resolved"} /\ (pc[r] # "lost" => Known(r))
      /\ \A other \in {store[r], wire[r], ingested[r]} \ {NoRecord} : other = record
      /\ response[r].status \in ClosedStatuses =>
           record.status = response[r].status /\ record.output_hash = response[r].result
  BY ReadsAreRecent
<1>5. SeenOK' /\ seen'[r] = record /\ \A q \in Requests \ {r} : seen'[q] = seen[q]
  BY <1>1, <1>4 DEF GatewayIInv, SeenOK
<1>6. SeenInv(r)'
  <2>1. Extends(record, record)
    BY <1>4, ExtendsIsAnOrder
  <2> QED BY <1>2, <1>4, <1>5, <2>1 DEF SeenInv, Known, vars
<1>7. ASSUME NEW q \in Requests \ {r} PROVE SeenInv(q)'
  BY <1>2, <1>5 DEF GatewayIInv, SeenInv, Known, Extends, Closed, vars
<1> QED BY <1>3, <1>5, <1>6, <1>7 DEF GatewayIInv

\* An ingester that forgets contradicts nothing.
LEMMA IngesterRestartsStep ==
  ASSUME GatewayIInv, IngesterRestarts
  PROVE  GatewayIInv'
<1>1. /\ \A r \in Requests : ingested'[r] = NoRecord
      /\ UNCHANGED <<pc, request, provider, enrichment, bus, store, registry, metric, published,
                     submitted, wire, response, restarts, seen>>
  BY DEF IngesterRestarts, taskVars
<1>2. TypeOK' /\ SeenOK'
  BY <1>1 DEF IngesterRestarts, GatewayIInv, IInv, TypeOK, SeenOK
<1>3. ASSUME NEW r \in Requests PROVE TaskInv(r)'
  <2>1. TaskInv(r)
    BY DEF GatewayIInv, IInv
  <2> QED BY <1>1, <2>1
          DEF TaskInv, PointInv, SubmissionInv, EvidenceInv, TrailInv, FallbackInv, Decision
<1>4. ASSUME NEW r \in Requests PROVE AccountInv(r)'
  <2>1. StoryInv(r) /\ EventsInv(r) /\ EarlyInv(r) /\ VerdictInv(r)
    BY DEF GatewayIInv, Accounts, AccountInv
  <2>2. StoryInv(r)'
    BY <1>1, <2>1 DEF StoryInv, Tells, Closed
  <2>3. EventsInv(r)' /\ EarlyInv(r)' /\ VerdictInv(r)'
    BY <1>1, <2>1 DEF EventsInv, EarlyInv, Known, Closed, VerdictInv, Justified, Decision,
                      MayServe, MayFail, MaySpoil
  <2> QED BY <2>2, <2>3 DEF AccountInv
<1>5. RegistryInv' /\ CountInv'
  <2>1. \A l : Counted(l)' = Counted(l)
    BY <1>1 DEF Counted, CountedUnder, Decision
  <2> QED BY <1>1, <2>1 DEF GatewayIInv, Accounts, RegistryInv, CountInv
<1>6. ASSUME NEW r \in Requests PROVE SeenInv(r)'
  BY <1>1 DEF GatewayIInv, SeenInv, Known, Extends, Closed
<1> QED BY <1>2, <1>3, <1>4, <1>5, <1>6 DEF GatewayIInv, IInv, Accounts

LEMMA NextGateway == GatewayIInv /\ [GatewayNext]_gatewayVars => GatewayIInv'
<1> SUFFICES ASSUME GatewayIInv, [GatewayNext]_gatewayVars PROVE GatewayIInv'
  OBVIOUS
<1>1. CASE Next /\ UNCHANGED seen
  <2>1. IInv' /\ Accounts'
    BY <1>1, NextIInv, NextAccounts DEF GatewayIInv
  <2> QED BY <1>1, <2>1, EngineKeepsSeen DEF GatewayIInv, SeenOK
<1>2. ASSUME NEW r \in Requests, ReadGateway(r) \/ ReadIngester(r) PROVE GatewayIInv'
  BY <1>2, ReadStep
<1>3. CASE IngesterRestarts
  BY <1>3, IngesterRestartsStep
<1>4. CASE UNCHANGED gatewayVars
  <2>1. UNCHANGED vars /\ UNCHANGED seen
    BY <1>4 DEF gatewayVars
  <2>2. IInv' /\ Accounts'
    BY <2>1, NextIInv, NextAccounts DEF GatewayIInv
  <2>3. ASSUME NEW r \in Requests PROVE SeenInv(r)'
    BY <2>1 DEF GatewayIInv, SeenInv, Known, Extends, Closed, vars
  <2> QED BY <2>1, <2>2, <2>3 DEF GatewayIInv, SeenOK
<1> QED BY <1>1, <1>2, <1>3, <1>4 DEF GatewayNext

LEMMA GatewayInvariance == GatewaySpec => []GatewayIInv
BY InitGateway, NextGateway, PTL DEF GatewaySpec

-----------------------------------------------------------------------------
(* The properties.                                                         *)

\* What is proved of the engine beside an ingester that never forgets holds of
\* it beside one that restarts whenever it likes.
THEOREM EngineKeepsItsPromises ==
  GatewaySpec => [](/\ TypeOK /\ SubmittedOnlyWhenPermitted /\ CompletedIffSubmitted
                    /\ EvidenceAgreement /\ FallbackFollowsProvider /\ EvidenceTellsTheStory
                    /\ AnswersLeaveEvidence /\ SubscribersSeeClosedEvidence
                    /\ MetricsBalance)
<1>1. GatewayIInv =>
        /\ TypeOK /\ SubmittedOnlyWhenPermitted /\ CompletedIffSubmitted
        /\ EvidenceAgreement /\ FallbackFollowsProvider /\ EvidenceTellsTheStory
        /\ AnswersLeaveEvidence /\ SubscribersSeeClosedEvidence /\ MetricsBalance
  BY PermittedFollows, CompletionFollows, AgreementFollows, FallbackFollows, StoryFollows,
     AnswersFollow, SubscribersFollow, BalanceFollows
     DEF GatewayIInv, IInv
<1> QED BY <1>1, GatewayInvariance, PTL

\* A closed record the auditor was shown is what the client was told, whichever
\* process showed it and whatever died before or after the answer.
THEOREM AuditsAgree == GatewaySpec => []AuditAgreesWithAnswer
<1>1. GatewayIInv => AuditAgreesWithAnswer
  BY DEF GatewayIInv, SeenInv, AuditAgreesWithAnswer
<1> QED BY <1>1, GatewayInvariance, PTL

\* Reading after reading, from either process, a report's trail only grows and
\* a closed record is final.
THEOREM AuditTrailsGrow == GatewaySpec => AuditTrailOnlyGrows
<1> DEFINE Grows(r) == seen[r] # NoRecord =>
      /\ IsPrefix(seen[r].events, seen'[r].events)
      /\ Closed(seen[r]) => seen'[r] = seen[r]
<1>1. GatewayIInv /\ [GatewayNext]_gatewayVars => [\A r \in Requests : Grows(r)]_gatewayVars
  <2> SUFFICES ASSUME GatewayIInv, GatewayNext, NEW r \in Requests, seen[r] # NoRecord
               PROVE  Extends(seen[r], seen'[r])
    BY DEF Extends
  <2>1. seen[r] \in Records /\ SeenInv(r)
    BY DEF GatewayIInv, SeenOK
  <2>2. CASE seen'[r] = seen[r]
    BY <2>1, <2>2, ExtendsIsAnOrder
  <2>3. CASE (Next /\ UNCHANGED seen) \/ IngesterRestarts
    BY <2>2, <2>3 DEF IngesterRestarts
  <2>4. ASSUME NEW q \in Requests, ReadGateway(q) \/ ReadIngester(q)
        PROVE  Extends(seen[r], seen'[r])
    <3>1. CASE q # r
      BY <2>2, <2>4, <3>1 DEF ReadGateway, ReadIngester, GatewayIInv, SeenOK
    <3>2. CASE q = r
      BY <2>1, <2>4, <3>2 DEF ReadGateway, ReadIngester, GatewayIInv, SeenOK, SeenInv
    <3> QED BY <3>1, <3>2
  <2> QED BY <2>3, <2>4 DEF GatewayNext
<1>2. GatewaySpec => [][\A r \in Requests : Grows(r)]_gatewayVars
  BY <1>1, GatewayInvariance, PTL DEF GatewaySpec
<1> QED BY <1>2 DEF AuditTrailOnlyGrows

\* The rules allow the demos of bank_alpha and refuse that of bank_beta.
LEMMA DemoDecisions ==
  /\ \A req \in Demos : Resolvable(req.tenant_id)
  /\ Decide(BankAlphaCompliant).allowed
  /\ ~Decide(BankBetaBlocked).allowed
  /\ Decide(BankAlphaProviderFailure).allowed
<1>1. ASSUME NEW req \in Demos PROVE Resolvable(req.tenant_id)
  <2>1. PICK t \in Tenants : req.tenant_id = Spelled(t)
    BY DEF Demos, BankAlphaCompliant, BankBetaBlocked, BankAlphaProviderFailure, Demo, Tenants
  <2> QED BY <2>1, KeyOfPlain DEF Resolvable
<1>2. /\ Permitted(BankAlphaCompliant)
      /\ ~Permitted(BankBetaBlocked)
      /\ Permitted(BankAlphaProviderFailure)
  BY DEF Permitted, Documented, BankAlphaCompliant, BankBetaBlocked, BankAlphaProviderFailure,
         Demo, Spelled, Tenants, None
<1> QED BY <1>1, <1>2, DecideIsPermitted DEF Demos

\* While nothing but the repository's stubs can be registered, and a process
\* starts with one under each name, each demo route does what its path says and
\* none ends with an error, whichever stub is registered under whichever name.
THEOREM DemosDoAsTheySay ==
  ASSUME Providers = StubProviders, InitialRegistries \subseteq [ProviderNames -> Providers]
  PROVE  GatewaySpec => []DemosDoWhatTheySay
<1>1. ~MayBeMissing
  BY EngineAssumption DEF MayBeMissing
<1>2. GatewayIInv => DemosDoWhatTheySay
  <2> SUFFICES ASSUME GatewayIInv, NEW r \in Requests, response[r] # NoResponse,
                      request[r] \in Demos
               PROVE  response[r].status \in
                        CASE request[r] = BankAlphaCompliant       -> {"completed"}
                          [] request[r] = BankBetaBlocked          -> {"blocked"}
                          [] request[r] = BankAlphaProviderFailure ->
                               {"fallback", "blocked_provider_failure"}
    BY DEF DemosDoWhatTheySay
  <2>1. VerdictInv(r)
    BY DEF GatewayIInv, Accounts, AccountInv
  <2>2. response[r].status \in ClosedStatuses
    <3>1. ~MaySpoil(r)
      BY DEF MaySpoil, ProviderOutcomes
    <3>2. response[r] # ErrorResponse
      BY <1>1, <2>1, <3>1, DemoDecisions DEF VerdictInv
    <3>3. response[r].status \notin ClosedStatuses => response[r] \in {NoResponse, ErrorResponse}
      BY DEF GatewayIInv, IInv, TaskInv, EvidenceInv
    <3> QED BY <3>2, <3>3
  <2>3. Justified(r, response[r].status)
    BY <2>1 DEF VerdictInv
  <2>4. /\ BankAlphaCompliant # BankBetaBlocked
        /\ BankAlphaCompliant # BankAlphaProviderFailure
        /\ BankBetaBlocked # BankAlphaProviderFailure
    BY DEF BankAlphaCompliant, BankBetaBlocked, BankAlphaProviderFailure, Demo, Spelled
  <2>5. CASE request[r] = BankAlphaCompliant
    <3>1. ~MayFail(r)
      BY <2>5 DEF MayFail, ProviderOutcomes, BankAlphaCompliant, Demo, Enrichments
    <3>2. response[r].status = "completed"
      BY <2>2, <2>3, <2>5, <3>1, DemoDecisions DEF Justified, Decision, ClosedStatuses
    <3> QED BY <2>4, <2>5, <3>2
  <2>6. CASE request[r] = BankBetaBlocked
    <3>1. response[r].status = "blocked"
      BY <2>2, <2>3, <2>6, DemoDecisions DEF Justified, Decision
    <3> QED BY <2>4, <2>6, <3>1
  <2>7. CASE request[r] = BankAlphaProviderFailure
    <3>1. ~MayServe(r)
      BY <2>7 DEF MayServe, ProviderOutcomes, BankAlphaProviderFailure, Demo, Enrichments
    <3>2. response[r].status \in {"fallback", "blocked_provider_failure"}
      BY <2>2, <2>3, <2>7, <3>1, DemoDecisions DEF Justified, Decision, ClosedStatuses
    <3> QED BY <2>4, <2>7, <3>2
  <2> QED BY <2>5, <2>6, <2>7 DEF Demos
<1> QED BY <1>2, GatewayInvariance, PTL

\* An ingester that forgets takes evidence only of reports whose process died:
\* of the others the gateway still has the record.
LEMMA IngesterRestartsMaps ==
  ASSUME GatewayIInv, IngesterRestarts
  PROVE  [Gov!Next]_Gov!vars
<1>1. /\ \A q \in Requests : ingested'[q] = NoRecord
      /\ UNCHANGED <<pc, request, store, submitted, wire, response>>
  BY DEF IngesterRestarts, taskVars
<1>2. ASSUME NEW q \in Requests, pc[q] # "lost" PROVE VerdictsOf(q)' = VerdictsOf(q)
  <2>1. EvidenceInv(q)
    BY DEF GatewayIInv, IInv, TaskInv
  <2>2. RecordsOf(q)' = RecordsOf(q)
    BY <1>1, <1>2, <2>1 DEF RecordsOf, EvidenceInv
  <2> QED BY <2>2 DEF VerdictsOf, Closed
<1>3. \A q \in Requests : RecordsOf(q)' \subseteq RecordsOf(q)
  BY <1>1 DEF RecordsOf
<1>4. \A q \in Requests : /\ VerdictsOf(q)' \subseteq VerdictsOf(q)
                          /\ VerdictsOf(q) \subseteq ClosedStatuses
  BY <1>3 DEF VerdictsOf, Closed
<1> QED BY <1>1, <1>2, <1>4, LossMaps

\* The deployed system keeps every promise of ReportGovernance, step by step,
\* although evidence is lost with either of its processes.
THEOREM GatewayImplementsGovernance == GatewaySpec => GovernanceKept
<1>1. GatewayInit => Gov!Init
  BY InitMaps DEF GatewayInit
<1>2. GatewayIInv /\ [GatewayNext]_gatewayVars => [Gov!Next]_Gov!vars
  <2> SUFFICES ASSUME GatewayIInv, [GatewayNext]_gatewayVars PROVE [Gov!Next]_Gov!vars
    OBVIOUS
  <2>1. CASE [Next]_vars
    BY <2>1, NextMaps DEF GatewayIInv
  <2>2. CASE IngesterRestarts
    BY <2>2, IngesterRestartsMaps
  <2>3. [Next]_vars \/ IngesterRestarts
    BY DEF GatewayNext, gatewayVars, ReadGateway, ReadIngester
  <2> QED BY <2>1, <2>2, <2>3
<1> QED BY <1>1, <1>2, GatewayInvariance, PTL DEF GatewaySpec, GovernanceKept, Gov!Spec

\* So whoever compares what the supervisory service took, what any record in
\* either process or under way says, and what the client was told of a report,
\* finds one story, the true one.
THEOREM GatewayTellsOneTrueStory == GatewaySpec => []Gov!OneTrueStory
BY GatewayImplementsGovernance, GovernanceTellsOneStory, PTL
=============================================================================
