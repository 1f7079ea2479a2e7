------------------------ MODULE EvidenceRecord_proofs ------------------------
(***************************************************************************)
(* Facts about the operators that have no state, for every request and     *)
(* every record and not only those TLC enumerates: the admission rules of  *)
(* TenantPolicy, which the proofs about Admission and WorkflowEngine cite, *)
(* and the operations of EvidenceService.                                  *)
(***************************************************************************)
EXTENDS EvidenceRecord, SequenceTheorems, TLAPS

-----------------------------------------------------------------------------
(* Short sequences.                                                        *)

\* A sequence of two elements is the pair of them.
LEMMA PairSeq ==
  ASSUME NEW S, NEW s \in Seq(S), Len(s) = 2
  PROVE  s = <<s[1], s[2]>>
<1> DEFINE t == <<s[1], s[2]>>
<1>1. 1 \in 1..Len(s) /\ 2 \in 1..Len(s)
  OBVIOUS
<1>2. s[1] \in S /\ s[2] \in S
  BY <1>1, ElementOfSeq
<1>3. t \in Seq(S) /\ Len(t) = 2 /\ t[1] = s[1] /\ t[2] = s[2]
  BY <1>2
<1> HIDE DEF t
<1>4. \A i \in 1..Len(s) : s[i] = t[i]
  BY <1>3
<1>5. s = t
  BY <1>3, <1>4, SeqEqual
<1> QED BY <1>5 DEF t

\* The third of a sequence is what was appended to two.
LEMMA AppendToTwo ==
  ASSUME NEW S, NEW y \in S, NEW s \in Seq(S), Len(s) = 2
  PROVE  Len(Append(s, y)) = 3 /\ Append(s, y)[3] = y
<1>1. Len(Append(s, y)) = Len(s) + 1 /\ Append(s, y)[Len(s) + 1] = y
  BY AppendProperties, Zenon
<1>2. Len(s) + 1 = 3
  OBVIOUS
<1> QED BY <1>1, <1>2, Zenon

\* Appending to a sequence of one element makes a pair.
LEMMA AppendToOne ==
  ASSUME NEW S, NEW y \in S, NEW s \in Seq(S), Len(s) = 1
  PROVE  Append(s, y) = <<s[1], y>>
<1>1. Append(s, y) \in Seq(S)
  OBVIOUS
<1>2. Len(Append(s, y)) = Len(s) + 1
  OBVIOUS
<1>3. Append(s, y)[1] = s[1]
  OBVIOUS
<1>4. Append(s, y)[Len(s) + 1] = y
  BY AppendProperties, Zenon
<1>5. Len(s) + 1 = 2
  OBVIOUS
<1> QED BY <1>1, <1>2, <1>3, <1>4, <1>5, PairSeq, Zenon

\* Two one-element sequences, or one and an element, make the pair.
LEMMA AppendOne ==
  ASSUME NEW x, NEW y
  PROVE  Append(<<x>>, y) = <<x, y>> /\ <<x>> \o <<y>> = <<x, y>>
<1> DEFINE S == {x, y}
           s == <<x>>
<1>1. x \in S /\ y \in S
  OBVIOUS
<1> HIDE DEF S
<1>2. s \in Seq(S) /\ Len(s) = 1 /\ s[1] = x
  BY <1>1
<1> HIDE DEF s
<1>3. Append(s, y) = <<s[1], y>>
  BY <1>1, <1>2, AppendToOne
<1>4. Append(s, y) = s \o <<y>>
  BY <1>1, <1>2, AppendIsConcat
<1> QED BY <1>2, <1>3, <1>4, Zenon DEF s

-----------------------------------------------------------------------------
(* The admission rules.                                                    *)

\* A tenant that resolves is the one whose id was spelled.
LEMMA RegistryKeyOfResolved ==
  ASSUME NEW raw, Resolvable(raw)
  PROVE  RegistryKey(raw) = raw.key /\ raw.key \in Tenants
<1> DEFINE s == Strip(Lower(raw))
<1>1. s.key = raw.key \/ s.form # {}
  BY DEF Resolvable, RegistryKey, Entry, Strip, Lower, NoEntry, Tenants
<1> QED BY <1>1 DEF Resolvable, RegistryKey, Entry, NoEntry, Tenants

\* However an id is spelled, registry and policy look up the same key.
LEMMA KeysOfSpelling ==
  ASSUME NEW raw, raw.form \in TenantForms
  PROVE  /\ RegistryKey(raw) = raw.key /\ PolicyKey(raw) = raw.key
         /\ Resolvable(raw) <=> raw.key \in Tenants
<1>1. Strip(Lower(raw)).key = raw.key /\ Strip(Lower(raw)).form = {}
  BY DEF Strip, Lower, TenantForms
<1> QED BY <1>1 DEF RegistryKey, PolicyKey, Entry, Resolvable

\* An id that is spelled plainly is its own key.
LEMMA KeyOfPlain ==
  ASSUME NEW k
  PROVE  RegistryKey(Spelled(k)) = k /\ PolicyKey(Spelled(k)) = k
<1>1. Spelled(k).form \in TenantForms
  BY DEF Spelled, TenantForms
<1> QED BY <1>1, KeysOfSpelling DEF Spelled

\* The two tables of the source agree: a tenant may submit from its home
\* jurisdiction and from no other.
LEMMA TablesAgree ==
  \A t \in Tenants : AllowedJurisdictions[t] = {HomeJurisdiction[t]}
BY DEF Tenants, AllowedJurisdictions, HomeJurisdiction

\* No home jurisdiction is the None or the "" of a request without one.
LEMMA HomeIsAJurisdiction ==
  \A t \in Tenants : HomeJurisdiction[t] \notin {None, ""}
BY DEF Tenants, HomeJurisdiction, None

\* evaluate()'s jurisdiction check, asked what process_report asks it, accepts
\* exactly the tenant's home and a request that names no jurisdiction.
LEMMA JurisdictionCheck ==
  ASSUME NEW t \in Tenants, NEW j
  PROVE  JurisdictionAllowed(t, EffectiveJurisdiction(j, t))
           <=> j \in {None, "", HomeJurisdiction[t]}
<1>1. CASE j \in {None, ""}
  <2>1. EffectiveJurisdiction(j, t) = HomeJurisdiction[t]
    BY <1>1 DEF EffectiveJurisdiction
  <2> QED BY <1>1, <2>1, TablesAgree DEF JurisdictionAllowed
<1>2. CASE j \notin {None, ""}
  <2>1. EffectiveJurisdiction(j, t) = j
    BY <1>2 DEF EffectiveJurisdiction
  <2> QED BY <1>2, <2>1, TablesAgree DEF JurisdictionAllowed
<1> QED BY <1>1, <1>2

\* For a known tenant the rules of the tenant itself refuse exactly what the
\* reference forbids of the scenario and the report type.
LEMMA TenantRuleCheck ==
  ASSUME NEW t \in Tenants, NEW scenario, NEW report_type
  PROVE  TenantRefusal(t, scenario, report_type) = None
           <=> (t = "bank_beta" => /\ report_type \notin {"sensitive", "confidential"}
                                   /\ scenario \in {None, "analysis"})
BY DEF TenantRefusal, None

\* The engine's decision for a request whose tenant is known is the reference.
LEMMA DecideIsPermitted ==
  ASSUME NEW req, Resolvable(req.tenant_id)
  PROVE  Decide(req).allowed <=> Permitted(req)
<1> DEFINE t == req.tenant_id.key
           j == EffectiveJurisdiction(req.jurisdiction, t)
           own == TenantRefusal(t, req.scenario, req.report_type)
<1>1. t \in Tenants /\ RegistryKey(req.tenant_id) = t
  BY RegistryKeyOfResolved
<1>2. Decide(req).allowed <=> Refusal(t, req.scenario, req.report_type, j) = None
  BY <1>1, KeyOfPlain DEF Decide, Evaluate
<1>3. Refusal(t, req.scenario, req.report_type, j) = None
        <=> own = None /\ JurisdictionAllowed(t, j)
  BY DEF Refusal, None
<1>4. JurisdictionAllowed(t, j) <=> req.jurisdiction \in {None, "", HomeJurisdiction[t]}
  BY <1>1, JurisdictionCheck
<1>5. own = None <=> (t = "bank_beta" =>
                        /\ req.report_type \notin {"sensitive", "confidential"}
                        /\ req.scenario \in {None, "analysis"})
  BY <1>1, TenantRuleCheck
<1> QED BY <1>1, <1>2, <1>3, <1>4, <1>5 DEF Permitted, Documented

\* An allowed request is routed to its tenant's contracted provider.
LEMMA DecideRoutes ==
  ASSUME NEW req, Resolvable(req.tenant_id), Decide(req).allowed
  PROVE  /\ Decide(req).selected_provider = ContractedProvider(RegistryKey(req.tenant_id))
         /\ Decide(req).selected_provider \in ProviderNames
<1> DEFINE t == RegistryKey(req.tenant_id)
<1>1. t \in Tenants
  BY DEF Resolvable
<1>2. Decide(req).selected_provider = ProviderForTenant(t)
  BY KeyOfPlain DEF Decide, Evaluate
<1>3. ProviderForTenant(t) = ContractedProvider(t) /\ ProviderForTenant(t) \in ProviderNames
  BY <1>1 DEF ProviderForTenant, ContractedProvider, Tenants, ProviderNames
<1> QED BY <1>2, <1>3

-----------------------------------------------------------------------------
(* The operations on a record.                                             *)

\* The absence of a record is not a record.
LEMMA NoRecordIsNoRecord == NoRecord \notin Records
BY DEF NoRecord, Records, Statuses, ClosedStatuses

\* start_record opens a record with its first event.
LEMMA StartRecordType ==
  ASSUME NEW t \in Tenants
  PROVE  /\ StartRecord(t) \in Records
         /\ StartRecord(t).status = "in_progress"
         /\ StartRecord(t).tenant_id = t
         /\ StartRecord(t).provider_name = None
         /\ StartRecord(t).events = <<"WORKFLOW_STARTED">>
         /\ Len(StartRecord(t).events) = 1
BY DEF StartRecord, Records, Statuses, ClosedStatuses, EventTypes, DecisionOutcomes, None

\* add_event lengthens the trail by one event and changes nothing else.
LEMMA AddEventType ==
  ASSUME NEW record \in Records, NEW e \in EventTypes
  PROVE  /\ AddEvent(record, e) \in Records
         /\ AddEvent(record, e).status = record.status
         /\ AddEvent(record, e).output_hash = record.output_hash
         /\ AddEvent(record, e).provider_name = record.provider_name
         /\ AddEvent(record, e).tenant_id = record.tenant_id
         /\ AddEvent(record, e).events = Append(record.events, e)
BY DEF AddEvent, Records

\* finalize closes a record: the status, the outcome and the hash are those
\* given, and the trail ends with WORKFLOW_COMPLETED.
LEMMA FinalizeType ==
  ASSUME NEW record \in Records, NEW status \in ClosedStatuses,
         NEW outcome \in DecisionOutcomes, NEW name \in ProviderNames \cup {None},
         NEW hash \in Enrichments \cup {None}
  PROVE  /\ Finalize(record, status, outcome, name, hash) \in Records
         /\ Finalize(record, status, outcome, name, hash).status = status
         /\ Finalize(record, status, outcome, name, hash).output_hash = hash
         /\ Finalize(record, status, outcome, name, hash).tenant_id = record.tenant_id
         /\ Finalize(record, status, outcome, name, hash).provider_name
              = IF name = None THEN record.provider_name ELSE name
         /\ Finalize(record, status, outcome, name, hash).events
              = Append(record.events, "WORKFLOW_COMPLETED")
<1> DEFINE added == AddEvent(record, "WORKFLOW_COMPLETED")
<1>1. added \in Records /\ added.tenant_id = record.tenant_id
      /\ added.provider_name = record.provider_name
      /\ added.events = Append(record.events, "WORKFLOW_COMPLETED")
  BY AddEventType DEF EventTypes
<1>2. ClosedStatuses \subseteq Statuses
  BY DEF Statuses
<1> QED BY <1>1, <1>2 DEF Finalize, Records
=============================================================================
