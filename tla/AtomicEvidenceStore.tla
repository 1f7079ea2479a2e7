------------------------ MODULE AtomicEvidenceStore ------------------------
(***************************************************************************)
(* What the evidence ingester promises the clients of its HTTP interface:  *)
(* between its arrival and its answer each call takes effect at one moment *)
(* on a store that holds the last record accepted for each request id.     *)
(* The process may die at any time; the store and the calls go with it.    *)
(***************************************************************************)
CONSTANTS Conns,       \* connections, each with at most one call in progress
          Ids,         \* request ids
          Unroutable,  \* ids that are no single path segment, or are "events"
          Records,     \* what clients post: an id, a tenant, a scenario
          NoRecord, NoId, NoScenario, Any, Unreadable, NoCall, NoAnswer

Calls ==
  [op : {"post"}, body : Records \cup {Unreadable}]
    \cup [op : {"get"}, id : Ids]
    \cup [op : {"query"},
          tenant : {r.tenant : r \in Records} \cup {Any},
          scenario : ({r.scenario : r \in Records} \ {NoScenario}) \cup {Any}]
Statuses == {"accepted", "refused", "not found", "found"}
Answers == [status : Statuses, records : SUBSET Records]

VARIABLES
  store,   \* the record held for each id, or NoRecord
  call,    \* the call in progress on each connection, or NoCall
  result,  \* what a call that took effect will be answered, NoAnswer before
  reply    \* the answer to its last call, until the next

vars == <<store, call, result, reply>>

Answer(status, records) == [status |-> status, records |-> records]

Init ==
  /\ store = [i \in Ids |-> NoRecord]
  /\ call = [c \in Conns |-> NoCall]
  /\ result = [c \in Conns |-> NoAnswer]
  /\ reply = [c \in Conns |-> NoAnswer]

-----------------------------------------------------------------------------
Invoke(c) ==
  /\ call[c] = NoCall
  /\ \E k \in Calls : call' = [call EXCEPT ![c] = k]
  /\ reply' = [reply EXCEPT ![c] = NoAnswer]
  /\ UNCHANGED <<store, result>>

\* The call of c is an op that has yet to take effect.
Waits(c, op) == call[c] # NoCall /\ result[c] = NoAnswer /\ call[c].op = op

TakesEffectAs(c, answer) ==
  /\ result' = [result EXCEPT ![c] = answer]
  /\ UNCHANGED <<call, reply>>

\* A body that is no JSON, a record without an id, an id no path stands for.
Refuse(c) ==
  /\ \/ Waits(c, "post") /\ call[c].body \notin {r \in Records : r.id # NoId}
     \/ Waits(c, "get") /\ call[c].id \in Unroutable
  /\ TakesEffectAs(c, Answer("refused", {}))
  /\ UNCHANGED store

Post(c) ==
  /\ Waits(c, "post") /\ call[c].body \in {r \in Records : r.id # NoId}
  /\ TakesEffectAs(c, Answer("accepted", {}))
  /\ store' = [store EXCEPT ![call[c].body.id] = call[c].body]

Get(c) ==
  /\ Waits(c, "get") /\ call[c].id \notin Unroutable
  /\ IF store[call[c].id] = NoRecord
     THEN TakesEffectAs(c, Answer("not found", {}))
     ELSE TakesEffectAs(c, Answer("found", {store[call[c].id]}))
  /\ UNCHANGED store

\* A query that finds nothing is answered like any other.
Query(c) ==
  /\ Waits(c, "query")
  /\ TakesEffectAs(c, Answer("found",
       {r \in {store[i] : i \in Ids} \ {NoRecord} :
          /\ call[c].tenant = Any \/ r.tenant = call[c].tenant
          /\ call[c].scenario = Any \/ r.scenario = call[c].scenario}))
  /\ UNCHANGED store

Return(c) ==
  /\ result[c] # NoAnswer
  /\ reply' = [reply EXCEPT ![c] = result[c]]
  /\ call' = [call EXCEPT ![c] = NoCall]
  /\ result' = [result EXCEPT ![c] = NoAnswer]
  /\ UNCHANGED store

\* The process dies: the calls in progress are never answered.
Die ==
  /\ store' = [i \in Ids |-> NoRecord]
  /\ call' = [c \in Conns |-> NoCall]
  /\ result' = [c \in Conns |-> NoAnswer]
  /\ reply' = [c \in Conns |-> NoAnswer]

Next ==
  \/ \E c \in Conns : \/ Invoke(c) \/ Refuse(c) \/ Post(c) \/ Get(c) \/ Query(c)
                      \/ Return(c)
  \/ Die

Spec == Init /\ [][Next]_vars
=============================================================================
