------------------------- MODULE MCEvidenceIngester -------------------------
EXTENDS EvidenceIngester

CONSTANTS a, b, alpha, beta, urgent

MCRecords ==
  { [id |-> a, tenant |-> alpha, scenario |-> NoScenario],
    [id |-> a, tenant |-> beta, scenario |-> urgent],
    [id |-> b, tenant |-> alpha, scenario |-> urgent] }

MCOneRecord == {[id |-> a, tenant |-> alpha, scenario |-> NoScenario]}

\* With a record that has no id.
MCAllRecords == MCRecords \cup {[id |-> NoId, tenant |-> alpha, scenario |-> NoScenario]}

-----------------------------------------------------------------------------
(* MaxPosts bounds the POSTs of a behaviour as long as heap only grows.  For *)
(* liveness they must keep coming: here memory that no pointer leads to is   *)
(* collected at once and used again, and the counter, which no guard reads,  *)
(* is kept relative to what was collected.                                   *)

Reachable == ({records[i] : i \in Ids} \cup UNION {pointers[c] : c \in Conns}) \ {0}

Collect ==
  LET moved(p) == Cardinality({q \in Reachable : q <= p}) IN
  /\ Reachable # 1..Len(heap)
  /\ heap' = [n \in 1..Cardinality(Reachable) |->
                heap[CHOOSE p \in Reachable : moved(p) = n]]
  /\ records' = [i \in Ids |-> IF records[i] = 0 THEN 0 ELSE moved(records[i])]
  /\ pointers' = [c \in Conns |-> {moved(p) : p \in pointers[c]}]
  /\ counter' = counter - (Len(heap) - Cardinality(Reachable))
  /\ UNCHANGED <<mutex, pc, call, visited, reply, restarts>>

\* One call of each kind that takes the lock.
LockingCalls ==
  [op : {"post"}, body : Records] \cup [op : {"get"}, id : Ids]
    \cup [op : {"query"}, tenant : {Any}, scenario : {Any}]

Serve ==
  /\ Reachable = 1..Len(heap)
  /\ Next
  /\ \A c \in Conns : call'[c] \in LockingCalls \cup {NoCall}

\* Such calls without end, under the fairness of FairSpec.
EndlessSpec ==
  /\ Init /\ [][Serve \/ Collect]_vars
  /\ \A c \in Conns : WF_vars(Step(c)) /\ SF_vars(LockOut(c))
=============================================================================
