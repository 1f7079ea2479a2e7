----------------------- MODULE EvidenceIngester_proofs -----------------------
(***************************************************************************)
(* What holds of the ingester for any number of connections, ids, records  *)
(* and deaths: the RWMutex keeps writers of the map alone, the counter     *)
(* tells the records between answered and stored, and every call takes     *)
(* effect at one moment, so that EvidenceIngester implements               *)
(* AtomicEvidenceStore.  The invariant says who holds the lock, what a     *)
(* goroutine has found so far, and that it found it in the map as it is.   *)
(***************************************************************************)
EXTENDS EvidenceIngester, FiniteSetTheorems, TLAPS

PostPoints == {"locking", "draining", "storing", "unlocking", "counting"}
Uncounted == Posting(PostPoints)

\* The types, without the bounds that only the counts below give.
Typed ==
  /\ heap \in Seq(Records) /\ records \in [Ids -> 0..Len(heap)]
  /\ writer \in Conns \cup {NoConn} /\ readers \subseteq Conns
  /\ pc \in [Conns -> Locations] /\ call \in [Conns -> Atomic!Calls \cup {NoCall}]
  /\ pointers \in [Conns -> SUBSET (1..Len(heap))] /\ visited \in [Conns -> SUBSET Ids]
  /\ counter \in Nat /\ restarts \in 0..MaxRestarts
  /\ reply \in [Conns -> Atomic!Answers \cup {NoAnswer}]

\* Who holds the lock, and that nobody reads while somebody writes.
LockInv ==
  /\ readers = {c \in Conns : pc[c] = "reading"}
  /\ \A c \in Conns : pc[c] \in {"draining", "storing", "unlocking"} <=> writer = c
  /\ \A c \in Conns : pc[c] \in {"storing", "unlocking"} => readers = {}

\* The records a read has found among the keys it has passed.
Found(c) ==
  {records[i] : i \in {j \in visited[c] : records[j] # 0 /\ Matches(call[c], heap[records[j]])}}

\* What the goroutine of a call knows at each point.
CallInv(c) ==
  /\ pc[c] = "idle" <=> call[c] = NoCall
  /\ pc[c] \in {"idle", "received", "refused", "parked"} =>
       pointers[c] = {} /\ visited[c] = {}
  /\ pc[c] = "refused" => IsRefused(call[c])
  /\ pc[c] \notin {"idle", "received", "refused"} => ~IsRefused(call[c])
  /\ pc[c] \in PostPoints => call[c].op = "post"
  /\ pc[c] \in {"parked", "reading"} => call[c].op # "post"
  /\ pc[c] \in {"locking", "draining", "storing"} =>
       \E p \in 1..Len(heap) : pointers[c] = {p} /\ heap[p] = call[c].body
  /\ pc[c] = "reading" =>
       pointers[c] = Found(c) /\ (call[c].op = "get" => visited[c] \subseteq {call[c].id})

\* Every record that was decoded is counted or about to be, and no more are
\* decoded than may arrive.
CountInv ==
  /\ counter + Cardinality(Uncounted) = Len(heap)
  /\ Len(heap) + Cardinality(Posting({"received"})) <= MaxPosts

IInv == Typed /\ LockInv /\ (\A c \in Conns : CallInv(c)) /\ CountInv

-----------------------------------------------------------------------------
(* Facts about calls, and about what a step of another goroutine leaves.   *)

LEMMA CallShapes ==
  ASSUME NEW k \in Atomic!Calls
  PROVE  /\ k.op \in {"post", "get", "query"} /\ k # NoCall
         /\ k.op = "post" => k.body \in Records \cup {Unreadable}
         /\ k.op = "get" => k.id \in Ids
         /\ k.op = "query" => k.scenario = Any \/ k.scenario # NoScenario
         /\ k.op = "post" /\ ~IsRefused(k) => k.body \in Records /\ k.body.id \in Ids
BY IngesterAssumption DEF Atomic!Calls, IsRefused

\* The records that exist stay what they are when others are added.
HeapGrows ==
  /\ heap' \in Seq(Records) /\ Len(heap) <= Len(heap')
  /\ \A p \in 1..Len(heap) : heap'[p] = heap[p]

LEMMA HeapStays == ASSUME Typed, UNCHANGED heap PROVE HeapGrows
BY DEF HeapGrows, Typed

LEMMA HeapAppends ==
  ASSUME Typed, NEW r \in Records, heap' = Append(heap, r)
  PROVE  HeapGrows /\ Len(heap') = Len(heap) + 1 /\ heap'[Len(heap) + 1] = r
BY DEF HeapGrows, Typed

LEMMA CallKept ==
  ASSUME Typed, HeapGrows, NEW d \in Conns, CallInv(d),
         pc'[d] = pc[d], call'[d] = call[d], pointers'[d] = pointers[d],
         visited'[d] = visited[d], UNCHANGED records \/ pc[d] # "reading"
  PROVE  CallInv(d)'
<1>1. pc[d] = "reading" => Found(d)' = Found(d)
  <2>1. SUFFICES ASSUME UNCHANGED records PROVE Found(d)' = Found(d)
    OBVIOUS
  <2>2. \A j \in visited[d] :
          records[j] \in 0..Len(heap) /\ (records[j] # 0 => heap'[records[j]] = heap[records[j]])
    BY DEF Typed, HeapGrows
  <2> QED BY <2>1, <2>2 DEF Found, Matches
<1>2. (\E p \in 1..Len(heap) : pointers[d] = {p} /\ heap[p] = call[d].body)
      => \E p \in 1..Len(heap') : pointers'[d] = {p} /\ heap'[p] = call'[d].body
  BY DEF HeapGrows, Typed
<1> QED BY <1>1, <1>2 DEF CallInv, IsRefused

LEMMA PostingCount ==
  ASSUME NEW c \in Conns, NEW L,
         \A d \in Conns \ {c} : (d \in Posting(L))' <=> d \in Posting(L)
  PROVE  /\ Cardinality(Posting(L)) \in Nat /\ Cardinality(Posting(L)') \in Nat
         /\ (c \in Posting(L) <=> c \in Posting(L)')
              => Cardinality(Posting(L)') = Cardinality(Posting(L))
         /\ c \in Posting(L) /\ c \notin Posting(L)'
              => Cardinality(Posting(L)') = Cardinality(Posting(L)) - 1
         /\ c \notin Posting(L) /\ c \in Posting(L)'
              => Cardinality(Posting(L)') = Cardinality(Posting(L)) + 1
<1>1. IsFiniteSet(Posting(L)) /\ IsFiniteSet(Posting(L)')
  <2>1. Posting(L) \subseteq Conns /\ Posting(L)' \subseteq Conns
    BY DEF Posting
  <2> QED BY <2>1, FS_Subset, IngesterAssumption
<1>2. Posting(L) \subseteq Conns /\ Posting(L)' \subseteq Conns
  BY DEF Posting
<1>3. CASE c \in Posting(L) <=> c \in Posting(L)'
  <2>1. Posting(L)' = Posting(L)
    BY <1>2, <1>3
  <2> QED BY <1>1, <1>3, <2>1, FS_CardinalityType
<1>4. CASE c \in Posting(L) /\ c \notin Posting(L)'
  <2>1. Posting(L)' = Posting(L) \ {c}
    BY <1>2, <1>4
  <2> QED BY <1>1, <1>4, <2>1, FS_CardinalityType, FS_RemoveElement
<1>5. CASE c \notin Posting(L) /\ c \in Posting(L)'
  <2>1. Posting(L)' = Posting(L) \cup {c}
    BY <1>2, <1>5
  <2> QED BY <1>1, <1>5, <2>1, FS_CardinalityType, FS_AddElement
<1> QED BY <1>3, <1>4, <1>5

-----------------------------------------------------------------------------
(* The invariant.                                                          *)

LEMMA InitInv == Init => IInv
<1> SUFFICES ASSUME Init PROVE IInv
  OBVIOUS
<1>1. Typed
  BY IngesterAssumption DEF Init, Typed, Locations
<1>2. LockInv
  BY IngesterAssumption DEF Init, LockInv
<1>3. \A c \in Conns : CallInv(c)
  BY DEF Init, CallInv, PostPoints
<1>4. CountInv
  <2>1. Uncounted = {} /\ Posting({"received"}) = {}
    BY DEF Init, Uncounted, Posting, PostPoints
  <2>2. Cardinality(Uncounted) = 0 /\ Cardinality(Posting({"received"})) = 0
    BY <2>1, FS_EmptySet
  <2>3. Len(heap) = 0 /\ counter = 0
    BY DEF Init
  <2> QED BY <2>2, <2>3, IngesterAssumption DEF CountInv
<1> QED BY <1>1, <1>2, <1>3, <1>4 DEF IInv

\* A step of c leaves what the others' POSTs are at.
OthersStay(c) ==
  \A d \in Conns \ {c} :
    /\ pc'[d] = pc[d] /\ call'[d] = call[d] /\ pointers'[d] = pointers[d]
    /\ visited'[d] = visited[d]

LEMMA SoloCount ==
  ASSUME Typed, NEW c \in Conns, OthersStay(c), NEW L
  PROVE  \A d \in Conns \ {c} : (d \in Posting(L))' <=> d \in Posting(L)
BY DEF OthersStay, Posting

\* A step that neither decodes nor counts, nor brings a POST or refuses one.
LEMMA CountStays ==
  ASSUME IInv, NEW c \in Conns, OthersStay(c), UNCHANGED counter, Len(heap') = Len(heap),
         c \in Uncounted <=> (c \in Uncounted)',
         c \in Posting({"received"})' => c \in Posting({"received"})
  PROVE  CountInv'
<1>1. Cardinality(Uncounted') = Cardinality(Uncounted)
  BY SoloCount, PostingCount DEF Uncounted, IInv
<1>2. /\ Cardinality(Posting({"received"})) \in Nat
      /\ Cardinality(Posting({"received"})') \in Nat
      /\ Cardinality(Posting({"received"})') <= Cardinality(Posting({"received"}))
  BY SoloCount, PostingCount DEF IInv
<1>3. Len(heap) \in Nat /\ MaxPosts \in Nat
  BY IngesterAssumption DEF IInv, Typed
<1> QED BY <1>1, <1>2, <1>3 DEF IInv, CountInv

LEMMA InvokeStep ==
  ASSUME IInv, NEW c \in Conns, Invoke(c)
  PROVE  IInv'
<1> USE DEF IInv
<1>1. PICK k \in Atomic!Calls :
        /\ k.op = "post" => Len(heap) + Cardinality(Posting({"received"})) < MaxPosts
        /\ call' = [call EXCEPT ![c] = k]
  BY DEF Invoke
<1>2. /\ pc[c] = "idle" /\ pc' = [pc EXCEPT ![c] = "received"]
      /\ UNCHANGED <<heap, records, writer, readers, pointers, visited, counter, restarts>>
      /\ reply' = [reply EXCEPT ![c] = NoAnswer]
  BY DEF Invoke, Moves, mutex
<1>3. Typed' /\ OthersStay(c) /\ pc'[c] = "received" /\ call'[c] = k
  BY <1>1, <1>2 DEF Typed, Locations, OthersStay
<1>4. LockInv'
  BY <1>2 DEF LockInv, Typed
<1>5. \A d \in Conns : CallInv(d)'
  <2>1. CallInv(c)'
    BY <1>2, <1>3, CallShapes DEF CallInv, PostPoints
  <2> QED BY <1>2, <1>3, <2>1, HeapStays, CallKept DEF OthersStay
<1>6. CountInv'
  <2>1. Cardinality(Uncounted') = Cardinality(Uncounted)
    <3>1. c \notin Uncounted /\ c \notin Uncounted'
      BY <1>2, <1>3 DEF Uncounted, Posting, PostPoints
    <3> QED BY <1>3, <3>1, SoloCount, PostingCount DEF Uncounted
  <2>2. /\ Cardinality(Posting({"received"})) \in Nat
        /\ Cardinality(Posting({"received"})') \in Nat
        /\ Cardinality(Posting({"received"})') <= Cardinality(Posting({"received"})) + 1
        /\ k.op # "post" =>
             Cardinality(Posting({"received"})') = Cardinality(Posting({"received"}))
    <3>1. /\ c \notin Posting({"received"})
          /\ k.op # "post" => c \notin Posting({"received"})'
      BY <1>2, <1>3 DEF Posting
    <3> QED BY <1>3, <3>1, SoloCount, PostingCount
  <2>3. Len(heap) \in Nat /\ MaxPosts \in Nat
    BY IngesterAssumption DEF Typed
  <2> QED BY <1>1, <1>2, <2>1, <2>2, <2>3 DEF CountInv
<1> QED BY <1>3, <1>4, <1>5, <1>6

LEMMA RefuseStep ==
  ASSUME IInv, NEW c \in Conns, Refuse(c)
  PROVE  IInv'
<1> USE DEF IInv
<1>1. /\ pc[c] = "received" /\ pc' = [pc EXCEPT ![c] = "refused"] /\ IsRefused(call[c])
      /\ UNCHANGED <<heap, records, writer, readers, call, pointers, visited, counter,
                     reply, restarts>>
  BY DEF Refuse, mutex
<1>2. Typed' /\ OthersStay(c)
  BY <1>1 DEF Typed, Locations, OthersStay
<1>3. LockInv'
  BY <1>1 DEF LockInv, Typed
<1>4. \A d \in Conns : CallInv(d)'
  <2>1. CallInv(c)'
    BY <1>1 DEF CallInv, PostPoints, Typed, IsRefused
  <2> QED BY <1>1, <1>2, <2>1, HeapStays, CallKept DEF OthersStay
<1>5. CountInv'
  BY <1>1, <1>2, CountStays DEF Uncounted, Posting, PostPoints, Typed
<1> QED BY <1>2, <1>3, <1>4, <1>5

LEMMA DecodeStep ==
  ASSUME IInv, NEW c \in Conns, Decode(c)
  PROVE  IInv'
<1> USE DEF IInv
<1>1. /\ pc[c] = "received" /\ ~IsRefused(call[c]) /\ call[c].op = "post"
      /\ heap' = Append(heap, call[c].body)
      /\ pointers' = [pointers EXCEPT ![c] = {Len(heap) + 1}]
      /\ pc' = [pc EXCEPT ![c] = "locking"]
      /\ UNCHANGED <<records, writer, readers, call, visited, counter, reply, restarts>>
  BY DEF Decode, mutex
<1>2. call[c].body \in Records
  BY <1>1, CallShapes DEF Typed, CallInv
<1>3. HeapGrows /\ Len(heap') = Len(heap) + 1 /\ heap'[Len(heap) + 1] = call[c].body
  BY <1>1, <1>2, HeapAppends
<1>4. Typed'
  <2>1. Len(heap) \in Nat /\ heap' \in Seq(Records) /\ 0..Len(heap) \subseteq 0..Len(heap')
    BY <1>3 DEF Typed, HeapGrows
  <2>2. pointers' \in [Conns -> SUBSET (1..Len(heap'))]
    BY <1>1, <1>3, <2>1 DEF Typed
  <2> QED BY <1>1, <2>1, <2>2 DEF Typed, Locations
<1>5. LockInv' /\ OthersStay(c)
  BY <1>1 DEF LockInv, OthersStay, Typed
<1>6. \A d \in Conns : CallInv(d)'
  <2>1. CallInv(c)'
    <3>1. /\ pointers'[c] = {Len(heap) + 1} /\ pc'[c] = "locking" /\ call'[c] = call[c]
          /\ Len(heap) + 1 \in 1..Len(heap')
      BY <1>1, <1>3 DEF Typed
    <3> QED BY <1>1, <1>3, <3>1 DEF CallInv, PostPoints, IsRefused
  <2> QED BY <1>1, <1>3, <1>5, <2>1, CallKept DEF OthersStay
<1>7. CountInv'
  <2>1. /\ Cardinality(Uncounted) \in Nat
        /\ Cardinality(Uncounted') = Cardinality(Uncounted) + 1
    <3>1. c \notin Uncounted /\ c \in Uncounted'
      BY <1>1 DEF Uncounted, Posting, PostPoints, Typed
    <3> QED BY <1>5, <3>1, SoloCount, PostingCount DEF Uncounted
  <2>2. /\ Cardinality(Posting({"received"})) \in Nat
        /\ Cardinality(Posting({"received"})') = Cardinality(Posting({"received"})) - 1
    <3>1. c \in Posting({"received"}) /\ c \notin Posting({"received"})'
      BY <1>1 DEF Posting, Typed
    <3> QED BY <1>5, <3>1, SoloCount, PostingCount
  <2>3. Len(heap) \in Nat /\ MaxPosts \in Nat /\ counter \in Nat
    BY IngesterAssumption DEF Typed
  <2> QED BY <1>1, <1>3, <2>1, <2>2, <2>3 DEF CountInv
<1> QED BY <1>4, <1>5, <1>6, <1>7

LEMMA LockOutStep ==
  ASSUME IInv, NEW c \in Conns, LockOut(c)
  PROVE  IInv'
<1> USE DEF IInv
<1>1. /\ pc[c] = "locking" /\ pc' = [pc EXCEPT ![c] = "draining"]
      /\ writer = NoConn /\ writer' = c
      /\ UNCHANGED <<heap, records, readers, call, pointers, visited, counter, reply, restarts>>
  BY DEF LockOut, Moves
<1>2. Typed' /\ OthersStay(c)
  BY <1>1 DEF Typed, Locations, OthersStay
<1>3. LockInv'
  BY <1>1, IngesterAssumption DEF LockInv, Typed
<1>4. \A d \in Conns : CallInv(d)'
  <2>1. CallInv(c)'
    BY <1>1 DEF CallInv, PostPoints, Typed, IsRefused
  <2> QED BY <1>1, <1>2, <2>1, HeapStays, CallKept DEF OthersStay
<1>5. CountInv'
  BY <1>1, <1>2, CountStays DEF Uncounted, Posting, PostPoints, Typed
<1> QED BY <1>2, <1>3, <1>4, <1>5

LEMMA LockStep ==
  ASSUME IInv, NEW c \in Conns, Lock(c)
  PROVE  IInv'
<1> USE DEF IInv
<1>1. /\ pc[c] = "draining" /\ pc' = [pc EXCEPT ![c] = "storing"] /\ readers = {}
      /\ UNCHANGED <<heap, records, writer, readers, call, pointers, visited, counter,
                     reply, restarts>>
  BY DEF Lock, Moves, mutex
<1>2. Typed' /\ OthersStay(c)
  BY <1>1 DEF Typed, Locations, OthersStay
<1>3. LockInv'
  BY <1>1 DEF LockInv, Typed
<1>4. \A d \in Conns : CallInv(d)'
  <2>1. CallInv(c)'
    BY <1>1 DEF CallInv, PostPoints, Typed, IsRefused
  <2> QED BY <1>1, <1>2, <2>1, HeapStays, CallKept DEF OthersStay
<1>5. CountInv'
  BY <1>1, <1>2, CountStays DEF Uncounted, Posting, PostPoints, Typed
<1> QED BY <1>2, <1>3, <1>4, <1>5

\* What a goroutine stores, and that no read is under way.
LEMMA StoreFacts ==
  ASSUME IInv, NEW c \in Conns, Store(c)
  PROVE  \E p \in 1..Len(heap) :
           /\ heap[p] = call[c].body /\ call[c].body \in Records /\ call[c].body.id \in Ids
           /\ records' = [records EXCEPT ![call[c].body.id] = p]
           /\ call[c] \in Atomic!Calls /\ call[c].op = "post" /\ ~IsRefused(call[c])
           /\ \A d \in Conns : pc[d] # "reading"
<1> USE DEF IInv
<1>1. pc[c] = "storing" /\ CallInv(c)
  BY DEF Store, Moves
<1>2. call[c] \in Atomic!Calls /\ call[c].op = "post" /\ ~IsRefused(call[c])
  BY <1>1 DEF CallInv, Typed, PostPoints
<1>3. PICK p \in 1..Len(heap) : pointers[c] = {p} /\ heap[p] = call[c].body
  BY <1>1 DEF CallInv
<1>4. records' = [records EXCEPT ![call[c].body.id] = p]
  BY <1>3 DEF Store
<1>5. \A d \in Conns : pc[d] # "reading"
  BY <1>1 DEF LockInv
<1> QED BY <1>2, <1>3, <1>4, <1>5, CallShapes

LEMMA StoreStep ==
  ASSUME IInv, NEW c \in Conns, Store(c)
  PROVE  IInv'
<1> USE DEF IInv
<1>1. /\ pc[c] = "storing" /\ pc' = [pc EXCEPT ![c] = "unlocking"]
      /\ UNCHANGED <<heap, writer, readers, call, pointers, visited, counter, reply, restarts>>
  BY DEF Store, Moves, mutex
<1>2. records' \in [Ids -> 0..Len(heap)] /\ \A d \in Conns : pc[d] # "reading"
  BY StoreFacts DEF Typed
<1>3. Typed' /\ OthersStay(c)
  BY <1>1, <1>2 DEF Typed, Locations, OthersStay
<1>4. LockInv'
  BY <1>1 DEF LockInv, Typed
<1>5. \A d \in Conns : CallInv(d)'
  <2>1. CallInv(c)'
    BY <1>1 DEF CallInv, PostPoints, Typed, IsRefused
  <2> QED BY <1>1, <1>2, <1>3, <2>1, HeapStays, CallKept DEF OthersStay
<1>6. CountInv'
  BY <1>1, <1>3, CountStays DEF Uncounted, Posting, PostPoints, Typed
<1> QED BY <1>3, <1>4, <1>5, <1>6

LEMMA UnlockStep ==
  ASSUME IInv, NEW c \in Conns, Unlock(c)
  PROVE  IInv'
<1> USE DEF IInv
<1>1. /\ pc[c] = "unlocking" /\ writer' = NoConn /\ readers' = {d \in Conns : pc[d] = "parked"}
      /\ pc' = [d \in Conns |-> IF d = c THEN "counting"
                                ELSE IF pc[d] = "parked" THEN "reading" ELSE pc[d]]
      /\ UNCHANGED <<heap, records, call, pointers, visited, counter, reply, restarts>>
  BY DEF Unlock
<1>2. Typed'
  BY <1>1 DEF Typed, Locations
<1>3. \A d \in Conns : pc[d] # "reading"
  BY <1>1 DEF LockInv
<1>4. LockInv'
  <2>1. readers' = {d \in Conns : pc'[d] = "reading"}
    BY <1>1, <1>3
  <2>2. \A d \in Conns : pc'[d] \notin {"draining", "storing", "unlocking"}
    BY <1>1 DEF LockInv
  <2> QED BY <1>1, <2>1, <2>2, IngesterAssumption DEF LockInv
<1>5. \A d \in Conns : CallInv(d)'
  <2>1. CallInv(c)'
    BY <1>1 DEF CallInv, PostPoints, IsRefused
  <2>2. ASSUME NEW d \in Conns, pc[d] = "parked" PROVE CallInv(d)'
    <3>1. pointers[d] = {} /\ visited[d] = {} /\ CallInv(d)
      BY <2>2 DEF CallInv
    <3>2. Found(d)' = {} /\ pc'[d] = "reading" /\ pointers'[d] = {} /\ visited'[d] = {}
      BY <1>1, <2>2, <3>1 DEF Found
    <3> QED BY <1>1, <2>2, <3>1, <3>2 DEF CallInv, PostPoints, IsRefused
  <2>3. ASSUME NEW d \in Conns \ {c}, pc[d] # "parked" PROVE CallInv(d)'
    BY <1>1, <2>3, HeapStays, CallKept
  <2> QED BY <2>1, <2>2, <2>3
<1>6. CountInv'
  <2>1. Uncounted' = Uncounted /\ Posting({"received"})' = Posting({"received"})
    BY <1>1 DEF Uncounted, Posting, PostPoints
  <2> QED BY <1>1, <2>1 DEF CountInv
<1> QED BY <1>2, <1>4, <1>5, <1>6

LEMMA CountStep ==
  ASSUME IInv, NEW c \in Conns, Count(c)
  PROVE  IInv'
<1> USE DEF IInv
<1>1. /\ pc[c] = "counting" /\ pc' = [pc EXCEPT ![c] = "answering"] /\ counter' = counter + 1
      /\ UNCHANGED <<heap, records, writer, readers, call, pointers, visited, reply, restarts>>
  BY DEF Count, Moves, mutex
<1>2. Typed' /\ OthersStay(c)
  BY <1>1 DEF Typed, Locations, OthersStay
<1>3. LockInv'
  BY <1>1 DEF LockInv, Typed
<1>4. \A d \in Conns : CallInv(d)'
  <2>1. CallInv(c)'
    BY <1>1 DEF CallInv, PostPoints, Typed, IsRefused
  <2> QED BY <1>1, <1>2, <2>1, HeapStays, CallKept DEF OthersStay
<1>5. CountInv'
  <2>1. /\ Cardinality(Uncounted) \in Nat
        /\ Cardinality(Uncounted') = Cardinality(Uncounted) - 1
    <3>1. c \in Uncounted /\ c \notin Uncounted'
      BY <1>1 DEF Uncounted, Posting, PostPoints, Typed, CallInv
    <3> QED BY <1>2, <3>1, SoloCount, PostingCount DEF Uncounted
  <2>2. Cardinality(Posting({"received"})') = Cardinality(Posting({"received"}))
    <3>1. c \notin Posting({"received"}) /\ c \notin Posting({"received"})'
      BY <1>1 DEF Posting, Typed
    <3> QED BY <1>2, <3>1, SoloCount, PostingCount
  <2> QED BY <1>1, <2>1, <2>2 DEF CountInv, Typed
<1> QED BY <1>2, <1>3, <1>4, <1>5

LEMMA RLockStep ==
  ASSUME IInv, NEW c \in Conns, RLock(c)
  PROVE  IInv'
<1> USE DEF IInv
<1>1. /\ pc[c] = "received" /\ ~IsRefused(call[c]) /\ call[c].op # "post"
      /\ \/ /\ writer = NoConn
            /\ pc' = [pc EXCEPT ![c] = "reading"] /\ readers' = readers \cup {c}
         \/ /\ writer # NoConn
            /\ pc' = [pc EXCEPT ![c] = "parked"] /\ UNCHANGED readers
      /\ UNCHANGED <<heap, records, writer, call, pointers, visited, counter, reply, restarts>>
  BY DEF RLock
<1>2. Typed' /\ OthersStay(c) /\ pc'[c] \in {"reading", "parked"}
  BY <1>1 DEF Typed, Locations, OthersStay
<1>3. LockInv'
  BY <1>1, IngesterAssumption DEF LockInv, Typed
<1>4. \A d \in Conns : CallInv(d)'
  <2>1. CallInv(c)'
    <3>1. pointers'[c] = {} /\ visited'[c] = {} /\ Found(c)' = {}
      BY <1>1 DEF CallInv, Found
    <3> QED BY <1>1, <1>2, <3>1 DEF CallInv, PostPoints, IsRefused
  <2> QED BY <1>1, <1>2, <2>1, HeapStays, CallKept DEF OthersStay
<1>5. CountInv'
  BY <1>1, <1>2, CountStays DEF Uncounted, Posting, PostPoints
<1> QED BY <1>2, <1>3, <1>4, <1>5

LEMMA VisitStep ==
  ASSUME IInv, NEW c \in Conns, Visit(c)
  PROVE  IInv'
<1> USE DEF IInv
<1>1. PICK i \in KeysToVisit(c) :
        /\ visited' = [visited EXCEPT ![c] = @ \cup {i}]
        /\ pointers' = [pointers EXCEPT ![c] = @ \cup
             {p \in {records[i]} \ {0} : Matches(call[c], heap[p])}]
  BY DEF Visit
<1>2. /\ pc[c] = "reading"
      /\ UNCHANGED <<heap, records, writer, readers, pc, call, counter, reply, restarts>>
  BY DEF Visit, mutex
<1>3. i \in Ids /\ (call[c].op = "get" => i = call[c].id)
  BY <1>2, CallShapes DEF KeysToVisit, CallInv, Typed
<1>4. /\ visited'[c] = visited[c] \cup {i}
      /\ pointers'[c] = pointers[c] \cup {p \in {records[i]} \ {0} : Matches(call[c], heap[p])}
  BY <1>1 DEF Typed
<1>5. Typed' /\ OthersStay(c)
  <2>1. {p \in {records[i]} \ {0} : Matches(call[c], heap[p])} \subseteq 1..Len(heap)
    BY <1>3 DEF Typed
  <2> HIDE DEF Matches
  <2> QED BY <1>1, <1>2, <1>3, <2>1 DEF Typed, OthersStay
<1>6. LockInv'
  BY <1>2 DEF LockInv
<1>7. \A d \in Conns : CallInv(d)'
  <2>1. Found(c)' = Found(c) \cup {p \in {records[i]} \ {0} : Matches(call[c], heap[p])}
    BY <1>2, <1>4 DEF Found, Matches
  <2>2. CallInv(c)'
    BY <1>2, <1>3, <1>4, <2>1 DEF CallInv, PostPoints, IsRefused
  <2> QED BY <1>2, <1>5, <2>2, HeapStays, CallKept DEF OthersStay
<1>8. CountInv'
  BY <1>2, <1>5, CountStays DEF Uncounted, Posting, PostPoints
<1> QED BY <1>5, <1>6, <1>7, <1>8

LEMMA RUnlockStep ==
  ASSUME IInv, NEW c \in Conns, RUnlock(c)
  PROVE  IInv'
<1> USE DEF IInv
<1>1. /\ pc[c] = "reading" /\ pc' = [pc EXCEPT ![c] = "answering"]
      /\ readers' = readers \ {c}
      /\ UNCHANGED <<heap, records, writer, call, pointers, visited, counter, reply, restarts>>
  BY DEF RUnlock, Moves
<1>2. Typed' /\ OthersStay(c)
  BY <1>1 DEF Typed, Locations, OthersStay
<1>3. LockInv'
  BY <1>1 DEF LockInv, Typed
<1>4. \A d \in Conns : CallInv(d)'
  <2>1. CallInv(c)'
    BY <1>1 DEF CallInv, PostPoints, Typed, IsRefused
  <2> QED BY <1>1, <1>2, <2>1, HeapStays, CallKept DEF OthersStay
<1>5. CountInv'
  BY <1>1, <1>2, CountStays DEF Uncounted, Posting, PostPoints, Typed
<1> QED BY <1>2, <1>3, <1>4, <1>5

\* What is written out is an answer.
LEMMA EncodedType ==
  ASSUME Typed, NEW c \in Conns
  PROVE  Encoded(c) \in Atomic!Answers /\ ResultOf(c) \in Atomic!Answers \cup {NoAnswer}
<1>1. {heap[p] : p \in pointers[c]} \subseteq Records
  BY DEF Typed
<1> QED BY <1>1 DEF Encoded, ResultOf, Atomic!Answers, Atomic!Statuses

LEMMA AnswerStep ==
  ASSUME IInv, NEW c \in Conns, Answer(c)
  PROVE  IInv'
<1> USE DEF IInv
<1>1. /\ pc[c] \in {"refused", "answering"} /\ reply' = [reply EXCEPT ![c] = ResultOf(c)]
      /\ pc' = [pc EXCEPT ![c] = "idle"] /\ call' = [call EXCEPT ![c] = NoCall]
      /\ pointers' = [pointers EXCEPT ![c] = {}] /\ visited' = [visited EXCEPT ![c] = {}]
      /\ UNCHANGED <<heap, records, writer, readers, counter, restarts>>
  BY DEF Answer, mutex
<1>2. Typed' /\ OthersStay(c)
  BY <1>1, EncodedType DEF Typed, Locations, OthersStay
<1>3. LockInv'
  BY <1>1 DEF LockInv, Typed
<1>4. \A d \in Conns : CallInv(d)'
  <2>1. CallInv(c)'
    BY <1>1 DEF CallInv, PostPoints, Typed
  <2> QED BY <1>1, <1>2, <2>1, HeapStays, CallKept DEF OthersStay
<1>5. CountInv'
  BY <1>1, <1>2, CountStays DEF Uncounted, Posting, PostPoints, Typed
<1> QED BY <1>2, <1>3, <1>4, <1>5

LEMMA RestartStep == ASSUME IInv, Restart PROVE IInv'
<1>1. Typed'
  BY IngesterAssumption DEF IInv, Restart, Typed, Locations
<1>2. LockInv'
  BY IngesterAssumption DEF Restart, LockInv
<1>3. \A c \in Conns : CallInv(c)'
  BY DEF Restart, CallInv, PostPoints
<1>4. CountInv'
  <2>1. Uncounted' = {} /\ Posting({"received"})' = {}
    BY DEF Restart, Uncounted, Posting, PostPoints
  <2>2. Cardinality(Uncounted') = 0 /\ Cardinality(Posting({"received"})') = 0
    BY <2>1, FS_EmptySet
  <2>3. Len(heap') = 0 /\ counter' = 0
    BY DEF Restart
  <2> QED BY <2>2, <2>3, IngesterAssumption DEF CountInv
<1> QED BY <1>1, <1>2, <1>3, <1>4 DEF IInv

LEMMA Invariance == Spec => []IInv
<1>1. IInv /\ [Next]_vars => IInv'
  <2> SUFFICES ASSUME IInv, [Next]_vars PROVE IInv'
    OBVIOUS
  <2>1. ASSUME NEW c \in Conns, Invoke(c) \/ Step(c) PROVE IInv'
    BY <2>1, InvokeStep, RefuseStep, DecodeStep, LockOutStep, LockStep, StoreStep, UnlockStep,
       CountStep, RLockStep, VisitStep, RUnlockStep, AnswerStep DEF Step
  <2>2. CASE UNCHANGED vars
    <3>1. UNCHANGED <<heap, records, writer, readers, pc, call, pointers, visited, counter,
                      reply, restarts>>
      BY <2>2 DEF vars, mutex
    <3>2. \A c \in Conns : CallInv(c)'
      BY <3>1, HeapStays, CallKept DEF IInv
    <3>3. Typed' /\ LockInv'
      BY <3>1 DEF IInv, Typed, LockInv
    <3>4. CountInv'
      BY <3>1 DEF IInv, CountInv, Uncounted, Posting
    <3> QED BY <3>2, <3>3, <3>4 DEF IInv
  <2> QED BY <2>1, <2>2, RestartStep DEF Next
<1> QED BY InitInv, <1>1, PTL DEF Spec

\* The ingester's state is of its types, within its bounds.
THEOREM TypeCorrect == Spec => []TypeOK
<1>1. IInv => TypeOK
  <2> SUFFICES ASSUME IInv PROVE TypeOK
    OBVIOUS
  <2>1. IsFiniteSet(Uncounted) /\ IsFiniteSet(Posting({"received"}))
    <3>1. Uncounted \subseteq Conns /\ Posting({"received"}) \subseteq Conns
      BY DEF Uncounted, Posting
    <3> QED BY <3>1, FS_Subset, IngesterAssumption
  <2>2. Cardinality(Uncounted) \in Nat /\ Cardinality(Posting({"received"})) \in Nat
    BY <2>1, FS_CardinalityType
  <2>3. Len(heap) <= MaxPosts /\ counter \in 0..MaxPosts
    BY <2>2, IngesterAssumption DEF IInv, Typed, CountInv
  <2> QED BY <2>3 DEF IInv, Typed, TypeOK
<1> QED BY <1>1, Invariance, PTL

\* The RWMutex keeps the goroutine that writes the map alone with it.
THEOREM WriterIsAlone == Spec => []MapIsWrittenAlone
<1>1. IInv => MapIsWrittenAlone
  BY IngesterAssumption DEF IInv, LockInv, MapIsWrittenAlone
<1> QED BY <1>1, Invariance, PTL

\* The counter stays between the POSTs answered and the records stored.
THEOREM CounterTells == Spec => []CounterBetween
<1>1. IInv => CounterBetween
  <2> SUFFICES ASSUME IInv PROVE CounterBetween
    OBVIOUS
  <2> DEFINE unstored == Posting({"locking", "draining", "storing"})
             unanswered == unstored \cup Posting({"unlocking", "counting", "answering"})
  <2>1. unstored \subseteq Uncounted /\ Uncounted \subseteq unanswered /\ unanswered \subseteq Conns
    BY DEF Uncounted, Posting, PostPoints
  <2> HIDE DEF unstored, unanswered
  <2>2. /\ IsFiniteSet(unanswered) /\ IsFiniteSet(Uncounted) /\ IsFiniteSet(unstored)
        /\ Cardinality(unstored) <= Cardinality(Uncounted)
        /\ Cardinality(Uncounted) <= Cardinality(unanswered)
    <3>1. IsFiniteSet(unanswered)
      BY <2>1, FS_Subset, IngesterAssumption
    <3>2. IsFiniteSet(Uncounted) /\ Cardinality(Uncounted) <= Cardinality(unanswered)
      BY <2>1, <3>1, FS_Subset
    <3> QED BY <2>1, <3>1, <3>2, FS_Subset
  <2>3. /\ Cardinality(unstored) \in Nat /\ Cardinality(Uncounted) \in Nat
        /\ Cardinality(unanswered) \in Nat
    BY <2>2, FS_CardinalityType
  <2>4. Len(heap) \in Nat /\ counter \in Nat /\ counter + Cardinality(Uncounted) = Len(heap)
    BY DEF IInv, Typed, CountInv
  <2>5. counter \in (Len(heap) - Cardinality(unanswered))..(Len(heap) - Cardinality(unstored))
    BY <2>2, <2>3, <2>4
  <2> QED BY <2>5 DEF CounterBetween, unstored, unanswered
<1> QED BY <1>1, Invariance, PTL

-----------------------------------------------------------------------------
(* The atomic store.                                                       *)

LEMMA HeldKept == ASSUME Typed, HeapGrows, UNCHANGED records PROVE Held' = Held
<1>1. \A i \in Ids : records[i] \in 0..Len(heap)
  BY DEF Typed
<1> QED BY <1>1 DEF Held, HeapGrows, Typed

LEMMA ResultKept ==
  ASSUME Typed, HeapGrows, NEW d \in Conns,
         pc'[d] = pc[d], call'[d] = call[d], pointers'[d] = pointers[d]
  PROVE  ResultOf(d)' = ResultOf(d)
<1>1. {heap'[p] : p \in pointers[d]} = {heap[p] : p \in pointers[d]}
  BY DEF HeapGrows, Typed
<1> QED BY <1>1 DEF ResultOf, Encoded

LEMMA Stutter ==
  ASSUME Typed, HeapGrows, UNCHANGED <<records, call, reply>>,
         NEW c \in Conns, OthersStay(c), ResultOf(c)' = ResultOf(c)
  PROVE  UNCHANGED Atomic!vars
<1>1. \A d \in Conns : ResultOf(d)' = ResultOf(d)
  BY ResultKept DEF OthersStay
<1> QED BY <1>1, HeldKept DEF Results, Atomic!vars

\* A step at which the call of c, and no other, takes effect.
LEMMA OneResult ==
  ASSUME Typed, HeapGrows, UNCHANGED <<call, reply>>, NEW c \in Conns, OthersStay(c)
  PROVE  Atomic!TakesEffectAs(c, ResultOf(c)')
<1>1. \A d \in Conns \ {c} : ResultOf(d)' = ResultOf(d)
  BY ResultKept DEF OthersStay
<1> QED BY <1>1 DEF Results, Atomic!TakesEffectAs

LEMMA InvokeMaps == ASSUME IInv, NEW c \in Conns, Invoke(c) PROVE Atomic!Next
<1>1. /\ pc[c] = "idle" /\ pc' = [pc EXCEPT ![c] = "received"] /\ call[c] = NoCall
      /\ UNCHANGED <<heap, records, pointers, visited>>
  BY DEF Invoke, Moves, IInv, CallInv
<1>2. \A d \in Conns : ResultOf(d)' = ResultOf(d)
  <2>1. ResultOf(c)' = NoAnswer /\ ResultOf(c) = NoAnswer
    BY <1>1 DEF ResultOf, Encoded, IInv, Typed
  <2>2. \A d \in Conns \ {c} : pc'[d] = pc[d] /\ call'[d] = call[d] /\ pointers'[d] = pointers[d]
    BY <1>1 DEF Invoke, IInv, Typed
  <2> QED BY <1>1, <2>1, <2>2, ResultKept, HeapStays DEF IInv
<1>3. Held' = Held /\ Results' = Results
  BY <1>1, <1>2, HeldKept, HeapStays DEF IInv, Results
<1>4. Atomic!Invoke(c)
  BY <1>1, <1>3 DEF Invoke, Atomic!Invoke
<1> QED BY <1>4 DEF Atomic!Next

LEMMA RefuseMaps == ASSUME IInv, NEW c \in Conns, Refuse(c) PROVE Atomic!Next
<1>1. /\ pc[c] = "received" /\ pc'[c] = "refused" /\ IsRefused(call[c]) /\ OthersStay(c)
      /\ UNCHANGED <<heap, records, call, reply>>
  BY DEF Refuse, IInv, Typed, OthersStay
<1>2. /\ ResultOf(c) = NoAnswer /\ ResultOf(c)' = Atomic!Answer("refused", {})
  BY <1>1 DEF ResultOf, Encoded, Atomic!Answer
<1>3. Held' = Held /\ Atomic!TakesEffectAs(c, Atomic!Answer("refused", {}))
  BY <1>1, <1>2, HeldKept, HeapStays, OneResult DEF IInv
<1>4. call[c] \in Atomic!Calls /\ Results[c] = NoAnswer
  BY <1>1, <1>2 DEF IInv, CallInv, Typed, Results
<1>5. Atomic!Refuse(c)
  BY <1>1, <1>3, <1>4, CallShapes, IngesterAssumption
     DEF Atomic!Refuse, Atomic!Waits, IsRefused
<1> QED BY <1>5 DEF Atomic!Next

LEMMA StoreMaps == ASSUME IInv, NEW c \in Conns, Store(c) PROVE Atomic!Next
<1>1. /\ pc[c] = "storing" /\ pc'[c] = "unlocking" /\ OthersStay(c)
      /\ UNCHANGED <<heap, call, reply, pointers>>
  BY DEF Store, Moves, IInv, Typed, OthersStay
<1>2. PICK p \in 1..Len(heap) :
           /\ heap[p] = call[c].body /\ call[c].body \in Records /\ call[c].body.id \in Ids
           /\ records' = [records EXCEPT ![call[c].body.id] = p]
           /\ call[c] \in Atomic!Calls /\ call[c].op = "post" /\ ~IsRefused(call[c])
  BY StoreFacts
<1>3. Held' = [Held EXCEPT ![call[c].body.id] = call[c].body]
  <2>1. Len(heap) \in Nat /\ p # 0
    BY DEF IInv, Typed
  <2> QED BY <1>1, <1>2, <2>1 DEF Held, IInv, Typed
<1>4. ResultOf(c) = NoAnswer /\ ResultOf(c)' = Atomic!Answer("accepted", {})
  BY <1>1, <1>2 DEF ResultOf, Encoded, Atomic!Answer
<1>5. Atomic!TakesEffectAs(c, Atomic!Answer("accepted", {}))
  BY <1>1, <1>4, HeapStays, OneResult DEF IInv
<1>6. Results[c] = NoAnswer /\ call[c] # NoCall /\ call[c].body.id # NoId
  BY <1>2, <1>4, CallShapes, IngesterAssumption DEF Results
<1>7. Atomic!Post(c)
  BY <1>2, <1>3, <1>5, <1>6 DEF Atomic!Post, Atomic!Waits
<1> QED BY <1>7 DEF Atomic!Next

\* What a get or a query is answered is what the store holds when it lets the
\* lock go.
LEMMA RUnlockMaps == ASSUME IInv, NEW c \in Conns, RUnlock(c) PROVE Atomic!Next
<1>1. /\ pc[c] = "reading" /\ pc'[c] = "answering" /\ OthersStay(c) /\ KeysToVisit(c) = {}
      /\ UNCHANGED <<heap, records, call, reply, pointers>>
  BY DEF RUnlock, Moves, IInv, Typed, OthersStay
<1>2. /\ call[c] \in Atomic!Calls /\ call[c] # NoCall /\ ~IsRefused(call[c])
      /\ call[c].op \in {"get", "query"} /\ pointers[c] = Found(c) /\ visited[c] \subseteq Ids
      /\ call[c].op = "get" => visited[c] \subseteq {call[c].id} /\ call[c].id \in Ids
  BY <1>1, CallShapes DEF IInv, CallInv, Typed
<1>3. Results[c] = NoAnswer /\ Held' = Held /\ Atomic!TakesEffectAs(c, Encoded(c))
  <2>1. ResultOf(c) = NoAnswer /\ ResultOf(c)' = Encoded(c)
    BY <1>1 DEF ResultOf, Encoded
  <2> QED BY <1>1, <2>1, HeldKept, HeapStays, OneResult DEF IInv, Results
<1>4. \A i \in Ids : /\ records[i] = 0 <=> Held[i] = NoRecord
                     /\ records[i] # 0 => Held[i] = heap[records[i]]
  <2>1. \A i \in Ids : records[i] # 0 => heap[records[i]] \in Records
    BY DEF IInv, Typed
  <2> QED BY <2>1, IngesterAssumption DEF Held
<1>5. CASE call[c].op = "get"
  <2>1. visited[c] = {call[c].id}
    BY <1>1, <1>2, <1>5 DEF KeysToVisit
  <2>2. pointers[c] = {records[call[c].id]} \ {0}
    BY <1>2, <1>5, <2>1 DEF Found, Matches
  <2>3. Encoded(c) = IF Held[call[c].id] = NoRecord THEN Atomic!Answer("not found", {})
                     ELSE Atomic!Answer("found", {Held[call[c].id]})
    <3>1. CASE records[call[c].id] = 0
      BY <1>2, <1>4, <1>5, <2>2, <3>1 DEF Encoded, Atomic!Answer
    <3>2. CASE records[call[c].id] # 0
      <4>1. pointers[c] = {records[call[c].id]}
        BY <2>2, <3>2
      <4>2. {heap[p] : p \in pointers[c]} = {Held[call[c].id]} /\ pointers[c] # {}
        BY <1>2, <1>4, <1>5, <3>2, <4>1
      <4> QED BY <1>2, <1>4, <1>5, <3>2, <4>2 DEF Encoded, Atomic!Answer
    <3> QED BY <3>1, <3>2
  <2>4. call[c].id \notin Unroutable
    BY <1>2, <1>5 DEF IsRefused
  <2>5. Atomic!Get(c)
    BY <1>2, <1>3, <1>5, <2>3, <2>4 DEF Atomic!Get, Atomic!Waits
  <2> QED BY <2>5 DEF Atomic!Next
<1>6. CASE call[c].op = "query"
  <2> DEFINE Wanted(r) == /\ call[c].tenant = Any \/ r.tenant = call[c].tenant
                          /\ call[c].scenario = Any \/ r.scenario = call[c].scenario
  <2>1. {j \in Ids : records[j] # 0} \subseteq visited[c]
    BY <1>1, <1>6 DEF KeysToVisit
  <2>2. \A r : Matches(call[c], r) <=> Wanted(r)
    BY <1>2, <1>6, CallShapes DEF Matches
  <2> HIDE DEF Wanted
  <2>3. pointers[c] = {records[i] : i \in {j \in Ids : records[j] # 0 /\ Wanted(heap[records[j]])}}
    BY <1>2, <2>1, <2>2 DEF Found
  <2>4. {heap[p] : p \in pointers[c]} = {r \in {Held[i] : i \in Ids} \ {NoRecord} : Wanted(r)}
    BY <1>4, <2>3
  <2>5. Encoded(c) = Atomic!Answer("found",
          {r \in {Held[i] : i \in Ids} \ {NoRecord} : Wanted(r)})
    BY <1>6, <2>4 DEF Encoded, Atomic!Answer
  <2>6. Atomic!Query(c)
    BY <1>2, <1>3, <1>6, <2>5 DEF Atomic!Query, Atomic!Waits, Wanted
  <2> QED BY <2>6 DEF Atomic!Next
<1> QED BY <1>2, <1>5, <1>6

LEMMA AnswerMaps == ASSUME IInv, NEW c \in Conns, Answer(c) PROVE Atomic!Next
<1>1. /\ pc[c] \in {"refused", "answering"} /\ pc'[c] = "idle" /\ OthersStay(c)
      /\ reply' = [reply EXCEPT ![c] = ResultOf(c)] /\ call' = [call EXCEPT ![c] = NoCall]
      /\ UNCHANGED <<heap, records>>
  BY DEF Answer, IInv, Typed, OthersStay
<1>2. ResultOf(c)' = NoAnswer /\ \A d \in Conns \ {c} : ResultOf(d)' = ResultOf(d)
  BY <1>1, ResultKept, HeapStays DEF OthersStay, IInv, ResultOf, Encoded
<1>3. Held' = Held /\ Results' = [Results EXCEPT ![c] = NoAnswer]
  BY <1>1, <1>2, HeldKept, HeapStays DEF IInv, Results
<1>4. ResultOf(c) # NoAnswer
  <2>1. ResultOf(c) \in Atomic!Answers
    <3>1. CASE pc[c] = "refused"
      BY <3>1 DEF ResultOf, Encoded, Atomic!Answers, Atomic!Statuses
    <3>2. CASE pc[c] = "answering"
      BY <3>2, EncodedType DEF IInv, ResultOf
    <3> QED BY <1>1, <3>1, <3>2
  <2> QED BY <2>1, IngesterAssumption
<1>5. Atomic!Return(c)
  BY <1>1, <1>3, <1>4 DEF Atomic!Return, Results
<1> QED BY <1>5 DEF Atomic!Next

\* The other steps of a handler show nothing outside.
LEMMA InnerStepMaps ==
  ASSUME IInv, NEW c \in Conns,
         \/ Decode(c) \/ LockOut(c) \/ Lock(c) \/ Count(c) \/ RLock(c) \/ Visit(c)
  PROVE  UNCHANGED Atomic!vars
<1>1. OthersStay(c) /\ UNCHANGED <<records, call, reply>>
  BY DEF Decode, LockOut, Lock, Count, RLock, Visit, Moves, IInv, Typed, OthersStay
<1>2. HeapGrows
  <2>1. CASE Decode(c)
    <3>1. call[c].body \in Records /\ heap' = Append(heap, call[c].body)
      BY <2>1, CallShapes DEF Decode, IInv, Typed, CallInv
    <3> QED BY <3>1, HeapAppends DEF IInv
  <2>2. CASE UNCHANGED heap
    BY <2>2, HeapStays DEF IInv
  <2> QED BY <2>1, <2>2 DEF LockOut, Lock, Count, RLock, Visit
<1>3. ResultOf(c)' = ResultOf(c)
  <2>1. CASE Count(c)
    BY <2>1 DEF Count, Moves, IInv, Typed, CallInv, PostPoints, ResultOf, Encoded
  <2>2. CASE ~Count(c)
    BY <2>2 DEF Decode, LockOut, Lock, RLock, Visit, Moves, IInv, Typed, ResultOf, Encoded
  <2> QED BY <2>1, <2>2
<1> QED BY <1>1, <1>2, <1>3, Stutter DEF IInv

LEMMA UnlockMaps == ASSUME IInv, NEW c \in Conns, Unlock(c) PROVE UNCHANGED Atomic!vars
<1>1. /\ pc[c] = "unlocking" /\ call[c].op = "post"
      /\ pc' = [d \in Conns |-> IF d = c THEN "counting"
                                ELSE IF pc[d] = "parked" THEN "reading" ELSE pc[d]]
      /\ UNCHANGED <<heap, records, call, pointers, reply>>
  BY DEF Unlock, IInv, CallInv, PostPoints
<1>2. ASSUME NEW d \in Conns PROVE ResultOf(d)' = ResultOf(d)
  <2>1. CASE d = c
    BY <1>1, <2>1 DEF ResultOf, Encoded
  <2>2. CASE d # c /\ pc[d] = "parked"
    BY <1>1, <2>2 DEF ResultOf, Encoded
  <2>3. CASE d # c /\ pc[d] # "parked"
    BY <1>1, <2>3, ResultKept, HeapStays DEF IInv
  <2> QED BY <2>1, <2>2, <2>3
<1> QED BY <1>1, <1>2, HeldKept, HeapStays DEF IInv, Results, Atomic!vars

LEMMA RestartMaps == ASSUME IInv, Restart PROVE Atomic!Next
<1>1. Held' = [i \in Ids |-> NoRecord] /\ Results' = [c \in Conns |-> NoAnswer]
  BY DEF Restart, Held, Results, ResultOf, Encoded
<1>2. Atomic!Die
  BY <1>1 DEF Restart, Atomic!Die
<1> QED BY <1>2 DEF Atomic!Next

\* Every client finds the ingester to be a store that answers one call at a
\* time.
THEOREM IngesterImplementsStore == Spec => CallsAreAtomic
<1>1. Init => Atomic!Init
  BY DEF Init, Atomic!Init, Held, Results, ResultOf, Encoded
<1>2. IInv /\ [Next]_vars => [Atomic!Next]_Atomic!vars
  <2> SUFFICES ASSUME IInv, [Next]_vars PROVE [Atomic!Next]_Atomic!vars
    OBVIOUS
  <2>1. ASSUME NEW c \in Conns, Invoke(c) \/ Step(c) PROVE [Atomic!Next]_Atomic!vars
    BY <2>1, InvokeMaps, RefuseMaps, StoreMaps, RUnlockMaps, AnswerMaps, InnerStepMaps,
       UnlockMaps DEF Step
  <2>2. CASE UNCHANGED vars
    BY <2>2 DEF vars, Atomic!vars, Held, Results, ResultOf, Encoded
  <2> QED BY <2>1, <2>2, RestartMaps DEF Next
<1> QED BY <1>1, <1>2, Invariance, PTL DEF Spec, CallsAreAtomic, Atomic!Spec
=============================================================================
