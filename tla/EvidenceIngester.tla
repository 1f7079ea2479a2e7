-------------------------- MODULE EvidenceIngester --------------------------
(***************************************************************************)
(* The Go evidence ingester: net/http runs each call in a goroutine of its *)
(* own; handlers/evidence.go decodes, stores and reads, storage/memory.go  *)
(* keeps pointers to records in a map under a sync.RWMutex, and main.go    *)
(* counts accepted events in an atomic.                                    *)
(*                                                                         *)
(* A record is allocated by each POST that decodes; heap is what the       *)
(* pointers lead to, records the map.  Handlers encode what they read      *)
(* after the read lock is gone.  The RWMutex is Go's: Lock first shuts new *)
(* readers out, then waits for those inside; Unlock lets in the readers    *)
(* that parked meanwhile.  A client that goes away does not stop its       *)
(* handler; a death of the process stops them all and empties the memory.  *)
(***************************************************************************)
EXTENDS Naturals, Sequences, FiniteSets

CONSTANTS Conns, Ids, Unroutable, Records,
          NoRecord, NoId, NoScenario, Any, Unreadable, NoCall, NoAnswer,
          NoConn,
          MaxPosts,     \* bound on the POSTs that arrive in one life
          MaxRestarts   \* bound on the process's deaths

VARIABLES
  heap,      \* every record allocated; a pointer is an index, 0 is nil
  records,   \* MemoryStorage.records
  writer,    \* the goroutine between Lock and Unlock, or NoConn
  readers,   \* the goroutines that hold the read lock
  pc,        \* where the goroutine of each connection is
  call,      \* its call, or NoCall
  pointers,  \* the records it has decoded or found
  visited,   \* the keys of the map a read has passed
  counter,   \* ingesterEventsTotal
  reply,     \* the answer to its last call, until the next
  restarts   \* how often the process died

mutex == <<writer, readers>>
vars == <<heap, records, mutex, pc, call, pointers, visited, counter, reply, restarts>>

Locations ==
  {"idle", "received", "refused", "locking", "draining", "storing", "unlocking",
   "counting", "parked", "reading", "answering"}

\* What the handler writes out, from the records as they are then.
Encoded(c) ==
  IF call[c].op = "post" THEN [status |-> "accepted", records |-> {}]
  ELSE IF call[c].op = "get" /\ pointers[c] = {}
  THEN [status |-> "not found", records |-> {}]
  ELSE [status |-> "found", records |-> {heap[p] : p \in pointers[c]}]

\* A call takes effect when the map is written, or when a read lets the lock go.
ResultOf(c) ==
  IF pc[c] = "refused" THEN [status |-> "refused", records |-> {}]
  ELSE IF pc[c] \in {"unlocking", "counting", "answering"} THEN Encoded(c)
  ELSE NoAnswer

Held == [i \in Ids |-> IF records[i] = 0 THEN NoRecord ELSE heap[records[i]]]

Results == [c \in Conns |-> ResultOf(c)]

Atomic == INSTANCE AtomicEvidenceStore WITH store <- Held, result <- Results

ASSUME IngesterAssumption ==
  /\ IsFiniteSet(Conns) /\ NoConn \notin Conns /\ NoId \notin Ids /\ Unroutable \subseteq Ids
  /\ \A r \in Records : r.id \in Ids \cup {NoId}
  /\ NoRecord \notin Records /\ Unreadable \notin Records
  /\ NoCall \notin Atomic!Calls /\ NoAnswer \notin Atomic!Answers
  /\ MaxPosts \in Nat /\ MaxRestarts \in Nat

Init ==
  /\ heap = <<>> /\ records = [i \in Ids |-> 0]
  /\ writer = NoConn /\ readers = {}
  /\ pc = [c \in Conns |-> "idle"] /\ call = [c \in Conns |-> NoCall]
  /\ pointers = [c \in Conns |-> {}] /\ visited = [c \in Conns |-> {}]
  /\ counter = 0 /\ restarts = 0
  /\ reply = [c \in Conns |-> NoAnswer]

-----------------------------------------------------------------------------
\* The connections whose POST is at one of these locations.
Posting(locations) == {c \in Conns : pc[c] \in locations /\ call[c].op = "post"}

Moves(c, from, to) == pc[c] = from /\ pc' = [pc EXCEPT ![c] = to]

\* A call arrives and net/http starts its handler.
Invoke(c) ==
  /\ Moves(c, "idle", "received")
  /\ \E k \in Atomic!Calls :
       /\ k.op = "post" => Len(heap) + Cardinality(Posting({"received"})) < MaxPosts
       /\ call' = [call EXCEPT ![c] = k]
  /\ reply' = [reply EXCEPT ![c] = NoAnswer]
  /\ UNCHANGED <<heap, records, mutex, pointers, visited, counter, restarts>>

\* Decode fails, or the record has no request_id; a GET's path has a "/", or
\* leads to the handler of POSTs.
IsRefused(k) ==
  \/ k.op = "post" /\ k.body = Unreadable
  \/ k.op = "post" /\ k.body # Unreadable /\ k.body.id = NoId
  \/ k.op = "get" /\ k.id \in Unroutable

Refuse(c) ==
  /\ pc[c] = "received" /\ IsRefused(call[c])
  /\ pc' = [pc EXCEPT ![c] = "refused"]
  /\ UNCHANGED <<heap, records, mutex, call, pointers, visited, counter, reply, restarts>>

-----------------------------------------------------------------------------
(* HandleEvents and MemoryStorage.Store.                                    *)

\* The record is decoded into memory of its own.
Decode(c) ==
  /\ pc[c] = "received" /\ ~IsRefused(call[c]) /\ call[c].op = "post"
  /\ heap' = Append(heap, call[c].body)
  /\ pointers' = [pointers EXCEPT ![c] = {Len(heap) + 1}]
  /\ pc' = [pc EXCEPT ![c] = "locking"]
  /\ UNCHANGED <<records, mutex, call, visited, counter, reply, restarts>>

\* Lock: no other writer, and from here on no new reader.
LockOut(c) ==
  /\ Moves(c, "locking", "draining")
  /\ writer = NoConn /\ writer' = c
  /\ UNCHANGED <<heap, records, readers, call, pointers, visited, counter, reply, restarts>>

\* Mutant: Lock does not wait for the readers inside.
LockWithReadersInside(c) ==
  /\ Moves(c, "draining", "storing")
  /\ UNCHANGED <<heap, records, mutex, call, pointers, visited, counter, reply, restarts>>

\* Lock returns once the readers inside have left.
Lock(c) ==
  /\ Moves(c, "draining", "storing")
  /\ readers = {}
  /\ UNCHANGED <<heap, records, mutex, call, pointers, visited, counter, reply, restarts>>

\* Mutant: a record that is there already is overwritten where it is.
StoreInPlace(c) ==
  /\ Moves(c, "storing", "unlocking")
  /\ LET id == call[c].body.id IN
     IF records[id] = 0
     THEN records' = [records EXCEPT ![id] = CHOOSE p \in pointers[c] : TRUE] /\ UNCHANGED heap
     ELSE heap' = [heap EXCEPT ![records[id]] = call[c].body] /\ UNCHANGED records
  /\ UNCHANGED <<mutex, call, pointers, visited, counter, reply, restarts>>

\* The pointer goes into the map; what it replaces stays what it was.
Store(c) ==
  /\ Moves(c, "storing", "unlocking")
  /\ \E p \in pointers[c] : records' = [records EXCEPT ![call[c].body.id] = p]
  /\ UNCHANGED <<heap, mutex, call, pointers, visited, counter, reply, restarts>>

\* Unlock lets the parked readers in before the next writer.
Unlock(c) ==
  /\ pc[c] = "unlocking"
  /\ writer' = NoConn /\ readers' = {d \in Conns : pc[d] = "parked"}
  /\ pc' = [d \in Conns |-> IF d = c THEN "counting"
                            ELSE IF pc[d] = "parked" THEN "reading" ELSE pc[d]]
  /\ UNCHANGED <<heap, records, call, pointers, visited, counter, reply, restarts>>

Count(c) ==
  /\ Moves(c, "counting", "answering")
  /\ counter' = counter + 1
  /\ UNCHANGED <<heap, records, mutex, call, pointers, visited, reply, restarts>>

-----------------------------------------------------------------------------
(* HandleGetByID, HandleQuery, MemoryStorage.Get and MemoryStorage.Query.   *)

\* RLock parks behind a writer, inside or waiting.
RLock(c) ==
  /\ pc[c] = "received" /\ ~IsRefused(call[c]) /\ call[c].op # "post"
  /\ IF writer = NoConn
     THEN pc' = [pc EXCEPT ![c] = "reading"] /\ readers' = readers \cup {c}
     ELSE pc' = [pc EXCEPT ![c] = "parked"] /\ UNCHANGED readers
  /\ UNCHANGED <<heap, records, writer, call, pointers, visited, counter, reply, restarts>>

\* The keys a read looks at: one, or all there are, in any order.
KeysToVisit(c) ==
  (IF call[c].op = "get" THEN {call[c].id} ELSE {i \in Ids : records[i] # 0}) \ visited[c]

\* Query skips the records of other tenants and, when asked for a scenario,
\* those of another one or of none.
Matches(k, r) ==
  \/ k.op = "get"
  \/ ~(\/ k.tenant # Any /\ r.tenant # k.tenant
       \/ k.scenario # Any /\ (r.scenario = NoScenario \/ r.scenario # k.scenario))

Visit(c) ==
  /\ pc[c] = "reading"
  /\ \E i \in KeysToVisit(c) :
       /\ visited' = [visited EXCEPT ![c] = @ \cup {i}]
       /\ pointers' = [pointers EXCEPT ![c] = @ \cup
            {p \in {records[i]} \ {0} : Matches(call[c], heap[p])}]
  /\ UNCHANGED <<heap, records, mutex, pc, call, counter, reply, restarts>>

\* Mutant: a GET that finds nothing returns without RUnlock.
RUnlockUnlessNotFound(c) ==
  /\ Moves(c, "reading", "answering")
  /\ KeysToVisit(c) = {}
  /\ readers' = IF call[c].op = "get" /\ pointers[c] = {} THEN readers ELSE readers \ {c}
  /\ UNCHANGED <<heap, records, writer, call, pointers, visited, counter, reply, restarts>>

RUnlock(c) ==
  /\ Moves(c, "reading", "answering")
  /\ KeysToVisit(c) = {}
  /\ readers' = readers \ {c}
  /\ UNCHANGED <<heap, records, writer, call, pointers, visited, counter, reply, restarts>>

-----------------------------------------------------------------------------
\* Mutant: a POST is answered before it is counted.
AnswerEarly(c) ==
  /\ pc[c] \in {"refused", "counting", "answering"}
  /\ reply' = [reply EXCEPT ![c] = ResultOf(c)]
  /\ pc' = [pc EXCEPT ![c] = "idle"] /\ call' = [call EXCEPT ![c] = NoCall]
  /\ pointers' = [pointers EXCEPT ![c] = {}] /\ visited' = [visited EXCEPT ![c] = {}]
  /\ UNCHANGED <<heap, records, mutex, counter, restarts>>

\* The answer is encoded and written, and the goroutine ends.
Answer(c) ==
  /\ pc[c] \in {"refused", "answering"}
  /\ reply' = [reply EXCEPT ![c] = ResultOf(c)]
  /\ pc' = [pc EXCEPT ![c] = "idle"] /\ call' = [call EXCEPT ![c] = NoCall]
  /\ pointers' = [pointers EXCEPT ![c] = {}] /\ visited' = [visited EXCEPT ![c] = {}]
  /\ UNCHANGED <<heap, records, mutex, counter, restarts>>

\* The process dies and starts anew, with an empty MemoryStorage.
Restart ==
  /\ restarts < MaxRestarts /\ restarts' = restarts + 1
  /\ heap' = <<>> /\ records' = [i \in Ids |-> 0]
  /\ writer' = NoConn /\ readers' = {}
  /\ pc' = [c \in Conns |-> "idle"] /\ call' = [c \in Conns |-> NoCall]
  /\ pointers' = [c \in Conns |-> {}] /\ visited' = [c \in Conns |-> {}]
  /\ counter' = 0 /\ reply' = [c \in Conns |-> NoAnswer]

Step(c) ==
  \/ Refuse(c)
  \/ Decode(c) \/ LockOut(c) \/ Lock(c) \/ Store(c) \/ Unlock(c) \/ Count(c)
  \/ RLock(c) \/ Visit(c) \/ RUnlock(c)
  \/ Answer(c)

Next == (\E c \in Conns : Invoke(c) \/ Step(c)) \/ Restart

Spec == Init /\ [][Next]_vars

\* Go's scheduler runs every goroutine that can go on, and its mutexes let no
\* waiter starve.
FairSpec == Spec /\ \A c \in Conns : WF_vars(Step(c)) /\ SF_vars(LockOut(c))

-----------------------------------------------------------------------------
TypeOK ==
  /\ heap \in Seq(Records) /\ Len(heap) <= MaxPosts
  /\ records \in [Ids -> 0..Len(heap)]
  /\ writer \in Conns \cup {NoConn} /\ readers \subseteq Conns
  /\ pc \in [Conns -> Locations] /\ call \in [Conns -> Atomic!Calls \cup {NoCall}]
  /\ pointers \in [Conns -> SUBSET (1..Len(heap))] /\ visited \in [Conns -> SUBSET Ids]
  /\ counter \in 0..MaxPosts /\ restarts \in 0..MaxRestarts
  /\ reply \in [Conns -> Atomic!Answers \cup {NoAnswer}]

\* The goroutine that writes the map is alone with it: a map that is read or
\* written while it is written makes the Go runtime end the process.
MapIsWrittenAlone ==
  \A c, d \in Conns :
    pc[c] \in {"storing", "unlocking"} /\ pc[d] \in {"storing", "unlocking", "reading"} => c = d

\* What a scrape reads is at least the number of POSTs that were answered 202
\* and at most the number of records that went into the map.
CounterBetween ==
  LET unstored == Posting({"locking", "draining", "storing"})
      unanswered == unstored \cup Posting({"unlocking", "counting", "answering"}) IN
  counter \in (Len(heap) - Cardinality(unanswered))..(Len(heap) - Cardinality(unstored))

\* Each client finds the store as if calls had come one at a time: a GET never
\* shows a record half replaced or later replaced, and a query shows the map at
\* one moment, though both encode records after they let the lock go.
CallsAreAtomic == Atomic!Spec

\* A call is answered, or dies with the process: a POST is not kept waiting by
\* readers or POSTs that keep coming, nor a reader by POSTs.
EveryCallEnds == \A c \in Conns : pc[c] = "received" ~> pc[c] = "idle"
=============================================================================
