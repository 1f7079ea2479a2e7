--------------------------- MODULE EventBus_proofs ---------------------------
(***************************************************************************)
(* The order in which the event bus has its handlers run, for any number   *)
(* of handlers, events, publishers, subscriptions and publications.        *)
(*                                                                         *)
(* The tasks the loop has yet to start are exactly the invocations that    *)
(* have not begun, in the order of their publications: so what begins next *)
(* is the earliest of them.  And a publisher publishes again only when all *)
(* the handlers of what it published before have ended.                    *)
(***************************************************************************)
EXTENDS EventBus, SequenceTheorems, TLAPS

Typed ==
  /\ subscribers \in [Events -> Seq(Handlers)]
  /\ publications \in Seq(Publications)
  /\ ready \in Seq(Nat \X Nat)

Earlier(s, t) == s[1] < t[1] \/ (s[1] = t[1] /\ s[2] < t[2])

\* An invocation there is.
IsTask(t) == t[1] \in DOMAIN publications /\ t[2] \in Invoked(t[1])

ReadyInv ==
  /\ \A k \in DOMAIN ready : IsTask(ready[k]) /\ State(ready[k][1], ready[k][2]) = "created"
  /\ \A k, l \in DOMAIN ready : k < l => Earlier(ready[k], ready[l])
  /\ \A n \in DOMAIN publications : \A i \in Invoked(n) :
       State(n, i) = "created" => \E k \in DOMAIN ready : ready[k] = <<n, i>>

\* A publish that returned has left nothing running, nor has any but the last
\* of a publisher.
OutcomeInv ==
  /\ \A n \in DOMAIN publications : publications[n].outcome = "returned" =>
       \A i \in Invoked(n) : State(n, i) \in Ended
  /\ \A m, n \in DOMAIN publications :
       m < n /\ publications[m].publisher = publications[n].publisher =>
         \A i \in Invoked(m) : State(m, i) \in Ended

IInv == Typed /\ ReadyInv /\ OutcomeInv /\ HandledInPublicationOrder

-----------------------------------------------------------------------------
(* What the steps do to the publications there are.                        *)

\* The publications are what they were, but for the state of one invocation and
\* for outcomes.
SameBut(n, i, state) ==
  /\ publications' \in Seq(Publications) /\ Len(publications') = Len(publications)
  /\ \A m \in DOMAIN publications :
       /\ publications'[m].publisher = publications[m].publisher
       /\ Invoked(m)' = Invoked(m)
       /\ \A j \in Invoked(m) :
            State(m, j)' = IF m = n /\ j = i THEN state ELSE State(m, j)

LEMMA PublicationShape ==
  ASSUME Typed, NEW n \in DOMAIN publications
  PROVE  /\ publications[n] \in Publications
         /\ publications[n].invocations \in Seq(Invocations)
         /\ \A i \in Invoked(n) : /\ i \in Nat /\ publications[n].invocations[i] \in Invocations
                                  /\ State(n, i) \in Running \cup Ended
<1>1. DOMAIN publications = 1..Len(publications)
  BY LenProperties DEF Typed
<1>2. publications[n] \in Publications
  BY <1>1, ElementOfSeq DEF Typed
<1>3. publications[n].invocations \in Seq(Invocations)
  BY <1>2 DEF Publications
<1>4. Invoked(n) = 1..Len(publications[n].invocations)
  BY <1>3, LenProperties DEF Invoked
<1>5. \A i \in Invoked(n) : i \in Nat /\ publications[n].invocations[i] \in Invocations
  BY <1>3, <1>4, ElementOfSeq, LenProperties
<1> QED BY <1>2, <1>3, <1>5 DEF State, Invocations

LEMMA SeqShape ==
  ASSUME NEW S, NEW s \in Seq(S)
  PROVE  /\ Len(s) \in Nat /\ DOMAIN s = 1..Len(s)
         /\ \A k \in DOMAIN s : k \in Nat /\ k <= Len(s) /\ s[k] \in S
BY LenProperties, ElementOfSeq

\* What EXCEPT does to one element of a sequence.
LEMMA ChangeOne ==
  ASSUME NEW S, NEW s \in Seq(S), NEW i \in DOMAIN s, NEW e \in S,
         NEW t, t = [s EXCEPT ![i] = e]
  PROVE  /\ t \in Seq(S) /\ Len(t) = Len(s) /\ DOMAIN t = DOMAIN s
         /\ \A j \in DOMAIN s : t[j] = IF j = i THEN e ELSE s[j]
<1>1. DOMAIN s = 1..Len(s)
  BY LenProperties
<1>2. t \in Seq(S) /\ Len(t) = Len(s)
  BY <1>1, ExceptSeq
<1> QED BY <1>1, <1>2

LEMMA SetStateEffect ==
  ASSUME Typed, NEW n \in DOMAIN publications, NEW i \in Invoked(n),
         NEW state \in Running \cup Ended, SetState(n, i, state)
  PROVE  /\ SameBut(n, i, state)
         /\ \A m \in DOMAIN publications : publications'[m].outcome = publications[m].outcome
<1> DEFINE pub == publications[n]
           invocations == [pub.invocations EXCEPT ![i] = [@ EXCEPT !.state = state]]
           changed == [pub EXCEPT !.invocations = invocations]
<1>1. publications' = [publications EXCEPT ![n] = changed]
  BY DEF SetState
<1>2. /\ pub \in Publications /\ pub.invocations \in Seq(Invocations)
      /\ i \in DOMAIN pub.invocations
  BY PublicationShape DEF Invoked
<1>3. /\ invocations \in Seq(Invocations) /\ DOMAIN invocations = DOMAIN pub.invocations
      /\ \A j \in DOMAIN invocations :
           invocations[j].state = IF j = i THEN state ELSE pub.invocations[j].state
  <2>1. pub.invocations[i] \in Invocations
    BY PublicationShape
  <2> DEFINE invocation == [pub.invocations[i] EXCEPT !.state = state]
  <2>2. invocation \in Invocations /\ invocation.state = state
    BY <2>1 DEF Invocations
  <2>3. invocations = [pub.invocations EXCEPT ![i] = invocation]
    OBVIOUS
  <2> HIDE DEF invocation, invocations
  <2> QED BY <1>2, <2>2, <2>3, ChangeOne
<1> HIDE DEF invocations
<1>4. /\ changed \in Publications /\ changed.publisher = pub.publisher
      /\ changed.outcome = pub.outcome /\ changed.invocations = invocations
  BY <1>2, <1>3 DEF Publications
<1> HIDE DEF changed, pub
<1>5. /\ publications' \in Seq(Publications) /\ Len(publications') = Len(publications)
      /\ \A m \in DOMAIN publications :
           publications'[m] = IF m = n THEN changed ELSE publications[m]
  BY <1>1, <1>4, ChangeOne DEF Typed
<1>6. ASSUME NEW m \in DOMAIN publications
      PROVE  /\ publications'[m].publisher = publications[m].publisher
             /\ publications'[m].outcome = publications[m].outcome
             /\ Invoked(m)' = Invoked(m)
             /\ \A j \in Invoked(m) :
                  State(m, j)' = IF m = n /\ j = i THEN state ELSE State(m, j)
  BY <1>3, <1>4, <1>5 DEF Invoked, State, pub
<1> QED BY <1>5, <1>6 DEF SameBut

LEMMA SetOutcomeEffect ==
  ASSUME Typed, NEW n \in DOMAIN publications, NEW outcome \in {"returned", "broken"},
         publications' = [publications EXCEPT ![n].outcome = outcome]
  PROVE  /\ \A i, state : i \notin Invoked(n) => SameBut(n, i, state)
         /\ \A m \in DOMAIN publications :
              publications'[m].outcome = IF m = n THEN outcome ELSE publications[m].outcome
<1> DEFINE changed == [publications[n] EXCEPT !.outcome = outcome]
<1>1. /\ changed \in Publications /\ changed.publisher = publications[n].publisher
      /\ changed.outcome = outcome /\ changed.invocations = publications[n].invocations
  BY PublicationShape DEF Publications
<1>2. publications' = [publications EXCEPT ![n] = changed]
  OBVIOUS
<1> HIDE DEF changed
<1>3. /\ publications' \in Seq(Publications) /\ Len(publications') = Len(publications)
      /\ \A m \in DOMAIN publications :
           publications'[m] = IF m = n THEN changed ELSE publications[m]
  <2>1. publications \in Seq(Publications) /\ changed \in Publications
    BY <1>1 DEF Typed
  <2>2. ASSUME NEW t, t = [publications EXCEPT ![n] = changed]
        PROVE  /\ t \in Seq(Publications) /\ Len(t) = Len(publications)
               /\ \A m \in DOMAIN publications : t[m] = IF m = n THEN changed ELSE publications[m]
    BY <2>1, <2>2, ChangeOne
  <2> QED BY <1>2, <2>2
<1>4. ASSUME NEW m \in DOMAIN publications
      PROVE  /\ publications'[m].publisher = publications[m].publisher
             /\ Invoked(m)' = Invoked(m)
             /\ \A j \in Invoked(m) : State(m, j)' = State(m, j)
  BY <1>1, <1>3 DEF Invoked, State
<1> QED BY <1>1, <1>3, <1>4 DEF SameBut

\* Once begun, always begun; once ended, always ended.
LEMMA Ending ==
  ASSUME Typed, NEW n \in DOMAIN publications, NEW i, NEW state \in Ended,
         SameBut(n, i, state), UNCHANGED <<subscribers, ready>>,
         i \in Invoked(n) => State(n, i) = "started",
         ReadyInv, HandledInPublicationOrder
  PROVE  Typed' /\ ReadyInv' /\ HandledInPublicationOrder'
<1>1. DOMAIN publications' = DOMAIN publications /\ Typed'
  BY DEF Typed, SameBut
<1>2. \A m \in DOMAIN publications : \A j \in Invoked(m) :
        /\ State(m, j)' = "created" <=> State(m, j) = "created"
        /\ Begun(m, j)' <=> Begun(m, j)
  BY DEF SameBut, Begun, Ended
<1>3. ReadyInv'
  BY <1>1, <1>2 DEF ReadyInv, IsTask, SameBut
<1>4. HandledInPublicationOrder'
  BY <1>1, <1>2 DEF HandledInPublicationOrder, SameBut
<1> QED BY <1>1, <1>3, <1>4

-----------------------------------------------------------------------------
(* The invariant.                                                          *)

LEMMA InitInv == Init => IInv
<1> SUFFICES ASSUME Init PROVE IInv
  OBVIOUS
<1>1. Typed /\ DOMAIN publications = {} /\ DOMAIN ready = {}
  BY EmptySeq DEF Init, Typed
<1> QED BY <1>1 DEF IInv, ReadyInv, OutcomeInv, HandledInPublicationOrder

LEMMA SubscribeStep ==
  ASSUME IInv, NEW e \in Events, NEW h \in Handlers, Subscribe(e, h)
  PROVE  IInv'
<1>1. Typed' /\ UNCHANGED <<publications, ready>>
  BY DEF Subscribe, IInv, Typed
<1> QED BY <1>1 DEF IInv, ReadyInv, IsTask, OutcomeInv, HandledInPublicationOrder, Begun, State,
                    Invoked

\* The invocations of a new publication come after all there are.
NewPublication(p, n) ==
  /\ DOMAIN publications' = DOMAIN publications \cup {n}
  /\ n \in Nat /\ \A m \in DOMAIN publications : m \in Nat /\ m < n
  /\ \A m \in DOMAIN publications : publications'[m] = publications[m]
  /\ publications'[n].publisher = p
  /\ DOMAIN publications'[n].invocations \subseteq Nat
  /\ publications'[n].outcome = "returned" => DOMAIN publications'[n].invocations = {}
  /\ \A i \in DOMAIN publications'[n].invocations :
       publications'[n].invocations[i].state = "created"
  /\ \A k \in DOMAIN ready : k \in DOMAIN ready' /\ ready'[k] = ready[k]
  /\ \A k \in DOMAIN ready' \ DOMAIN ready :
       /\ k - Len(ready) \in DOMAIN publications'[n].invocations
       /\ ready'[k] = <<n, k - Len(ready)>>
  /\ \A i \in DOMAIN publications'[n].invocations :
       i + Len(ready) \in DOMAIN ready' \ DOMAIN ready

LEMMA PublishEffect ==
  ASSUME Typed, NEW p \in Publishers, NEW e \in Events, Publish(p, e)
  PROVE  Typed' /\ \E n : NewPublication(p, n)
<1> DEFINE n == Len(publications) + 1
           handlers == subscribers[e]
           invocations == [i \in DOMAIN handlers |->
                             [handler |-> handlers[i], state |-> "created"]]
           new == [publisher |-> p, event |-> e, invocations |-> invocations,
                   outcome |-> IF handlers = <<>> THEN "returned" ELSE "waiting"]
           tasks == [i \in DOMAIN invocations |-> <<n, i>>]
<1>1. publications' = Append(publications, new) /\ ready' = ready \o tasks /\ UNCHANGED subscribers
  BY DEF Publish
<1>2. /\ handlers \in Seq(Handlers) /\ DOMAIN handlers = 1..Len(handlers)
      /\ Len(handlers) \in Nat /\ \A i \in DOMAIN handlers : handlers[i] \in Handlers
  BY SeqShape DEF Typed
<1> HIDE DEF handlers
<1>3. invocations \in Seq(Invocations) /\ DOMAIN invocations = 1..Len(handlers)
  <2>1. \A i \in 1..Len(handlers) : [handler |-> handlers[i], state |-> "created"] \in Invocations
    BY <1>2 DEF Invocations, Running
  <2> QED BY <1>2, <2>1
<1>4. \A i \in DOMAIN invocations : invocations[i].state = "created"
  BY <1>2
<1>5. handlers = <<>> => DOMAIN invocations = {}
  BY <1>2, <1>3, EmptySeq
<1> HIDE DEF invocations
<1>6. /\ new \in Publications /\ new.publisher = p /\ new.invocations = invocations
      /\ new.outcome = "returned" => handlers = <<>>
  BY <1>3 DEF Publications
<1>7. /\ Len(publications) \in Nat /\ n \in Nat /\ tasks \in Seq(Nat \X Nat)
      /\ Len(tasks) = Len(handlers) /\ \A i \in 1..Len(handlers) : tasks[i] = <<n, i>>
  <2>1. Len(publications) \in Nat /\ n \in Nat
    BY SeqShape DEF Typed
  <2>2. tasks = [i \in 1..Len(handlers) |-> <<n, i>>]
    BY <1>3
  <2> HIDE DEF n
  <2> QED BY <1>2, <2>1, <2>2
<1> HIDE DEF new, tasks
<1>8. /\ publications' \in Seq(Publications) /\ Len(publications') = n
      /\ publications'[n] = new
      /\ \A m \in 1..Len(publications) : publications'[m] = publications[m]
  BY <1>1, <1>6 DEF Typed
<1>9. /\ DOMAIN publications = 1..Len(publications) /\ DOMAIN publications' = 1..n
  BY <1>8, SeqShape DEF Typed
<1>10. /\ ready' \in Seq(Nat \X Nat) /\ Len(ready') = Len(ready) + Len(handlers)
       /\ \A k \in 1..(Len(ready) + Len(handlers)) :
            ready'[k] = IF k <= Len(ready) THEN ready[k] ELSE tasks[k - Len(ready)]
  <2>1. ready \in Seq(Nat \X Nat)
    BY DEF Typed
  <2>2. ASSUME NEW t, t = ready \o tasks
        PROVE  /\ t \in Seq(Nat \X Nat) /\ Len(t) = Len(ready) + Len(tasks)
               /\ \A k \in 1..(Len(ready) + Len(tasks)) :
                    t[k] = IF k <= Len(ready) THEN ready[k] ELSE tasks[k - Len(ready)]
    <3> DEFINE S == Nat \X Nat
    <3>1. ready \in Seq(S) /\ tasks \in Seq(S)
      BY <1>7, <2>1
    <3> HIDE DEF S
    <3>2. /\ t \in Seq(S) /\ Len(t) = Len(ready) + Len(tasks)
          /\ \A k \in 1..(Len(ready) + Len(tasks)) :
               t[k] = IF k <= Len(ready) THEN ready[k] ELSE tasks[k - Len(ready)]
      BY <2>2, <3>1, ConcatProperties
    <3> QED BY <3>2 DEF S
  <2> QED BY <1>1, <1>7, <2>2
<1>11. /\ DOMAIN ready = 1..Len(ready) /\ DOMAIN ready' = 1..(Len(ready) + Len(handlers))
       /\ Len(ready) \in Nat
  BY <1>10, SeqShape DEF Typed
<1>12. Typed'
  BY <1>1, <1>8, <1>10 DEF Typed
<1>13. DOMAIN publications'[n].invocations = 1..Len(handlers)
  BY <1>3, <1>6, <1>8
<1>14. /\ DOMAIN publications' = DOMAIN publications \cup {n}
       /\ \A m \in DOMAIN publications :
            m \in Nat /\ m < n /\ publications'[m] = publications[m]
  BY <1>7, <1>8, <1>9
<1>15. publications'[n] = new /\ n \in Nat
  BY <1>7, <1>8
<1> HIDE DEF n
<1>16. \A k \in DOMAIN ready : k \in DOMAIN ready' /\ ready'[k] = ready[k]
  BY <1>2, <1>10, <1>11
<1>17. \A k \in DOMAIN ready' \ DOMAIN ready :
         /\ k - Len(ready) \in 1..Len(handlers)
         /\ ready'[k] = <<n, k - Len(ready)>>
  <2> SUFFICES ASSUME NEW k \in DOMAIN ready' \ DOMAIN ready
               PROVE  /\ k - Len(ready) \in 1..Len(handlers)
                      /\ ready'[k] = <<n, k - Len(ready)>>
    OBVIOUS
  <2>1. /\ k \in 1..(Len(ready) + Len(handlers)) /\ ~(k <= Len(ready))
        /\ k - Len(ready) \in 1..Len(handlers)
    BY <1>2, <1>11
  <2>2. ready'[k] = tasks[k - Len(ready)]
    BY <1>10, <2>1
  <2> QED BY <1>7, <2>1, <2>2
<1>18. \A i \in 1..Len(handlers) : i + Len(ready) \in DOMAIN ready' \ DOMAIN ready
  BY <1>2, <1>11
<1>19. /\ publications'[n].publisher = p
       /\ publications'[n].outcome = "returned" => DOMAIN publications'[n].invocations = {}
       /\ \A i \in DOMAIN publications'[n].invocations :
            publications'[n].invocations[i].state = "created"
  BY <1>4, <1>5, <1>6, <1>15
<1>20. NewPublication(p, n)
  BY <1>13, <1>14, <1>15, <1>16, <1>17, <1>18, <1>19 DEF NewPublication
<1> QED BY <1>12, <1>20

LEMMA PublishStep ==
  ASSUME IInv, NEW p \in Publishers, NEW e \in Events, Publish(p, e)
  PROVE  IInv'
<1>1. PICK n : Typed' /\ NewPublication(p, n)
  BY PublishEffect DEF IInv
<1>2. \A m \in DOMAIN publications :
        /\ m \in DOMAIN publications' /\ m # n /\ Invoked(m)' = Invoked(m)
        /\ \A i \in Invoked(m) : i \in Nat /\ State(m, i)' = State(m, i)
  BY <1>1, PublicationShape DEF IInv, Invoked, State, NewPublication
<1>3. Invoked(n)' \subseteq Nat /\ \A i \in Invoked(n)' : State(n, i)' = "created"
  BY <1>1 DEF Invoked, State, NewPublication
<1>4. /\ Len(ready) \in Nat /\ DOMAIN ready = 1..Len(ready)
      /\ DOMAIN ready' \subseteq Nat \ {0}
  BY <1>1, SeqShape DEF IInv, Typed
<1>5. ReadyInv'
  <2>1. ASSUME NEW k \in DOMAIN ready'
        PROVE  (IsTask(ready[k]) /\ State(ready[k][1], ready[k][2]) = "created")'
    <3>1. CASE k \in DOMAIN ready
      <4>1. /\ IsTask(ready[k]) /\ State(ready[k][1], ready[k][2]) = "created"
            /\ ready'[k] = ready[k]
        BY <1>1, <3>1 DEF IInv, ReadyInv, NewPublication
      <4> QED BY <1>2, <4>1 DEF IsTask, State, Invoked
    <3>2. CASE k \notin DOMAIN ready
      <4>1. /\ ready'[k] = <<n, k - Len(ready)>> /\ k - Len(ready) \in Invoked(n)'
            /\ n \in DOMAIN publications'
        BY <1>1, <3>2 DEF NewPublication, Invoked
      <4> QED BY <1>3, <4>1 DEF IsTask, State, Invoked
    <3> QED BY <3>1, <3>2
  <2>2. ASSUME NEW k \in DOMAIN ready', NEW l \in DOMAIN ready', k < l
        PROVE  Earlier(ready'[k], ready'[l])
    <3>1. CASE l \in DOMAIN ready
      <4>1. k \in DOMAIN ready
        BY <1>4, <2>2, <3>1
      <4> QED BY <1>1, <2>2, <3>1, <4>1 DEF IInv, ReadyInv, NewPublication
    <3>2. CASE l \notin DOMAIN ready /\ k \in DOMAIN ready
      <4>1. ready'[l][1] = n /\ ready'[k][1] \in DOMAIN publications
        BY <1>1, <3>2 DEF IInv, ReadyInv, IsTask, NewPublication
      <4> QED BY <1>1, <4>1 DEF Earlier, NewPublication
    <3>3. CASE l \notin DOMAIN ready /\ k \notin DOMAIN ready
      <4>1. ready'[l] = <<n, l - Len(ready)>> /\ ready'[k] = <<n, k - Len(ready)>>
        BY <1>1, <3>3 DEF NewPublication
      <4>2. k - Len(ready) < l - Len(ready)
        BY <1>4, <2>2
      <4> QED BY <4>1, <4>2 DEF Earlier
    <3> QED BY <3>1, <3>2, <3>3
  <2>3. ASSUME NEW m \in DOMAIN publications', NEW i \in Invoked(m)', State(m, i)' = "created"
        PROVE  \E k \in DOMAIN ready' : ready'[k] = <<m, i>>
    <3>1. CASE m \in DOMAIN publications
      <4>1. PICK k \in DOMAIN ready : ready[k] = <<m, i>>
        BY <1>2, <2>3, <3>1 DEF IInv, ReadyInv
      <4> QED BY <1>1, <4>1 DEF NewPublication
    <3>2. CASE m = n
      <4>1. i + Len(ready) \in DOMAIN ready' \ DOMAIN ready /\ i \in Nat
        BY <1>1, <2>3, <3>2 DEF NewPublication, Invoked
      <4>2. (i + Len(ready)) - Len(ready) = i
        BY <1>4, <4>1
      <4> QED BY <1>1, <3>2, <4>1, <4>2 DEF NewPublication
    <3> QED BY <1>1, <3>1, <3>2 DEF NewPublication
  <2> QED BY <2>1, <2>2, <2>3 DEF ReadyInv
<1>6. OutcomeInv'
  <2>1. ASSUME NEW m \in DOMAIN publications', publications'[m].outcome = "returned",
               NEW i \in Invoked(m)'
        PROVE  State(m, i)' \in Ended
    <3>1. CASE m \in DOMAIN publications
      <4>1. publications[m].outcome = "returned"
        BY <1>1, <2>1, <3>1 DEF NewPublication
      <4> QED BY <1>2, <2>1, <3>1, <4>1 DEF IInv, OutcomeInv
    <3>2. CASE m = n
      BY <1>1, <2>1, <3>2 DEF NewPublication, Invoked
    <3> QED BY <1>1, <3>1, <3>2 DEF NewPublication
  <2>2. ASSUME NEW m \in DOMAIN publications', NEW q \in DOMAIN publications', m < q,
               publications'[m].publisher = publications'[q].publisher, NEW i \in Invoked(m)'
        PROVE  State(m, i)' \in Ended
    <3>1. m \in DOMAIN publications
      BY <1>1, <2>2 DEF NewPublication
    <3>2. CASE q \in DOMAIN publications
      <4>1. publications[m].publisher = publications[q].publisher
        BY <1>1, <2>2, <3>1, <3>2 DEF NewPublication
      <4> QED BY <1>2, <2>2, <3>1, <3>2, <4>1 DEF IInv, OutcomeInv
    <3>3. CASE q = n
      <4>1. publications[m].publisher = p
        BY <1>1, <2>2, <3>1, <3>3 DEF NewPublication
      <4>2. publications[m].outcome = "returned"
        BY <3>1, <4>1 DEF Publish, MayPublish
      <4> QED BY <1>2, <2>2, <3>1, <4>2 DEF IInv, OutcomeInv
    <3> QED BY <1>1, <3>2, <3>3 DEF NewPublication
  <2> QED BY <2>1, <2>2 DEF OutcomeInv, Ended
<1>7. HandledInPublicationOrder'
  <2>1. ASSUME NEW m \in DOMAIN publications', NEW q \in DOMAIN publications',
               NEW i \in Invoked(m)', NEW j \in Invoked(q)',
               m < q \/ (m = q /\ i < j), Begun(q, j)'
        PROVE  Begun(m, i)'
    <3>1. q # n
      BY <1>3, <2>1 DEF Begun
    <3>2. q \in DOMAIN publications
      BY <1>1, <3>1 DEF NewPublication
    <3>3. m \in DOMAIN publications
      BY <1>1, <2>1, <3>2 DEF NewPublication
    <3>4. i \in Invoked(m) /\ j \in Invoked(q) /\ Begun(q, j)
      BY <1>2, <2>1, <3>2, <3>3 DEF Begun
    <3>5. Begun(m, i)
      BY <2>1, <3>2, <3>3, <3>4 DEF IInv, HandledInPublicationOrder
    <3> QED BY <1>2, <3>3, <3>4, <3>5 DEF Begun
  <2> QED BY <2>1 DEF HandledInPublicationOrder
<1> QED BY <1>1, <1>5, <1>6, <1>7 DEF IInv

LEMMA StartHandlerStep == ASSUME IInv, StartHandler PROVE IInv'
<1>1. /\ Len(ready) \in Nat \ {0} /\ DOMAIN ready = 1..Len(ready)
      /\ \A k \in DOMAIN ready : ready[k] \in Nat \X Nat
  BY SeqShape, EmptySeq DEF IInv, Typed, StartHandler
<1>2. PICK n \in Nat, j \in Nat : ready[1] = <<n, j>>
  BY <1>1
<1>3. n \in DOMAIN publications /\ j \in Invoked(n) /\ State(n, j) = "created"
  <2>1. 1 \in DOMAIN ready
    BY <1>1
  <2> QED BY <1>2, <2>1 DEF IInv, ReadyInv, IsTask
<1>4. UNCHANGED subscribers /\ SetState(n, j, "started") /\ ready' = Tail(ready) /\ ready # <<>>
  BY <1>2 DEF StartHandler
<1>5. /\ ready' \in Seq(Nat \X Nat) /\ DOMAIN ready' = 1..(Len(ready) - 1)
      /\ \A k \in DOMAIN ready' : k \in Nat /\ k + 1 \in DOMAIN ready /\ ready'[k] = ready[k + 1]
  <2>1. /\ ready' \in Seq(Nat \X Nat) /\ Len(ready') = Len(ready) - 1
        /\ \A k \in 1..Len(ready') : ready'[k] = ready[k + 1]
    BY <1>4, HeadTailProperties DEF IInv, Typed
  <2> QED BY <1>1, <2>1, SeqShape
<1>6. /\ SameBut(n, j, "started")
      /\ \A m \in DOMAIN publications : publications'[m].outcome = publications[m].outcome
  BY <1>3, <1>4, SetStateEffect DEF IInv, Running
<1>7. DOMAIN publications' = DOMAIN publications /\ Typed'
  BY <1>4, <1>5, <1>6, SeqShape DEF IInv, Typed, SameBut
<1>8. \A k \in DOMAIN ready' : ready'[k] # <<n, j>> /\ Earlier(<<n, j>>, ready'[k])
  <2>1. ASSUME NEW k \in DOMAIN ready' PROVE Earlier(<<n, j>>, ready'[k])
    <3>1. 1 < k + 1 /\ k + 1 \in DOMAIN ready /\ 1 \in DOMAIN ready
      BY <1>1, <1>5
    <3>2. Earlier(ready[1], ready[k + 1])
      BY <3>1 DEF IInv, ReadyInv
    <3> QED BY <1>2, <1>5, <3>2
  <2>2. ~Earlier(<<n, j>>, <<n, j>>)
    BY DEF Earlier
  <2> QED BY <2>1, <2>2
<1>9. ReadyInv'
  <2>1. ASSUME NEW k \in DOMAIN ready'
        PROVE  (IsTask(ready[k]) /\ State(ready[k][1], ready[k][2]) = "created")'
    <3>1. PICK m \in Nat, i \in Nat : ready'[k] = <<m, i>>
      <4>1. ready'[k] \in Nat \X Nat
        BY <1>1, <1>5
      <4> QED BY <4>1
    <3>2. m \in DOMAIN publications /\ i \in Invoked(m) /\ State(m, i) = "created"
      BY <1>5, <3>1 DEF IInv, ReadyInv, IsTask
    <3>3. ~(m = n /\ i = j)
      BY <1>8, <3>1
    <3>4. m \in DOMAIN publications' /\ i \in Invoked(m)' /\ State(m, i)' = "created"
      BY <1>6, <1>7, <3>2, <3>3 DEF SameBut
    <3> QED BY <3>1, <3>4 DEF IsTask, State, Invoked
  <2>2. ASSUME NEW k \in DOMAIN ready', NEW l \in DOMAIN ready', k < l
        PROVE  Earlier(ready'[k], ready'[l])
    <3>1. k + 1 < l + 1 /\ k + 1 \in DOMAIN ready /\ l + 1 \in DOMAIN ready
      BY <1>5, <2>2
    <3>2. Earlier(ready[k + 1], ready[l + 1])
      BY <3>1 DEF IInv, ReadyInv
    <3> QED BY <1>5, <3>2
  <2>3. ASSUME NEW m \in DOMAIN publications', NEW i \in Invoked(m)', State(m, i)' = "created"
        PROVE  \E k \in DOMAIN ready' : ready'[k] = <<m, i>>
    <3>1. /\ State(m, i) = "created" /\ ~(m = n /\ i = j) /\ m \in DOMAIN publications
          /\ i \in Invoked(m)
      BY <1>6, <1>7, <2>3 DEF SameBut
    <3>2. PICK k \in DOMAIN ready : ready[k] = <<m, i>>
      BY <3>1 DEF IInv, ReadyInv
    <3>3. k # 1
      BY <1>2, <3>1, <3>2
    <3>4. k - 1 \in DOMAIN ready' /\ (k - 1) + 1 = k
      BY <1>1, <1>5, <3>3
    <3> QED BY <1>5, <3>2, <3>4
  <2> QED BY <2>1, <2>2, <2>3 DEF ReadyInv
<1>10. OutcomeInv'
  <2>1. ASSUME NEW m \in DOMAIN publications, \A i \in Invoked(m) : State(m, i) \in Ended
        PROVE  \A i \in Invoked(m)' : State(m, i)' \in Ended
    <3>1. m # n
      BY <1>3, <2>1 DEF Ended
    <3> QED BY <1>6, <2>1, <3>1 DEF SameBut
  <2>2. \A m \in DOMAIN publications :
          /\ publications'[m].outcome = publications[m].outcome
          /\ publications'[m].publisher = publications[m].publisher
    BY <1>6 DEF SameBut
  <2>3. \A m \in DOMAIN publications' : publications'[m].outcome = "returned" =>
          \A i \in Invoked(m)' : State(m, i)' \in Ended
    BY <1>7, <2>1, <2>2 DEF IInv, OutcomeInv
  <2>4. \A m, q \in DOMAIN publications' :
          m < q /\ publications'[m].publisher = publications'[q].publisher =>
            \A i \in Invoked(m)' : State(m, i)' \in Ended
    BY <1>7, <2>1, <2>2 DEF IInv, OutcomeInv
  <2> QED BY <2>3, <2>4 DEF OutcomeInv, Ended
<1>11. HandledInPublicationOrder'
  <2>1. ASSUME NEW m \in DOMAIN publications, NEW q \in DOMAIN publications,
               NEW i \in Invoked(m), NEW l \in Invoked(q),
               m < q \/ (m = q /\ i < l), Begun(q, l)'
        PROVE  Begun(m, i)'
    <3>1. CASE ~(q = n /\ l = j)
      <4>1. Begun(q, l)
        BY <1>6, <2>1, <3>1 DEF Begun, SameBut
      <4>2. Begun(m, i)
        BY <2>1, <4>1 DEF IInv, HandledInPublicationOrder
      <4> QED BY <1>6, <4>2 DEF Begun, SameBut
    <3>2. CASE q = n /\ l = j
      <4>1. m \in Nat /\ i \in Nat
        BY PublicationShape, SeqShape DEF IInv, Typed
      <4>2. ASSUME State(m, i) = "created" PROVE FALSE
        <5>1. PICK k \in DOMAIN ready : ready[k] = <<m, i>>
          BY <4>2 DEF IInv, ReadyInv
        <5>2. k # 1
          BY <1>2, <2>1, <3>2, <4>1, <5>1
        <5>3. k - 1 \in DOMAIN ready' /\ (k - 1) + 1 = k
          BY <1>1, <1>5, <5>2
        <5>4. Earlier(<<n, j>>, <<m, i>>)
          BY <1>5, <1>8, <5>1, <5>3
        <5> QED BY <2>1, <3>2, <4>1, <5>4 DEF Earlier
      <4> QED BY <1>6, <4>2 DEF Begun, SameBut
    <3> QED BY <3>1, <3>2
  <2> QED BY <1>6, <1>7, <2>1 DEF HandledInPublicationOrder, SameBut
<1> QED BY <1>7, <1>9, <1>10, <1>11 DEF IInv

LEMMA EndHandlerStep ==
  ASSUME IInv, NEW n \in DOMAIN publications, NEW i \in Invoked(n), EndHandler(n, i)
  PROVE  IInv'
<1>1. PICK state \in Ended : SetState(n, i, state)
  BY DEF EndHandler, Ended
<1>2. State(n, i) = "started" /\ UNCHANGED <<subscribers, ready>>
  BY DEF EndHandler
<1>3. /\ SameBut(n, i, state)
      /\ \A m \in DOMAIN publications : publications'[m].outcome = publications[m].outcome
  BY <1>1, SetStateEffect DEF IInv
<1>4. Typed' /\ ReadyInv' /\ HandledInPublicationOrder'
  BY <1>2, <1>3, Ending DEF IInv
<1>5. OutcomeInv'
  <2>1. DOMAIN publications' = DOMAIN publications
    BY <1>3 DEF IInv, Typed, SameBut
  <2> QED BY <1>3, <2>1 DEF IInv, OutcomeInv, SameBut
<1> QED BY <1>4, <1>5 DEF IInv

LEMMA PublishEndsStep ==
  ASSUME IInv, NEW n \in DOMAIN publications, PublishReturns(n) \/ PublishRaises(n)
  PROVE  IInv'
<1>1. PICK outcome \in {"returned", "broken"} :
        /\ publications' = [publications EXCEPT ![n].outcome = outcome]
        /\ outcome = "returned" => \A i \in Invoked(n) : State(n, i) \in Ended
  BY DEF PublishReturns, PublishRaises, Ended
<1>2. UNCHANGED <<subscribers, ready>> /\ 0 \notin Invoked(n)
  BY LenProperties, PublicationShape DEF IInv, Invoked, PublishReturns, PublishRaises
<1>3. /\ SameBut(n, 0, "returned")
      /\ \A m \in DOMAIN publications :
           publications'[m].outcome = IF m = n THEN outcome ELSE publications[m].outcome
  BY <1>1, <1>2, SetOutcomeEffect DEF IInv
<1>4. Typed' /\ ReadyInv' /\ HandledInPublicationOrder'
  BY <1>2, <1>3, Ending DEF IInv, Ended
<1>5. OutcomeInv'
  <2>1. DOMAIN publications' = DOMAIN publications
    BY <1>3 DEF IInv, Typed, SameBut
  <2>2. \A m \in DOMAIN publications : \A i \in Invoked(m) : State(m, i)' = State(m, i)
    BY <1>2, <1>3 DEF SameBut
  <2> QED BY <1>1, <1>3, <2>1, <2>2 DEF IInv, OutcomeInv, SameBut
<1> QED BY <1>4, <1>5 DEF IInv

LEMMA Invariance == Spec => []IInv
<1>1. IInv /\ [Next]_vars => IInv'
  <2> SUFFICES ASSUME IInv, [Next]_vars PROVE IInv'
    OBVIOUS
  <2>1. CASE Next
    BY <2>1, SubscribeStep, PublishStep, StartHandlerStep, EndHandlerStep, PublishEndsStep
       DEF Next
  <2>2. CASE UNCHANGED vars
    BY <2>2 DEF vars, IInv, Typed, ReadyInv, IsTask, OutcomeInv, HandledInPublicationOrder,
                Begun, State, Invoked
  <2> QED BY <2>1, <2>2
<1> QED BY InitInv, <1>1, PTL DEF Spec

\* A subscriber has one event of a report in hand at a time, and in order.
THEOREM EventsComeOneAtATime == Spec => []OneEventAtATime
<1>1. IInv => OneEventAtATime
  BY DEF IInv, OutcomeInv, OneEventAtATime
<1> QED BY <1>1, Invariance, PTL

\* Handlers begin in the order of the publications they are invoked for.
THEOREM EventsComeInOrder == Spec => []HandledInPublicationOrder
<1>1. IInv => HandledInPublicationOrder
  BY DEF IInv
<1> QED BY <1>1, Invariance, PTL
=============================================================================
