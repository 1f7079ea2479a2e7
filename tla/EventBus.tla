------------------------------ MODULE EventBus ------------------------------
(***************************************************************************)
(* EventBus of app/workflow/events.py on an asyncio event loop.  A publish *)
(* turns the handlers subscribed at that moment into one task each and     *)
(* waits for them with gather; the loop starts tasks in the order they     *)
(* were created, and a started handler may be suspended for as long as it  *)
(* likes.  _safe_invoke turns an Exception of a handler into a result.  A  *)
(* CancelledError, which a handler meets when something it awaits was      *)
(* cancelled, is no Exception: it passes _safe_invoke, and gather hands it *)
(* to the publisher at once while the other handlers go on.                *)
(*                                                                         *)
(* A publisher is a task that publishes one event after another, as        *)
(* process_report does for its report.                                     *)
(***************************************************************************)
EXTENDS Naturals, Sequences, FiniteSets

CONSTANTS Handlers,            \* callables that may be subscribed
          CancellingHandlers,  \* those that may end with a CancelledError
          Events,              \* event names
          Publishers,          \* tasks that publish
          MaxSubscriptions,    \* bound on the subscriptions to one event
          MaxPublications      \* bound on the calls of publish

ASSUME BusAssumption ==
  /\ CancellingHandlers \subseteq Handlers
  /\ MaxSubscriptions \in Nat /\ MaxPublications \in Nat

VARIABLES
  subscribers,   \* EventBus._subscribers; an unknown event has the empty list
  publications,  \* the calls of publish so far, in order
  ready          \* handler tasks the loop has yet to start, in order

vars == <<subscribers, publications, ready>>

Running == {"created", "started"}
Ended == {"returned", "raised", "cancelled"}
Invocations == [handler : Handlers, state : Running \cup Ended]
Publications ==
  [publisher : Publishers, event : Events, invocations : Seq(Invocations),
   outcome : {"waiting", "returned", "broken"}]

Init ==
  /\ subscribers = [e \in Events |-> <<>>]
  /\ publications = <<>>
  /\ ready = <<>>

-----------------------------------------------------------------------------
State(n, i) == publications[n].invocations[i].state
Invoked(n) == DOMAIN publications[n].invocations

\* subscribe(): at any time, by anyone, the same handler as often as one likes.
Subscribe(e, h) ==
  /\ Len(subscribers[e]) < MaxSubscriptions
  /\ subscribers' = [subscribers EXCEPT ![e] = Append(@, h)]
  /\ UNCHANGED <<publications, ready>>

\* A publisher goes on when its publish has returned, and ends when it raises.
MayPublish(p) ==
  \A n \in DOMAIN publications :
    publications[n].publisher = p => publications[n].outcome = "returned"

\* Mutant: publish() creates the tasks and does not wait for them.
PublishWithoutGather(p, e) ==
  /\ MayPublish(p) /\ Len(publications) < MaxPublications
  /\ LET invocations == [i \in DOMAIN subscribers[e] |->
                           [handler |-> subscribers[e][i], state |-> "created"]]
         n == Len(publications) + 1 IN
     /\ publications' = Append(publications,
          [publisher |-> p, event |-> e, invocations |-> invocations,
           outcome |-> "returned"])
     /\ ready' = ready \o [i \in DOMAIN invocations |-> <<n, i>>]
  /\ UNCHANGED subscribers

\* publish() up to its await; with no handlers there is none.
Publish(p, e) ==
  /\ MayPublish(p) /\ Len(publications) < MaxPublications
  /\ LET invocations == [i \in DOMAIN subscribers[e] |->
                           [handler |-> subscribers[e][i], state |-> "created"]]
         n == Len(publications) + 1 IN
     /\ publications' = Append(publications,
          [publisher |-> p, event |-> e, invocations |-> invocations,
           outcome |-> IF subscribers[e] = <<>> THEN "returned" ELSE "waiting"])
     /\ ready' = ready \o [i \in DOMAIN invocations |-> <<n, i>>]
  /\ UNCHANGED subscribers

SetState(n, i, state) ==
  publications' = [publications EXCEPT ![n].invocations[i].state = state]

\* Mutant: publish() awaits one handler after the other.
StartHandlerInTurn ==
  \E task \in {ready[k] : k \in DOMAIN ready} :
    /\ \A i \in 1..(task[2] - 1) : State(task[1], i) \in Ended
    /\ SetState(task[1], task[2], "started")
    /\ ready' = SelectSeq(ready, LAMBDA other : other # task)
    /\ UNCHANGED subscribers

\* The loop runs the next task up to its first await.
StartHandler ==
  /\ ready # <<>>
  /\ SetState(Head(ready)[1], Head(ready)[2], "started")
  /\ ready' = Tail(ready)
  /\ UNCHANGED subscribers

\* Mutant: a failing handler takes those that have not begun with it.
EndHandlerStoppingOthers(n, i) ==
  /\ State(n, i) = "started"
  /\ \/ SetState(n, i, "returned") /\ UNCHANGED ready
     \/ /\ publications' = [publications EXCEPT ![n].invocations[i].state = "raised",
                                                ![n].outcome = "returned"]
        /\ ready' = SelectSeq(ready, LAMBDA task : task[1] # n)
  /\ UNCHANGED subscribers

\* A handler ends: it returns, or raises an Exception that _safe_invoke logs and
\* returns, or lets a CancelledError through.
EndHandler(n, i) ==
  /\ State(n, i) = "started"
  /\ \/ SetState(n, i, "returned")
     \/ SetState(n, i, "raised")
     \/ /\ publications[n].invocations[i].handler \in CancellingHandlers
        /\ SetState(n, i, "cancelled")
  /\ UNCHANGED <<subscribers, ready>>

\* gather has every result; what handlers raised is logged once more.
PublishReturns(n) ==
  /\ publications[n].outcome = "waiting"
  /\ \A i \in Invoked(n) : State(n, i) \in {"returned", "raised"}
  /\ publications' = [publications EXCEPT ![n].outcome = "returned"]
  /\ UNCHANGED <<subscribers, ready>>

\* gather raises the first CancelledError it sees and forgets the others.
PublishRaises(n) ==
  /\ publications[n].outcome = "waiting"
  /\ \E i \in Invoked(n) : State(n, i) = "cancelled"
  /\ publications' = [publications EXCEPT ![n].outcome = "broken"]
  /\ UNCHANGED <<subscribers, ready>>

Next ==
  \/ \E e \in Events : \/ \E h \in Handlers : Subscribe(e, h)
                       \/ \E p \in Publishers : Publish(p, e)
  \/ StartHandler
  \/ \E n \in DOMAIN publications : \/ PublishReturns(n) \/ PublishRaises(n)
                                    \/ \E i \in Invoked(n) : EndHandler(n, i)

Spec == Init /\ [][Next]_vars

\* The loop runs what is ready, and every handler ends.
FairSpec ==
  /\ Spec
  /\ WF_vars(StartHandler)
  /\ \A n \in 1..MaxPublications :
       /\ WF_vars(n \in DOMAIN publications /\ (PublishReturns(n) \/ PublishRaises(n)))
       /\ \A i \in 1..MaxSubscriptions :
            WF_vars(n \in DOMAIN publications /\ i \in Invoked(n) /\ EndHandler(n, i))

-----------------------------------------------------------------------------
TypeOK ==
  /\ subscribers \in [Events -> Seq(Handlers)]
  /\ publications \in Seq(Publications)
  /\ ready \in Seq((1..MaxPublications) \X (1..MaxSubscriptions))

Begun(n, i) == State(n, i) # "created"

\* A subscriber never has two events of one report in hand, nor sees them out of
\* order: an event of a publisher begins to be handled only when every handler
\* of that publisher's earlier events has ended, well or not.
OneEventAtATime ==
  \A m, n \in DOMAIN publications :
    m < n /\ publications[m].publisher = publications[n].publisher =>
      \A i \in Invoked(m), j \in Invoked(n) : Begun(n, j) => State(m, i) \in Ended

\* Of two publications, of whatever events and publishers, the handlers of the
\* earlier one begin first, and those of one publication in the order in which
\* they subscribed; so a handler meets the events in publication order.
HandledInPublicationOrder ==
  \A m, n \in DOMAIN publications : \A i \in Invoked(m), j \in Invoked(n) :
    (m < n \/ (m = n /\ i < j)) /\ Begun(n, j) => Begun(m, i)

\* Whatever other handlers do, each handler invoked gets to its end, and
\* publish, which runs inside a request, comes to an end as well.
EveryHandlerRuns ==
  \A n \in 1..MaxPublications :
    n \in DOMAIN publications ~>
      /\ n \in DOMAIN publications /\ publications[n].outcome # "waiting"
      /\ \A i \in Invoked(n) : State(n, i) \in Ended
=============================================================================
