------------------------------ MODULE EventBus ------------------------------
(***************************************************************************)
(* The event bus of lambda-service (internal/events/rabbitmq.go) and the   *)
(* processing of an event (processor.go): Subscribe declares a function's  *)
(* queue and starts a goroutine that consumes it, Unsubscribe cancels the  *)
(* goroutine and deletes the queue, and a watcher redials when the         *)
(* connection closes and starts a goroutine for every subscription anew.   *)
(*                                                                         *)
(* All goroutines share one channel.  A channel the broker closes takes    *)
(* every consumer with it and leaves the connection open, so the watcher   *)
(* does not notice.  Events of one type are modelled: the routing key is   *)
(* the type, so each event goes to the queues of all functions.            *)
(***************************************************************************)
EXTENDS Integers, FiniteSets

CONSTANTS Queues,     \* a function's queue for the event type
          Events,
          Goroutines, \* consumeQueue goroutines that may exist at a time
          MaxCalls,   \* bound on Subscribe and Unsubscribe calls
          MaxFaults,  \* bound on connection losses and failing writes
          None

ASSUME BusAssumption ==
  /\ MaxCalls \in Nat /\ MaxFaults \in Nat
  /\ IsFiniteSet(Queues) /\ IsFiniteSet(Goroutines) /\ None \notin Goroutines

VARIABLES
  link,      \* the connection: up, down, or closed by Shutdown
  open,      \* the bus's channel is open
  snap,      \* resubscribeAll: entries still to redo, and whether the map has changed
  consumers, \* the map: the goroutine a subscription's cancel ends
  gpc, gq,   \* a goroutine's place and queue
  done,      \* goroutines whose context is cancelled
  event,     \* the event a goroutine handles, and
  linked,    \* whether its delivery can still be acknowledged
  exists,    \* queues at the broker
  ready,     \* events in queues
  settled,   \* events acknowledged or rejected
  owed,      \* deliveries of an event that have not led to an execution
  sent,      \* events published
  audit,     \* the event_audit_logs table
  untraced,  \* events handled with a cancelled context or a failing write
  doubled,   \* queues for which a second goroutine was started
  shut, calls, faults

bus == <<link, open, snap, consumers, shut>>
gor == <<gpc, gq, done, event, linked>>
broker == <<exists, ready, settled, sent>>
tables == <<owed, audit, untraced>>
vars == <<bus, gor, broker, tables, doubled, calls, faults>>

Init ==
  /\ link = "up" /\ open = TRUE /\ shut = FALSE
  /\ snap = [q \in Queues |-> "no"] /\ consumers = [q \in Queues |-> None]
  /\ gpc = [g \in Goroutines |-> "none"] /\ gq = [g \in Goroutines |-> None]
  /\ done = {} /\ event = [g \in Goroutines |-> None] /\ linked = {}
  /\ exists = {} /\ ready = {} /\ settled = {} /\ sent = {}
  /\ owed = [e \in Events |-> 0]
  /\ audit = {} /\ untraced = {} /\ doubled = {}
  /\ calls = 0 /\ faults = 0

Fault == faults < MaxFaults /\ faults' = faults + 1
Fine == UNCHANGED faults

Usable == link = "up" /\ open
Live(q) == {g \in Goroutines : gq[g] = q /\ gpc[g] # "none"}

-----------------------------------------------------------------------------
(* Subscriptions *)

(* The goroutine that `go b.consumeQueue` starts; no cancel function of a    *)
(* subscription refers to it yet.                                            *)
Idle == {g \in Goroutines : gpc[g] = "none" /\ \A q \in Queues : consumers[q] # g}
Free == CHOOSE g \in Idle : TRUE

Spawn(q) ==
  /\ Idle # {}
  /\ gpc' = [gpc EXCEPT ![Free] = "register"] /\ gq' = [gq EXCEPT ![Free] = q]
  /\ done' = IF shut THEN done \cup {Free} ELSE done \ {Free}
  /\ doubled' = IF Live(q) \ done = {} THEN doubled ELSE doubled \cup {q}
  /\ UNCHANGED <<event, linked>>

(* The map's entry for q is no longer the one that resubscribeAll has read. *)
Stale(q) == snap' = IF snap[q] = "no" THEN snap ELSE [snap EXCEPT ![q] = "stale"]

(* Nothing subscribes once Shutdown has begun. *)
Subscribe(q) ==
  /\ Usable /\ ~shut /\ calls < MaxCalls /\ calls' = calls + 1
  /\ exists' = exists \cup {q}
  /\ Spawn(q) /\ consumers' = [consumers EXCEPT ![q] = Free] /\ Stale(q)
  /\ UNCHANGED <<link, open, shut, ready, settled, sent, tables, faults>>

(* The deliveries of goroutines G are closed: those that wait return, those  *)
(* that handle an event return after it.  A goroutine that has not           *)
(* registered yet is not concerned.                                          *)
Waiting(G) == {g \in G \cap linked : gpc[g] = "consume"}
Handling(G) == {g \in G \cap linked : gpc[g] \in {"process", "settle"}}
Cut(G) ==
  /\ gpc' = [g \in Goroutines |-> IF g \in Waiting(G) THEN "none" ELSE gpc[g]]
  /\ gq' = [g \in Goroutines |-> IF g \in Waiting(G) THEN None ELSE gq[g]]
  /\ linked' = linked \ G
  /\ UNCHANGED event

(* What the broker puts back when channels close. *)
Held == {<<event[g], gq[g]>> : g \in Handling(Goroutines)}
Requeued ==
  /\ ready' = ready \cup Held
  /\ owed' = [e \in Events |-> owed[e] + Cardinality({q \in Queues : <<e, q>> \in Held})]

(* Mutant of Cancelled: the goroutine's context is not cancelled. *)
CancelledNot(q) == UNCHANGED done

(* c.cancel() *)
Cancelled(q) == done' = (done \cup {consumers[q]}) \ Waiting(Live(q))

(* Unsubscribe; without a usable channel the queue stays. *)
Unsubscribe(q) ==
  /\ consumers[q] # None /\ calls < MaxCalls /\ calls' = calls + 1
  /\ consumers' = [consumers EXCEPT ![q] = None] /\ Cancelled(q) /\ Stale(q)
  /\ doubled' = IF snap[q] = "no" THEN doubled ELSE doubled \cup {q}
  /\ \/ /\ Usable /\ exists' = exists \ {q} /\ Cut(Live(q))
        /\ ready' = {m \in ready : m[2] # q}
     \/ /\ ~Usable
        /\ UNCHANGED <<exists, ready, gpc, gq, event, linked>>
  /\ UNCHANGED <<link, open, shut, settled, sent, tables, faults>>

-----------------------------------------------------------------------------
(* consumeQueue *)

End(g) == /\ gpc' = [gpc EXCEPT ![g] = "none"] /\ gq' = [gq EXCEPT ![g] = None]
          /\ done' = done \ {g}

(* Consume on the bus's channel.  A queue that does not exist closes the     *)
(* channel.                                                                  *)
Register(g) ==
  /\ gpc[g] = "register"
  /\ \/ /\ Usable /\ gq[g] \in exists
        /\ gpc' = [gpc EXCEPT ![g] = "consume"] /\ linked' = linked \cup {g}
        /\ UNCHANGED <<gq, done, event, open, ready, owed>>
     \/ ~Usable /\ End(g) /\ UNCHANGED <<linked, event, open, ready, owed>>
     \/ /\ Usable /\ gq[g] \notin exists /\ open' = FALSE /\ Requeued
        /\ LET out == {g} \cup Waiting(Goroutines) IN
             /\ gpc' = [h \in Goroutines |-> IF h \in out THEN "none" ELSE gpc[h]]
             /\ gq' = [h \in Goroutines |-> IF h \in out THEN None ELSE gq[h]]
             /\ done' = done \ out
        /\ linked' = {} /\ UNCHANGED event
  /\ UNCHANGED <<link, snap, consumers, shut, exists, settled, sent, audit, untraced, doubled, calls, faults>>

(* select: the context is cancelled, or a delivery arrives; when both are    *)
(* ready either may be taken.                                                *)
Leave(g) ==
  /\ gpc[g] = "consume" /\ g \in done /\ End(g) /\ linked' = linked \ {g}
  /\ UNCHANGED <<bus, event, broker, tables, doubled, calls, faults>>

(* Mutant of Receive: the broker takes a delivery for acknowledged. *)
ReceiveAutoAck(g) ==
  /\ gpc[g] = "consume" /\ gpc' = [gpc EXCEPT ![g] = "process"]
  /\ \E e \in Events :
       /\ <<e, gq[g]>> \in ready /\ ready' = ready \ {<<e, gq[g]>>}
       /\ event' = [event EXCEPT ![g] = e]
       /\ settled' = settled \cup {<<e, gq[g]>>}
  /\ UNCHANGED <<bus, gq, done, linked, exists, sent, tables, doubled, calls, faults>>

Receive(g) ==
  /\ gpc[g] = "consume" /\ gpc' = [gpc EXCEPT ![g] = "process"]
  /\ \E e \in Events :
       /\ <<e, gq[g]>> \in ready /\ ready' = ready \ {<<e, gq[g]>>}
       /\ event' = [event EXCEPT ![g] = e]
  /\ UNCHANGED <<bus, gq, done, linked, exists, settled, sent, tables,
                 doubled, calls, faults>>

(* logAudit *)
Traced(e) ==
  \/ audit' = audit \cup {e} /\ Fine /\ UNCHANGED untraced
  \/ untraced' = untraced \cup {e} /\ Fault /\ UNCHANGED audit

(* Process: GetFunction and Execute succeed or fail; with a cancelled        *)
(* context they fail, and so does the write of the audit log.  Publishers    *)
(* send RetryCount 0 and MaxRetries 3 and nothing changes them, so           *)
(* handleError returns nil and makes no dead letter.                         *)
Process(g) ==
  LET e == event[g] IN
  /\ gpc[g] = "process" /\ gpc' = [gpc EXCEPT ![g] = "settle"]
  /\ \/ g \notin done /\ owed' = [owed EXCEPT ![e] = @ - 1] /\ Traced(e)
     \/ g \notin done /\ UNCHANGED owed /\ Traced(e)
     \/ g \in done /\ untraced' = untraced \cup {e} /\ UNCHANGED <<owed, audit, faults>>
  /\ UNCHANGED <<bus, gq, done, event, linked, broker, doubled, calls>>

(* Mutant of Acked: the event is requeued. *)
AckedAgain(g) == ready' = ready \cup {<<event[g], gq[g]>>} /\ UNCHANGED settled

(* Process has returned nil: Ack.  The branches that Nack are not reached. *)
Acked(g) == settled' = settled \cup {<<event[g], gq[g]>>} /\ UNCHANGED ready

(* The end of handleMessage.  On a channel that has closed Ack fails. *)
Settle(g) ==
  /\ gpc[g] = "settle"
  /\ \/ g \in linked /\ Acked(g) /\ gpc' = [gpc EXCEPT ![g] = "consume"] /\ UNCHANGED <<gq, done>>
     \/ g \notin linked /\ End(g) /\ UNCHANGED <<ready, settled>>
  /\ event' = [event EXCEPT ![g] = None]
  /\ UNCHANGED <<bus, linked, exists, sent, tables, doubled, calls, faults>>

-----------------------------------------------------------------------------
(* The connection *)

(* Publish routes to every queue of the type, and to none when there is none. *)
Publish(e) ==
  /\ Usable /\ e \notin sent /\ sent' = sent \cup {e}
  /\ owed' = [owed EXCEPT ![e] = Cardinality(exists)]
  /\ ready' = ready \cup {<<e, q>> : q \in exists}
  /\ UNCHANGED <<bus, gor, exists, settled, audit, untraced, doubled, calls, faults>>

LoseConnection ==
  /\ link = "up" /\ Fault /\ link' = "down" /\ open' = FALSE
  /\ Requeued /\ Cut(Goroutines) /\ done' = done \ Waiting(Goroutines)
  /\ UNCHANGED <<snap, consumers, shut, exists, settled, sent, audit, untraced, doubled, calls>>

(* Mutant of Snapshot: the subscriptions are not redone. *)
SnapshotNone == [q \in Queues |-> "no"]

(* The entries resubscribeAll reads under the lock. *)
Snapshot == [q \in Queues |-> IF consumers[q] = None THEN "no" ELSE "same"]

(* handleConnectionErrors and reconnect: a new connection and channel.  The  *)
(* watcher is back at its select when resubscribeAll has returned.           *)
Reconnect ==
  /\ link = "down" /\ ~shut /\ \A q \in Queues : snap[q] = "no"
  /\ link' = "up" /\ open' = TRUE /\ snap' = Snapshot
  /\ UNCHANGED <<consumers, shut, gor, broker, tables, doubled, calls, faults>>

(* One round of resubscribeAll: declare, bind, swap the cancel function of   *)
(* the subscription it has read, start the goroutine.                        *)
Resubscribe(q) ==
  /\ snap[q] # "no" /\ snap' = [snap EXCEPT ![q] = "no"]
  /\ \/ /\ Usable /\ Spawn(q) /\ exists' = exists \cup {q}
        /\ consumers' = IF snap[q] = "same" THEN [consumers EXCEPT ![q] = Free] ELSE consumers
     \/ ~Usable /\ UNCHANGED <<exists, consumers, gor, doubled>>
  /\ UNCHANGED <<link, open, shut, ready, settled, sent, tables, calls, faults>>

(* Shutdown cancels every context, waits for the goroutines and closes. *)
Shutdown ==
  /\ ~shut /\ shut' = TRUE /\ done' = {g \in Goroutines : gpc[g] # "none"}
  /\ UNCHANGED <<link, open, snap, consumers, gpc, gq, event, linked, broker, tables,
                 doubled, calls, faults>>

Close ==
  /\ shut /\ link # "closed" /\ \A g \in Goroutines : gpc[g] = "none"
  /\ link' = "closed" /\ open' = FALSE
  /\ UNCHANGED <<snap, consumers, shut, gor, broker, tables, doubled, calls, faults>>

-----------------------------------------------------------------------------
GoroutineStep(g) == Register(g) \/ Leave(g) \/ Receive(g) \/ Process(g) \/ Settle(g)
WatcherStep == Reconnect \/ \E q \in Queues : Resubscribe(q)

Next ==
  \/ \E q \in Queues : Subscribe(q) \/ Unsubscribe(q)
  \/ \E g \in Goroutines : GoroutineStep(g)
  \/ \E e \in Events : Publish(e)
  \/ LoseConnection \/ WatcherStep \/ Shutdown \/ Close

Spec == Init /\ [][Next]_vars

(* Goroutines run, and the broker can be reached again. *)
FairSpec ==
  Spec /\ WF_vars(WatcherStep) /\ \A g \in Goroutines : WF_vars(GoroutineStep(g))

-----------------------------------------------------------------------------
(* Properties *)

(* An event is executed at most once per queue it was routed to and per      *)
(* redelivery of it: lost connections, closed channels and second consumers  *)
(* of a queue add no execution of their own.                                 *)
RunsBounded == \A e \in Events : owed[e] >= 0

(* An event the broker has forgotten has left a trace in Postgres, unless    *)
(* the write failed or its handler's context was cancelled: Unsubscribe and  *)
(* Shutdown make a handler acknowledge an event it has not executed.         *)
SettledTraced ==
  \A m \in settled : m[1] \in audit \cup untraced

(* After Unsubscribe no goroutine goes on consuming for the subscription,    *)
(* unless a second one had been started for it: by a second Subscribe, or    *)
(* by a resubscription that was under way.                                   *)
UnsubscribeStops ==
  \A q \in Queues \ doubled : consumers[q] = None => Live(q) \subseteq done

(* No subscribed function's events wait for ever: after every lost           *)
(* connection the subscription consumes again, while the channel is open.    *)
SubscribedDrains ==
  \A q \in Queues :
    []<>(consumers[q] = None \/ shut \/ (link = "up" /\ ~open) \/ ~\E e \in Events : <<e, q>> \in ready)
=============================================================================
