--------------------------- MODULE EventBusProofs ---------------------------
(* Theorems about EventBus, for any number of queues, events, goroutines,    *)
(* calls and faults.                                                         *)
EXTENDS EventBus, FiniteSetTheorems, TLAPS

Places == {"none", "register", "consume", "process", "settle"}

(* The types, with what a goroutine has at each place. *)
TypeInv ==
  /\ snap \in [Queues -> {"no", "same", "stale"}]
  /\ consumers \in [Queues -> Goroutines \cup {None}]
  /\ gpc \in [Goroutines -> Places] /\ gq \in [Goroutines -> Queues \cup {None}]
  /\ event \in [Goroutines -> Events \cup {None}]
  /\ exists \subseteq Queues /\ sent \subseteq Events
  /\ ready \subseteq Events \X Queues /\ owed \in [Events -> Int]
  /\ \A g \in Goroutines : gpc[g] # "none" => gq[g] \in Queues
  /\ \A g \in Goroutines : gpc[g] \in {"process", "settle"} => event[g] \in Events

(* The goroutine that is started had none of the subscriptions. *)
LEMMA FreeIdle == Idle # {} => Free \in Idle
  BY DEF Free

(* What the broker puts back are events of queues. *)
LEMMA Puts ==
  ASSUME TypeInv PROVE Held \subseteq Events \X Queues
  BY DEF TypeInv, Held, Handling

LEMMA Counts ==
  ASSUME NEW S \in SUBSET Queues PROVE IsFiniteSet(S) /\ Cardinality(S) \in Nat
  BY BusAssumption, FS_Subset, FS_CardinalityType

LEMMA RequeuedTypes ==
  ASSUME TypeInv, Requeued
  PROVE  ready' \subseteq Events \X Queues /\ owed' \in [Events -> Int]
  <1>1. ready' \subseteq Events \X Queues
    BY Puts DEF Requeued, TypeInv
  <1>2. \A e \in Events : Cardinality({q \in Queues : <<e, q>> \in Held}) \in Nat
    BY Counts
  <1>3. \A e \in Events : owed[e] + Cardinality({q \in Queues : <<e, q>> \in Held}) \in Int
    BY <1>2 DEF TypeInv
  <1> QED
    BY <1>1, <1>3 DEF Requeued

LEMMA TypeGoroutine ==
  ASSUME TypeInv, NEW g \in Goroutines, GoroutineStep(g) PROVE TypeInv'
  <1>1. CASE Register(g)
    <2>1. UNCHANGED <<snap, consumers, event, exists, sent>>
      BY <1>1 DEF Register
    <2>2. /\ gpc' \in [Goroutines -> Places] /\ gq' \in [Goroutines -> Queues \cup {None}]
          /\ \A h \in Goroutines : gpc'[h] # "none" => gq'[h] \in Queues
          /\ \A h \in Goroutines : gpc'[h] \in {"process", "settle"} => gpc'[h] = gpc[h]
      BY <1>1 DEF Register, End, TypeInv, Places
    <2>3. ready' \subseteq Events \X Queues /\ owed' \in [Events -> Int]
      BY <1>1, RequeuedTypes DEF Register, TypeInv
    <2> QED
      BY <2>1, <2>2, <2>3 DEF TypeInv
  <1>2. CASE Leave(g)
    BY <1>2 DEF Leave, End, TypeInv, Places, bus, broker, tables
  <1>3. CASE Receive(g)
    <2>1. /\ UNCHANGED <<snap, consumers, gq, exists, sent, owed>>
          /\ gpc[g] = "consume" /\ gpc' = [gpc EXCEPT ![g] = "process"] /\ ready' \subseteq ready
      BY <1>3 DEF Receive, bus, tables
    <2>2. PICK e \in Events : event' = [event EXCEPT ![g] = e]
      BY <1>3 DEF Receive
    <2> QED
      BY <2>1, <2>2 DEF TypeInv, Places
  <1>4. CASE Process(g)
    <2>1. /\ UNCHANGED <<snap, consumers, gq, event, exists, sent, ready>>
          /\ gpc[g] = "process" /\ gpc' = [gpc EXCEPT ![g] = "settle"]
          /\ owed' = owed \/ owed' = [owed EXCEPT ![event[g]] = @ - 1]
      BY <1>4 DEF Process, bus, broker
    <2>2. owed' \in [Events -> Int]
      BY <2>1 DEF TypeInv
    <2> QED
      BY <2>1, <2>2 DEF TypeInv, Places
  <1>5. CASE Settle(g)
    BY <1>5 DEF Settle, Acked, End, TypeInv, Places, bus, tables
  <1> QED
    BY <1>1, <1>2, <1>3, <1>4, <1>5 DEF GoroutineStep

LEMMA TypeSpawn ==
  ASSUME TypeInv, NEW q \in Queues, Spawn(q)
  PROVE  /\ Free \in Goroutines /\ gpc[Free] = "none" /\ \A s \in Queues : consumers[s] # Free
         /\ gpc' \in [Goroutines -> Places] /\ gq' \in [Goroutines -> Queues \cup {None}]
         /\ gpc' = [gpc EXCEPT ![Free] = "register"] /\ gq' = [gq EXCEPT ![Free] = q]
         /\ \A h \in Goroutines : gpc'[h] # "none" => gq'[h] \in Queues
         /\ \A h \in Goroutines : gpc'[h] \in {"process", "settle"} => gpc'[h] = gpc[h]
         /\ UNCHANGED <<event, linked>>
  BY FreeIdle DEF Spawn, Idle, TypeInv, Places

LEMMA TypeOthers ==
  ASSUME TypeInv, [Next]_vars, \A g \in Goroutines : ~GoroutineStep(g) PROVE TypeInv'
  <1>1. ASSUME NEW q \in Queues, Subscribe(q) PROVE TypeInv'
    <2>1. /\ UNCHANGED <<ready, sent, owed>> /\ exists' = exists \cup {q}
          /\ consumers' = [consumers EXCEPT ![q] = Free] /\ Spawn(q) /\ Stale(q)
      BY <1>1 DEF Subscribe, tables
    <2>2. snap' \in [Queues -> {"no", "same", "stale"}]
      BY <2>1 DEF Stale, TypeInv
    <2> QED
      BY <2>1, <2>2, TypeSpawn DEF TypeInv
  <1>2. ASSUME NEW q \in Queues, Unsubscribe(q) PROVE TypeInv'
    <2>1. /\ UNCHANGED <<event, sent, owed>> /\ exists' \subseteq exists /\ ready' \subseteq ready
          /\ consumers' = [consumers EXCEPT ![q] = None] /\ Stale(q)
      BY <1>2 DEF Unsubscribe, Cut, tables
    <2>2. snap' \in [Queues -> {"no", "same", "stale"}]
      BY <2>1 DEF Stale, TypeInv
    <2>3. UNCHANGED <<gpc, gq>> \/ Cut(Live(q))
      BY <1>2 DEF Unsubscribe
    <2>4. /\ gpc' \in [Goroutines -> Places] /\ gq' \in [Goroutines -> Queues \cup {None}]
          /\ \A h \in Goroutines : gpc'[h] # "none" => gpc'[h] = gpc[h] /\ gq'[h] = gq[h]
      BY <2>3 DEF TypeInv, Cut, Places
    <2> QED
      BY <2>1, <2>2, <2>4 DEF TypeInv
  <1>3. ASSUME NEW e \in Events, Publish(e) PROVE TypeInv'
    <2>1. /\ UNCHANGED <<snap, consumers, gpc, gq, event, exists>> /\ sent' = sent \cup {e}
          /\ owed' = [owed EXCEPT ![e] = Cardinality(exists)]
          /\ ready' = ready \cup {<<e, q>> : q \in exists}
      BY <1>3 DEF Publish, bus, gor
    <2>2. Cardinality(exists) \in Int
      BY Counts DEF TypeInv
    <2> QED
      BY <2>1, <2>2 DEF TypeInv
  <1>4. CASE LoseConnection
    <2>1. UNCHANGED <<snap, consumers, exists, sent>> /\ Requeued /\ Cut(Goroutines)
      BY <1>4 DEF LoseConnection
    <2> QED
      BY <2>1, RequeuedTypes DEF TypeInv, Cut, Places
  <1>5. CASE Reconnect
    BY <1>5 DEF Reconnect, Snapshot, TypeInv, gor, broker, tables
  <1>6. ASSUME NEW q \in Queues, Resubscribe(q) PROVE TypeInv'
    <2>1. /\ UNCHANGED <<ready, sent, owed>> /\ snap' = [snap EXCEPT ![q] = "no"]
          /\ \/ /\ Spawn(q) /\ exists' = exists \cup {q}
                /\ UNCHANGED consumers \/ consumers' = [consumers EXCEPT ![q] = Free]
             \/ UNCHANGED <<exists, consumers, gpc, gq, event>>
      BY <1>6 DEF Resubscribe, gor, tables
    <2> QED
      BY <2>1, TypeSpawn DEF TypeInv
  <1>7. CASE Shutdown \/ Close \/ UNCHANGED vars
    BY <1>7 DEF Shutdown, Close, vars, bus, gor, broker, tables, TypeInv
  <1> QED
    BY <1>1, <1>2, <1>3, <1>4, <1>5, <1>6, <1>7 DEF Next, WatcherStep

(* Every variable of the bus and of the broker keeps its type, and a         *)
(* goroutine past its start has a queue, one that handles an event has it.   *)
THEOREM TypeCorrect == Spec => []TypeInv
  <1>1. Init => TypeInv
    BY DEF Init, TypeInv, Places
  <1>2. TypeInv /\ [Next]_vars => TypeInv'
    BY TypeGoroutine, TypeOthers
  <1> QED
    BY <1>1, <1>2, PTL DEF Spec

-----------------------------------------------------------------------------
(* A goroutine that is about to acknowledge an event has logged it. *)
TraceInv ==
  /\ \A g \in Goroutines : gpc[g] = "settle" => event[g] \in audit \cup untraced
  /\ SettledTraced

LEMMA TraceGoroutine ==
  ASSUME TypeInv, TraceInv, NEW g \in Goroutines, GoroutineStep(g) PROVE TraceInv'
  <1>1. CASE Register(g) \/ Leave(g)
    <2>1. UNCHANGED <<event, settled, audit, untraced>>
      BY <1>1 DEF Register, Leave, broker, tables
    <2>2. \A h \in Goroutines : gpc'[h] = "settle" => gpc[h] = "settle"
      BY <1>1 DEF Register, Leave, End, TypeInv
    <2> QED
      BY <2>1, <2>2 DEF TraceInv, SettledTraced
  <1>2. CASE Receive(g)
    <2>1. UNCHANGED <<settled, audit, untraced>> /\ gpc' = [gpc EXCEPT ![g] = "process"]
      BY <1>2 DEF Receive, tables
    <2>2. PICK e \in Events : event' = [event EXCEPT ![g] = e]
      BY <1>2 DEF Receive
    <2> QED
      BY <2>1, <2>2 DEF TraceInv, SettledTraced, TypeInv
  <1>3. CASE Process(g)
    <2>1. UNCHANGED <<event, settled>> /\ gpc' = [gpc EXCEPT ![g] = "settle"]
      BY <1>3 DEF Process, broker
    <2>2. event[g] \in audit' \cup untraced' /\ audit \subseteq audit' /\ untraced \subseteq untraced'
      BY <1>3 DEF Process, Traced
    <2> QED
      BY <2>1, <2>2 DEF TraceInv, SettledTraced, TypeInv
  <1>4. CASE Settle(g)
    <2>1. /\ gpc[g] = "settle" /\ UNCHANGED <<audit, untraced>>
          /\ event' = [event EXCEPT ![g] = None]
          /\ \E p \in {"consume", "none"} : gpc' = [gpc EXCEPT ![g] = p]
          /\ settled' = settled \/ settled' = settled \cup {<<event[g], gq[g]>>}
      BY <1>4 DEF Settle, Acked, End, tables
    <2>2. SettledTraced'
      BY <2>1 DEF TraceInv, SettledTraced
    <2> QED
      BY <2>1, <2>2 DEF TraceInv, TypeInv
  <1> QED
    BY <1>1, <1>2, <1>3, <1>4 DEF GoroutineStep

(* No event disappears without a trace: handleMessage acknowledges an event  *)
(* only after Process has logged it or failed to, however subscriptions,     *)
(* cancellations, lost connections and redeliveries interleave.              *)
THEOREM Traces == Spec => []SettledTraced
  <1>1. Init => TraceInv
    BY DEF Init, TraceInv, SettledTraced
  <1>2. TypeInv /\ TraceInv /\ [Next]_vars => TraceInv'
    <2> SUFFICES ASSUME TypeInv, TraceInv, [Next]_vars, \A g \in Goroutines : ~GoroutineStep(g)
                 PROVE  TraceInv'
      BY TraceGoroutine
    <2>1. UNCHANGED <<event, settled, audit, untraced>>
      BY DEF Next, Subscribe, Unsubscribe, Spawn, Cut, Publish, LoseConnection, WatcherStep, Reconnect,
             Resubscribe, Shutdown, Close, vars, gor, broker, tables
    <2>2. \/ UNCHANGED gpc \/ gpc' = [gpc EXCEPT ![Free] = "register"]
          \/ \E G : gpc' = [g \in Goroutines |-> IF g \in Waiting(G) THEN "none" ELSE gpc[g]]
      BY DEF Next, Subscribe, Unsubscribe, Spawn, Cut, Publish, LoseConnection, WatcherStep, Reconnect,
             Resubscribe, Shutdown, Close, vars, gor
    <2>3. \A g \in Goroutines : gpc'[g] = "settle" => gpc[g] = "settle"
      BY <2>2 DEF TypeInv
    <2> QED
      BY <2>1, <2>3 DEF TraceInv, SettledTraced
  <1>3. TraceInv => SettledTraced
    BY DEF TraceInv
  <1> QED
    BY <1>1, <1>2, <1>3, TypeCorrect, PTL DEF Spec

-----------------------------------------------------------------------------
(* Whoever is registered with the broker is consuming or handling an event,  *)
(* and nobody is while the channel is closed.                                *)
LinkInv ==
  /\ linked \subseteq {g \in Goroutines : gpc[g] \in {"consume", "process", "settle"}}
  /\ ~Usable => linked = {}

LEMMA LinkStep ==
  ASSUME TypeInv, LinkInv, [Next]_vars PROVE LinkInv'
  <1>1. ASSUME NEW g \in Goroutines, GoroutineStep(g) PROVE LinkInv'
    <2>1. CASE Register(g)
      BY <2>1 DEF Register, End, Waiting, Usable, LinkInv, TypeInv
    <2>2. CASE Leave(g)
      BY <2>2 DEF Leave, End, Usable, LinkInv, TypeInv, bus
    <2>3. CASE Receive(g)
      BY <2>3 DEF Receive, Usable, LinkInv, TypeInv, bus
    <2>4. CASE Process(g)
      BY <2>4 DEF Process, Usable, LinkInv, TypeInv, bus
    <2>5. CASE Settle(g)
      BY <2>5 DEF Settle, End, Usable, LinkInv, TypeInv, bus
    <2> QED
      BY <1>1, <2>1, <2>2, <2>3, <2>4, <2>5 DEF GoroutineStep
  <1>2. ASSUME NEW q \in Queues, Spawn(q), UNCHANGED <<link, open>> PROVE LinkInv'
    BY <1>2, TypeSpawn DEF LinkInv, Usable, TypeInv
  <1>3. ASSUME NEW q \in Queues, Unsubscribe(q) PROVE LinkInv'
    <2>1. UNCHANGED <<link, open>> /\ (UNCHANGED <<gpc, linked>> \/ Cut(Live(q)))
      BY <1>3 DEF Unsubscribe
    <2> QED
      BY <2>1 DEF Cut, Waiting, Usable, LinkInv, TypeInv
  <1>4. CASE LoseConnection
    BY <1>4 DEF LoseConnection, Cut, Usable, LinkInv, TypeInv
  <1>5. CASE Close
    BY <1>5 DEF Close, Usable, LinkInv, gor
  <1>6. CASE Reconnect
    BY <1>6 DEF Reconnect, Usable, LinkInv, gor
  <1>7. ASSUME UNCHANGED <<gpc, linked, link, open>> PROVE LinkInv'
    BY <1>7 DEF LinkInv, Usable
  <1> QED
    BY <1>1, <1>2, <1>3, <1>4, <1>5, <1>6, <1>7 DEF Next, WatcherStep, Subscribe, Resubscribe, Publish,
       Shutdown, vars, bus, gor

-----------------------------------------------------------------------------
(* A subscription that has not been doubled has at most one goroutine that   *)
(* is not cancelled, the one its entry refers to; while resubscribeAll has   *)
(* still to redo an entry that Subscribe has replaced, that one is at work.  *)
StopInv ==
  /\ \A q, s \in Queues : consumers[q] = consumers[s] /\ consumers[q] # None => q = s
  /\ \A q \in Queues \ doubled : Live(q) \ done \subseteq {consumers[q]}
  /\ \A q \in Queues \ doubled :
       snap[q] = "stale" /\ Usable /\ ~shut =>
         /\ consumers[q] \in Live(q) \ done
         /\ gpc[consumers[q]] = "register" \/ consumers[q] \in linked

(* The goroutine is waiting to register with the broker or has done so. *)
Attached(g) == gpc[g] # "none" /\ (gpc[g] = "register" \/ g \in linked)

(* A step that changes no subscription, starts nobody, and ends no attached  *)
(* goroutine that is not cancelled unless the channel closes.                *)
LEMMA StopFrame ==
  ASSUME TypeInv, StopInv, UNCHANGED <<consumers, snap, doubled, shut>>,
         \A q \in Queues : (Live(q) \ done)' \subseteq Live(q) \ done,
         Usable' => Usable,
         Usable' => \A g \in Goroutines \ done :
                      Attached(g) => Attached(g)' /\ g \notin done' /\ gq'[g] = gq[g]
  PROVE  StopInv'
  <1>1. \A q \in Queues \ doubled : (Live(q) \ done)' \subseteq {consumers[q]}
    BY DEF StopInv
  <1>2. ASSUME NEW q \in Queues \ doubled, snap[q] = "stale", Usable', ~shut
        PROVE  /\ consumers[q] \in (Live(q) \ done)'
               /\ gpc'[consumers[q]] = "register" \/ consumers[q] \in linked'
    <2>1. /\ consumers[q] \in Live(q) \ done
          /\ gpc[consumers[q]] = "register" \/ consumers[q] \in linked
      BY <1>2 DEF StopInv
    <2>2. consumers[q] \in Goroutines \ done /\ Attached(consumers[q]) /\ gq[consumers[q]] = q
      BY <2>1 DEF Live, Attached
    <2>3. Attached(consumers[q])' /\ consumers[q] \notin done' /\ gq'[consumers[q]] = q
      BY <1>2, <2>2 DEF Attached
    <2> QED
      BY <2>2, <2>3 DEF Live, Attached
  <1>3. \A q, s \in Queues : consumers'[q] = consumers'[s] /\ consumers'[q] # None => q = s
    BY DEF StopInv
  <1> QED
    BY <1>1, <1>2, <1>3 DEF StopInv

LEMMA StopGoroutine ==
  ASSUME TypeInv, LinkInv, StopInv, NEW g \in Goroutines, GoroutineStep(g) PROVE StopInv'
  <1>1. CASE Register(g)
    <2>1. UNCHANGED <<consumers, snap, doubled, shut>>
      BY <1>1 DEF Register
    <2>2. \A q \in Queues : (Live(q) \ done)' \subseteq Live(q) \ done
      BY <1>1 DEF Register, End, Live, TypeInv
    <2>3. Usable' => /\ Usable /\ gpc' = [gpc EXCEPT ![g] = "consume"]
                     /\ linked' = linked \cup {g} /\ UNCHANGED <<gq, done>>
      BY <1>1 DEF Register, Usable
    <2>4. Usable' => \A h \in Goroutines \ done :
                       Attached(h) => Attached(h)' /\ h \notin done' /\ gq'[h] = gq[h]
      BY <2>3 DEF Attached, TypeInv
    <2> QED
      BY <2>1, <2>2, <2>3, <2>4, StopFrame
  <1>2. CASE Leave(g)
    <2>1. /\ UNCHANGED <<consumers, snap, doubled, shut, link, open>> /\ g \in done
          /\ gpc' = [gpc EXCEPT ![g] = "none"] /\ gq' = [gq EXCEPT ![g] = None]
          /\ done' = done \ {g} /\ linked' = linked \ {g}
      BY <1>2 DEF Leave, End, bus
    <2>2. \A q \in Queues : (Live(q) \ done)' \subseteq Live(q) \ done
      BY <2>1 DEF Live, TypeInv
    <2>3. \A h \in Goroutines \ done : Attached(h) => Attached(h)' /\ h \notin done' /\ gq'[h] = gq[h]
      BY <2>1 DEF Attached, TypeInv
    <2> QED
      BY <2>1, <2>2, <2>3, StopFrame DEF Usable
  <1>3. CASE Receive(g) \/ Process(g)
    <2>1. /\ UNCHANGED <<consumers, snap, doubled, shut, link, open, gq, done, linked>>
          /\ gpc[g] \in {"consume", "process"}
          /\ \E p \in {"process", "settle"} : gpc' = [gpc EXCEPT ![g] = p]
      BY <1>3 DEF Receive, Process, bus
    <2>2. \A q \in Queues : (Live(q) \ done)' \subseteq Live(q) \ done
      BY <2>1 DEF Live, TypeInv
    <2>3. \A h \in Goroutines \ done : Attached(h) => Attached(h)' /\ h \notin done' /\ gq'[h] = gq[h]
      BY <2>1 DEF Attached, TypeInv
    <2> QED
      BY <2>1, <2>2, <2>3, StopFrame DEF Usable
  <1>4. CASE Settle(g)
    <2>1. UNCHANGED <<consumers, snap, doubled, shut, link, open, linked>> /\ gpc[g] = "settle"
      BY <1>4 DEF Settle, bus
    <2>2. \/ g \in linked /\ gpc' = [gpc EXCEPT ![g] = "consume"] /\ UNCHANGED <<gq, done>>
          \/ /\ g \notin linked /\ gpc' = [gpc EXCEPT ![g] = "none"] /\ gq' = [gq EXCEPT ![g] = None]
             /\ done' = done \ {g}
      BY <1>4 DEF Settle, End
    <2>3. \A q \in Queues : (Live(q) \ done)' \subseteq Live(q) \ done
      BY <2>1, <2>2 DEF Live, TypeInv
    <2>4. \A h \in Goroutines \ done : Attached(h) => Attached(h)' /\ h \notin done' /\ gq'[h] = gq[h]
      BY <2>1, <2>2 DEF Attached, TypeInv
    <2> QED
      BY <2>1, <2>3, <2>4, StopFrame DEF Usable
  <1> QED
    BY <1>1, <1>2, <1>3, <1>4 DEF GoroutineStep

(* A new goroutine: either it is the only one, or the queue is doubled. *)
LEMMA StopSpawn ==
  ASSUME TypeInv, StopInv, NEW q \in Queues, Spawn(q), UNCHANGED <<link, open, shut>>,
         \/ consumers' = [consumers EXCEPT ![q] = Free]
         \/ consumers' = consumers /\ snap[q] = "stale" /\ Usable,
         \A s \in Queues \ {q} : snap'[s] = snap[s],
         snap'[q] = "stale" => consumers' = [consumers EXCEPT ![q] = Free] /\ ~shut
  PROVE  StopInv'
  <1>1. /\ Free \in Goroutines /\ gpc[Free] = "none" /\ \A s \in Queues : consumers[s] # Free
        /\ gpc' = [gpc EXCEPT ![Free] = "register"] /\ gq' = [gq EXCEPT ![Free] = q] /\ linked' = linked
    BY TypeSpawn
  <1>2. /\ shut => done' = done \cup {Free}
        /\ ~shut => done' = done \ {Free}
        /\ doubled' = IF Live(q) \ done = {} THEN doubled ELSE doubled \cup {q}
    BY DEF Spawn
  <1>3. \A r, s \in Queues : consumers'[r] = consumers'[s] /\ consumers'[r] # None => r = s
    BY <1>1 DEF StopInv, TypeInv
  <1>4. \A s \in Queues \ {q} : (Live(s) \ done)' = Live(s) \ done
    BY <1>1, <1>2 DEF Live, TypeInv
  <1>5. \A s \in Queues \ {q} : consumers'[s] = consumers[s]
    BY DEF TypeInv
  <1>6. (Live(q) \ done)' \subseteq (Live(q) \ done) \cup {Free}
    BY <1>1, <1>2 DEF Live, TypeInv
  <1>7. shut => (Live(q) \ done)' \subseteq Live(q) \ done
    BY <1>1, <1>2 DEF Live, TypeInv
  <1>8. q \notin doubled' => (Live(q) \ done)' \subseteq {consumers'[q]}
    <2> HAVE q \notin doubled'
    <2>1. q \notin doubled /\ Live(q) \ done = {}
      BY <1>2
    <2>2. CASE consumers' = [consumers EXCEPT ![q] = Free]
      BY <1>6, <2>1, <2>2 DEF TypeInv
    <2>3. CASE shut
      BY <1>7, <2>1, <2>3
    <2>4. CASE ~shut /\ snap[q] = "stale" /\ Usable
      BY <2>1, <2>4 DEF StopInv
    <2> QED
      BY <2>2, <2>3, <2>4
  <1>9. \A s \in Queues \ doubled' : (Live(s) \ done)' \subseteq {consumers'[s]}
    BY <1>2, <1>4, <1>5, <1>8 DEF StopInv
  <1>10. ASSUME NEW s \in Queues \ doubled', snap'[s] = "stale", Usable', ~shut'
         PROVE  /\ consumers'[s] \in (Live(s) \ done)'
                /\ gpc'[consumers'[s]] = "register" \/ consumers'[s] \in linked'
    <2>1. CASE s = q
      <3>1. consumers'[q] = Free
        BY <1>10, <2>1 DEF TypeInv
      <3> QED
        BY <1>1, <1>2, <1>10, <2>1, <3>1 DEF Live, TypeInv
    <2>2. CASE s # q
      <3>1. /\ consumers[s] \in Live(s) \ done
            /\ gpc[consumers[s]] = "register" \/ consumers[s] \in linked
        BY <1>2, <1>10, <2>2 DEF StopInv, Usable
      <3>2. consumers[s] \in (Live(s) \ done)' /\ gpc'[consumers[s]] = gpc[consumers[s]]
        BY <1>1, <1>4, <2>2, <3>1 DEF TypeInv, Live
      <3> QED
        BY <1>1, <1>5, <2>2, <3>1, <3>2
    <2> QED
      BY <2>1, <2>2
  <1> QED
    BY <1>3, <1>9, <1>10 DEF StopInv

LEMMA StopUnsubscribe ==
  ASSUME TypeInv, LinkInv, StopInv, NEW q \in Queues, Unsubscribe(q) PROVE StopInv'
  <1>1. /\ consumers[q] # None /\ consumers' = [consumers EXCEPT ![q] = None]
        /\ done' = (done \cup {consumers[q]}) \ Waiting(Live(q))
        /\ doubled' = IF snap[q] = "no" THEN doubled ELSE doubled \cup {q}
        /\ snap' = IF snap[q] = "no" THEN snap ELSE [snap EXCEPT ![q] = "stale"]
        /\ UNCHANGED <<link, open, shut>>
    BY DEF Unsubscribe, Cancelled, Stale
  <1>2. \/ Usable /\ Cut(Live(q))
        \/ ~Usable /\ UNCHANGED <<gpc, gq, linked>>
    BY DEF Unsubscribe
  <1>3. /\ \A h \in Goroutines : h \in Waiting(Live(q)) => gpc'[h] = "none"
        /\ \A h \in Goroutines : h \notin Waiting(Live(q)) => gpc'[h] = gpc[h] /\ gq'[h] = gq[h]
        /\ \A h \in linked \ Live(q) : h \in linked'
    BY <1>2 DEF Cut, Waiting, LinkInv
  <1>4. (Live(q) \ done)' \subseteq (Live(q) \ done) \ {consumers[q]}
    BY <1>1, <1>3 DEF Live, Waiting
  <1>5. \A s \in Queues \ {q} : /\ consumers'[s] = consumers[s] /\ consumers[s] # consumers[q]
                               /\ snap'[s] = snap[s] /\ (s \in doubled' <=> s \in doubled)
    BY <1>1 DEF StopInv, TypeInv
  <1>6. \A s \in Queues \ {q} : (Live(s) \ done)' \subseteq Live(s) \ done
    BY <1>1, <1>3 DEF Live, Waiting
  <1>7. \A s \in Queues \ doubled' : (Live(s) \ done)' \subseteq {consumers'[s]}
    <2>1. q \notin doubled' => (Live(q) \ done)' = {}
      BY <1>1, <1>4 DEF StopInv
    <2> QED
      BY <1>5, <1>6, <2>1 DEF StopInv
  <1>8. \A r, s \in Queues : consumers'[r] = consumers'[s] /\ consumers'[r] # None => r = s
    BY <1>1 DEF StopInv, TypeInv
  <1>9. ASSUME NEW s \in Queues \ doubled', snap'[s] = "stale", Usable', ~shut'
        PROVE  /\ consumers'[s] \in (Live(s) \ done)'
               /\ gpc'[consumers'[s]] = "register" \/ consumers'[s] \in linked'
    <2>1. s # q
      BY <1>1, <1>9 DEF TypeInv
    <2>2. /\ consumers[s] \in Live(s) \ done
          /\ gpc[consumers[s]] = "register" \/ consumers[s] \in linked
      BY <1>1, <1>5, <1>9, <2>1 DEF StopInv, Usable
    <2>3. consumers[s] \in Goroutines /\ consumers[s] \notin Live(q)
      BY <2>1, <2>2 DEF Live
    <2>4. consumers'[s] = consumers[s] /\ consumers[s] \notin done'
      BY <1>1, <1>5, <2>1, <2>2
    <2>5. gpc'[consumers[s]] = gpc[consumers[s]] /\ gq'[consumers[s]] = gq[consumers[s]]
      BY <1>3, <2>3 DEF Waiting
    <2>6. consumers[s] \in linked => consumers[s] \in linked'
      BY <1>3, <2>3
    <2>7. consumers[s] \in Live(s)'
      BY <2>2, <2>3, <2>5 DEF Live
    <2> QED
      BY <2>2, <2>4, <2>5, <2>6, <2>7
  <1> QED
    BY <1>7, <1>8, <1>9 DEF StopInv

LEMMA StopOthers ==
  ASSUME TypeInv, LinkInv, StopInv, [Next]_vars, \A g \in Goroutines : ~GoroutineStep(g) PROVE StopInv'
  <1>1. ASSUME NEW q \in Queues, Subscribe(q) PROVE StopInv'
    <2>1. /\ Spawn(q) /\ UNCHANGED <<link, open, shut>> /\ ~shut
          /\ consumers' = [consumers EXCEPT ![q] = Free]
      BY <1>1 DEF Subscribe
    <2>2. \A s \in Queues \ {q} : snap'[s] = snap[s]
      BY <1>1 DEF Subscribe, Stale, TypeInv
    <2> QED
      BY <2>1, <2>2, StopSpawn
  <1>2. ASSUME NEW q \in Queues, Resubscribe(q) PROVE StopInv'
    <2>1. UNCHANGED <<link, open, shut>> /\ snap[q] # "no" /\ snap' = [snap EXCEPT ![q] = "no"]
      BY <1>2 DEF Resubscribe
    <2>2. \A s \in Queues : snap'[s] = IF s = q THEN "no" ELSE snap[s]
      BY <2>1 DEF TypeInv
    <2>3. CASE Usable /\ Spawn(q)
      <3>1. \/ consumers' = [consumers EXCEPT ![q] = Free]
            \/ consumers' = consumers /\ snap[q] = "stale"
        BY <1>2, <2>1, <2>3 DEF Resubscribe, TypeInv
      <3> QED
        BY <2>1, <2>2, <2>3, <3>1, StopSpawn
    <2>4. CASE UNCHANGED <<consumers, gor, doubled>>
      <3>1. \A s \in Queues : Live(s)' = Live(s)
        BY <2>4 DEF Live, gor
      <3>2. \A s \in Queues : snap'[s] = "stale" => snap[s] = "stale"
        BY <2>2
      <3>3. (Usable' <=> Usable) /\ shut' = shut /\ UNCHANGED <<consumers, done, doubled, gpc, linked>>
        BY <2>1, <2>4 DEF Usable, gor
      <3> QED
        BY <3>1, <3>2, <3>3 DEF StopInv
    <2> QED
      BY <1>2, <2>3, <2>4 DEF Resubscribe
  <1>3. CASE Reconnect
    <2>1. UNCHANGED <<consumers, gpc, gq, done, doubled>> /\ \A q \in Queues : snap'[q] # "stale"
      BY <1>3 DEF Reconnect, Snapshot, gor
    <2> QED
      BY <2>1 DEF StopInv, Live
  <1>4. CASE Shutdown
    <2>1. UNCHANGED <<consumers, gpc, gq, doubled>> /\ shut' /\ done' = {g \in Goroutines : gpc[g] # "none"}
      BY <1>4 DEF Shutdown
    <2> QED
      BY <2>1 DEF StopInv, Live
  <1>5. CASE LoseConnection
    <2>1. /\ UNCHANGED <<consumers, snap, doubled, shut>> /\ ~open'
          /\ Cut(Goroutines) /\ done' = done \ Waiting(Goroutines)
      BY <1>5 DEF LoseConnection
    <2>2. \A q \in Queues : (Live(q) \ done)' \subseteq Live(q) \ done
      BY <2>1 DEF Cut, Live
    <2> QED
      BY <2>1, <2>2, StopFrame DEF Usable
  <1>6. CASE Close \/ UNCHANGED vars \/ \E e \in Events : Publish(e)
    <2>1. /\ UNCHANGED <<consumers, snap, doubled, shut, gpc, gq, done, linked>>
          /\ Usable' => Usable
      BY <1>6 DEF Close, Publish, vars, bus, gor, Usable
    <2> QED
      BY <2>1, StopFrame DEF Live, Attached
  <1> QED
    BY <1>1, <1>2, <1>3, <1>4, <1>5, <1>6, StopUnsubscribe DEF Next, WatcherStep

(* A subscription ends: once Unsubscribe has returned, every goroutine that  *)
(* still consumes for the function is cancelled, unless Subscribe or a       *)
(* resubscription under way has started a second one, for any interleaving   *)
(* of calls, lost connections and resubscriptions.                           *)
THEOREM Unsubscribes == Spec => []UnsubscribeStops
  <1>1. Init => LinkInv /\ StopInv
    BY DEF Init, LinkInv, StopInv, Live
  <1>2. TypeInv /\ LinkInv /\ StopInv /\ [Next]_vars => LinkInv' /\ StopInv'
    BY LinkStep, StopGoroutine, StopOthers
  <1>3. StopInv => UnsubscribeStops
    BY BusAssumption DEF StopInv, UnsubscribeStops, Live
  <1> QED
    BY <1>1, <1>2, <1>3, TypeCorrect, PTL DEF Spec

-----------------------------------------------------------------------------
(* Where the next executions of an event come from: copies in queues and     *)
(* goroutines about to execute it.                                           *)
ReadyAt(e) == {q \in Queues : <<e, q>> \in ready}
Running(e) == {g \in Goroutines : gpc[g] = "process" /\ event[g] = e}

(* Each of them is owed.  What has not been published is nowhere. *)
OwedInv ==
  /\ \A m \in ready : m[1] \in sent
  /\ \A g \in Goroutines : gpc[g] \in {"process", "settle"} => event[g] \in sent
  /\ \A e \in Events : owed[e] >= Cardinality(ReadyAt(e)) + Cardinality(Running(e))

LEMMA Sizes ==
  ASSUME NEW e \in Events
  PROVE  /\ IsFiniteSet(ReadyAt(e)) /\ Cardinality(ReadyAt(e)) \in Nat
         /\ IsFiniteSet(Running(e)) /\ Cardinality(Running(e)) \in Nat
         /\ IsFiniteSet(ReadyAt(e)') /\ Cardinality(ReadyAt(e)') \in Nat
         /\ IsFiniteSet(Running(e)') /\ Cardinality(Running(e)') \in Nat
  BY BusAssumption, FS_Subset, FS_CardinalityType DEF ReadyAt, Running

(* An event to which nothing is added. *)
LEMMA OwedLess ==
  ASSUME TypeInv, NEW e \in Events, ReadyAt(e)' \subseteq ReadyAt(e), Running(e)' \subseteq Running(e),
         owed[e] >= Cardinality(ReadyAt(e)) + Cardinality(Running(e)), owed'[e] = owed[e]
  PROVE  owed'[e] >= Cardinality(ReadyAt(e)') + Cardinality(Running(e)')
  <1>1. Cardinality(ReadyAt(e)') <= Cardinality(ReadyAt(e)) /\ Cardinality(Running(e)') <= Cardinality(Running(e))
    BY Sizes, FS_Subset
  <1>2. owed[e] \in Int
    BY DEF TypeInv
  <1> QED
    BY <1>1, <1>2, Sizes

(* What comes back when channels close is owed again. *)
LEMMA OwedRequeued ==
  ASSUME TypeInv, TypeInv', OwedInv, Requeued, UNCHANGED <<event, sent>>,
         \A g \in Goroutines : gpc'[g] \in {"process", "settle"} => gpc'[g] = gpc[g]
  PROVE  OwedInv'
  <1>1. ASSUME NEW m \in Held PROVE m[1] \in sent
    <2>1. PICK g \in Handling(Goroutines) : m = <<event[g], gq[g]>>
      BY DEF Held
    <2>2. event[g] \in sent
      BY DEF Handling, OwedInv
    <2> QED
      BY <2>1, <2>2
  <1>2. \A m \in ready' : m[1] \in sent'
    BY <1>1 DEF Requeued, OwedInv
  <1>3. ASSUME NEW e \in Events
        PROVE  owed'[e] >= Cardinality(ReadyAt(e)') + Cardinality(Running(e)')
    <2> DEFINE H == {q \in Queues : <<e, q>> \in Held}
    <2>1. owed'[e] = owed[e] + Cardinality(H) /\ ReadyAt(e)' = ReadyAt(e) \cup H
      BY DEF Requeued, ReadyAt
    <2>2. IsFiniteSet(H) /\ Cardinality(H) \in Nat
      BY Counts
    <2>3. Cardinality(ReadyAt(e) \cup H) <= Cardinality(ReadyAt(e)) + Cardinality(H)
      <3>1. IsFiniteSet(ReadyAt(e)) /\ Cardinality(ReadyAt(e)) \in Nat
        BY Sizes
      <3>2. Cardinality(ReadyAt(e) \cap H) \in Nat
        BY <2>2, <3>1, FS_Intersection, FS_CardinalityType
      <3>3. Cardinality(ReadyAt(e) \cup H) = Cardinality(ReadyAt(e)) + Cardinality(H) - Cardinality(ReadyAt(e) \cap H)
        BY <2>2, <3>1, FS_Union
      <3> HIDE DEF H
      <3> QED
        BY <2>2, <3>1, <3>2, <3>3
    <2>4. Cardinality(Running(e)') <= Cardinality(Running(e))
      <3>1. Running(e)' \subseteq Running(e)
        BY DEF Running
      <3> QED
        BY <3>1, Sizes, FS_Subset
    <2>5. owed[e] \in Int /\ owed[e] >= Cardinality(ReadyAt(e)) + Cardinality(Running(e))
      BY DEF OwedInv, TypeInv
    <2> HIDE DEF H
    <2>6. Cardinality(ReadyAt(e)') <= Cardinality(ReadyAt(e)) + Cardinality(H)
      BY <2>1, <2>3
    <2>7. /\ Cardinality(ReadyAt(e)) \in Nat /\ Cardinality(ReadyAt(e)') \in Nat
          /\ Cardinality(Running(e)) \in Nat /\ Cardinality(Running(e)') \in Nat
      BY Sizes
    <2>8. owed'[e] = owed[e] + Cardinality(H)
      BY <2>1
    <2> QED
      BY <2>2, <2>4, <2>5, <2>6, <2>7, <2>8
  <1> QED
    BY <1>2, <1>3 DEF OwedInv

LEMMA OwedGoroutine ==
  ASSUME TypeInv, TypeInv', OwedInv, NEW g \in Goroutines, GoroutineStep(g) PROVE OwedInv'
  <1>1. CASE Register(g) \/ Leave(g)
    <2>1. UNCHANGED <<event, sent>> /\ (Requeued \/ UNCHANGED <<ready, owed>>)
      BY <1>1 DEF Register, Leave, broker, tables
    <2>2. \A h \in Goroutines : gpc'[h] \in {"process", "settle"} => gpc'[h] = gpc[h]
      BY <1>1 DEF Register, Leave, End, TypeInv
    <2>3. CASE UNCHANGED <<ready, owed>>
      <3>1. \A e \in Events : ReadyAt(e)' \subseteq ReadyAt(e) /\ Running(e)' \subseteq Running(e)
        BY <2>1, <2>2, <2>3 DEF ReadyAt, Running
      <3>2. \A e \in Events : owed'[e] >= Cardinality(ReadyAt(e)') + Cardinality(Running(e)')
        BY <2>3, <3>1, OwedLess DEF OwedInv
      <3> QED
        BY <2>1, <2>2, <2>3, <3>2 DEF OwedInv
    <2> QED
      BY <2>1, <2>2, <2>3, OwedRequeued
  <1>2. CASE Receive(g)
    <2>1. PICK e \in Events : /\ <<e, gq[g]>> \in ready /\ ready' = ready \ {<<e, gq[g]>>}
                              /\ event' = [event EXCEPT ![g] = e]
      BY <1>2 DEF Receive
    <2>2. gpc[g] = "consume" /\ gpc' = [gpc EXCEPT ![g] = "process"] /\ UNCHANGED <<sent, owed>>
      BY <1>2 DEF Receive, tables
    <2>3. ASSUME NEW d \in Events \ {e}
          PROVE  owed'[d] >= Cardinality(ReadyAt(d)') + Cardinality(Running(d)')
      <3>1. ReadyAt(d)' \subseteq ReadyAt(d) /\ Running(d)' \subseteq Running(d)
        BY <2>1, <2>2 DEF ReadyAt, Running, TypeInv
      <3> QED
        BY <2>2, <3>1, OwedLess DEF OwedInv
    <2>4. owed'[e] >= Cardinality(ReadyAt(e)') + Cardinality(Running(e)')
      <3>1. /\ gq[g] \in ReadyAt(e) /\ ReadyAt(e)' = ReadyAt(e) \ {gq[g]}
            /\ g \notin Running(e) /\ Running(e)' = Running(e) \cup {g}
        <4>1. gq[g] \in ReadyAt(e)
          BY <2>1 DEF ReadyAt, TypeInv
        <4>2. ReadyAt(e)' = ReadyAt(e) \ {gq[g]}
          BY <2>1 DEF ReadyAt
        <4>3. g \notin Running(e)
          BY <2>2 DEF Running
        <4>4. \A h \in Goroutines : gpc'[h] = "process" /\ event'[h] = e <=> h = g \/ h \in Running(e)
          BY <2>1, <2>2 DEF Running, TypeInv
        <4> QED
          BY <4>1, <4>2, <4>3, <4>4 DEF Running
      <3>2. /\ Cardinality(ReadyAt(e)') = Cardinality(ReadyAt(e)) - 1
            /\ Cardinality(Running(e)') = Cardinality(Running(e)) + 1
        <4>1. Cardinality(ReadyAt(e)') = Cardinality(ReadyAt(e)) - 1
          <5>1. IsFiniteSet(ReadyAt(e))
            BY Sizes
          <5> QED
            BY <3>1, <5>1, FS_RemoveElement
        <4>2. Cardinality(Running(e)') = Cardinality(Running(e)) + 1
          BY <3>1, Sizes, FS_AddElement
        <4> QED
          BY <4>1, <4>2
      <3>3. owed[e] \in Int /\ owed[e] >= Cardinality(ReadyAt(e)) + Cardinality(Running(e))
        BY DEF OwedInv, TypeInv
      <3> QED
        BY <2>2, <3>2, <3>3, Sizes
    <2>5. e \in sent
      BY <2>1 DEF OwedInv
    <2>6. /\ \A m \in ready' : m[1] \in sent'
          /\ \A h \in Goroutines : gpc'[h] \in {"process", "settle"} => event'[h] \in sent'
      BY <2>1, <2>2, <2>5 DEF OwedInv, TypeInv
    <2> QED
      BY <2>3, <2>4, <2>6 DEF OwedInv
  <1>3. CASE Process(g)
    <2>1. /\ gpc[g] = "process" /\ gpc' = [gpc EXCEPT ![g] = "settle"] /\ UNCHANGED <<event, ready, sent>>
          /\ owed' = owed \/ owed' = [owed EXCEPT ![event[g]] = @ - 1]
      BY <1>3 DEF Process, broker
    <2>2. event[g] \in Events
      BY <2>1 DEF TypeInv
    <2>3. ASSUME NEW d \in Events \ {event[g]}
          PROVE  owed'[d] >= Cardinality(ReadyAt(d)') + Cardinality(Running(d)')
      <3>1. ReadyAt(d)' \subseteq ReadyAt(d) /\ Running(d)' \subseteq Running(d) /\ owed'[d] = owed[d]
        BY <2>1 DEF ReadyAt, Running, TypeInv
      <3> QED
        BY <3>1, OwedLess DEF OwedInv
    <2>4. owed'[event[g]] >= Cardinality(ReadyAt(event[g])') + Cardinality(Running(event[g])')
      <3>1. PICK e \in Events : e = event[g]
        BY <2>2
      <3>2. /\ ReadyAt(e)' = ReadyAt(e) /\ g \in Running(e) /\ Running(e)' = Running(e) \ {g}
            /\ owed'[e] \in {owed[e], owed[e] - 1}
        BY <2>1, <3>1 DEF ReadyAt, Running, TypeInv
      <3>3. Cardinality(Running(e)') = Cardinality(Running(e)) - 1
        BY <3>2, Sizes, FS_RemoveElement
      <3>4. owed[e] \in Int /\ owed[e] >= Cardinality(ReadyAt(e)) + Cardinality(Running(e))
        BY DEF OwedInv, TypeInv
      <3>5. owed'[e] >= Cardinality(ReadyAt(e)') + Cardinality(Running(e)')
        <4>1. Cardinality(ReadyAt(e)) \in Nat /\ Cardinality(Running(e)) \in Nat
          BY Sizes
        <4>2. Cardinality(ReadyAt(e)') = Cardinality(ReadyAt(e))
          BY <3>2
        <4>3. owed'[e] = owed[e] \/ owed'[e] = owed[e] - 1
          BY <3>2
        <4> QED
          BY <3>3, <3>4, <4>1, <4>2, <4>3
      <3> QED
        BY <2>1, <3>1, <3>5 DEF ReadyAt, Running
    <2>5. \A d \in Events : owed'[d] >= Cardinality(ReadyAt(d)') + Cardinality(Running(d)')
      BY <2>1, <2>3, <2>4 DEF ReadyAt, Running
    <2>6. /\ \A m \in ready' : m[1] \in sent'
          /\ \A h \in Goroutines : gpc'[h] \in {"process", "settle"} => event'[h] \in sent'
      BY <2>1 DEF OwedInv, TypeInv
    <2> QED
      BY <2>5, <2>6 DEF OwedInv
  <1>4. CASE Settle(g)
    <2>1. /\ UNCHANGED <<ready, sent, owed>> /\ event' = [event EXCEPT ![g] = None]
          /\ \E p \in {"consume", "none"} : gpc' = [gpc EXCEPT ![g] = p]
      BY <1>4 DEF Settle, Acked, End, tables
    <2>2. \A e \in Events : ReadyAt(e)' \subseteq ReadyAt(e) /\ Running(e)' \subseteq Running(e)
      BY <2>1 DEF ReadyAt, Running, TypeInv
    <2>3. \A e \in Events : owed'[e] >= Cardinality(ReadyAt(e)') + Cardinality(Running(e)')
      BY <2>1, <2>2, OwedLess DEF OwedInv
    <2> QED
      BY <2>1, <2>3 DEF OwedInv, TypeInv
  <1> QED
    BY <1>1, <1>2, <1>3, <1>4 DEF GoroutineStep

LEMMA OwedOthers ==
  ASSUME TypeInv, TypeInv', OwedInv, [Next]_vars, \A g \in Goroutines : ~GoroutineStep(g) PROVE OwedInv'
  <1>1. ASSUME NEW e \in Events, Publish(e) PROVE OwedInv'
    <2>1. /\ e \notin sent /\ sent' = sent \cup {e} /\ UNCHANGED <<gpc, event>>
          /\ owed' = [owed EXCEPT ![e] = Cardinality(exists)]
          /\ ready' = ready \cup {<<e, q>> : q \in exists}
      BY <1>1 DEF Publish, gor
    <2>2. /\ \A m \in ready' : m[1] \in sent'
          /\ \A h \in Goroutines : gpc'[h] \in {"process", "settle"} => event'[h] \in sent'
      <3>1. ASSUME NEW m \in ready' PROVE m[1] \in sent'
        <4>1. m \in ready \/ \E q \in exists : m = <<e, q>>
          BY <2>1
        <4>2. CASE m \in ready
          BY <2>1, <4>2 DEF OwedInv
        <4>3. CASE \E q \in exists : m = <<e, q>>
          BY <2>1, <4>3
        <4> QED
          BY <4>1, <4>2, <4>3
      <3>2. ASSUME NEW h \in Goroutines, gpc'[h] \in {"process", "settle"} PROVE event'[h] \in sent'
        BY <2>1, <3>2 DEF OwedInv
      <3> QED
        BY <3>1, <3>2
    <2>3. ASSUME NEW d \in Events \ {e}
          PROVE  owed'[d] >= Cardinality(ReadyAt(d)') + Cardinality(Running(d)')
      <3>1. ReadyAt(d)' \subseteq ReadyAt(d) /\ Running(d)' \subseteq Running(d) /\ owed'[d] = owed[d]
        BY <2>1 DEF ReadyAt, Running, TypeInv
      <3> QED
        BY <3>1, OwedLess DEF OwedInv
    <2>4. ReadyAt(e)' = exists /\ Running(e)' = {} /\ owed'[e] = Cardinality(exists)
      <3>1. ASSUME NEW q \in Queues PROVE q \in ReadyAt(e)' <=> q \in exists
        <4>1. <<e, q>> \notin ready
          BY <2>1 DEF OwedInv
        <4> QED
          BY <2>1, <4>1 DEF ReadyAt
      <3>2. exists \subseteq Queues /\ ReadyAt(e)' \subseteq Queues
        BY DEF TypeInv, ReadyAt
      <3>3. Running(e)' = {}
        BY <2>1 DEF Running, OwedInv
      <3>4. owed'[e] = Cardinality(exists)
        BY <2>1 DEF TypeInv
      <3> QED
        BY <3>1, <3>2, <3>3, <3>4
    <2>5. Cardinality(Running(e)') = 0
      BY <2>4, FS_EmptySet
    <2>6. owed'[e] >= Cardinality(ReadyAt(e)') + Cardinality(Running(e)')
      <3>1. owed'[e] = Cardinality(ReadyAt(e)')
        BY <2>4
      <3>2. Cardinality(ReadyAt(e)') \in Nat
        BY Sizes
      <3> QED
        BY <2>5, <3>1, <3>2
    <2> QED
      BY <2>2, <2>3, <2>6 DEF OwedInv
  <1>2. CASE LoseConnection
    <2>1. Requeued /\ Cut(Goroutines) /\ UNCHANGED sent
      BY <1>2 DEF LoseConnection
    <2> QED
      BY <2>1, OwedRequeued DEF Cut
  <1>3. ASSUME UNCHANGED <<event, sent, owed>>, ready' \subseteq ready,
               \A g \in Goroutines : gpc'[g] \in {"process", "settle"} => gpc'[g] = gpc[g]
        PROVE  OwedInv'
    <2>1. \A e \in Events : ReadyAt(e)' \subseteq ReadyAt(e) /\ Running(e)' \subseteq Running(e)
      BY <1>3 DEF ReadyAt, Running
    <2>2. \A e \in Events : owed'[e] >= Cardinality(ReadyAt(e)') + Cardinality(Running(e)')
      BY <1>3, <2>1, OwedLess DEF OwedInv
    <2> QED
      BY <1>3, <2>2 DEF OwedInv
  <1>4. CASE \E q \in Queues : Subscribe(q) \/ Resubscribe(q)
    <2>1. UNCHANGED <<event, sent, owed, ready>>
      BY <1>4 DEF Subscribe, Resubscribe, Spawn, tables, gor
    <2>2. UNCHANGED gpc \/ gpc' = [gpc EXCEPT ![Free] = "register"]
      BY <1>4 DEF Subscribe, Resubscribe, Spawn, gor
    <2> QED
      BY <1>3, <2>1, <2>2 DEF TypeInv
  <1>5. CASE \E q \in Queues : Unsubscribe(q)
    <2>1. UNCHANGED <<event, sent, owed>> /\ ready' \subseteq ready
      BY <1>5 DEF Unsubscribe, Cut, tables
    <2>2. UNCHANGED gpc \/ \E q \in Queues : Cut(Live(q))
      BY <1>5 DEF Unsubscribe
    <2> QED
      BY <1>3, <2>1, <2>2 DEF Cut
  <1>6. CASE Reconnect \/ Shutdown \/ Close \/ UNCHANGED vars
    BY <1>3, <1>6 DEF Reconnect, Shutdown, Close, vars, gor, broker, tables
  <1> QED
    BY <1>1, <1>2, <1>4, <1>5, <1>6 DEF Next, WatcherStep

(* No event is executed more often than it was routed and redelivered: the   *)
(* copies in queues and the handlers about to execute are always covered by  *)
(* what publishing and the broker's redeliveries have added, whichever       *)
(* channels close under handlers and however many goroutines share a queue.  *)
THEOREM ExecutionsBounded == Spec => []RunsBounded
  <1>1. Init => OwedInv
    <2> SUFFICES ASSUME Init PROVE OwedInv
      OBVIOUS
    <2>1. \A e \in Events : ReadyAt(e) = {} /\ Running(e) = {} /\ owed[e] = 0
      BY DEF Init, ReadyAt, Running
    <2> QED
      BY <2>1, FS_EmptySet DEF Init, OwedInv
  <1>2. TypeInv /\ TypeInv' /\ OwedInv /\ [Next]_vars => OwedInv'
    BY OwedGoroutine, OwedOthers
  <1>3. TypeInv /\ OwedInv => RunsBounded
    <2> SUFFICES ASSUME TypeInv, OwedInv, NEW e \in Events PROVE owed[e] >= 0
      BY DEF RunsBounded
    <2>1. owed[e] \in Int /\ owed[e] >= Cardinality(ReadyAt(e)) + Cardinality(Running(e))
      BY DEF OwedInv, TypeInv
    <2> QED
      BY <2>1, Sizes
  <1> QED
    BY <1>1, <1>2, <1>3, TypeCorrect, PTL DEF Spec

-----------------------------------------------------------------------------
(* The delays between attempts to reconnect, for any base and cap. *)
CONSTANTS Base, Cap, DefaultBackoffBase, DefaultBackoffCap, Half
VARIABLE prev

Delay == INSTANCE Backoff

(* A delay is an integer between its bounds. *)
DelayInv == prev \in Int /\ Delay!SleepBounded

(* What Next computes with are integers. *)
LEMMA Fields == ASSUME Delay!Durations PROVE Delay!base \in Int /\ Delay!base > 0 /\ Delay!maxCap \in Int /\ Delay!maxCap > 0
  BY DEF Delay!Durations, Delay!base, Delay!maxCap

LEMMA Wraps == ASSUME Delay!Durations, NEW x \in Int PROVE Delay!Wrap(x) \in Int
  BY DEF Delay!Durations, Delay!Wrap

(* Within the range of an int64 arithmetic is exact. *)
LEMMA Exact == ASSUME Delay!Durations, NEW x \in Int, -Half <= x, x < Half PROVE Delay!Wrap(x) = x
  <1>1. x + Half \in 0..(2 * Half - 1)
    BY DEF Delay!Durations
  <1>2. \A a, b \in Int : 0 <= a /\ a < b => a % b = a
    OBVIOUS
  <1>3. (x + Half) % (2 * Half) = x + Half
    BY <1>1, <1>2 DEF Delay!Durations
  <1> QED
    BY <1>3 DEF Delay!Wrap, Delay!Durations

(* The delay drawn is an integer, which Clamped puts between the bounds. *)
LEMMA DrawnInt == ASSUME Delay!Durations, prev \in Int, NEW s \in Delay!Drawn PROVE s \in Int
  <1>1. Delay!base \in Int /\ Delay!From \in Int
    BY Fields DEF Delay!From
  <1>2. Delay!Wrap(3 * Delay!From) \in Int
    BY <1>1, Wraps
  <1>3. Delay!Wrap(Delay!Wrap(3 * Delay!From) - Delay!base) \in Int
    BY <1>1, <1>2, Wraps
  <1>4. \A n \in Int : Delay!Wrap(Delay!base + n) \in Int
    BY <1>1, Wraps
  <1> QED
    BY <1>1, <1>3, <1>4 DEF Delay!Drawn

(* Backoff.Next never returns less than base nor more than the cap: no       *)
(* overflow makes a reconnecting client spin or wait for ever.               *)
THEOREM DelaysBounded == ASSUME Delay!Durations PROVE Delay!Spec => []Delay!SleepBounded
  <1>1. Delay!Init => DelayInv
    BY DEF Delay!Init, DelayInv, Delay!SleepBounded
  <1>2. DelayInv /\ [Delay!Next]_prev => DelayInv'
    <2> SUFFICES ASSUME DelayInv, [Delay!Next]_prev PROVE DelayInv'
      OBVIOUS
    <2>1. CASE Delay!NextSleep
      <3>1. PICK s \in Delay!Drawn : prev' = Delay!Clamped(s)
        BY <2>1 DEF Delay!NextSleep
      <3>2. s \in Int
        BY DrawnInt DEF DelayInv
      <3> QED
        BY <3>1, <3>2, Fields DEF Delay!Clamped, Delay!Capped, DelayInv, Delay!SleepBounded
    <2>2. CASE Delay!Reset
      BY <2>2 DEF Delay!Reset, DelayInv, Delay!SleepBounded
    <2>3. CASE UNCHANGED prev
      BY <2>3 DEF DelayInv, Delay!SleepBounded
    <2> QED
      BY <2>1, <2>2, <2>3 DEF Delay!Next
  <1>3. DelayInv => Delay!SleepBounded
    BY DEF DelayInv
  <1> QED
    BY <1>1, <1>2, <1>3, PTL DEF Delay!Spec

(* With the defaults of NewBackoff, and whenever nothing overflows, a delay  *)
(* is at most three times the one before, three times base at first.         *)
THEOREM DelaysGrow == ASSUME Delay!Durations, Delay!Moderate PROVE Delay!Spec => [][Delay!Triples]_prev
  <1>1. Delay!Init => DelayInv
    BY DEF Delay!Init, DelayInv, Delay!SleepBounded
  <1>2. DelayInv /\ [Delay!Next]_prev => DelayInv' /\ [Delay!Triples]_prev
    <2> SUFFICES ASSUME DelayInv, [Delay!Next]_prev PROVE DelayInv' /\ [Delay!Triples]_prev
      OBVIOUS
    <2>1. /\ Delay!base \in Int /\ Delay!base > 0 /\ Delay!maxCap \in Int /\ Delay!maxCap > 0
          /\ Half \in Int /\ Half > 0
      BY Fields DEF Delay!Durations
    <2>2. Delay!From \in Int /\ Delay!From >= Delay!base /\ 3 * Delay!From < Half
      BY <2>1 DEF Delay!From, DelayInv, Delay!SleepBounded, Delay!Moderate, Delay!Durations
    <2>3. Delay!Wrap(3 * Delay!From) = 3 * Delay!From
      BY <2>1, <2>2, Exact
    <2>4. Delay!Wrap(3 * Delay!From - Delay!base) = 3 * Delay!From - Delay!base
      BY <2>1, <2>2, Exact
    <2>5. CASE Delay!NextSleep
      <3>1. PICK s \in Delay!Drawn : prev' = Delay!Clamped(s)
        BY <2>5 DEF Delay!NextSleep
      <3>2. s \in Int /\ s <= 3 * Delay!From
        <4>1. PICK n \in 0..(3 * Delay!From - Delay!base - 1) : s = Delay!Wrap(Delay!base + n)
          BY <2>1, <2>2, <2>3, <2>4 DEF Delay!Drawn
        <4>2. Delay!base + n \in Int /\ -Half <= Delay!base + n /\ Delay!base + n < Half
          BY <2>1, <2>2
        <4>3. s = Delay!base + n
          BY <4>1, <4>2, Exact
        <4> QED
          BY <2>1, <2>2, <4>3
      <3> QED
        BY <3>1, <3>2, <2>1, <2>2 DEF Delay!Clamped, Delay!Capped, DelayInv, Delay!SleepBounded, Delay!Triples
    <2>6. CASE Delay!Reset
      BY <2>6, <2>1, <2>2 DEF Delay!Reset, DelayInv, Delay!SleepBounded, Delay!Triples
    <2>7. CASE UNCHANGED prev
      BY <2>7 DEF DelayInv, Delay!SleepBounded
    <2> QED
      BY <2>5, <2>6, <2>7 DEF Delay!Next
  <1> QED
    BY <1>1, <1>2, PTL DEF Delay!Spec
=============================================================================
