----------------------------- MODULE DockerPool -----------------------------
(***************************************************************************)
(* The warm pool of Docker containers of one function, as implemented by   *)
(* lambda-service/internal/pool/docker_pool.go.                            *)
(*                                                                         *)
(* Goroutines of the model:                                                *)
(*   Callers  requests: Acquire, then Release or Discard; Evict            *)
(*   Makers   what runs enqueueNew: Start's fill, CreateNew, and the       *)
(*            background goroutines the wait group counts                  *)
(*   Closers  goroutines that call Shutdown                                *)
(*   and the lifecycle goroutine (runLifecycle).                           *)
(*                                                                         *)
(* A step of the model lies between two accesses to shared state: the idle *)
(* channel, the inUse map, the closed flag, the wait group and the Docker  *)
(* daemon.  Every call to the daemon may fail.                             *)
(***************************************************************************)
EXTENDS Naturals, Sequences, FiniteSets, Functions

CONSTANTS Containers,   \* container IDs; one that nothing knows is used again
          Callers, Makers, Closers,
          MinSize,      \* PoolConfig.MinSize
          MaxSize,      \* PoolConfig.MaxSize, the capacity of the idle channel
          MaxUseCount,  \* PoolConfig.MaxUseCount; 0 means unlimited
          None          \* no container

ASSUME PoolConfigAssumption ==
  MinSize \in Nat /\ MaxSize \in Nat \ {0} /\ MaxUseCount \in Nat

ASSUME RolesAssumption ==
  /\ None \notin Containers
  /\ Callers \cap Makers = {} /\ Callers \cap Closers = {} /\ Makers \cap Closers = {}

VARIABLES
  idle,        \* the idle channel, oldest first
  idleClosed,  \* the idle channel has been closed
  inUse,       \* keys of the inUse map
  uses,        \* Container.UseCount
  closed,      \* the closed flag; stopCh is closed right after it is set
  panic,       \* why the process crashed, or "no"
  docker,      \* containers that exist at the Docker daemon
  leaked,      \* those of them whose start or removal failed
  pc, has,     \* where a goroutine is, and the container it holds
  wg,          \* makers the wait group counts
  starter,     \* makers that run Start
  must,        \* keys a Shutdown's range over inUse has still to visit
  lpc, keep, deficit,  \* the lifecycle goroutine
  stopping     \* containers handed to a `go stopDockerContainer`

chan == <<idle, idleClosed>>
table == <<inUse, uses>>
flags == <<closed, panic>>
daemon == <<docker, leaked>>
roles == <<wg, starter>>
cycle == <<lpc, keep, deficit, stopping>>
vars == <<chan, table, flags, daemon, pc, has, roles, must, cycle>>

Goroutines == Callers \cup Makers \cup Closers

PC == {"out",
       "acquire", "got", "use", "retire", "spawn", "warm", "discard",
       "stop", "replenish", "fill", "enter", "create", "seed", "recheck", "launch",
       "send", "drop", "dropErr",
       "wait", "close", "drain", "sweep", "done"}

TypeOK ==
  /\ idle \in Seq(Containers) /\ Len(idle) <= MaxSize /\ idleClosed \in BOOLEAN
  /\ inUse \subseteq Containers /\ uses \in [Containers -> Nat]
  /\ closed \in BOOLEAN /\ panic \in {"no", "sendClosed", "nilContainer"}
  /\ docker \subseteq Containers /\ leaked \subseteq docker
  /\ pc \in [Goroutines -> PC] /\ has \in [Goroutines -> Containers \cup {None}]
  /\ wg \subseteq Makers /\ starter \subseteq Makers
  /\ must \in [Closers -> SUBSET Containers]
  /\ lpc \in {"none", "select", "drain", "putback", "replenish", "exited"}
  /\ keep \in Seq(Containers) /\ deficit \in Nat
  /\ stopping \subseteq Containers

Init ==
  /\ idle = <<>> /\ idleClosed = FALSE
  /\ inUse = {} /\ uses = [c \in Containers |-> 0]
  /\ closed = FALSE /\ panic = "no"
  /\ docker = {} /\ leaked = {}
  /\ pc = [g \in Goroutines |-> "out"] /\ has = [g \in Goroutines |-> None]
  /\ wg = {} /\ starter = {} /\ must = [k \in Closers |-> {}]
  /\ lpc = "none" /\ keep = <<>> /\ deficit = 0 /\ stopping = {}

-----------------------------------------------------------------------------
(* Shared pieces *)

(* Goroutine g goes to p and holds c. *)
Step(g, p, c) == pc' = [pc EXCEPT ![g] = p] /\ has' = [has EXCEPT ![g] = c]

(* Containers some goroutine, channel or map of the process refers to. *)
Known == Range(idle) \cup Range(keep) \cup Range(has) \cup inUse \cup stopping

(* ContainerRemove succeeds. *)
Removed(c) == docker' = docker \ {c} /\ leaked' = leaked \ {c}

(* Mutant of Stop: the container is forgotten, not removed. *)
StopForgets(c) == UNCHANGED daemon

(* stopDockerContainer, its error ignored by the caller *)
Stop(c) ==
  \/ Removed(c)
  \/ c \in docker /\ leaked' = leaked \cup {c} /\ UNCHANGED docker

(* Mutant of CanSend: off by one. *)
CanSendOneMore == Len(idle) <= MaxSize

(* The select around `p.idle <- c` does not take its default. *)
CanSend == Len(idle) < MaxSize

(* Mutant of Exhausted: off by one. *)
ExhaustedLate(c) == MaxUseCount > 0 /\ uses[c] > MaxUseCount

Exhausted(c) == MaxUseCount > 0 /\ uses[c] >= MaxUseCount

(* wg.Add(1); go func() {...}() *)
Spawned(m) == m \in Makers /\ pc[m] = "out" /\ wg' = wg \cup {m}

(* Mutant of WgZero: Shutdown does not wait. *)
WgIgnored == TRUE

(* The wait group's counter is zero. *)
WgZero == wg = {} /\ lpc \in {"none", "exited"}

(* Where g goes on when enqueueNew (or Release) returns: Start's loop fills  *)
(* on unless there was an error, the others end.                             *)
Returned(g, failed) ==
  IF g \in starter THEN IF failed THEN "launch" ELSE "fill" ELSE "out"

(* A maker that ends is not counted any more: defer wg.Done() *)
EndRole(g, p) ==
  wg' = (IF p = "out" THEN wg \ {g} ELSE wg) /\ UNCHANGED starter

-----------------------------------------------------------------------------
(* Acquire *)

CallAcquire(w) ==
  /\ pc[w] = "out"
  /\ Step(w, "acquire", None)
  /\ UNCHANGED <<chan, table, flags, daemon, roles, must, cycle>>

AcquireReceive(w) ==
  /\ pc[w] = "acquire" /\ idle # <<>>
  /\ idle' = Tail(idle)
  /\ Step(w, "got", Head(idle))
  /\ UNCHANGED <<idleClosed, table, flags, daemon, roles, must, cycle>>

(* The request's context ends, or the receive yields nil (pool is shut down). *)
AcquireFail(w) ==
  /\ pc[w] = "acquire"
  /\ Step(w, "out", None)
  /\ UNCHANGED <<chan, table, flags, daemon, roles, must, cycle>>

(* UseCount++ and inUse.Store.  A Shutdown that is ranging over the map may  *)
(* or may not visit the new key.                                             *)
AcquireStore(w) ==
  /\ pc[w] = "got"
  /\ Step(w, "use", has[w])
  /\ uses' = [uses EXCEPT ![has[w]] = @ + 1]
  /\ inUse' = inUse \cup {has[w]}
  /\ \E late \in SUBSET {k \in Closers : pc[k] = "sweep"} :
       must' = [k \in Closers |-> IF k \in late THEN must[k] \cup {has[w]} ELSE must[k]]
  /\ UNCHANGED <<chan, flags, daemon, roles, cycle>>

-----------------------------------------------------------------------------
(* Release, Discard and Evict *)

(* Mutant of Release: offered while the request still uses it. *)
ReleaseEarly(w) ==
  /\ pc[w] = "use" /\ CanSend /\ ~idleClosed
  /\ idle' = Append(idle, has[w])
  /\ UNCHANGED <<idleClosed, table, flags, daemon, pc, has, roles, must, cycle>>

Release(w) ==
  /\ pc[w] = "use"
  /\ inUse' = inUse \ {has[w]}
  /\ Step(w, IF Exhausted(has[w]) THEN "retire" ELSE "warm", has[w])
  /\ UNCHANGED <<chan, uses, flags, daemon, roles, must, cycle>>

(* The container has reached MaxUseCount.  Release returns when the removal  *)
(* fails, which it also does when the container is gone already.             *)
ReleaseRetire(w) ==
  /\ pc[w] = "retire"
  /\ \/ /\ has[w] \in docker
        /\ Removed(has[w])
        /\ Step(w, "spawn", None)
     \/ /\ leaked' = leaked \cup ({has[w]} \cap docker)
        /\ Step(w, "out", None)
        /\ UNCHANGED docker
  /\ UNCHANGED <<chan, table, flags, roles, must, cycle>>

(* Mutant of Discard: inUse.Delete is missing. *)
DiscardKeepsEntry(w) ==
  /\ pc[w] = "use"
  /\ Step(w, "discard", has[w])
  /\ UNCHANGED <<chan, table, flags, daemon, roles, must, cycle>>

Discard(w) ==
  /\ pc[w] = "use"
  /\ inUse' = inUse \ {has[w]}
  /\ Step(w, "discard", has[w])
  /\ UNCHANGED <<chan, uses, flags, daemon, roles, must, cycle>>

(* The goroutine that replaces a retired container, or that stops and        *)
(* replaces a discarded one                                                  *)
SpawnReplacement(w) ==
  /\ pc[w] \in {"spawn", "discard"}
  /\ \E m \in Makers :
       /\ Spawned(m)
       /\ pc' = [pc EXCEPT ![w] = "out",
                           ![m] = IF pc[w] = "spawn" THEN "replenish" ELSE "stop"]
       /\ has' = [has EXCEPT ![w] = None, ![m] = has[w]]
  /\ UNCHANGED <<chan, table, flags, daemon, starter, must, cycle>>

(* Receiving from the closed and drained channel yields nil; c.ID panics. *)
Evict(w) ==
  /\ pc[w] = "out"
  /\ \/ /\ idle # <<>>
        /\ idle' = Tail(idle)
        /\ Step(w, "drop", Head(idle))
        /\ UNCHANGED panic
     \/ /\ idle = <<>> /\ idleClosed
        /\ panic' = "nilContainer"
        /\ UNCHANGED <<idle, pc, has>>
  /\ UNCHANGED <<idleClosed, table, closed, daemon, roles, must, cycle>>

-----------------------------------------------------------------------------
(* Start, CreateNew, replenishOne and enqueueNew *)

(* Start is called once; neither it nor CreateNew is counted by the wait     *)
(* group while it runs enqueueNew.                                           *)
Start(m) ==
  /\ pc[m] = "out" /\ lpc = "none" /\ starter = {}
  /\ starter' = {m}
  /\ Step(m, "fill", None)
  /\ UNCHANGED <<chan, table, flags, daemon, wg, must, cycle>>

CreateNew(m) ==
  /\ pc[m] = "out"
  /\ Step(m, "enter", None)
  /\ UNCHANGED <<chan, table, flags, daemon, roles, must, cycle>>

(* The tests of len(idle) and closed in Start, replenishOne, enqueueNew and  *)
(* Release, which only decide where the goroutine goes on.                   *)
Tested(g) ==
  CASE pc[g] = "fill"      -> IF Len(idle) < MinSize THEN "enter" ELSE "launch"
    [] pc[g] = "replenish" -> IF Len(idle) < MinSize THEN "enter" ELSE "out"
    [] pc[g] = "enter"     -> IF closed THEN Returned(g, TRUE) ELSE "create"
    [] pc[g] = "recheck"   -> IF closed THEN "dropErr" ELSE "send"
    [] pc[g] = "warm"      -> IF closed THEN "drop" ELSE "send"

Test(g) ==
  /\ pc[g] \in {"fill", "replenish", "enter", "recheck", "warm"}
  /\ Step(g, Tested(g), has[g])
  /\ EndRole(g, Tested(g))
  /\ UNCHANGED <<chan, table, flags, daemon, must, cycle>>

(* createDockerContainer: when ContainerStart fails nothing removes what     *)
(* ContainerCreate made.                                                     *)
Create(m) ==
  /\ pc[m] = "create"
  /\ \/ \E c \in Containers \ (docker \cup Known) :
          /\ docker' = docker \cup {c}
          /\ \/ /\ Step(m, "seed", c)
                /\ uses' = [uses EXCEPT ![c] = 0]
                /\ UNCHANGED <<leaked, roles>>
             \/ /\ Step(m, Returned(m, TRUE), None)
                /\ EndRole(m, Returned(m, TRUE))
                /\ leaked' = leaked \cup {c}
                /\ UNCHANGED uses
     \/ /\ Step(m, Returned(m, TRUE), None)
        /\ EndRole(m, Returned(m, TRUE))
        /\ UNCHANGED <<daemon, uses>>
  /\ UNCHANGED <<chan, inUse, flags, must, cycle>>

(* SeedFunc succeeds or fails. *)
Seed(m) ==
  /\ pc[m] = "seed"
  /\ \E p \in {"recheck", "dropErr"} : Step(m, p, has[m])
  /\ UNCHANGED <<chan, table, flags, daemon, roles, must, cycle>>

(* select { case p.idle <- c: default: } in Release and enqueueNew; a send   *)
(* on a closed channel panics.                                               *)
Send(g) ==
  /\ pc[g] = "send"
  /\ \/ /\ idleClosed
        /\ panic' = "sendClosed"
        /\ UNCHANGED <<idle, pc, has, roles>>
     \/ /\ ~idleClosed /\ CanSend
        /\ idle' = Append(idle, has[g])
        /\ Step(g, Returned(g, FALSE), None)
        /\ EndRole(g, Returned(g, FALSE))
        /\ UNCHANGED panic
     \/ /\ ~idleClosed /\ ~CanSend
        /\ Step(g, "drop", has[g])
        /\ UNCHANGED <<idle, panic, roles>>
  /\ UNCHANGED <<idleClosed, table, closed, daemon, must, cycle>>

(* Mutant of Drop: no return after the stop that follows a failed seed. *)
DropGoesOn(g) ==
  /\ pc[g] = "dropErr"
  /\ Stop(has[g])
  /\ Step(g, "recheck", has[g])
  /\ UNCHANGED <<chan, table, flags, roles, must, cycle>>

(* stopDockerContainer on a container that was discarded, not seeded, came   *)
(* too late, did not fit, or was received by Evict or Shutdown               *)
Drop(g) ==
  /\ pc[g] \in {"stop", "drop", "dropErr"}
  /\ Stop(has[g])
  /\ LET next == CASE pc[g] = "stop" -> "replenish"
                   [] g \in Closers  -> "drain"
                   [] OTHER          -> Returned(g, pc[g] = "dropErr")
     IN  Step(g, next, None) /\ EndRole(g, next)
  /\ UNCHANGED <<chan, table, flags, must, cycle>>

(* The end of Start.  A lifecycle goroutine that starts after Shutdown finds *)
(* stopCh closed in its first select, before any tick.                       *)
StartLifecycle(m) ==
  /\ pc[m] = "launch"
  /\ Step(m, "out", None)
  /\ lpc' = IF closed THEN "exited" ELSE "select"
  /\ starter' = {}
  /\ UNCHANGED <<chan, table, flags, daemon, wg, must, keep, deficit, stopping>>

-----------------------------------------------------------------------------
(* runLifecycle and evictAndReplenish *)

Tick ==
  /\ lpc = "select" /\ lpc' = "drain"
  /\ UNCHANGED <<chan, table, flags, daemon, pc, has, roles, must, keep, deficit,
                 stopping>>

(* stopCh is closed, or the service context is cancelled (at any time). *)
LifecycleExit ==
  /\ lpc = "select" /\ lpc' = "exited"
  /\ UNCHANGED <<chan, table, flags, daemon, pc, has, roles, must, keep, deficit,
                 stopping>>

(* A drained container is fresh or has been idle for MaxIdleTime. *)
LifecycleDrain ==
  /\ lpc = "drain"
  /\ \/ /\ idle # <<>>
        /\ idle' = Tail(idle)
        /\ \/ keep' = Append(keep, Head(idle)) /\ UNCHANGED stopping
           \/ stopping' = stopping \cup {Head(idle)} /\ UNCHANGED keep
        /\ UNCHANGED <<lpc, panic>>
     \/ /\ idle = <<>>
        /\ IF idleClosed THEN panic' = "nilContainer" /\ UNCHANGED lpc
                         ELSE lpc' = "putback" /\ UNCHANGED panic
        /\ UNCHANGED <<idle, keep, stopping>>
  /\ UNCHANGED <<idleClosed, table, closed, daemon, pc, has, roles, must, deficit>>

(* Mutant of Deficit: a container in use counts towards MinSize. *)
DeficitWithInUse == IF Len(idle) < MinSize /\ inUse = {} THEN MinSize - Len(idle) ELSE 0

Deficit == IF Len(idle) < MinSize THEN MinSize - Len(idle) ELSE 0

LifecyclePutBack ==
  /\ lpc = "putback"
  /\ \/ /\ keep # <<>>
        /\ keep' = Tail(keep)
        /\ panic' = IF idleClosed THEN "sendClosed" ELSE panic
        /\ IF CanSend
             THEN idle' = Append(idle, Head(keep)) /\ UNCHANGED stopping
             ELSE stopping' = stopping \cup {Head(keep)} /\ UNCHANGED idle
        /\ UNCHANGED <<lpc, deficit>>
     \/ /\ keep = <<>>
        /\ lpc' = "replenish" /\ deficit' = Deficit
        /\ UNCHANGED <<idle, keep, stopping, panic>>
  /\ UNCHANGED <<idleClosed, table, closed, daemon, pc, has, roles, must>>

LifecycleReplenish ==
  /\ lpc = "replenish"
  /\ \/ /\ deficit > 0 /\ deficit' = deficit - 1
        /\ \E m \in Makers : Spawned(m) /\ Step(m, "enter", None)
        /\ UNCHANGED lpc
     \/ /\ deficit = 0 /\ lpc' = "select"
        /\ UNCHANGED <<deficit, pc, has, wg>>
  /\ UNCHANGED <<chan, table, flags, daemon, starter, must, keep, stopping>>

StopEvicted(c) ==
  /\ c \in stopping
  /\ stopping' = stopping \ {c}
  /\ Stop(c)
  /\ UNCHANGED <<chan, table, flags, pc, has, roles, must, lpc, keep, deficit>>

-----------------------------------------------------------------------------
(* Shutdown *)

(* closed.CompareAndSwap(false, true) and close(stopCh) *)
Shutdown(k) ==
  /\ pc[k] = "out"
  /\ Step(k, IF closed THEN "drain" ELSE "wait", None)
  /\ closed' = TRUE
  /\ UNCHANGED <<chan, table, panic, daemon, roles, must, cycle>>

ShutdownWait(k) ==
  /\ pc[k] = "wait" /\ WgZero
  /\ Step(k, "close", None)
  /\ UNCHANGED <<chan, table, flags, daemon, roles, must, cycle>>

(* Mutant of ShutdownClose: close(p.idle) is missing. *)
ShutdownNoClose(k) ==
  /\ pc[k] = "close"
  /\ Step(k, "drain", None)
  /\ UNCHANGED <<chan, table, flags, daemon, roles, must, cycle>>

ShutdownClose(k) ==
  /\ pc[k] = "close"
  /\ idleClosed' = TRUE
  /\ Step(k, "drain", None)
  /\ UNCHANGED <<idle, table, flags, daemon, roles, must, cycle>>

(* for c := range p.idle; Drop stops what it receives. *)
ShutdownDrain(k) ==
  /\ pc[k] = "drain"
  /\ \/ /\ idle # <<>>
        /\ idle' = Tail(idle)
        /\ Step(k, "drop", Head(idle))
        /\ UNCHANGED must
     \/ /\ idle = <<>> /\ idleClosed
        /\ Step(k, "sweep", None)
        /\ must' = [must EXCEPT ![k] = inUse]
        /\ UNCHANGED idle
  /\ UNCHANGED <<idleClosed, table, flags, daemon, roles, cycle>>

(* inUse.Range: a key deleted before its turn is not visited. *)
ShutdownSweep(k) ==
  /\ pc[k] = "sweep"
  /\ \/ /\ \E c \in must[k] :
             /\ must' = [must EXCEPT ![k] = @ \ {c}]
             /\ IF c \in inUse THEN Stop(c) ELSE UNCHANGED daemon
        /\ UNCHANGED <<pc, has>>
     \/ /\ must[k] = {}
        /\ Step(k, "done", None)
        /\ UNCHANGED <<daemon, must>>
  /\ UNCHANGED <<chan, table, flags, roles, cycle>>

-----------------------------------------------------------------------------

CallerNext(w) ==
  \/ CallAcquire(w) \/ AcquireReceive(w) \/ AcquireFail(w) \/ AcquireStore(w)
  \/ Release(w) \/ ReleaseRetire(w) \/ Discard(w) \/ SpawnReplacement(w) \/ Evict(w)

MakerNext(m) ==
  Start(m) \/ CreateNew(m) \/ Create(m) \/ Seed(m) \/ StartLifecycle(m)

LifecycleNext ==
  \/ Tick \/ LifecycleExit \/ LifecycleDrain \/ LifecyclePutBack
  \/ LifecycleReplenish \/ \E c \in Containers : StopEvicted(c)

CloserNext(k) ==
  \/ Shutdown(k) \/ ShutdownWait(k) \/ ShutdownClose(k) \/ ShutdownDrain(k)
  \/ ShutdownSweep(k)

Running ==
  /\ panic = "no"
  /\ \/ \E w \in Callers : CallerNext(w)
     \/ \E m \in Makers : MakerNext(m)
     \/ \E k \in Closers : CloserNext(k)
     \/ \E g \in Goroutines : Test(g) \/ Send(g) \/ Drop(g)
     \/ LifecycleNext

(* A panic in any goroutine ends the process. *)
Crashed == panic # "no" /\ UNCHANGED vars

Next == Running \/ Crashed

Spec == Init /\ [][Next]_vars

-----------------------------------------------------------------------------
(* Properties *)

(* Where a goroutine is working on a container. *)
Holding == {"got", "use", "retire", "warm", "discard", "stop", "seed", "recheck",
            "send", "drop", "dropErr"}

(* The type invariant's inductive form. *)
TypeInv == TypeOK /\ \A g \in Goroutines : pc[g] \in Holding => has[g] # None

Held(S, pcs) == {has[g] : g \in {x \in S : pc[x] \in pcs}}

(* A container has at most one owner among the idle channel, the lifecycle   *)
(* goroutine's keep list, the goroutines that stop evicted ones and all      *)
(* others, however Acquire, Release, Discard, the TTL eviction and Shutdown  *)
(* interleave; the inUse map holds exactly what requests are using.          *)
ExclusiveOwnership ==
  /\ IsInjective(idle) /\ IsInjective(keep)
  /\ \A g, h \in Goroutines : has[g] = has[h] /\ has[g] # None => g = h
  /\ \A g \in Goroutines : has[g] \notin Range(idle) \cup Range(keep) \cup stopping
  /\ Range(idle) \cap Range(keep) = {}
  /\ stopping \cap (Range(idle) \cup Range(keep)) = {}
  /\ inUse = Held(Callers, {"use"})

(* What Acquire can hand out exists at the daemon: a container is never      *)
(* removed, nor left half removed, while it waits in the idle channel, in    *)
(* the keep list or in enqueueNew, and one that a request uses is removed    *)
(* only by a Shutdown that has closed the channel.                           *)
HandoutAlive ==
  /\ Range(idle) \cup Range(keep) \subseteq docker \ leaked
  /\ Held(Goroutines, {"got", "seed", "recheck", "send"}) \subseteq docker \ leaked
  /\ ~idleClosed => Held(Callers, {"use", "warm"}) \subseteq docker \ leaked

(* A container is lost track of only when the daemon failed to start or to   *)
(* remove it: every other existing container is known to some part of the    *)
(* pool, so that once Shutdown has returned and the other goroutines are     *)
(* through, nothing but those failures is left running.                      *)
NoSilentLeak ==
  /\ docker \ leaked \subseteq Known
  /\ (/\ \E k \in Closers : pc[k] = "done"
      /\ \A g \in Goroutines : pc[g] \in {"out", "done", "acquire"}
      /\ stopping = {})
     => docker \subseteq leaked

(* No request runs in a container beyond its MaxUseCount-th use, and one     *)
(* that waits in the pool has a use left.                                    *)
UseCountBound ==
  MaxUseCount > 0 =>
    /\ \A c \in Containers : uses[c] <= MaxUseCount
    /\ \A c \in Range(idle) \cup Range(keep) : uses[c] < MaxUseCount

(* The goroutines the wait group counts never touch the closed channel: when *)
(* Shutdown closes idle the lifecycle goroutine has ended and no background  *)
(* enqueueNew is past its closed check, not even one that a Release or       *)
(* Discard spawned after wg.Wait returned.                                   *)
BackgroundSafe ==
  idleClosed =>
    /\ closed
    /\ lpc \in {"none", "exited"}
    /\ \A m \in wg : pc[m] \notin {"create", "seed", "recheck", "send"}

(* Its inductive form: it holds from the moment wg.Wait returns.             *)
BackgroundInv ==
  /\ \A k \in Closers : pc[k] \in {"wait", "close"} => closed
  /\ (idleClosed \/ \E k \in Closers : pc[k] = "close") =>
       /\ closed
       /\ lpc \in {"none", "exited"}
       /\ \A m \in wg : pc[m] \notin {"create", "seed", "recheck", "send"}

(* docker_pool.go:25, of the closed flag: "guards against send on closed     *)
(* chan".                                                                    *)
NoSendOnClosed == panic # "sendClosed"

(* The pool as its callers see it: a lease lasts from the receive in Acquire *)
(* to the inUse.Delete that begins Release or Discard.                       *)
LeaseOf == [w \in Callers |-> IF pc[w] \in {"got", "use"} THEN has[w] ELSE None]

Lease == INSTANCE LeasePool WITH
  Environments <- Containers, Requests <- Callers, Nothing <- None,
  available <- Range(idle), lease <- LeaseOf, shut <- idleClosed

(* DockerPool implements LeasePool: a container is leased to one request at  *)
(* a time, is offered again only after its request gave it up, and nothing   *)
(* is offered once Shutdown has closed the channel.                          *)
ImplementsLeasePool == Lease!LeaseSpec

-----------------------------------------------------------------------------
(* Fairness: a background goroutine that can run does run; requests may keep *)
(* a container, or hang in Release, for ever.  Go's select picks at random   *)
(* among its ready cases, so the lifecycle goroutine cannot prefer the       *)
(* ticker to a closed stopCh for ever; starting a goroutine never blocks.    *)
Alive(A) == panic = "no" /\ A

BackgroundFairness ==
  /\ \A m \in Makers :
       WF_vars(Alive(Test(m) \/ Create(m) \/ Seed(m) \/ Send(m) \/ Drop(m)
                     \/ StartLifecycle(m)))
  /\ WF_vars(Alive(Tick \/ LifecycleDrain \/ LifecyclePutBack))
  /\ SF_vars(Alive(LifecycleReplenish))

ShutdownSpec ==
  /\ Spec /\ BackgroundFairness
  /\ SF_vars(Alive(closed /\ LifecycleExit))
  /\ \A k \in Closers :
       WF_vars(Alive(ShutdownWait(k) \/ ShutdownClose(k) \/ ShutdownDrain(k)
                     \/ Drop(k) \/ ShutdownSweep(k)))

(* Here also: evicted containers are stopped, a channel serves its receivers *)
(* in order, and the daemon does not refuse every container for ever.        *)
ServeSpec ==
  /\ Spec /\ BackgroundFairness
  /\ WF_vars(Alive(\E c \in Containers : StopEvicted(c)))
  /\ \A w \in Callers : SF_vars(Alive(AcquireReceive(w)))
  /\ SF_vars(Alive(\E m \in Makers : Create(m) /\ pc'[m] = "seed"))
  /\ SF_vars(Alive(\E m \in Makers : Seed(m) /\ pc'[m] = "recheck"))

(* Shutdown returns: wg.Wait, the range over idle (also in a second call,    *)
(* which ranges over a channel only the first one closes) and the range over *)
(* inUse all end, unless the process panics.                                 *)
ShutdownCompletes ==
  \A k \in Closers : pc[k] # "out" ~> pc[k] = "done" \/ panic # "no"

(* With MinSize > 0 a request that waits in Acquire is served even if every  *)
(* container in use stays in use: the lifecycle goroutine tops up the idle   *)
(* channel as long as it runs and the daemon does not lose containers.       *)
WaiterServed ==
  MinSize > 0 =>
    \A w \in Callers :
      (pc[w] = "acquire" /\ lpc # "none")
        ~> (pc[w] # "acquire" \/ lpc = "exited" \/ leaked # {} \/ panic # "no")
=============================================================================
