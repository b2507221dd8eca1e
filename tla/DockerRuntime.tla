---------------------------- MODULE DockerRuntime ----------------------------
(***************************************************************************)
(* How an invocation gets a container (internal/executor/docker.go,        *)
(* pool_registry.go, manager.go, internal/invoke/handler.go): the registry *)
(* keeps one pool per function and replaces it when the function's code    *)
(* key changes; the runtime executes in a container of that pool, polls    *)
(* the exec, and gives the container back or discards it; the manager      *)
(* shuts the registry down when the service stops, and a new process       *)
(* removes the containers an earlier one has left.                         *)
(*                                                                         *)
(* One function is modelled: nothing is shared between entries.  A pool is *)
(* what DockerPool promises, its own races being the subject of that       *)
(* module.                                                                 *)
(***************************************************************************)
EXTENDS Naturals, FiniteSets

CONSTANTS Requests, Pools, Containers,
          Keys,        \* code keys of the function's versions
          Contents,    \* code, which GetFunction leaves where the key was
          MinSize,     \* containers a pool keeps warm
          MaxFaults,   \* bound on failing Docker calls and crashes together
          None

ASSUME RuntimeAssumption ==
  /\ MinSize \in Nat \ {0} /\ MaxFaults \in Nat
  /\ None \notin Requests \cup Pools \cup Containers \cup Keys \cup Contents

VARIABLES
  phase,     \* of the process: serving, closing its pools, exited, crashed
  entry,     \* the registry's pool for the function
  key,       \* key[p]: the code key pool p seeds, None while p is not in use
  shutting,  \* pools that some goroutine is shutting down
  closed,    \* pools whose `closed` flag is set
  state,     \* of a container: none, created, idle, used
  home,      \* its pool, None when an earlier process has left it
  maker,     \* the request in whose Start it is created, or None
  overdue,   \* containers in which an exec that timed out may still run
  rpc,       \* where a request is
  asked,     \* the code key it read from the repository
  from, hold,\* its pool and its container
  waits,     \* the pool the registry's Shutdown waits for
  busy,      \* requests or replaced pools were active when the registry shut down
  missed,    \* a startup sweep could not list the containers
  faults

registry == <<entry, key, shutting, closed>>
docker == <<state, home, maker, overdue>>
request == <<rpc, asked, from, hold>>
process == <<phase, waits, busy, missed>>
vars == <<registry, docker, request, process, faults>>

Alive == {c \in Containers : state[c] # "none"}
Of(p) == {c \in Containers : home[c] = p}
Active == {r \in Requests : rpc[r] # "idle"}
Gone(r) == state[hold[r]] = "none"

Init ==
  /\ phase = "serving" /\ waits = None /\ busy = FALSE /\ missed = FALSE /\ faults = 0
  /\ entry = None /\ key = [p \in Pools |-> None]
  /\ shutting = {} /\ closed = {}
  /\ state = [c \in Containers |-> "none"] /\ home = [c \in Containers |-> None]
  /\ maker = [c \in Containers |-> None] /\ overdue = {}
  /\ rpc = [r \in Requests |-> "idle"] /\ asked = [r \in Requests |-> None]
  /\ from = [r \in Requests |-> None] /\ hold = [r \in Requests |-> None]

Fault == faults < MaxFaults /\ faults' = faults + 1
Fine == UNCHANGED faults

Up == phase \in {"serving", "closing"}
Goto(r, q) == rpc' = [rpc EXCEPT ![r] = q]
Return(r) ==
  /\ Goto(r, "idle") /\ asked' = [asked EXCEPT ![r] = None]
  /\ from' = [from EXCEPT ![r] = None] /\ hold' = [hold EXCEPT ![r] = None]

-----------------------------------------------------------------------------
(* The registry *)

(* Mutant of Match: the entry is used whatever its key. *)
MatchAny(k) == entry # None

(* The entry is for the key the request asks for. *)
Match(k) == entry # None /\ key[entry] = k

Use(r, p, q) == from' = [from EXCEPT ![r] = p] /\ Goto(r, q)

(* HandleInvoke: the metadata gives the key of this or, from the cache, of   *)
(* an earlier version; an event's Process asks with the code instead.        *)
(* Manager.Execute finds the runtime until the manager shuts down, and       *)
(* getOrCreate looks under the read lock.                                    *)
Invoke(r, k) ==
  /\ phase = "serving" /\ rpc[r] = "idle"
  /\ asked' = [asked EXCEPT ![r] = k]
  /\ \/ Match(k) /\ Use(r, entry, "acquire")
     \/ ~Match(k) /\ Goto(r, "create") /\ UNCHANGED from
  /\ UNCHANGED <<registry, docker, hold, process, faults>>

(* Mutant of Replaced: the old pool is forgotten. *)
ReplacedForgets == UNCHANGED shutting

(* `go old.p.Shutdown` *)
Replaced == shutting' = shutting \cup ({entry} \ {None})

(* getOrCreate under the write lock.  When NewDockerPool fails the old pool  *)
(* is shut down and still the entry.                                         *)
GetOrCreate(r) ==
  /\ Up /\ rpc[r] = "create"
  /\ \/ Match(asked[r]) /\ Use(r, entry, "acquire") /\ Fine
        /\ UNCHANGED <<registry, asked, hold>>
     \/ /\ ~Match(asked[r]) /\ Replaced /\ Fine
        /\ LET p == CHOOSE p \in Pools : key[p] = None IN
             /\ \E q \in Pools : key[q] = None
             /\ key' = [key EXCEPT ![p] = asked[r]]
             /\ entry' = p /\ Use(r, p, "start")
        /\ UNCHANGED <<closed, asked, hold>>
     \/ ~Match(asked[r]) /\ Replaced /\ Fault /\ Return(r) /\ UNCHANGED <<entry, key, closed>>
  /\ UNCHANGED <<docker, process>>

-----------------------------------------------------------------------------
(* Pools *)

(* Docker's next container; they are interchangeable. *)
Unused == {c \in Containers : state[c] = "none" /\ \A r \in Requests : hold[r] # c}

Create(p, m) ==
  LET c == CHOOSE c \in Unused : TRUE IN
  /\ Unused # {}
  /\ state' = [state EXCEPT ![c] = "created"]
  /\ home' = [home EXCEPT ![c] = p] /\ maker' = [maker EXCEPT ![c] = m]
  /\ UNCHANGED overdue

Removed(C) ==
  /\ state' = [c \in Containers |-> IF c \in C THEN "none" ELSE state[c]]
  /\ home' = [c \in Containers |-> IF c \in C THEN None ELSE home[c]]
  /\ maker' = [c \in Containers |-> IF c \in C THEN None ELSE maker[c]]
  /\ overdue' = overdue \ C

(* p.Start in the request that has created the pool: it fills the pool, one  *)
(* container at a time, and starts the lifecycle.                            *)
StartCreate(r) ==
  /\ Up /\ rpc[r] = "start" /\ from[r] \notin closed /\ Cardinality(Of(from[r])) < MinSize
  /\ Create(from[r], r)
  /\ UNCHANGED <<registry, request, process, faults>>

StartDone(r) ==
  /\ Up /\ rpc[r] = "start" /\ \A c \in Containers : maker[c] # r
  /\ Goto(r, "acquire")
  /\ UNCHANGED <<registry, docker, asked, from, hold, process, faults>>

(* The pool's own goroutines, which its wait group counts, replenish it. *)
Replenish(p) ==
  /\ Up /\ key[p] # None /\ p \notin closed
  /\ Cardinality({c \in Of(p) : state[c] # "used"}) < MinSize
  /\ Create(p, None)
  /\ UNCHANGED <<registry, request, process, faults>>

(* The container is seeded and enqueued; when seeding fails or the pool has  *)
(* been closed it is removed.  No object in S3 has code for its key.         *)
Enqueue(c) ==
  /\ Up /\ state[c] = "created" /\ home[c] # None
  /\ \/ /\ home[c] \notin closed /\ key[home[c]] \in Keys /\ state' = [state EXCEPT ![c] = "idle"]
        /\ maker' = [maker EXCEPT ![c] = None] /\ Fine /\ UNCHANGED <<home, overdue>>
     \/ (IF home[c] \in closed \/ key[home[c]] \in Contents THEN Fine ELSE Fault) /\ Removed({c})
  /\ UNCHANGED <<registry, rpc, asked, from, hold, process>>

(* Shutdown sets `closed`. *)
Close(p) ==
  /\ Up /\ p \in shutting \ closed /\ closed' = closed \cup {p}
  /\ UNCHANGED <<entry, key, shutting, docker, request, process, faults>>

(* Mutant of Drain: Shutdown does not wait for the wait group. *)
DrainAtOnce(p) ==
  /\ Up /\ p \in shutting \cap closed
  /\ Removed({c \in Of(p) : state[c] # "created"}) /\ shutting' = shutting \ {p}
  /\ UNCHANGED <<entry, key, closed, rpc, asked, from, hold, process, faults>>

(* Shutdown has waited for the pool's goroutines: it stops what is idle and  *)
(* what is in use.                                                           *)
Drain(p) ==
  /\ Up /\ p \in shutting \cap closed
  /\ \A c \in Of(p) : state[c] = "created" => maker[c] # None
  /\ Removed({c \in Of(p) : state[c] # "created"}) /\ shutting' = shutting \ {p}
  /\ UNCHANGED <<entry, key, closed, rpc, asked, from, hold, process, faults>>

(* Nothing refers to the pool any more. *)
Collect(p) ==
  /\ Up /\ key[p] # None /\ entry # p /\ p \notin shutting /\ Of(p) = {}
  /\ \A r \in Requests : from[r] # p
  /\ key' = [key EXCEPT ![p] = None]
  /\ closed' = closed \ {p}
  /\ UNCHANGED <<entry, shutting, docker, request, process, faults>>

-----------------------------------------------------------------------------
(* Execution *)

(* p.Acquire: an idle container, a pool that is shut down, or a context that *)
(* ends first.                                                               *)
Acquire(r) ==
  /\ Up /\ rpc[r] = "acquire"
  /\ \/ \E c \in Of(from[r]) :
          /\ state[c] = "idle" /\ state' = [state EXCEPT ![c] = "used"]
          /\ hold' = [hold EXCEPT ![r] = c] /\ Goto(r, "exec")
          /\ UNCHANGED <<asked, from>>
     \/ Return(r) /\ UNCHANGED state
  /\ UNCHANGED <<registry, home, maker, overdue, process, faults>>

Overdue(r) == overdue' = IF Gone(r) THEN overdue ELSE overdue \cup {hold[r]}

(* Mutant of TimedOut: the deferred function releases in every case. *)
TimedOutReleases(r) == Goto(r, "release") /\ Overdue(r)

(* The deferred function discards the container on a context error. *)
TimedOut(r) == Goto(r, "discard") /\ Overdue(r)

(* executeInPooledContainer: the exec ends or a call to Docker fails, or the *)
(* context ends while the exec runs.                                         *)
Execute(r) ==
  /\ Up /\ rpc[r] = "exec"
  /\ \/ Goto(r, "release") /\ UNCHANGED overdue
     \/ TimedOut(r)
  /\ UNCHANGED <<registry, state, home, maker, asked, from, hold, process, faults>>

(* Release: the container is stopped when the pool is closed or full or the  *)
(* container has been used often enough.                                     *)
Release(r) ==
  /\ Up /\ rpc[r] = "release"
  /\ \/ /\ from[r] \notin closed /\ ~Gone(r)
        /\ state' = [state EXCEPT ![hold[r]] = "idle"] /\ UNCHANGED <<home, maker, overdue>>
     \/ Removed({hold[r]})
  /\ Return(r)
  /\ UNCHANGED <<registry, process, faults>>

Discard(r) ==
  /\ Up /\ rpc[r] = "discard" /\ Removed({hold[r]}) /\ Return(r)
  /\ UNCHANGED <<registry, process, faults>>

-----------------------------------------------------------------------------
(* The process *)

(* main after waitForShutdown, which gives handlers thirty seconds:          *)
(* Manager.Shutdown, Cleanup and the registry's Shutdown empty the registry  *)
(* and wait for the pools that were in it.                                   *)
RegistryShutdown ==
  /\ phase = "serving" /\ phase' = "closing"
  /\ busy' = (Active # {} \/ shutting # {})
  /\ waits' = entry /\ shutting' = shutting \cup ({entry} \ {None}) /\ entry' = None
  /\ UNCHANGED <<key, closed, docker, request, missed, faults>>

(* The process ends, and its goroutines with it. *)
Ended ==
  /\ entry' = None /\ key' = [p \in Pools |-> None]
  /\ shutting' = {} /\ closed' = {}
  /\ rpc' = [r \in Requests |-> "idle"] /\ asked' = [r \in Requests |-> None]
  /\ from' = [r \in Requests |-> None] /\ hold' = [r \in Requests |-> None]
  /\ maker' = [c \in Containers |-> None]
  /\ waits' = None

Exit ==
  /\ phase = "closing" /\ waits \notin shutting /\ phase' = "exited" /\ Ended
  /\ UNCHANGED <<state, home, overdue, busy, missed, faults>>

Crash ==
  /\ Up /\ Fault /\ phase' = "crashed" /\ Ended
  /\ UNCHANGED <<state, home, overdue, busy, missed>>

(* Mutant of Swept: the sweep only takes containers that are not in use. *)
SweptIdle == {{c \in Alive : state[c] = "idle"}}

(* ContainerList lists the running containers: one that has been created may *)
(* have been started or not.                                                 *)
Swept ==
  {{c \in Alive : state[c] # "created"} \cup C : C \in SUBSET {c \in Alive : state[c] = "created"}}

(* NewDockerRuntime in a new process: sweepOrphanedContainers. *)
Restart ==
  /\ phase \in {"exited", "crashed"} /\ phase' = "serving" /\ busy' = FALSE
  /\ \E C \in Swept \cup {{}} :
       /\ \/ C \in Swept /\ Fine /\ UNCHANGED missed
          \/ C = {} /\ Fault /\ missed' = TRUE
       /\ state' = [c \in Containers |-> IF c \in C THEN "none" ELSE state[c]]
  /\ home' = [c \in Containers |-> None] /\ overdue' = {}
  /\ UNCHANGED <<registry, maker, request, waits>>

-----------------------------------------------------------------------------
RequestStep(r) ==
  \/ GetOrCreate(r) \/ StartCreate(r) \/ StartDone(r) \/ Acquire(r)
  \/ Execute(r) \/ Release(r) \/ Discard(r)

PoolStep(p) == Close(p) \/ Drain(p)

Next ==
  \/ \E r \in Requests : RequestStep(r) \/ \E k \in Keys \cup Contents : Invoke(r, k)
  \/ \E p \in Pools : PoolStep(p) \/ Replenish(p) \/ Collect(p)
  \/ \E c \in Containers : Enqueue(c)
  \/ RegistryShutdown \/ Exit \/ Crash \/ Restart

Spec == Init /\ [][Next]_vars

(* Goroutines run; a request ends by its exec, its deadline or its client. *)
FairSpec ==
  /\ Spec
  /\ \A r \in Requests : WF_vars(RequestStep(r))
  /\ \A p \in Pools : WF_vars(PoolStep(p))
  /\ \A c \in Containers : WF_vars(Enqueue(c))

-----------------------------------------------------------------------------
(* Properties *)

(* An invocation runs the code it asked for: whatever pools concurrent       *)
(* invocations of other versions of the function, failed creations and       *)
(* shutdowns put into the registry, the container was seeded with the key    *)
(* of the metadata the invocation has read.                                  *)
RunsRequestedCode ==
  \A r \in Requests : rpc[r] = "exec" /\ ~Gone(r) => key[home[hold[r]]] = asked[r]

(* A container in which a timed-out exec may still run is not handed to      *)
(* another invocation.  (Where Docker fails to answer, the code cannot tell.) *)
NoOverdueReused ==
  \A c \in overdue :
    state[c] # "idle" /\ \A r \in Requests : hold[r] = c => rpc[r] = "discard"

(* A graceful exit leaves no container behind, unless an invocation or the   *)
(* shutdown of a replaced pool was in progress when the registry was shut    *)
(* down: the registry waits for neither.                                     *)
ExitLeavesNothing == phase = "exited" /\ ~busy => \A c \in Containers : home[c] = None

(* A process that serves has no running container of an earlier one, however *)
(* that one ended, unless its sweep could not list them.                     *)
OrphansSwept ==
  phase = "serving" /\ ~missed =>
    \A c \in Alive : home[c] = None => state[c] = "created"

(* A replaced pool is drained: whichever requests still use it or are        *)
(* filling it, no pool outside the registry keeps containers for ever.       *)
ReplacedDrains == \A p \in Pools : []<>(entry = p \/ Of(p) = {} \/ ~Up)
=============================================================================
