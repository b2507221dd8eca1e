------------------------- MODULE DockerRuntimeProofs -------------------------
(* Theorems about DockerRuntime, for any number of requests, pools,          *)
(* containers, versions of the function and faults.                          *)
EXTENDS DockerRuntime, TLAPS

Working == {"start", "acquire", "exec", "release", "discard"}
Holding == {"exec", "release", "discard"}

RegistryTypes ==
  /\ entry \in Pools \cup {None} /\ key \in [Pools -> Keys \cup Contents \cup {None}]
  /\ shutting \subseteq Pools /\ closed \subseteq Pools

DockerTypes ==
  /\ state \in [Containers -> {"none", "created", "idle", "used"}]
  /\ home \in [Containers -> Pools \cup {None}]
  /\ maker \in [Containers -> Requests \cup {None}] /\ overdue \subseteq Containers

RequestTypes ==
  /\ rpc \in [Requests -> {"idle", "create"} \cup Working]
  /\ asked \in [Requests -> Keys \cup Contents \cup {None}]
  /\ from \in [Requests -> Pools \cup {None}] /\ hold \in [Requests -> Containers \cup {None}]
  /\ \A r \in Requests : hold[r] # None <=> rpc[r] \in Holding

ProcessTypes ==
  phase \in {"serving", "closing", "exited", "crashed"} /\ waits \in Pools \cup {None}

TypeInv == RegistryTypes /\ DockerTypes /\ RequestTypes /\ ProcessTypes

(* What a request has at each place: the key it asks for, a pool for that    *)
(* key, and a container of the pool.                                         *)
RequestInv ==
  /\ \A r \in Requests : rpc[r] # "idle" => Up /\ asked[r] # None
  /\ \A r \in Requests : rpc[r] \in Working => from[r] # None /\ key[from[r]] = asked[r]

(* A container in use belongs to one request, and one with an exec that has  *)
(* timed out to a request that will discard it.                              *)
HoldInv ==
  /\ \A r \in Requests : hold[r] # None => state[hold[r]] \in {"used", "none"}
  /\ \A r \in Requests : hold[r] # None /\ state[hold[r]] = "used" => home[hold[r]] = from[r]
  /\ \A r, q \in Requests : hold[r] # None /\ hold[r] = hold[q] => r = q
  /\ \A c \in overdue : state[c] = "used" /\ \A r \in Requests : hold[r] = c => rpc[r] = "discard"

(* A pool is the entry, or someone shuts it down, or it is shut down and     *)
(* only the request that started it still creates containers for it.         *)
PoolInv ==
  /\ entry # None => key[entry] # None
  /\ \A p \in closed \cup shutting : key[p] # None
  /\ Up => \A c \in Containers : home[c] # None => key[home[c]] # None
  /\ \A p \in Pools : key[p] # None => p = entry \/ p \in shutting \cup closed
  /\ \A c \in Containers : home[c] \in closed \ shutting => state[c] = "created" /\ maker[c] # None
  /\ \A c \in Containers : maker[c] # None => rpc[maker[c]] = "start"

(* The registry shuts down with nothing else under way. *)
QuietInv ==
  /\ phase = "closing" /\ ~busy => Active = {} /\ entry = None /\ shutting \subseteq {waits}
  /\ phase = "exited" /\ ~busy => \A c \in Containers : home[c] = None

-----------------------------------------------------------------------------
(* What the pieces of the actions do *)

LEMMA Creates ==
  ASSUME NEW p, NEW m, Create(p, m)
  PROVE  \E c \in Containers :
           /\ state[c] = "none" /\ \A r \in Requests : hold[r] # c
           /\ state' = [state EXCEPT ![c] = "created"] /\ home' = [home EXCEPT ![c] = p]
           /\ maker' = [maker EXCEPT ![c] = m] /\ overdue' = overdue
  <1> DEFINE c == CHOOSE c \in Unused : TRUE
  <1>1. c \in Unused
    BY DEF Create
  <1>2. /\ state' = [state EXCEPT ![c] = "created"] /\ home' = [home EXCEPT ![c] = p]
        /\ maker' = [maker EXCEPT ![c] = m] /\ overdue' = overdue
    BY DEF Create
  <1> HIDE DEF c
  <1> QED
    BY <1>1, <1>2 DEF Unused

LEMMA Removes ==
  ASSUME DockerTypes, NEW C, Removed(C)
  PROVE  /\ DockerTypes' /\ overdue' = overdue \ C
         /\ \A c \in Containers :
              \/ c \notin C /\ state'[c] = state[c] /\ home'[c] = home[c] /\ maker'[c] = maker[c]
              \/ c \in C /\ state'[c] = "none" /\ home'[c] = None /\ maker'[c] = None
  BY DEF Removed, DockerTypes

LEMMA Returns ==
  ASSUME RequestTypes, NEW r \in Requests, Return(r)
  PROVE  /\ RequestTypes' /\ rpc'[r] = "idle" /\ hold'[r] = None
         /\ \A q \in Requests \ {r} :
              rpc'[q] = rpc[q] /\ asked'[q] = asked[q] /\ from'[q] = from[q] /\ hold'[q] = hold[q]
  BY DEF Return, Goto, RequestTypes, Holding

(* getOrCreate makes a pool whose place nothing uses. *)
LEMMA NewPool ==
  ASSUME NEW r \in Requests, GetOrCreate(r)
  PROVE  \/ /\ Match(asked[r]) /\ Use(r, entry, "acquire") /\ UNCHANGED <<registry, asked, hold>>
         \/ /\ Replaced /\ UNCHANGED <<closed, asked, hold>>
            /\ \E p \in Pools : /\ key[p] = None /\ key' = [key EXCEPT ![p] = asked[r]]
                                /\ entry' = p /\ Use(r, p, "start")
         \/ Replaced /\ Return(r) /\ UNCHANGED <<entry, key, closed>>
  <1> DEFINE new == CHOOSE p \in Pools : key[p] = None
  <1>1. CASE /\ ~Match(asked[r]) /\ Replaced /\ UNCHANGED <<closed, asked, hold>>
             /\ \E q \in Pools : key[q] = None
             /\ key' = [key EXCEPT ![new] = asked[r]] /\ entry' = new /\ Use(r, new, "start")
    <2>1. new \in Pools /\ key[new] = None
      BY <1>1
    <2> HIDE DEF new
    <2> QED
      BY <1>1, <2>1
  <1> QED
    BY <1>1 DEF GetOrCreate

LEMMA Matched == ASSUME RegistryTypes, NEW k, Match(k) PROVE entry \in Pools /\ key[entry] = k
  BY DEF RegistryTypes, Match

-----------------------------------------------------------------------------
(* Types *)

LEMMA TypeRequests == ASSUME TypeInv, NEW r \in Requests, RequestStep(r) PROVE TypeInv'
  <1> USE DEF TypeInv
  <1>1. ProcessTypes'
    BY DEF RequestStep, GetOrCreate, StartCreate, StartDone, Acquire, Execute, Release, Discard,
           ProcessTypes, process
  <1>2. CASE GetOrCreate(r)
    <2>1. DockerTypes'
      BY <1>2 DEF GetOrCreate, docker, DockerTypes
    <2>2. /\ asked[r] \in Keys \cup Contents \cup {None} /\ entry \in Pools \cup {None}
          /\ rpc[r] = "create"
      BY <1>2 DEF GetOrCreate, RequestTypes, RegistryTypes
    <2>3. CASE Match(asked[r]) /\ Use(r, entry, "acquire") /\ UNCHANGED <<registry, asked, hold>>
      BY <1>1, <2>1, <2>2, <2>3 DEF Use, Goto, RequestTypes, RegistryTypes, registry, Working, Holding
    <2>4. CASE /\ Replaced /\ UNCHANGED <<closed, asked, hold>>
               /\ \E p \in Pools : /\ key[p] = None /\ key' = [key EXCEPT ![p] = asked[r]]
                                   /\ entry' = p /\ Use(r, p, "start")
      BY <1>1, <2>1, <2>2, <2>4 DEF Use, Goto, RequestTypes, RegistryTypes, Replaced, Working, Holding
    <2>5. CASE Replaced /\ Return(r) /\ UNCHANGED <<entry, key, closed>>
      BY <1>1, <2>1, <2>2, <2>5, Returns DEF RegistryTypes, Replaced
    <2> QED
      BY <1>2, <2>3, <2>4, <2>5, NewPool
  <1>3. CASE StartCreate(r)
    <2>1. Create(from[r], r) /\ UNCHANGED <<registry, request>>
      BY <1>3 DEF StartCreate
    <2>2. DockerTypes'
      BY <2>1, Creates DEF DockerTypes, RequestTypes
    <2> QED
      BY <1>1, <2>1, <2>2 DEF RegistryTypes, RequestTypes, registry, request
  <1>4. CASE StartDone(r)
    BY <1>1, <1>4 DEF StartDone, Goto, RequestTypes, RegistryTypes, DockerTypes, registry, docker, Working, Holding
  <1>5. CASE Acquire(r)
    <2>1. UNCHANGED <<registry, home, maker, overdue>>
      BY <1>5 DEF Acquire
    <2>2. CASE Return(r) /\ UNCHANGED state
      BY <1>1, <2>1, <2>2, Returns DEF RegistryTypes, DockerTypes, registry
    <2>3. CASE \E c \in Of(from[r]) :
                 /\ state[c] = "idle" /\ state' = [state EXCEPT ![c] = "used"]
                 /\ hold' = [hold EXCEPT ![r] = c] /\ Goto(r, "exec")
                 /\ UNCHANGED <<asked, from>>
      <3>1. PICK c \in Containers : /\ state' = [state EXCEPT ![c] = "used"] /\ hold' = [hold EXCEPT ![r] = c]
                                    /\ rpc' = [rpc EXCEPT ![r] = "exec"] /\ UNCHANGED <<asked, from>>
        BY <2>3 DEF Of, Goto
      <3>2. DockerTypes' /\ RegistryTypes'
        BY <2>1, <3>1 DEF RegistryTypes, DockerTypes, registry
      <3>3. RequestTypes'
        BY <3>1, RuntimeAssumption DEF RequestTypes, Working, Holding
      <3> QED
        BY <1>1, <3>2, <3>3
    <2> QED
      BY <1>5, <2>2, <2>3 DEF Acquire
  <1>6. CASE Execute(r)
    <2>1. /\ UNCHANGED <<registry, state, home, maker, asked, from, hold>>
          /\ \E q \in {"release", "discard"} : rpc' = [rpc EXCEPT ![r] = q]
          /\ overdue' \subseteq overdue \cup {hold[r]}
      BY <1>6 DEF Execute, TimedOut, Overdue, Goto
    <2>2. rpc[r] = "exec" /\ hold[r] \in Containers
      BY <1>6 DEF Execute, RequestTypes, Holding
    <2>3. RequestTypes'
      BY <2>1, <2>2 DEF RequestTypes, Working, Holding
    <2> QED
      BY <1>1, <2>1, <2>2, <2>3 DEF RegistryTypes, DockerTypes, registry
  <1>7. CASE Release(r)
    <2>1. UNCHANGED registry /\ Return(r)
      BY <1>7 DEF Release
    <2>2. DockerTypes'
      BY <1>7, Removes DEF Release, DockerTypes
    <2> QED
      BY <1>1, <2>1, <2>2, Returns DEF RegistryTypes, registry
  <1>8. CASE Discard(r)
    BY <1>1, <1>8, Returns, Removes DEF Discard, RegistryTypes, registry
  <1> QED
    BY <1>2, <1>3, <1>4, <1>5, <1>6, <1>7, <1>8 DEF RequestStep

LEMMA TypeOthers ==
  ASSUME TypeInv, [Next]_vars, \A r \in Requests : ~RequestStep(r) PROVE TypeInv'
  <1> USE DEF TypeInv
  <1>1. ASSUME NEW r \in Requests, NEW k \in Keys \cup Contents, Invoke(r, k) PROVE TypeInv'
    <2>1. UNCHANGED <<registry, docker, hold, process>> /\ rpc[r] = "idle"
      BY <1>1 DEF Invoke
    <2>2. /\ asked' = [asked EXCEPT ![r] = k] /\ from' \in {from, [from EXCEPT ![r] = entry]}
          /\ \E q \in {"acquire", "create"} : rpc' = [rpc EXCEPT ![r] = q]
      BY <1>1 DEF Invoke, Use, Goto
    <2>3. entry \in Pools \cup {None}
      BY DEF RegistryTypes
    <2>4. RequestTypes'
      BY <2>1, <2>2, <2>3 DEF RequestTypes, Working, Holding
    <2> QED
      BY <2>1, <2>4 DEF RegistryTypes, DockerTypes, ProcessTypes, registry, docker, process
  <1>2. ASSUME NEW p \in Pools, Replenish(p) PROVE TypeInv'
    <2>1. Create(p, None) /\ UNCHANGED <<registry, request, process>>
      BY <1>2 DEF Replenish
    <2>2. DockerTypes'
      BY <2>1, Creates DEF DockerTypes
    <2> QED
      BY <2>1, <2>2 DEF RegistryTypes, RequestTypes, ProcessTypes, registry, request, process
  <1>3. ASSUME NEW p \in Pools, Drain(p) PROVE TypeInv'
    <2>1. /\ UNCHANGED <<entry, key, closed, rpc, asked, from, hold, process>>
          /\ shutting' \subseteq shutting /\ DockerTypes'
      BY <1>3, Removes DEF Drain
    <2> QED
      BY <2>1 DEF RegistryTypes, RequestTypes, ProcessTypes, process
  <1>4. ASSUME NEW p \in Pools, Close(p) \/ Collect(p) PROVE TypeInv'
    <2>1. UNCHANGED <<entry, shutting, docker, request, process>>
      BY <1>4 DEF Close, Collect
    <2>2. RegistryTypes'
      BY <1>4 DEF Close, Collect, RegistryTypes
    <2> QED
      BY <2>1, <2>2 DEF DockerTypes, RequestTypes, ProcessTypes, docker, request, process
  <1>5. ASSUME NEW c \in Containers, Enqueue(c) PROVE TypeInv'
    <2>1. UNCHANGED <<registry, rpc, asked, from, hold, process>>
      BY <1>5 DEF Enqueue
    <2>2. DockerTypes'
      BY <1>5, Removes DEF Enqueue, DockerTypes
    <2> QED
      BY <2>1, <2>2 DEF RegistryTypes, RequestTypes, ProcessTypes, registry, process
  <1>6. CASE RegistryShutdown
    BY <1>6 DEF RegistryShutdown, RegistryTypes, DockerTypes, RequestTypes, ProcessTypes, docker, request
  <1>7. CASE Exit \/ Crash
    <2>1. Ended /\ UNCHANGED <<state, home, overdue>> /\ phase' \in {"exited", "crashed"}
      BY <1>7 DEF Exit, Crash
    <2>2. RegistryTypes' /\ DockerTypes' /\ ProcessTypes'
      BY <2>1 DEF Ended, RegistryTypes, DockerTypes, ProcessTypes
    <2>3. RequestTypes'
      BY <2>1 DEF Ended, RequestTypes, Working, Holding
    <2> QED
      BY <2>2, <2>3
  <1>8. CASE Restart
    <2>1. UNCHANGED <<registry, maker, request, waits>> /\ phase' = "serving"
      BY <1>8 DEF Restart
    <2>2. DockerTypes'
      BY <1>8 DEF Restart, DockerTypes
    <2> QED
      BY <2>1, <2>2 DEF RegistryTypes, RequestTypes, ProcessTypes, registry, request
  <1>9. CASE UNCHANGED vars
    BY <1>9 DEF vars, RegistryTypes, DockerTypes, RequestTypes, ProcessTypes, registry, docker, request, process
  <1> QED
    BY <1>1, <1>2, <1>3, <1>4, <1>5, <1>6, <1>7, <1>8, <1>9 DEF Next, PoolStep

(* Every variable keeps its type, and a request holds a container exactly    *)
(* while it executes in it or gives it back.                                 *)
THEOREM TypeCorrect == Spec => []TypeInv
  <1>1. Init => TypeInv
    BY DEF Init, TypeInv, RegistryTypes, DockerTypes, RequestTypes, ProcessTypes, Working, Holding
  <1>2. TypeInv /\ [Next]_vars => TypeInv'
    BY TypeRequests, TypeOthers
  <1> QED
    BY <1>1, <1>2, PTL DEF Spec

-----------------------------------------------------------------------------
(* Requests and the pools they use *)

LEMMA RequestFrame ==
  ASSUME RequestInv, UNCHANGED <<rpc, asked, from, key>>, Up' PROVE RequestInv'
  BY DEF RequestInv

LEMMA RequestRequests ==
  ASSUME TypeInv, RequestInv, NEW r \in Requests, RequestStep(r) PROVE RequestInv'
  <1> USE DEF TypeInv
  <1>1. Up /\ Up' /\ UNCHANGED phase
    BY DEF RequestStep, GetOrCreate, StartCreate, StartDone, Acquire, Execute, Release, Discard, process, Up
  <1>2. CASE Return(r) /\ UNCHANGED key
    BY <1>1, <1>2, Returns DEF RequestInv, Working
  <1>3. CASE GetOrCreate(r)
    <2>1. asked[r] # None /\ rpc[r] = "create"
      BY <1>3 DEF GetOrCreate, RequestInv
    <2>2. CASE Match(asked[r]) /\ Use(r, entry, "acquire") /\ UNCHANGED <<registry, asked, hold>>
      <3>1. entry \in Pools /\ key[entry] = asked[r]
        BY <2>2, Matched
      <3>2. rpc' = [rpc EXCEPT ![r] = "acquire"] /\ from' = [from EXCEPT ![r] = entry] /\ UNCHANGED <<key, asked>>
        BY <2>2 DEF Use, Goto, registry
      <3> QED
        BY <1>1, <2>1, <3>1, <3>2, RuntimeAssumption DEF RequestInv, RequestTypes, Working
    <2>3. CASE /\ Replaced /\ UNCHANGED <<closed, asked, hold>>
               /\ \E p \in Pools : /\ key[p] = None /\ key' = [key EXCEPT ![p] = asked[r]]
                                   /\ entry' = p /\ Use(r, p, "start")
      <3>1. PICK p \in Pools : /\ key[p] = None /\ key' = [key EXCEPT ![p] = asked[r]]
                               /\ rpc' = [rpc EXCEPT ![r] = "start"] /\ from' = [from EXCEPT ![r] = p]
        BY <2>3 DEF Use, Goto
      <3>2. \A q \in Requests : rpc[q] \in Working => from[q] # p /\ from[q] \in Pools
        BY <3>1 DEF RequestInv, RequestTypes, Working
      <3>3. key'[p] = asked[r] /\ \A q \in Pools \ {p} : key'[q] = key[q]
        BY <3>1 DEF RegistryTypes
      <3>4. rpc'[r] = "start" /\ from'[r] = p /\ \A q \in Requests \ {r} : rpc'[q] = rpc[q] /\ from'[q] = from[q]
        BY <3>1 DEF RequestTypes
      <3>5. asked' = asked /\ p # None
        BY <2>3, RuntimeAssumption
      <3>6. \A q \in Requests : rpc'[q] # "idle" => Up' /\ asked'[q] # None
        BY <1>1, <2>1, <3>4, <3>5 DEF RequestInv
      <3>7. ASSUME NEW q \in Requests, rpc'[q] \in Working PROVE from'[q] # None /\ key'[from'[q]] = asked'[q]
        <4>1. CASE q = r
          BY <3>3, <3>4, <3>5, <4>1
        <4>2. CASE q # r
          <5>1. rpc[q] \in Working /\ from'[q] = from[q]
            BY <3>4, <3>7, <4>2
          <5>2. from[q] # None /\ key[from[q]] = asked[q] /\ from[q] \in Pools \ {p}
            BY <3>2, <5>1 DEF RequestInv
          <5> QED
            BY <3>3, <3>5, <5>1, <5>2
        <4> QED
          BY <4>1, <4>2
      <3> QED
        BY <3>6, <3>7 DEF RequestInv
    <2>4. CASE Replaced /\ Return(r) /\ UNCHANGED <<entry, key, closed>>
      BY <1>2, <2>4
    <2> QED
      BY <1>3, <2>2, <2>3, <2>4, NewPool
  <1>4. CASE StartCreate(r)
    BY <1>1, <1>4, RequestFrame DEF StartCreate, registry, request
  <1>5. ASSUME rpc[r] \in Working, NEW q \in Working, rpc' = [rpc EXCEPT ![r] = q], UNCHANGED <<asked, from, key>>
        PROVE  RequestInv'
    BY <1>1, <1>5 DEF RequestInv, RequestTypes, Working
  <1>6. CASE StartDone(r)
    BY <1>5, <1>6 DEF StartDone, Goto, registry, Working
  <1>7. CASE Acquire(r)
    BY <1>2, <1>5, <1>7 DEF Acquire, Goto, registry, Working
  <1>8. CASE Execute(r)
    BY <1>5, <1>8 DEF Execute, TimedOut, Goto, registry, Working
  <1>9. CASE Release(r) \/ Discard(r)
    BY <1>2, <1>9 DEF Release, Discard, registry
  <1> QED
    BY <1>3, <1>4, <1>6, <1>7, <1>8, <1>9 DEF RequestStep

LEMMA RequestOthers ==
  ASSUME TypeInv, RequestInv, [Next]_vars, \A r \in Requests : ~RequestStep(r) PROVE RequestInv'
  <1> USE DEF TypeInv
  <1>1. ASSUME NEW r \in Requests, NEW k \in Keys \cup Contents, Invoke(r, k) PROVE RequestInv'
    <2>1. UNCHANGED <<registry, process>> /\ Up /\ Up' /\ asked' = [asked EXCEPT ![r] = k] /\ k # None
      BY <1>1, RuntimeAssumption DEF Invoke, process, Up
    <2>2. CASE Match(k) /\ Use(r, entry, "acquire")
      <3>1. entry \in Pools /\ key[entry] = k
        BY <2>2, Matched
      <3> QED
        BY <2>1, <2>2, <3>1, RuntimeAssumption DEF Use, Goto, RequestInv, RequestTypes, Working, registry
    <2>3. CASE Goto(r, "create") /\ UNCHANGED from
      BY <2>1, <2>3 DEF Goto, RequestInv, RequestTypes, Working, registry
    <2> QED
      BY <1>1, <2>2, <2>3 DEF Invoke
  <1>2. ASSUME NEW p \in Pools, Replenish(p) \/ Close(p) \/ Drain(p) PROVE RequestInv'
    BY <1>2, RequestFrame DEF Replenish, Close, Drain, registry, request, process, Up
  <1>3. ASSUME NEW p \in Pools, Collect(p) PROVE RequestInv'
    <2>1. UNCHANGED <<request, process>> /\ key' = [key EXCEPT ![p] = None] /\ \A r \in Requests : from[r] # p
      BY <1>3 DEF Collect
    <2> QED
      BY <2>1 DEF RequestInv, RegistryTypes, RequestTypes, request, process, Up
  <1>4. ASSUME NEW c \in Containers, Enqueue(c) PROVE RequestInv'
    BY <1>4, RequestFrame DEF Enqueue, registry, process, Up
  <1>5. CASE RegistryShutdown
    BY <1>5, RequestFrame DEF RegistryShutdown, request, Up
  <1>6. CASE Exit \/ Crash
    BY <1>6 DEF Exit, Crash, Ended, RequestInv, Working
  <1>7. CASE Restart
    BY <1>7, RequestFrame DEF Restart, request, registry, Up
  <1>8. CASE UNCHANGED vars
    BY <1>8 DEF RequestInv, vars, registry, request, process, Up
  <1> QED
    BY <1>1, <1>2, <1>3, <1>4, <1>5, <1>6, <1>7, <1>8 DEF Next, PoolStep

-----------------------------------------------------------------------------
(* Containers and the requests that hold them *)

(* Steps that hand nothing out: containers in use stay as they are or go. *)
LEMMA HoldFrame ==
  ASSUME TypeInv, HoldInv,
         \A r \in Requests : hold'[r] \in {hold[r], None},
         \A r \in Requests : hold'[r] # None => from'[r] = from[r] /\ (rpc'[r] = rpc[r] \/ hold[r] \notin overdue'),
         \A c \in Containers : state[c] \in {"used", "none"} =>
           \/ state'[c] = state[c] /\ home'[c] = home[c]
           \/ state'[c] = "none"
           \/ \A r \in Requests : hold'[r] # c,
         \A c \in overdue' : c \in overdue /\ state'[c] = "used"
  PROVE  HoldInv'
  <1>1. \A r \in Requests : hold[r] \in Containers \cup {None}
    BY DEF TypeInv, RequestTypes
  <1>2. ASSUME NEW r \in Requests, hold'[r] # None PROVE state'[hold'[r]] \in {"used", "none"}
    <2>1. hold'[r] = hold[r] /\ hold[r] \in Containers /\ state[hold[r]] \in {"used", "none"}
      BY <1>1, <1>2 DEF HoldInv
    <2> QED
      BY <2>1
  <1>3. \A r \in Requests : hold'[r] # None /\ state'[hold'[r]] = "used" => home'[hold'[r]] = from'[r]
    BY <1>1 DEF HoldInv
  <1>4. \A r, q \in Requests : hold'[r] # None /\ hold'[r] = hold'[q] => r = q
    BY DEF HoldInv
  <1>5. \A c \in overdue' : state'[c] = "used" /\ \A r \in Requests : hold'[r] = c => rpc'[r] = "discard"
    <2> SUFFICES ASSUME NEW c \in overdue', NEW r \in Requests, hold'[r] = c PROVE rpc'[r] = "discard"
      OBVIOUS
    <2>1. c \in overdue /\ c # None
      BY RuntimeAssumption DEF TypeInv, DockerTypes
    <2>2. hold[r] = c /\ rpc[r] = "discard"
      BY <2>1 DEF HoldInv
    <2> QED
      BY <2>1, <2>2
  <1> QED
    BY <1>2, <1>3, <1>4, <1>5 DEF HoldInv

LEMMA HoldCreate ==
  ASSUME TypeInv, HoldInv, NEW p, NEW m, Create(p, m), UNCHANGED <<hold, from, rpc>> PROVE HoldInv'
  <1>1. PICK c \in Containers :
           /\ state[c] = "none" /\ \A r \in Requests : hold[r] # c
           /\ state' = [state EXCEPT ![c] = "created"] /\ home' = [home EXCEPT ![c] = p]
           /\ overdue' = overdue
    BY Creates
  <1>2. \A d \in Containers : d = c \/ (state'[d] = state[d] /\ home'[d] = home[d])
    BY <1>1 DEF TypeInv, DockerTypes
  <1>3. \A d \in overdue' : d \in overdue /\ state'[d] = "used"
    BY <1>1, <1>2 DEF HoldInv, TypeInv, DockerTypes
  <1> QED
    BY <1>1, <1>2, <1>3, HoldFrame

LEMMA HoldRemoved ==
  ASSUME TypeInv, HoldInv, NEW C, Removed(C),
         \A r \in Requests : hold'[r] \in {hold[r], None},
         \A r \in Requests : hold'[r] # None => from'[r] = from[r] /\ rpc'[r] = rpc[r]
  PROVE  HoldInv'
  <1>1. \A d \in overdue' : d \in overdue /\ state'[d] = "used"
    BY Removes DEF HoldInv, TypeInv, DockerTypes
  <1>2. \A d \in Containers : (state'[d] = state[d] /\ home'[d] = home[d]) \/ state'[d] = "none"
    BY Removes DEF TypeInv
  <1> QED
    BY <1>1, <1>2, HoldFrame

LEMMA HoldRequests ==
  ASSUME TypeInv, HoldInv, NEW r \in Requests, RequestStep(r) PROVE HoldInv'
  <1> USE DEF TypeInv
  <1>1. ASSUME UNCHANGED <<state, home, overdue>>, hold[r] = None \/ hold'[r] = None,
               \A q \in Requests : hold'[q] \in {hold[q], None},
               \A q \in Requests \ {r} : from'[q] = from[q] /\ rpc'[q] = rpc[q]
        PROVE  HoldInv'
    <2>1. \A d \in overdue' : d \in overdue /\ state'[d] = "used"
      BY <1>1 DEF HoldInv
    <2> QED
      BY <1>1, <2>1, HoldFrame
  <1>2. CASE GetOrCreate(r)
    <2>1. UNCHANGED <<state, home, overdue>> /\ hold[r] = None
      BY <1>2 DEF GetOrCreate, docker, RequestTypes, Holding
    <2>2. /\ \A q \in Requests : hold'[q] \in {hold[q], None}
          /\ \A q \in Requests \ {r} : from'[q] = from[q] /\ rpc'[q] = rpc[q]
      <3>1. CASE Return(r)
        BY <2>1, <3>1, Returns
      <3>2. CASE UNCHANGED hold /\ \E p, q : Use(r, p, q)
        BY <3>2 DEF Use, Goto, RequestTypes
      <3> QED
        BY <1>2, <3>1, <3>2, NewPool
    <2> QED
      BY <1>1, <2>1, <2>2
  <1>3. CASE StartCreate(r)
    BY <1>3, HoldCreate DEF StartCreate, request
  <1>4. CASE StartDone(r)
    <2>1. UNCHANGED <<state, home, overdue, hold, from>> /\ hold[r] = None
      BY <1>4 DEF StartDone, docker, RequestTypes, Holding
    <2>2. \A q \in Requests \ {r} : rpc'[q] = rpc[q]
      BY <1>4 DEF StartDone, Goto, RequestTypes
    <2> QED
      BY <1>1, <2>1, <2>2
  <1>5. CASE Acquire(r)
    <2>1. UNCHANGED <<home, overdue>> /\ hold[r] = None
      BY <1>5 DEF Acquire, RequestTypes, Holding
    <2>2. CASE Return(r) /\ UNCHANGED state
      BY <1>1, <2>1, <2>2, Returns
    <2>3. CASE \E c \in Of(from[r]) :
                 /\ state[c] = "idle" /\ state' = [state EXCEPT ![c] = "used"]
                 /\ hold' = [hold EXCEPT ![r] = c] /\ Goto(r, "exec")
                 /\ UNCHANGED <<asked, from>>
      <3>1. PICK c \in Containers :
              /\ home[c] = from[r] /\ state[c] = "idle" /\ state' = [state EXCEPT ![c] = "used"]
              /\ hold' = [hold EXCEPT ![r] = c] /\ rpc' = [rpc EXCEPT ![r] = "exec"] /\ UNCHANGED from
        BY <2>3 DEF Of, Goto
      <3>2. c \notin overdue /\ \A q \in Requests : hold[q] # c
        BY <3>1, RuntimeAssumption DEF HoldInv
      <3>3. /\ hold'[r] = c /\ \A q \in Requests \ {r} : hold'[q] = hold[q] /\ rpc'[q] = rpc[q]
            /\ state'[c] = "used" /\ \A d \in Containers \ {c} : state'[d] = state[d]
        BY <3>1 DEF RequestTypes, DockerTypes
      <3>4. \A q \in Requests : hold[q] \in Containers \cup {None}
        BY DEF RequestTypes
      <3>5. ASSUME NEW q \in Requests, hold'[q] # None PROVE state'[hold'[q]] \in {"used", "none"}
        <4>1. CASE q # r
          <5>1. hold'[q] = hold[q] /\ hold[q] \in Containers \ {c} /\ state[hold[q]] \in {"used", "none"}
            BY <3>2, <3>3, <3>4, <3>5, <4>1 DEF HoldInv
          <5> QED
            BY <3>3, <5>1
        <4> QED
          BY <3>3, <4>1
      <3>6. \A q \in Requests : hold'[q] # None /\ state'[hold'[q]] = "used" => home'[hold'[q]] = from'[q]
        BY <2>1, <3>1, <3>2, <3>3, <3>4 DEF HoldInv
      <3>7. ASSUME NEW q \in Requests, NEW s \in Requests, hold'[q] # None, hold'[q] = hold'[s] PROVE q = s
        <4>1. CASE q = r \/ s = r
          BY <3>2, <3>3, <3>7, <4>1
        <4>2. CASE q # r /\ s # r
          <5>1. hold[q] # None /\ hold[q] = hold[s]
            BY <3>3, <3>7, <4>2
          <5> QED
            BY <5>1 DEF HoldInv
        <4> QED
          BY <4>1, <4>2
      <3>8. \A d \in overdue' : state'[d] = "used" /\ \A q \in Requests : hold'[q] = d => rpc'[q] = "discard"
        BY <2>1, <3>2, <3>3 DEF HoldInv, DockerTypes
      <3>9. /\ \A q \in Requests : hold'[q] # None => state'[hold'[q]] \in {"used", "none"}
            /\ \A q, s \in Requests : hold'[q] # None /\ hold'[q] = hold'[s] => q = s
        BY <3>5, <3>7, Zenon
      <3> QED
        BY <3>6, <3>8, <3>9, Zenon DEF HoldInv
    <2> QED
      BY <1>5, <2>2, <2>3 DEF Acquire
  <1>6. CASE Execute(r)
    <2>1. /\ rpc[r] = "exec" /\ UNCHANGED <<state, home, hold, from>>
          /\ \/ rpc' = [rpc EXCEPT ![r] = "release"] /\ UNCHANGED overdue
             \/ rpc' = [rpc EXCEPT ![r] = "discard"] /\ overdue' = IF Gone(r) THEN overdue ELSE overdue \cup {hold[r]}
      BY <1>6 DEF Execute, TimedOut, Overdue, Goto
    <2>2. hold[r] \in Containers /\ hold[r] # None /\ hold[r] \notin overdue
      BY <2>1, RuntimeAssumption DEF RequestTypes, Holding, HoldInv
    <2>3. \A q \in Requests \ {r} : rpc'[q] = rpc[q]
      BY <2>1 DEF RequestTypes
    <2>4. \A q \in Requests : hold[q] = hold[r] => q = r
      BY <2>2 DEF HoldInv
    <2>5. \A d \in overdue' : d \in overdue \/ (d = hold[r] /\ rpc'[r] = "discard" /\ state[d] = "used")
      BY <2>1, <2>2 DEF Gone, HoldInv, RequestTypes
    <2>6. \A d \in overdue' : state'[d] = "used" /\ \A q \in Requests : hold'[q] = d => rpc'[q] = "discard"
      BY <2>1, <2>2, <2>3, <2>4, <2>5 DEF HoldInv
    <2> QED
      BY <2>1, <2>6 DEF HoldInv
  <1>7. CASE (Release(r) \/ Discard(r)) /\ Removed({hold[r]})
    <2>1. Return(r)
      BY <1>7 DEF Release, Discard
    <2>2. /\ \A q \in Requests : hold'[q] \in {hold[q], None}
          /\ \A q \in Requests : hold'[q] # None => from'[q] = from[q] /\ rpc'[q] = rpc[q]
      BY <2>1, Returns
    <2> QED
      BY <1>7, <2>2, HoldRemoved
  <1>8. CASE /\ Release(r) /\ ~Gone(r)
             /\ state' = [state EXCEPT ![hold[r]] = "idle"] /\ UNCHANGED <<home, maker, overdue>>
    <2>1. rpc[r] = "release" /\ Return(r)
      BY <1>8 DEF Release
    <2>2. hold[r] \in Containers /\ hold[r] # None /\ hold[r] \notin overdue
      BY <2>1, RuntimeAssumption DEF RequestTypes, Holding, HoldInv
    <2>3. /\ hold'[r] = None /\ \A q \in Requests \ {r} : hold'[q] = hold[q] /\ hold[q] # hold[r]
          /\ \A q \in Requests \ {r} : from'[q] = from[q] /\ rpc'[q] = rpc[q]
      <3>1. hold'[r] = None /\ \A q \in Requests \ {r} : /\ hold'[q] = hold[q]
                                                       /\ from'[q] = from[q] /\ rpc'[q] = rpc[q]
        BY <2>1, Returns
      <3>2. \A q \in Requests \ {r} : hold[q] # hold[r]
        BY <2>2 DEF HoldInv
      <3> QED
        BY <3>1, <3>2
    <2>4. \A d \in Containers \ {hold[r]} : state'[d] = state[d]
      BY <1>8 DEF DockerTypes
    <2>5. \A d \in overdue' : d \in overdue /\ state'[d] = "used"
      BY <1>8, <2>2, <2>4 DEF HoldInv, DockerTypes
    <2>6. ASSUME NEW d \in Containers
          PROVE  (state'[d] = state[d] /\ home'[d] = home[d]) \/ \A q \in Requests : hold'[q] # d
      <3>1. CASE d = hold[r]
        <4>1. ASSUME NEW q \in Requests PROVE hold'[q] # d
          BY <2>2, <2>3, <3>1
        <4> QED
          BY <4>1
      <3>2. CASE d # hold[r]
        BY <1>8, <2>4, <3>2
      <3> QED
        BY <3>1, <3>2
    <2> QED
      BY <2>3, <2>5, <2>6, HoldFrame
  <1> QED
    BY <1>2, <1>3, <1>4, <1>5, <1>6, <1>7, <1>8 DEF RequestStep, Release, Discard

LEMMA HoldOthers ==
  ASSUME TypeInv, RequestInv, HoldInv, [Next]_vars, \A r \in Requests : ~RequestStep(r) PROVE HoldInv'
  <1> USE DEF TypeInv
  <1>1. ASSUME NEW r \in Requests, NEW k \in Keys \cup Contents, Invoke(r, k) PROVE HoldInv'
    <2>1. UNCHANGED <<state, home, overdue, hold>> /\ hold[r] = None
      BY <1>1 DEF Invoke, docker, RequestTypes, Holding
    <2>2. \A q \in Requests \ {r} : from'[q] = from[q] /\ rpc'[q] = rpc[q]
      BY <1>1 DEF Invoke, Use, Goto, RequestTypes
    <2>3. \A d \in overdue' : d \in overdue /\ state'[d] = "used"
      BY <2>1 DEF HoldInv
    <2> QED
      BY <2>1, <2>2, <2>3, HoldFrame
  <1>2. ASSUME NEW p \in Pools, Replenish(p) PROVE HoldInv'
    BY <1>2, HoldCreate DEF Replenish, request
  <1>3. ASSUME NEW p \in Pools, Drain(p) PROVE HoldInv'
    BY <1>3, HoldRemoved DEF Drain
  <1>4. ASSUME UNCHANGED <<state, home, overdue, hold, from, rpc>> PROVE HoldInv'
    BY <1>4 DEF HoldInv
  <1>5. ASSUME NEW p \in Pools, Close(p) \/ Collect(p) PROVE HoldInv'
    BY <1>4, <1>5 DEF Close, Collect, docker, request
  <1>6. ASSUME NEW c \in Containers, Enqueue(c) PROVE HoldInv'
    <2>1. UNCHANGED <<hold, from, rpc>> /\ state[c] = "created"
      BY <1>6 DEF Enqueue
    <2>2. CASE Removed({c})
      BY <2>1, <2>2, HoldRemoved
    <2>3. CASE state' = [state EXCEPT ![c] = "idle"] /\ UNCHANGED <<home, overdue>>
      <3>1. \A d \in Containers \ {c} : state'[d] = state[d]
        BY <2>3 DEF DockerTypes
      <3>2. \A d \in overdue' : d \in overdue /\ state'[d] = "used"
        BY <2>1, <2>3, <3>1 DEF HoldInv, DockerTypes
      <3> QED
        BY <2>1, <2>3, <3>1, <3>2, HoldFrame
    <2> QED
      BY <1>6, <2>2, <2>3 DEF Enqueue
  <1>7. CASE RegistryShutdown \/ UNCHANGED vars
    BY <1>4, <1>7 DEF RegistryShutdown, vars, docker, request
  <1>8. CASE Exit \/ Crash
    <2>1. UNCHANGED <<state, home, overdue>> /\ \A r \in Requests : hold'[r] = None
      BY <1>8 DEF Exit, Crash, Ended
    <2>2. \A d \in overdue' : d # None /\ state'[d] = "used"
      BY <2>1, RuntimeAssumption DEF HoldInv, DockerTypes
    <2> QED
      BY <2>1, <2>2 DEF HoldInv
  <1>9. CASE Restart
    <2>1. overdue' = {} /\ UNCHANGED hold /\ ~Up
      BY <1>9 DEF Restart, request, Up
    <2>2. \A r \in Requests : hold[r] = None
      BY <2>1 DEF RequestInv, RequestTypes, Holding
    <2> QED
      BY <2>1, <2>2 DEF HoldInv
  <1> QED
    BY <1>1, <1>2, <1>3, <1>5, <1>6, <1>7, <1>8, <1>9 DEF Next, PoolStep

-----------------------------------------------------------------------------
(* Pools and their containers *)

(* Steps that leave the registry alone: a container stays, goes, leaves the  *)
(* hands of its maker, or is made for a pool that is not closed.             *)
LEMMA PoolFrame ==
  ASSUME TypeInv, PoolInv, Up, UNCHANGED registry,
         \A c \in Containers :
           \/ home'[c] = None /\ maker'[c] = None
           \/ /\ home'[c] = home[c] /\ maker'[c] = maker[c]
              /\ state'[c] = state[c] \/ home[c] \notin closed \ shutting
           \/ home'[c] = home[c] /\ maker'[c] = None /\ home[c] \notin closed
           \/ /\ home'[c] \in Pools \ closed /\ key[home'[c]] # None
              /\ maker'[c] # None => maker'[c] \in Requests /\ rpc[maker'[c]] = "start",
         \A r \in Requests : rpc[r] = "start" => rpc'[r] = "start" \/ \A c \in Containers : maker'[c] # r
  PROVE  PoolInv'
  <1>1. UNCHANGED <<entry, key, shutting, closed>> /\ None \notin closed
    BY RuntimeAssumption DEF registry, TypeInv, RegistryTypes
  <1>2. \A c \in Containers : home'[c] # None => key'[home'[c]] # None
    BY <1>1 DEF PoolInv
  <1>3. \A c \in Containers : home'[c] \in closed' \ shutting' => state'[c] = "created" /\ maker'[c] # None
    BY <1>1 DEF PoolInv
  <1>4. \A c \in Containers : maker[c] \in Requests \cup {None}
    BY DEF TypeInv, DockerTypes
  <1>5. \A c \in Containers : maker'[c] # None => rpc'[maker'[c]] = "start"
    BY <1>4 DEF PoolInv
  <1> QED
    BY <1>1, <1>2, <1>3, <1>5 DEF PoolInv

LEMMA PoolCreate ==
  ASSUME TypeInv, PoolInv, Up, NEW p \in Pools \ closed, NEW m \in Requests \cup {None}, Create(p, m),
         key[p] # None, m # None => rpc[m] = "start", UNCHANGED <<registry, rpc>>
  PROVE  PoolInv'
  <1>1. PICK c \in Containers :
           /\ state' = [state EXCEPT ![c] = "created"] /\ home' = [home EXCEPT ![c] = p]
           /\ maker' = [maker EXCEPT ![c] = m]
    BY Creates
  <1>2. \A d \in Containers : \/ home'[d] = p /\ maker'[d] = m
                              \/ state'[d] = state[d] /\ home'[d] = home[d] /\ maker'[d] = maker[d]
    BY <1>1 DEF TypeInv, DockerTypes
  <1> QED
    BY <1>2, PoolFrame

LEMMA PoolRemoved ==
  ASSUME TypeInv, PoolInv, Up, NEW C, Removed(C), UNCHANGED registry,
         \A r \in Requests : rpc[r] = "start" => rpc'[r] = "start"
  PROVE  PoolInv'
  <1>1. \A d \in Containers : \/ home'[d] = None /\ maker'[d] = None
                              \/ state'[d] = state[d] /\ home'[d] = home[d] /\ maker'[d] = maker[d]
    BY Removes DEF TypeInv
  <1> QED
    BY <1>1, PoolFrame

LEMMA PoolRequests ==
  ASSUME TypeInv, RequestInv, HoldInv, PoolInv, NEW r \in Requests, RequestStep(r) PROVE PoolInv'
  <1> USE DEF TypeInv
  <1>1. Up /\ UNCHANGED phase
    BY DEF RequestStep, GetOrCreate, StartCreate, StartDone, Acquire, Execute, Release, Discard, process
  <1>2. ASSUME rpc[r] # "start", UNCHANGED <<registry, home, maker>>, \A q \in Requests \ {r} : rpc'[q] = rpc[q],
               \A c \in Containers : state'[c] = state[c] \/ home[c] \notin closed \ shutting
        PROVE  PoolInv'
    BY <1>1, <1>2, PoolFrame
  <1>3. CASE GetOrCreate(r)
    <2>1. rpc[r] = "create" /\ asked[r] # None /\ UNCHANGED docker
      BY <1>3 DEF GetOrCreate, RequestInv
    <2>2. \A q \in Requests \ {r} : rpc'[q] = rpc[q]
      <3>1. CASE Return(r)
        BY <3>1, Returns
      <3>2. CASE \E p, q : Use(r, p, q)
        BY <3>2 DEF Use, Goto, RequestTypes
      <3> QED
        BY <1>3, <3>1, <3>2, NewPool
    <2>3. \A c \in Containers : maker'[c] # None => rpc'[maker'[c]] = "start"
      <3>1. \A c \in Containers : maker[c] # None => maker[c] \in Requests \ {r} /\ rpc[maker[c]] = "start"
        BY <2>1 DEF PoolInv, DockerTypes
      <3> QED
        BY <2>1, <2>2, <3>1 DEF docker
    <2>4. CASE Match(asked[r]) /\ Use(r, entry, "acquire") /\ UNCHANGED <<registry, asked, hold>>
      BY <1>2, <2>1, <2>2, <2>4 DEF docker
    <2>5. CASE /\ Replaced /\ UNCHANGED <<closed, asked, hold>>
               /\ \E p \in Pools : /\ key[p] = None /\ key' = [key EXCEPT ![p] = asked[r]]
                                   /\ entry' = p /\ Use(r, p, "start")
      <3>1. PICK p \in Pools : key[p] = None /\ key' = [key EXCEPT ![p] = asked[r]] /\ entry' = p
        BY <2>5
      <3>2. key'[p] # None /\ \A q \in Pools \ {p} : key'[q] = key[q]
        BY <2>1, <3>1 DEF RegistryTypes
      <3>3. shutting' = shutting \cup ({entry} \ {None}) /\ UNCHANGED <<closed, state, home, maker>>
        BY <2>1, <2>5 DEF Replaced, docker
      <3>4. /\ entry' # None => key'[entry'] # None
            /\ \A q \in closed' \cup shutting' : key'[q] # None
            /\ \A q \in Pools : key'[q] # None => q = entry' \/ q \in shutting' \cup closed'
        BY <3>1, <3>2, <3>3, RuntimeAssumption DEF PoolInv, RegistryTypes
      <3>5. \A c \in Containers : home'[c] # None => key'[home'[c]] # None
        BY <1>1, <3>1, <3>2, <3>3 DEF PoolInv, DockerTypes
      <3>6. \A c \in Containers : home'[c] \in closed' \ shutting' => state'[c] = "created" /\ maker'[c] # None
        BY <3>3 DEF PoolInv
      <3> QED
        BY <2>3, <3>4, <3>5, <3>6 DEF PoolInv
    <2>6. CASE Replaced /\ Return(r) /\ UNCHANGED <<entry, key, closed>>
      <3>1. shutting' = shutting \cup ({entry} \ {None}) /\ UNCHANGED <<state, home, maker>>
        BY <2>1, <2>6 DEF Replaced, docker
      <3>2. \A c \in Containers : home'[c] \in closed' \ shutting' => state'[c] = "created" /\ maker'[c] # None
        BY <2>6, <3>1 DEF PoolInv
      <3>3. /\ entry' # None => key'[entry'] # None
            /\ \A q \in closed' \cup shutting' : key'[q] # None
            /\ \A q \in Pools : key'[q] # None => q = entry' \/ q \in shutting' \cup closed'
        BY <2>6, <3>1 DEF PoolInv
      <3>4. \A c \in Containers : home'[c] # None => key'[home'[c]] # None
        BY <1>1, <2>6, <3>1 DEF PoolInv
      <3> QED
        BY <2>3, <3>2, <3>3, <3>4 DEF PoolInv
    <2> QED
      BY <1>3, <2>4, <2>5, <2>6, NewPool
  <1>4. CASE StartCreate(r)
    <2>1. rpc[r] = "start" /\ from[r] \notin closed /\ Create(from[r], r) /\ UNCHANGED <<registry, rpc>>
      BY <1>4 DEF StartCreate, request
    <2>2. from[r] \in Pools /\ key[from[r]] # None
      BY <2>1 DEF RequestInv, RequestTypes, Working
    <2> QED
      BY <1>1, <2>1, <2>2, PoolCreate
  <1>5. CASE StartDone(r)
    <2>1. /\ UNCHANGED <<registry, state, home, maker>> /\ rpc' = [rpc EXCEPT ![r] = "acquire"]
          /\ \A c \in Containers : maker[c] # r
      BY <1>5 DEF StartDone, docker, Goto
    <2> QED
      BY <1>1, <2>1, PoolFrame DEF RequestTypes
  <1>6. CASE Acquire(r)
    <2>1. UNCHANGED <<registry, home, maker>> /\ rpc[r] = "acquire"
      BY <1>6 DEF Acquire
    <2>2. CASE Return(r) /\ UNCHANGED state
      BY <1>2, <2>1, <2>2, Returns
    <2>3. CASE \E c \in Of(from[r]) :
                 /\ state[c] = "idle" /\ state' = [state EXCEPT ![c] = "used"] /\ Goto(r, "exec")
      <3>1. \A c \in Containers : state'[c] = state[c] \/ state[c] = "idle"
        BY <2>3 DEF Of, DockerTypes
      <3>2. \A c \in Containers : state'[c] = state[c] \/ home[c] \notin closed \ shutting
        BY <3>1 DEF PoolInv
      <3>3. \A q \in Requests \ {r} : rpc'[q] = rpc[q]
        BY <2>3 DEF Goto, RequestTypes
      <3> QED
        BY <1>2, <2>1, <3>2, <3>3
    <2> QED
      BY <1>6, <2>2, <2>3 DEF Acquire
  <1>7. CASE Execute(r)
    <2>1. UNCHANGED <<registry, state, home, maker>> /\ rpc[r] = "exec" /\ \E q : Goto(r, q)
      BY <1>7 DEF Execute, TimedOut
    <2> QED
      BY <1>2, <2>1 DEF Goto, RequestTypes
  <1>8. CASE (Release(r) \/ Discard(r)) /\ Removed({hold[r]})
    <2>1. rpc[r] \in {"release", "discard"} /\ Return(r) /\ UNCHANGED registry
      BY <1>8 DEF Release, Discard
    <2>2. \A q \in Requests : rpc[q] = "start" => rpc'[q] = "start"
      BY <2>1, Returns
    <2> QED
      BY <1>1, <1>8, <2>1, <2>2, PoolRemoved
  <1>9. CASE /\ Release(r) /\ ~Gone(r) /\ from[r] \notin closed
             /\ state' = [state EXCEPT ![hold[r]] = "idle"] /\ UNCHANGED <<home, maker, overdue>>
    <2>1. rpc[r] = "release" /\ Return(r) /\ UNCHANGED registry
      BY <1>9 DEF Release
    <2>2. hold[r] # None /\ hold[r] \in Containers
      BY <2>1, RuntimeAssumption DEF RequestTypes, Holding
    <2>3. home[hold[r]] \notin closed
      BY <1>9, <2>2 DEF HoldInv, Gone
    <2>4. \A c \in Containers : state'[c] = state[c] \/ home[c] \notin closed \ shutting
      BY <1>9, <2>3 DEF DockerTypes
    <2> QED
      BY <1>2, <1>9, <2>1, <2>4, Returns
  <1> QED
    BY <1>3, <1>4, <1>5, <1>6, <1>7, <1>8, <1>9 DEF RequestStep, Release, Discard

LEMMA PoolOthers ==
  ASSUME TypeInv, PoolInv, [Next]_vars, \A r \in Requests : ~RequestStep(r) PROVE PoolInv'
  <1> USE DEF TypeInv
  <1>1. ASSUME NEW r \in Requests, NEW k \in Keys \cup Contents, Invoke(r, k) PROVE PoolInv'
    <2>1. UNCHANGED <<registry, docker>> /\ rpc[r] = "idle" /\ Up
      BY <1>1 DEF Invoke, Up
    <2>2. \A q \in Requests \ {r} : rpc'[q] = rpc[q]
      BY <1>1 DEF Invoke, Use, Goto, RequestTypes
    <2> QED
      BY <2>1, <2>2, PoolFrame DEF docker
  <1>2. ASSUME NEW p \in Pools, Replenish(p) PROVE PoolInv'
    BY <1>2, PoolCreate DEF Replenish, request
  <1>3. ASSUME NEW c \in Containers, Enqueue(c) PROVE PoolInv'
    <2>1. UNCHANGED <<registry, rpc>> /\ Up
      BY <1>3 DEF Enqueue
    <2>2. CASE Removed({c})
      BY <2>1, <2>2, PoolRemoved
    <2>3. CASE /\ home[c] \notin closed /\ state' = [state EXCEPT ![c] = "idle"]
               /\ maker' = [maker EXCEPT ![c] = None] /\ UNCHANGED <<home, overdue>>
      <3>1. \A d \in Containers : \/ d = c /\ home'[d] = home[d] /\ maker'[d] = None
                                  \/ state'[d] = state[d] /\ home'[d] = home[d] /\ maker'[d] = maker[d]
        BY <2>3 DEF DockerTypes
      <3> QED
        BY <2>1, <2>3, <3>1, PoolFrame
    <2> QED
      BY <1>3, <2>2, <2>3 DEF Enqueue
  <1>4. ASSUME NEW p \in Pools, Close(p) PROVE PoolInv'
    <2>1. /\ UNCHANGED <<entry, key, shutting, state, home, maker, rpc, phase>>
          /\ p \in shutting /\ closed' = closed \cup {p}
      BY <1>4 DEF Close, docker, request, process
    <2> QED
      BY <2>1 DEF PoolInv, Up
  <1>5. ASSUME NEW p \in Pools, Drain(p) PROVE PoolInv'
    <2>1. /\ Up /\ UNCHANGED <<entry, key, closed, rpc, phase>> /\ p \in closed /\ shutting' = shutting \ {p}
          /\ \A c \in Of(p) : state[c] = "created" => maker[c] # None
          /\ Removed({c \in Of(p) : state[c] # "created"})
      BY <1>5 DEF Drain, process
    <2>2. \A c \in Containers :
            \/ home'[c] = None /\ maker'[c] = None
            \/ /\ state'[c] = state[c] /\ home'[c] = home[c] /\ maker'[c] = maker[c]
               /\ home[c] = p => state[c] = "created"
      <3> DEFINE C == {c \in Of(p) : state[c] # "created"}
      <3>1. Removed(C)
        BY <2>1
      <3>2. \A c \in Containers : home[c] = p /\ c \notin C => state[c] = "created"
        BY DEF Of
      <3> HIDE DEF C
      <3>3. \A c \in Containers :
              \/ c \notin C /\ state'[c] = state[c] /\ home'[c] = home[c] /\ maker'[c] = maker[c]
              \/ home'[c] = None /\ maker'[c] = None
        BY <3>1, Removes
      <3> QED
        BY <3>2, <3>3
    <2>3. \A c \in Containers : home'[c] \in closed' \ shutting' => state'[c] = "created" /\ maker'[c] # None
      BY <2>1, <2>2, RuntimeAssumption DEF PoolInv, Of, RegistryTypes
    <2>4. \A c \in Containers : home'[c] # None => key'[home'[c]] # None
      BY <2>1, <2>2 DEF PoolInv
    <2>5. \A c \in Containers : maker'[c] # None => rpc'[maker'[c]] = "start"
      BY <2>1, <2>2 DEF PoolInv
    <2> QED
      BY <2>1, <2>3, <2>4, <2>5 DEF PoolInv
  <1>6. ASSUME NEW p \in Pools, Collect(p) PROVE PoolInv'
    <2>1. /\ Up /\ UNCHANGED <<entry, shutting, state, home, maker, rpc, phase>> /\ entry # p /\ p \notin shutting
          /\ Of(p) = {} /\ key' = [key EXCEPT ![p] = None] /\ closed' = closed \ {p}
      BY <1>6 DEF Collect, docker, request, process
    <2>2. key'[p] = None /\ \A q \in Pools \ {p} : key'[q] = key[q]
      BY <2>1 DEF RegistryTypes
    <2>3. /\ entry' # None => key'[entry'] # None
          /\ \A q \in closed' \cup shutting' : key'[q] # None
          /\ \A q \in Pools : key'[q] # None => q = entry' \/ q \in shutting' \cup closed'
      BY <2>1, <2>2 DEF PoolInv, RegistryTypes
    <2>4. ASSUME NEW c \in Containers, home'[c] # None PROVE key'[home'[c]] # None
      <3>1. home[c] \in Pools /\ home'[c] = home[c]
        BY <2>1, <2>4 DEF DockerTypes
      <3>2. home[c] # p
        BY <2>1 DEF Of
      <3>3. key[home[c]] # None
        BY <2>1, <2>4, <3>1 DEF PoolInv
      <3> QED
        BY <2>2, <3>1, <3>2, <3>3
    <2>5. \A c \in Containers : home'[c] \in closed' \ shutting' => state'[c] = "created" /\ maker'[c] # None
      BY <2>1 DEF PoolInv
    <2>6. \A c \in Containers : maker'[c] # None => rpc'[maker'[c]] = "start"
      BY <2>1 DEF PoolInv
    <2> QED
      BY <2>3, <2>4, <2>5, <2>6 DEF PoolInv
  <1>7. CASE RegistryShutdown
    <2>1. /\ UNCHANGED <<key, closed, state, home, maker, rpc>> /\ Up
          /\ shutting' = shutting \cup ({entry} \ {None}) /\ entry' = None
      BY <1>7 DEF RegistryShutdown, docker, request, Up
    <2>2. /\ \A q \in closed' \cup shutting' : key'[q] # None
          /\ \A q \in Pools : key'[q] # None => q = entry' \/ q \in shutting' \cup closed'
      BY <2>1, RuntimeAssumption DEF PoolInv, RegistryTypes
    <2>3. \A c \in Containers : home'[c] \in closed' \ shutting' => state'[c] = "created" /\ maker'[c] # None
      BY <2>1 DEF PoolInv
    <2> QED
      BY <2>1, <2>2, <2>3 DEF PoolInv
  <1>8. CASE Exit \/ Crash
    BY <1>8 DEF Exit, Crash, Ended, PoolInv, Up
  <1>9. CASE Restart
    <2>1. UNCHANGED <<entry, key, shutting, closed, maker, rpc>> /\ \A c \in Containers : home'[c] = None
      BY <1>9 DEF Restart, registry, request
    <2>2. None \notin closed
      BY RuntimeAssumption DEF RegistryTypes
    <2> QED
      BY <2>1, <2>2 DEF PoolInv
  <1>10. CASE UNCHANGED vars
    BY <1>10 DEF PoolInv, Up, vars, registry, docker, request, process
  <1> QED
    BY <1>1, <1>2, <1>3, <1>4, <1>5, <1>6, <1>7, <1>8, <1>9, <1>10 DEF Next, PoolStep

-----------------------------------------------------------------------------
(* The end of the process *)

LEMMA QuietStep ==
  ASSUME TypeInv, PoolInv, QuietInv, [Next]_vars PROVE QuietInv'
  <1> USE DEF TypeInv
  <1>1. ASSUME NEW r \in Requests, RequestStep(r) PROVE QuietInv'
    <2>1. Up /\ rpc[r] # "idle" /\ UNCHANGED <<phase, busy>>
      BY <1>1 DEF RequestStep, GetOrCreate, StartCreate, StartDone, Acquire, Execute, Release, Discard, process
    <2>2. r \in Active
      BY <2>1 DEF Active
    <2> QED
      BY <2>1, <2>2 DEF QuietInv, Up
  <1>2. ASSUME NEW r \in Requests, NEW k \in Keys \cup Contents, Invoke(r, k) PROVE QuietInv'
    BY <1>2 DEF Invoke, QuietInv, process
  <1>3. ASSUME Up, UNCHANGED <<phase, busy, waits, rpc, entry>>, shutting' \subseteq shutting PROVE QuietInv'
    BY <1>3 DEF QuietInv, Active, Up
  <1>4. ASSUME NEW p \in Pools, PoolStep(p) \/ Replenish(p) \/ Collect(p) PROVE QuietInv'
    BY <1>3, <1>4 DEF PoolStep, Close, Drain, Replenish, Collect, registry, request, process
  <1>5. ASSUME NEW c \in Containers, Enqueue(c) PROVE QuietInv'
    BY <1>3, <1>5 DEF Enqueue, registry, process
  <1>6. CASE RegistryShutdown
    <2>1. /\ phase' = "closing" /\ busy' = (Active # {} \/ shutting # {}) /\ UNCHANGED rpc
          /\ waits' = entry /\ shutting' = shutting \cup ({entry} \ {None}) /\ entry' = None
      BY <1>6 DEF RegistryShutdown, request
    <2>2. Active' = Active
      BY <2>1 DEF Active
    <2> QED
      BY <2>1, <2>2 DEF QuietInv
  <1>7. CASE Exit
    <2>1. phase = "closing" /\ waits \notin shutting /\ UNCHANGED <<home, busy>> /\ phase' = "exited" /\ Up
      BY <1>7 DEF Exit, Up
    <2>2. ASSUME ~busy, NEW c \in Containers PROVE home[c] = None
      <3>1. Active = {} /\ entry = None /\ shutting = {}
        BY <2>1, <2>2 DEF QuietInv
      <3>2. maker[c] = None
        BY <3>1 DEF PoolInv, Active, DockerTypes
      <3>3. ASSUME home[c] # None PROVE FALSE
        <4>1. home[c] \in Pools /\ key[home[c]] # None
          BY <2>1, <3>3 DEF PoolInv, DockerTypes
        <4>2. home[c] \in closed \ shutting
          BY <3>1, <4>1, RuntimeAssumption DEF PoolInv
        <4> QED
          BY <3>2, <4>2 DEF PoolInv
      <3> QED
        BY <3>3
    <2> QED
      BY <2>1, <2>2 DEF QuietInv
  <1>8. CASE Crash \/ Restart
    BY <1>8 DEF Crash, Restart, QuietInv
  <1>9. CASE UNCHANGED vars
    BY <1>9 DEF vars, QuietInv, Active, registry, docker, request, process
  <1> QED
    BY <1>1, <1>2, <1>4, <1>5, <1>6, <1>7, <1>8, <1>9 DEF Next

IndInv == RequestInv /\ HoldInv /\ PoolInv /\ QuietInv

LEMMA Inductive == Spec => []IndInv
  <1>1. Init => IndInv
    BY DEF Init, IndInv, RequestInv, HoldInv, PoolInv, QuietInv, Working
  <1>2. TypeInv /\ IndInv /\ [Next]_vars => IndInv'
    <2> SUFFICES ASSUME TypeInv, IndInv, [Next]_vars PROVE IndInv'
      OBVIOUS
    <2>1. RequestInv' /\ HoldInv' /\ PoolInv'
      BY RequestRequests, RequestOthers, HoldRequests, HoldOthers, PoolRequests, PoolOthers DEF IndInv
    <2>2. QuietInv'
      BY QuietStep DEF IndInv
    <2> QED
      BY <2>1, <2>2 DEF IndInv
  <1> QED
    BY <1>1, <1>2, TypeCorrect, PTL DEF Spec

(* An invocation executes in a container that was seeded with the code key   *)
(* it has read, for any number of versions and concurrent invocations: a     *)
(* pool keeps its key as long as a request refers to it, and a container its *)
(* pool as long as it exists.                                                *)
THEOREM RequestedCode == Spec => []RunsRequestedCode
  <1>1. TypeInv /\ IndInv => RunsRequestedCode
    <2> SUFFICES ASSUME TypeInv, IndInv, NEW r \in Requests, rpc[r] = "exec", ~Gone(r)
                 PROVE  key[home[hold[r]]] = asked[r]
      BY DEF RunsRequestedCode
    <2>1. hold[r] # None
      BY DEF TypeInv, RequestTypes, Holding
    <2>2. home[hold[r]] = from[r]
      BY <2>1 DEF IndInv, HoldInv, Gone
    <2>3. key[from[r]] = asked[r]
      BY DEF IndInv, RequestInv, Working
    <2> QED
      BY <2>2, <2>3
  <1> QED
    BY <1>1, TypeCorrect, Inductive, PTL

(* A container whose exec has timed out is in the hands of the request that  *)
(* will discard it, or removed already: Execute's deferred function never    *)
(* puts it back, and a container has one holder.                             *)
THEOREM OverdueDiscarded == Spec => []NoOverdueReused
  <1>1. IndInv => NoOverdueReused
    BY DEF IndInv, HoldInv, NoOverdueReused
  <1> QED
    BY <1>1, Inductive, PTL

(* A graceful exit with no request and no replaced pool under way leaves no  *)
(* container: a pool outside the registry is being shut down or is closed,   *)
(* and for a closed one only requests that were starting it still create.    *)
THEOREM CleanExit == Spec => []ExitLeavesNothing
  <1>1. IndInv => ExitLeavesNothing
    BY DEF IndInv, QuietInv, ExitLeavesNothing
  <1> QED
    BY <1>1, Inductive, PTL

(* While a process serves, a container of an earlier one is one that was     *)
(* never started, unless a sweep at start-up could not list the containers:  *)
(* no step of the process disowns a container of its own.                    *)
THEOREM Sweeps == Spec => []OrphansSwept
  <1>1. Init => OrphansSwept
    BY DEF Init, OrphansSwept, Alive
  <1>2. TypeInv /\ IndInv /\ OrphansSwept /\ [Next]_vars => OrphansSwept'
    <2> SUFFICES ASSUME TypeInv, IndInv, OrphansSwept, [Next]_vars, phase' = "serving", ~missed'
                 PROVE  \A c \in Containers : state'[c] # "none" /\ home'[c] = None => state'[c] = "created"
      BY DEF OrphansSwept, Alive
    <2> USE DEF TypeInv
    <2>1. CASE Restart
      <3>1. PICK C \in Swept : state' = [c \in Containers |-> IF c \in C THEN "none" ELSE state[c]]
        BY <2>1 DEF Restart
      <3>2. \A c \in Containers : state[c] \notin {"none", "created"} => c \in C
        BY DEF Swept, Alive
      <3> QED
        BY <3>1, <3>2
    <2>2. ASSUME UNCHANGED <<phase, missed>>,
                 \A c \in Containers : \/ state'[c] \in {"none", "created"}
                                       \/ home'[c] = home[c] /\ state'[c] = state[c]
                                       \/ home'[c] # None
          PROVE  \A c \in Containers : state'[c] # "none" /\ home'[c] = None => state'[c] = "created"
      BY <2>2 DEF OrphansSwept, Alive
    <2>3. ASSUME NEW C, Removed(C), UNCHANGED <<phase, missed>>
          PROVE  \A c \in Containers : state'[c] # "none" /\ home'[c] = None => state'[c] = "created"
      <3>1. \A c \in Containers : state'[c] = "none" \/ (home'[c] = home[c] /\ state'[c] = state[c])
        BY <2>3, Removes
      <3> QED
        BY <2>2, <2>3, <3>1
    <2>4. ASSUME NEW p, NEW m, Create(p, m), UNCHANGED <<phase, missed>>
          PROVE  \A c \in Containers : state'[c] # "none" /\ home'[c] = None => state'[c] = "created"
      <3>1. \A c \in Containers : state'[c] = "created" \/ (home'[c] = home[c] /\ state'[c] = state[c])
        BY <2>4, Creates DEF DockerTypes
      <3> QED
        BY <2>2, <2>4, <3>1
    <2>5. ASSUME NEW d \in Containers, home[d] # None, NEW v, state' = [state EXCEPT ![d] = v],
                 UNCHANGED <<home, phase, missed>>
          PROVE  \A c \in Containers : state'[c] # "none" /\ home'[c] = None => state'[c] = "created"
      <3>1. \A c \in Containers : home'[c] # None \/ (home'[c] = home[c] /\ state'[c] = state[c])
        BY <2>5 DEF DockerTypes
      <3> QED
        BY <2>2, <2>5, <3>1
    <2>6. ASSUME NEW r \in Requests, RequestStep(r)
          PROVE  \A c \in Containers : state'[c] # "none" /\ home'[c] = None => state'[c] = "created"
      <3>1. UNCHANGED <<phase, missed>>
        BY <2>6 DEF RequestStep, GetOrCreate, StartCreate, StartDone, Acquire, Execute, Release, Discard, process
      <3>2. CASE GetOrCreate(r) \/ StartDone(r) \/ Execute(r)
        BY <2>2, <3>1, <3>2 DEF GetOrCreate, StartDone, Execute, docker
      <3>3. CASE StartCreate(r)
        BY <2>4, <3>1, <3>3 DEF StartCreate
      <3>4. CASE Acquire(r)
        <4>1. from[r] # None
          BY <3>4 DEF Acquire, IndInv, RequestInv, Working
        <4>2. CASE UNCHANGED <<state, home>>
          BY <2>2, <3>1, <4>2
        <4>3. CASE \E c \in Of(from[r]) : state' = [state EXCEPT ![c] = "used"] /\ UNCHANGED home
          BY <2>5, <3>1, <4>1, <4>3 DEF Of
        <4> QED
          BY <3>4, <4>2, <4>3 DEF Acquire
      <3>5. CASE (Release(r) \/ Discard(r)) /\ Removed({hold[r]})
        BY <2>3, <3>1, <3>5
      <3>6. CASE Release(r) /\ ~Gone(r) /\ state' = [state EXCEPT ![hold[r]] = "idle"] /\ UNCHANGED home
        <4>1. rpc[r] = "release"
          BY <3>6 DEF Release
        <4>2. hold[r] # None /\ hold[r] \in Containers /\ from[r] # None
          BY <4>1, RuntimeAssumption DEF RequestTypes, Holding, Working, IndInv, RequestInv
        <4>3. home[hold[r]] # None
          BY <3>6, <4>2 DEF IndInv, HoldInv, Gone
        <4> QED
          BY <2>5, <3>1, <3>6, <4>2, <4>3
      <3> QED
        BY <2>6, <3>2, <3>3, <3>4, <3>5, <3>6 DEF RequestStep, Release, Discard
    <2>7. ASSUME NEW p \in Pools, PoolStep(p) \/ Replenish(p) \/ Collect(p)
          PROVE  \A c \in Containers : state'[c] # "none" /\ home'[c] = None => state'[c] = "created"
      <3>1. UNCHANGED <<phase, missed>>
        BY <2>7 DEF PoolStep, Close, Drain, Replenish, Collect, process
      <3>2. CASE Close(p) \/ Collect(p)
        BY <2>2, <3>1, <3>2 DEF Close, Collect, docker
      <3> QED
        BY <2>3, <2>4, <2>7, <3>1, <3>2 DEF PoolStep, Drain, Replenish
    <2>8. ASSUME NEW d \in Containers, Enqueue(d)
          PROVE  \A c \in Containers : state'[c] # "none" /\ home'[c] = None => state'[c] = "created"
      <3>1. UNCHANGED <<phase, missed>> /\ home[d] # None
        BY <2>8 DEF Enqueue, process
      <3> QED
        BY <2>3, <2>5, <2>8, <3>1 DEF Enqueue
    <2>9. CASE UNCHANGED vars \/ \E r \in Requests, k \in Keys \cup Contents : Invoke(r, k)
      BY <2>2, <2>9 DEF vars, Invoke, docker, process
    <2>10. ~RegistryShutdown /\ ~Exit /\ ~Crash
      BY DEF RegistryShutdown, Exit, Crash
    <2> QED
      BY <2>1, <2>6, <2>7, <2>8, <2>9, <2>10 DEF Next
  <1> QED
    BY <1>1, <1>2, TypeCorrect, Inductive, PTL DEF Spec
=============================================================================
