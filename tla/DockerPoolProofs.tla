-------------------------- MODULE DockerPoolProofs --------------------------
(* Theorems about DockerPool, for every set of containers and goroutines and *)
(* every pool configuration.                                                 *)
EXTENDS DockerPool, TLAPS

(* What the sequence operations of the idle channel do to what it contains. *)
LEMMA TailFacts ==
  ASSUME NEW S, NEW s \in Seq(S), s # <<>>
  PROVE  /\ Tail(s) \in Seq(S) /\ Len(Tail(s)) = Len(s) - 1 /\ Len(s) \in Nat
         /\ Head(s) \in S /\ Head(s) \in Range(s)
         /\ Range(Tail(s)) \subseteq Range(s)
         /\ IsInjective(s) => /\ IsInjective(Tail(s))
                              /\ Range(Tail(s)) = Range(s) \ {Head(s)}
<1>1. /\ Tail(s) \in Seq(S) /\ Len(Tail(s)) = Len(s) - 1 /\ Len(s) \in Nat /\ Len(s) > 0
      /\ DOMAIN s = 1 .. Len(s) /\ DOMAIN Tail(s) = 1 .. (Len(s) - 1)
      /\ Head(s) = s[1] /\ \A i \in 1 .. (Len(s) - 1) : Tail(s)[i] = s[i + 1]
  OBVIOUS
<1>2. Head(s) \in S /\ Head(s) \in Range(s)
  BY <1>1 DEF Range
<1>3. Range(Tail(s)) \subseteq Range(s)
  BY <1>1 DEF Range
<1>4. ASSUME IsInjective(s) PROVE IsInjective(Tail(s))
  BY <1>1, <1>4 DEF IsInjective
<1>5. ASSUME IsInjective(s) PROVE Head(s) \notin Range(Tail(s))
  BY <1>1, <1>5 DEF IsInjective, Range
<1>6. \A e \in Range(s) : e # Head(s) => e \in Range(Tail(s))
  <2>1. SUFFICES ASSUME NEW i \in 1 .. Len(s), s[i] # s[1]
                 PROVE  s[i] \in Range(Tail(s))
    BY <1>1 DEF Range
  <2>2. i - 1 \in 1 .. (Len(s) - 1) /\ Tail(s)[i - 1] = s[i]
    BY <1>1, <2>1
  <2> QED BY <1>1, <2>2, Zenon DEF Range
<1> QED BY <1>1, <1>2, <1>3, <1>4, <1>5, <1>6

LEMMA AppendFacts ==
  ASSUME NEW S, NEW s \in Seq(S), NEW e \in S
  PROVE  /\ Append(s, e) \in Seq(S) /\ Len(Append(s, e)) = Len(s) + 1
         /\ Range(Append(s, e)) = Range(s) \cup {e}
         /\ IsInjective(s) /\ e \notin Range(s) => IsInjective(Append(s, e))
<1>1. /\ Append(s, e) \in Seq(S) /\ Len(Append(s, e)) = Len(s) + 1 /\ Len(s) \in Nat
      /\ DOMAIN s = 1 .. Len(s) /\ DOMAIN Append(s, e) = 1 .. (Len(s) + 1)
      /\ Append(s, e)[Len(s) + 1] = e
      /\ \A i \in 1 .. Len(s) : Append(s, e)[i] = s[i]
  OBVIOUS
<1>2. Range(Append(s, e)) \subseteq Range(s) \cup {e}
  BY <1>1 DEF Range
<1>3. Range(s) \cup {e} \subseteq Range(Append(s, e))
  BY <1>1 DEF Range
<1>4. ASSUME IsInjective(s), e \notin Range(s) PROVE IsInjective(Append(s, e))
  BY <1>1, <1>4 DEF IsInjective, Range
<1> QED BY <1>1, <1>2, <1>3, <1>4

-----------------------------------------------------------------------------
LEMMA AppendNew ==
  ASSUME NEW s \in Seq(Containers), IsInjective(s), NEW c \in Containers, c \notin Range(s)
  PROVE  IsInjective(Append(s, c)) /\ Range(Append(s, c)) = Range(s) \cup {c}
  BY AppendFacts

(* The instances of the sequence lemmas that the steps of the pool need. *)
LEMMA ChannelFacts ==
  ASSUME NEW s \in Seq(Containers)
  PROVE  /\ s # <<>> => /\ Tail(s) \in Seq(Containers) /\ Len(Tail(s)) = Len(s) - 1
                       /\ Head(s) \in Containers
         /\ Len(s) \in Nat
         /\ \A c \in Containers : /\ Append(s, c) \in Seq(Containers)
                                 /\ Len(Append(s, c)) = Len(s) + 1
  OBVIOUS

(* Every variable keeps its type; in particular the idle channel never holds *)
(* more than MaxSize containers.                                             *)
THEOREM TypeCorrect == Spec => []TypeInv
<1>1. Init => TypeInv
  <2> SUFFICES ASSUME Init PROVE TypeInv
    OBVIOUS
  <2> USE PoolConfigAssumption DEF Init, TypeInv, Holding, TypeOK, Goroutines, PC
  <2>1. idle \in Seq(Containers) /\ Len(idle) <= MaxSize /\ keep \in Seq(Containers)
    OBVIOUS
  <2> QED BY <2>1, Zenon
<1>2. TypeInv /\ [Next]_vars => TypeInv'
  <2> SUFFICES ASSUME TypeInv, [Next]_vars PROVE TypeInv'
    OBVIOUS
  <2> USE PoolConfigAssumption, RolesAssumption DEF TypeInv, Holding, TypeOK, Goroutines, PC,
          Step, chan, table, flags, daemon, roles, cycle
  <2>a. /\ idle # <<>> => /\ Tail(idle) \in Seq(Containers) /\ Len(Tail(idle)) <= MaxSize
                         /\ Head(idle) \in Containers
        /\ \A c \in Containers : /\ Append(idle, c) \in Seq(Containers)
                                /\ Len(idle) < MaxSize => Len(Append(idle, c)) <= MaxSize
        /\ Len(idle) \in Nat
    BY ChannelFacts
  <2>b. /\ keep # <<>> => Tail(keep) \in Seq(Containers) /\ Head(keep) \in Containers
        /\ \A c \in Containers : Append(keep, c) \in Seq(Containers)
    BY ChannelFacts
  (* Who holds what, when one goroutine moves. *)
  <2> DEFINE Owners == /\ pc \in [Goroutines -> PC] /\ has \in [Goroutines -> Containers \cup {None}]
                       /\ \A h \in Goroutines : pc[h] \in Holding => has[h] # None
  <2>s. ASSUME NEW g \in Goroutines, NEW p \in PC, NEW c \in Containers \cup {None},
               p \in Holding => c # None, Step(g, p, c)
        PROVE  Owners'
    BY <2>s
  <2>1. ASSUME NEW w \in Callers, CallAcquire(w) PROVE TypeInv'
    BY <2>1 DEF CallAcquire
  <2>2. ASSUME NEW w \in Callers, AcquireReceive(w) PROVE TypeInv'
    BY <2>2, <2>a DEF AcquireReceive
  <2>3. ASSUME NEW w \in Callers, AcquireFail(w) PROVE TypeInv'
    BY <2>3 DEF AcquireFail
  <2>4. ASSUME NEW w \in Callers, AcquireStore(w) PROVE TypeInv'
    BY <2>4 DEF AcquireStore
  <2>5. ASSUME NEW w \in Callers, Release(w) PROVE TypeInv'
    BY <2>5 DEF Release
  <2>6. ASSUME NEW w \in Callers, ReleaseRetire(w) PROVE TypeInv'
    <3>1. Step(w, "spawn", None) \/ Step(w, "out", None)
      BY <2>6 DEF ReleaseRetire
    <3>2. Owners'
      BY <2>s, <3>1, Zenon
    <3>3. docker' \subseteq Containers /\ leaked' \subseteq docker'
      BY <2>6 DEF ReleaseRetire, Removed
    <3> QED BY <2>6, <3>2, <3>3 DEF ReleaseRetire
  <2>7. ASSUME NEW w \in Callers, Discard(w) PROVE TypeInv'
    BY <2>7 DEF Discard
  <2>8. ASSUME NEW w \in Callers, SpawnReplacement(w) PROVE TypeInv'
    <3>1. PICK m \in Makers :
            /\ Spawned(m)
            /\ pc' = [pc EXCEPT ![w] = "out",
                                ![m] = IF pc[w] = "spawn" THEN "replenish" ELSE "stop"]
            /\ has' = [has EXCEPT ![w] = None, ![m] = has[w]]
      BY <2>8 DEF SpawnReplacement
    <3>2. pc[w] \in {"spawn", "discard"} /\ (pc[w] = "discard" => has[w] # None)
      BY <2>8 DEF SpawnReplacement
    <3>3. Owners'
      BY <3>1, <3>2, Zenon
    <3>4. wg' \subseteq Makers
      BY <3>1 DEF Spawned
    <3> QED BY <2>8, <3>3, <3>4, Zenon DEF SpawnReplacement
  <2>9. ASSUME NEW w \in Callers, Evict(w) PROVE TypeInv'
    <3>1. CASE idle # <<>>
      <4>1. idle' \in Seq(Containers) /\ Len(idle') <= MaxSize /\ Head(idle) \in Containers
        BY <2>9, <2>a, <3>1, Zenon DEF Evict
      <4>2. UNCHANGED <<idleClosed, table, flags, daemon, roles, must, cycle>>
        BY <2>9, <3>1 DEF Evict
      <4>3. Step(w, "drop", Head(idle))
        BY <2>9, <3>1 DEF Evict
      <4> QED BY <4>1, <4>2, <4>3
    <3>2. CASE idle = <<>>
      BY <2>9, <3>2 DEF Evict
    <3> QED BY <3>1, <3>2
  <2>10. ASSUME NEW m \in Makers, Start(m) PROVE TypeInv'
    BY <2>10 DEF Start
  <2>11. ASSUME NEW m \in Makers, CreateNew(m) PROVE TypeInv'
    BY <2>11 DEF CreateNew
  <2>12. ASSUME NEW m \in Makers, Create(m) PROVE TypeInv'
    <3>1. ASSUME NEW c \in Containers, docker' = docker \cup {c},
                 Step(m, "seed", c), uses' = [uses EXCEPT ![c] = 0], UNCHANGED <<leaked, roles>>
          PROVE  TypeInv'
      BY <2>12, <3>1 DEF Create
    <3>2. ASSUME NEW c \in Containers, docker' = docker \cup {c}, leaked' = leaked \cup {c},
                 Step(m, Returned(m, TRUE), None), EndRole(m, Returned(m, TRUE)), UNCHANGED uses
          PROVE  TypeInv'
      <4>1. Owners'
        BY <2>s, <3>2, Zenon DEF Returned
      <4>2. wg' \subseteq Makers /\ starter' = starter
        BY <3>2, Zenon DEF EndRole
      <4> QED BY <2>12, <3>2, <4>1, <4>2, ZenonT(30) DEF Create
    <3>3. CASE /\ Step(m, Returned(m, TRUE), None) /\ EndRole(m, Returned(m, TRUE))
               /\ UNCHANGED <<daemon, uses>>
      <4>1. Owners'
        BY <2>s, <3>3, Zenon DEF Returned
      <4>2. wg' \subseteq Makers /\ starter' = starter
        BY <3>3, Zenon DEF EndRole
      <4> QED BY <2>12, <3>3, <4>1, <4>2, Zenon DEF Create
    <3> QED BY <2>12, <3>1, <3>2, <3>3, Zenon DEF Create
  <2>13. ASSUME NEW m \in Makers, Seed(m) PROVE TypeInv'
    BY <2>13 DEF Seed
  <2>14. ASSUME NEW m \in Makers, StartLifecycle(m) PROVE TypeInv'
    BY <2>14 DEF StartLifecycle
  <2>15. ASSUME NEW k \in Closers, Shutdown(k) PROVE TypeInv'
    BY <2>15 DEF Shutdown
  <2>16. ASSUME NEW k \in Closers, ShutdownWait(k) PROVE TypeInv'
    BY <2>16 DEF ShutdownWait
  <2>17. ASSUME NEW k \in Closers, ShutdownClose(k) PROVE TypeInv'
    BY <2>17 DEF ShutdownClose
  <2>18. ASSUME NEW k \in Closers, ShutdownDrain(k) PROVE TypeInv'
    <3>1. CASE idle # <<>>
      <4>1. idle' \in Seq(Containers) /\ Len(idle') <= MaxSize /\ Head(idle) \in Containers
        BY <2>18, <2>a, <3>1, Zenon DEF ShutdownDrain
      <4>2. UNCHANGED <<idleClosed, table, flags, daemon, roles, must, cycle>>
        BY <2>18, <3>1 DEF ShutdownDrain
      <4>3. Step(k, "drop", Head(idle))
        BY <2>18, <3>1 DEF ShutdownDrain
      <4>4. Owners'
        BY <2>s, <4>1, <4>3, Zenon
      <4> QED BY <4>1, <4>2, <4>4
    <3>2. CASE idle = <<>>
      <4>1. Step(k, "sweep", None) /\ must' = [must EXCEPT ![k] = inUse]
        BY <2>18, <3>2 DEF ShutdownDrain
      <4>2. UNCHANGED <<idle, idleClosed, table, flags, daemon, roles, cycle>>
        BY <2>18, <3>2 DEF ShutdownDrain
      <4>3. Owners'
        BY <2>s, <4>1, Zenon
      <4>4. must' \in [Closers -> SUBSET Containers]
        BY <4>1
      <4> QED BY <4>2, <4>3, <4>4
    <3> QED BY <3>1, <3>2
  <2>19. ASSUME NEW k \in Closers, ShutdownSweep(k) PROVE TypeInv'
    <3>1. ASSUME NEW c \in must[k], must' = [must EXCEPT ![k] = @ \ {c}],
                 IF c \in inUse THEN Stop(c) ELSE UNCHANGED daemon, UNCHANGED <<pc, has>>
          PROVE  TypeInv'
      <4>1. docker' \subseteq Containers /\ leaked' \subseteq docker'
        BY <3>1 DEF Stop, Removed
      <4> QED BY <2>19, <3>1, <4>1 DEF ShutdownSweep
    <3>2. CASE Step(k, "done", None) /\ UNCHANGED <<daemon, must>>
      BY <2>19, <3>2 DEF ShutdownSweep
    <3> QED BY <2>19, <3>1, <3>2 DEF ShutdownSweep
  <2>20. ASSUME NEW g \in Goroutines, Test(g) PROVE TypeInv'
    BY <2>20 DEF Test, Tested, EndRole, Returned
  <2>21. ASSUME NEW g \in Goroutines, Send(g) PROVE TypeInv'
    <3>1. CASE idleClosed
      BY <2>21, <3>1 DEF Send
    <3>2. CASE ~idleClosed /\ CanSend
      <4>0. has[g] \in Containers /\ idle' = Append(idle, has[g]) /\ Len(idle) < MaxSize
        BY <2>21, <3>2, Zenon DEF Send, CanSend
      <4>1. idle' \in Seq(Containers) /\ Len(idle') <= MaxSize
        BY <2>a, <4>0
      <4>2. Step(g, Returned(g, FALSE), None) /\ EndRole(g, Returned(g, FALSE))
        BY <2>21, <3>2, Zenon DEF Send
      <4>3. Owners'
        BY <2>s, <4>2, Zenon DEF Returned
      <4>4. wg' \subseteq Makers /\ starter' = starter
        BY <4>2, Zenon DEF EndRole
      <4>5. UNCHANGED <<panic, idleClosed, table, closed, daemon, must, cycle>>
        BY <2>21, <3>2, Zenon DEF Send
      <4> QED BY <4>1, <4>3, <4>4, <4>5
    <3>3. CASE ~idleClosed /\ ~CanSend
      BY <2>21, <3>3, ZenonT(30) DEF Send
    <3> QED BY <3>1, <3>2, <3>3
  <2>22. ASSUME NEW g \in Goroutines, Drop(g) PROVE TypeInv'
    BY <2>22 DEF Drop, EndRole, Returned, Stop, Removed
  <2>23. CASE Tick
    BY <2>23 DEF Tick
  <2>24. CASE LifecycleExit
    BY <2>24 DEF LifecycleExit
  <2>25. CASE LifecycleDrain
    <3>1. CASE idle # <<>>
      <4>1. idle' \in Seq(Containers) /\ Len(idle') <= MaxSize
        BY <2>25, <2>a, <3>1, Zenon DEF LifecycleDrain
      <4>2. keep' \in Seq(Containers) /\ stopping' \subseteq Containers
        <5>1. Head(idle) \in Containers /\ Append(keep, Head(idle)) \in Seq(Containers)
          BY <2>a, <2>b, <3>1
        <5> QED BY <2>25, <3>1, <5>1, Zenon DEF LifecycleDrain
      <4> QED BY <2>25, <3>1, <4>1, <4>2, Zenon DEF LifecycleDrain
    <3>2. CASE idle = <<>>
      BY <2>25, <3>2 DEF LifecycleDrain
    <3> QED BY <3>1, <3>2
  <2>26. CASE LifecyclePutBack
    <3>1. CASE keep # <<>>
      <4>1. idle' \in Seq(Containers) /\ Len(idle') <= MaxSize
        <5>1. /\ Append(idle, Head(keep)) \in Seq(Containers)
              /\ Len(idle) < MaxSize => Len(Append(idle, Head(keep))) <= MaxSize
          BY <2>a, <2>b, <3>1
        <5> QED BY <2>26, <3>1, <5>1, Zenon DEF LifecyclePutBack, CanSend
      <4>2. keep' \in Seq(Containers) /\ stopping' \subseteq Containers
        BY <2>26, <2>b, <3>1, Zenon DEF LifecyclePutBack
      <4> QED BY <2>26, <3>1, <4>1, <4>2 DEF LifecyclePutBack
    <3>2. CASE keep = <<>>
      <4>1. Deficit \in Nat
        BY <2>a DEF Deficit
      <4> QED BY <2>26, <3>2, <4>1 DEF LifecyclePutBack
    <3> QED BY <3>1, <3>2
  <2>27. CASE LifecycleReplenish
    <3>1. CASE deficit > 0
      <4>1. deficit - 1 \in Nat
        BY <3>1
      <4>2. PICK m \in Makers : Spawned(m) /\ Step(m, "enter", None)
        BY <2>27, <3>1 DEF LifecycleReplenish
      <4>3. Owners'
        BY <2>s, <4>2, Zenon
      <4>4. wg' \subseteq Makers
        BY <4>2 DEF Spawned
      <4>5. deficit' = deficit - 1 /\ lpc' = lpc
        BY <2>27, <3>1 DEF LifecycleReplenish
      <4>6. UNCHANGED <<chan, table, flags, daemon, starter, must, keep, stopping>>
        BY <2>27 DEF LifecycleReplenish
      <4> QED BY <4>1, <4>3, <4>4, <4>5, <4>6
    <3>2. CASE deficit = 0
      BY <2>27, <3>2 DEF LifecycleReplenish
    <3> QED BY <2>27, <3>1, <3>2 DEF LifecycleReplenish
  <2>28. ASSUME NEW c \in Containers, StopEvicted(c) PROVE TypeInv'
    BY <2>28 DEF StopEvicted, Stop, Removed
  <2>29. CASE UNCHANGED vars
    BY <2>29 DEF vars
  <2> QED
    BY <2>1, <2>2, <2>3, <2>4, <2>5, <2>6, <2>7, <2>8, <2>9, <2>10, <2>11, <2>12, <2>13, <2>14, <2>15, <2>16, <2>17, <2>18, <2>19, <2>20, <2>21, <2>22, <2>23, <2>24, <2>25, <2>26, <2>27, <2>28, <2>29, ZenonT(30)
       DEF Next, Running, Crashed, CallerNext, MakerNext, CloserNext, LifecycleNext
<1> QED BY <1>1, <1>2, PTL DEF Spec

(* The pool's channel, map, flags and use counts keep their types, whatever  *)
(* Acquire, Release, Discard, Evict and Shutdown do in whichever order.      *)
THEOREM WellTyped == Spec => []TypeOK
  BY TypeCorrect, PTL DEF TypeInv

-----------------------------------------------------------------------------
(* A container never has two owners, and the inUse map holds exactly what    *)
(* requests are using, for any number of goroutines: ExclusiveOwnership is   *)
(* inductive once the type invariant says who holds a container.             *)
THEOREM Exclusive == Spec => []ExclusiveOwnership
<1>1. Init => ExclusiveOwnership
  BY RolesAssumption DEF Init, ExclusiveOwnership, IsInjective, Range, Held, Goroutines
<1>2. TypeInv /\ ExclusiveOwnership /\ [Next]_vars => ExclusiveOwnership'
  <2> SUFFICES ASSUME TypeInv, ExclusiveOwnership, [Next]_vars PROVE ExclusiveOwnership'
    OBVIOUS
  <2> USE RolesAssumption DEF TypeInv, Holding, TypeOK, Goroutines, ExclusiveOwnership, Held,
          Step, chan, table, flags, daemon, roles, cycle
  <2>a. idle # <<>> => /\ IsInjective(Tail(idle)) /\ Head(idle) \in Range(idle)
                       /\ Range(Tail(idle)) = Range(idle) \ {Head(idle)}
                       /\ Head(idle) \in Containers
    BY TailFacts
  <2>b. keep # <<>> => /\ IsInjective(Tail(keep)) /\ Head(keep) \in Range(keep)
                       /\ Range(Tail(keep)) = Range(keep) \ {Head(keep)}
    BY TailFacts
  <2>e. Range(idle) \subseteq Containers /\ Range(keep) \subseteq Containers
    BY DEF Range
  (* A goroutine that keeps its container or lets go of it, outside use. *)
  <2>f. ASSUME NEW g \in Goroutines, NEW p, NEW c \in {None, has[g]}, Step(g, p, c),
               p # "use", pc[g] # "use", UNCHANGED <<idle, keep, stopping, inUse>>
        PROVE  ExclusiveOwnership'
    <3>1. inUse' = Held(Callers, {"use"})'
      BY <2>f
    <3> QED BY <2>e, <2>f, <3>1
  (* A goroutine that receives from the channel. *)
  <2>g. ASSUME NEW g \in Goroutines, NEW p, idle # <<>>, idle' = Tail(idle),
               Step(g, p, Head(idle)), p # "use", pc[g] # "use",
               UNCHANGED <<keep, stopping, inUse>>
        PROVE  ExclusiveOwnership'
    <3>1. inUse' = Held(Callers, {"use"})'
      BY <2>g
    <3>2. IsInjective(idle') /\ Range(idle') = Range(idle) \ {Head(idle)}
      BY <2>a, <2>g
    <3> QED BY <2>a, <2>e, <2>g, <3>1, <3>2
  <2>1. ASSUME NEW w \in Callers, CallAcquire(w) PROVE ExclusiveOwnership'
    BY <2>1, <2>f, Zenon DEF CallAcquire
  <2>2. ASSUME NEW w \in Callers, AcquireReceive(w) PROVE ExclusiveOwnership'
    BY <2>2, <2>g, Zenon DEF AcquireReceive
  <2>3. ASSUME NEW w \in Callers, AcquireFail(w) PROVE ExclusiveOwnership'
    BY <2>3, <2>f, Zenon DEF AcquireFail
  <2>4. ASSUME NEW w \in Callers, AcquireStore(w) PROVE ExclusiveOwnership'
    BY <2>4 DEF AcquireStore
  <2>5. ASSUME NEW w \in Callers, Release(w) PROVE ExclusiveOwnership'
    BY <2>5 DEF Release
  <2>6. ASSUME NEW w \in Callers, ReleaseRetire(w) PROVE ExclusiveOwnership'
    BY <2>6, <2>f, Zenon DEF ReleaseRetire
  <2>7. ASSUME NEW w \in Callers, Discard(w) PROVE ExclusiveOwnership'
    BY <2>7 DEF Discard
  <2>8. ASSUME NEW w \in Callers, SpawnReplacement(w) PROVE ExclusiveOwnership'
    <3>1. PICK m \in Makers :
            /\ pc[m] = "out" /\ has' = [has EXCEPT ![w] = None, ![m] = has[w]]
            /\ pc' = [pc EXCEPT ![w] = "out",
                                ![m] = IF pc[w] = "spawn" THEN "replenish" ELSE "stop"]
            /\ UNCHANGED <<idle, keep, stopping, inUse>>
      BY <2>8 DEF SpawnReplacement, Spawned
    <3>2. inUse' = Held(Callers, {"use"})'
      <4>1. \A v \in Callers : (pc'[v] = "use") = (pc[v] = "use")
        BY <2>8, <3>1 DEF SpawnReplacement
      <4>2. \A v \in Callers : pc[v] = "use" => has'[v] = has[v]
        BY <2>8, <3>1 DEF SpawnReplacement
      <4> QED BY <3>1, <4>1, <4>2
    <3> QED BY <2>e, <3>1, <3>2, Zenon
  <2>9. ASSUME NEW w \in Callers, Evict(w) PROVE ExclusiveOwnership'
    <3>1. CASE idle # <<>>
      BY <2>9, <2>g, <3>1, Zenon DEF Evict
    <3>2. CASE idle = <<>>
      BY <2>9, <3>2 DEF Evict
    <3> QED BY <3>1, <3>2
  <2>10. ASSUME NEW m \in Makers, Start(m) PROVE ExclusiveOwnership'
    BY <2>10, <2>f, Zenon DEF Start
  <2>11. ASSUME NEW m \in Makers, CreateNew(m) PROVE ExclusiveOwnership'
    BY <2>11, <2>f, Zenon DEF CreateNew
  <2>12. ASSUME NEW m \in Makers, Create(m) PROVE ExclusiveOwnership'
    <3>1. ASSUME NEW c \in Containers \ Known, Step(m, "seed", c)
          PROVE  ExclusiveOwnership'
      <4>1. /\ c \notin Range(idle) /\ c \notin Range(keep) /\ c \notin stopping
            /\ \A g \in Goroutines : has[g] # c
        <5>1. \A g \in Goroutines : has[g] \in Range(has)
          BY DEF Range
        <5> QED BY <3>1, <5>1 DEF Known
      <4>2. pc[m] = "create" /\ UNCHANGED <<idle, keep, stopping, inUse>>
        BY <2>12 DEF Create
      <4>3. inUse' = Held(Callers, {"use"})'
        BY <3>1, <4>2
      <4>4. \A g \in Goroutines \ {m} : has'[g] = has[g]
        BY <3>1
      <4>5. has'[m] = c
        BY <3>1
      <4> QED BY <4>1, <4>2, <4>3, <4>4, <4>5, Zenon
    <3>2. ASSUME Step(m, Returned(m, TRUE), None) PROVE ExclusiveOwnership'
      BY <2>12, <2>f, <3>2, Zenon DEF Create, Returned
    <3> QED BY <2>12, <3>1, <3>2, Zenon DEF Create
  <2>13. ASSUME NEW m \in Makers, Seed(m) PROVE ExclusiveOwnership'
    BY <2>13, <2>f DEF Seed
  <2>14. ASSUME NEW m \in Makers, StartLifecycle(m) PROVE ExclusiveOwnership'
    BY <2>14, <2>f, Zenon DEF StartLifecycle
  <2>15. ASSUME NEW k \in Closers, Shutdown(k) PROVE ExclusiveOwnership'
    BY <2>15, <2>f, Zenon DEF Shutdown
  <2>16. ASSUME NEW k \in Closers, ShutdownWait(k) PROVE ExclusiveOwnership'
    BY <2>16, <2>f, Zenon DEF ShutdownWait
  <2>17. ASSUME NEW k \in Closers, ShutdownClose(k) PROVE ExclusiveOwnership'
    BY <2>17, <2>f, Zenon DEF ShutdownClose
  <2>18. ASSUME NEW k \in Closers, ShutdownDrain(k) PROVE ExclusiveOwnership'
    <3>1. CASE idle # <<>>
      BY <2>18, <2>g, <3>1, Zenon DEF ShutdownDrain
    <3>2. CASE idle = <<>>
      BY <2>18, <2>f, <3>2, Zenon DEF ShutdownDrain
    <3> QED BY <3>1, <3>2
  <2>19. ASSUME NEW k \in Closers, ShutdownSweep(k) PROVE ExclusiveOwnership'
    <3>1. CASE UNCHANGED <<pc, has>>
      BY <2>19, <3>1 DEF ShutdownSweep
    <3>2. CASE Step(k, "done", None)
      BY <2>19, <2>f, <3>2, Zenon DEF ShutdownSweep
    <3> QED BY <2>19, <3>1, <3>2, Zenon DEF ShutdownSweep
  <2>20. ASSUME NEW g \in Goroutines, Test(g) PROVE ExclusiveOwnership'
    BY <2>20, <2>f DEF Test, Tested, Returned
  <2>21. ASSUME NEW g \in Goroutines, Send(g) PROVE ExclusiveOwnership'
    <3>1. CASE idleClosed
      BY <2>21, <3>1 DEF Send
    <3>2. CASE ~idleClosed /\ CanSend
      <4>1. /\ has[g] \in Containers /\ idle' = Append(idle, has[g])
            /\ Step(g, Returned(g, FALSE), None) /\ pc[g] = "send"
            /\ UNCHANGED <<keep, stopping, inUse>>
        BY <2>21, <3>2, Zenon DEF Send
      <4>2. IsInjective(idle') /\ Range(idle') = Range(idle) \cup {has[g]}
        <5>1. has[g] \notin Range(idle)
          BY <4>1
        <5>2. /\ Range(Append(idle, has[g])) = Range(idle) \cup {has[g]}
              /\ IsInjective(Append(idle, has[g]))
          BY AppendNew, <4>1, <5>1
        <5> QED BY <4>1, <5>2, Zenon
      <4>3. inUse' = Held(Callers, {"use"})'
        BY <4>1 DEF Returned
      <4>4. \A h \in Goroutines : has'[h] = IF h = g THEN None ELSE has[h]
        BY <4>1
      <4>5. \A h \in Goroutines : has'[h] \notin Range(idle') \cup Range(keep') \cup stopping'
        BY <2>e, <4>1, <4>2, <4>4
      <4>6. has[g] \notin Range(keep) /\ has[g] \notin stopping
        BY <4>1
      <4>7. \A h, j \in Goroutines : has'[h] = has'[j] /\ has'[h] # None => h = j
        BY <4>4
      <4>8. /\ Range(idle') \cap Range(keep') = {}
            /\ stopping' \cap (Range(idle') \cup Range(keep')) = {}
        BY <4>1, <4>2, <4>6
      <4> QED BY <4>1, <4>2, <4>3, <4>5, <4>7, <4>8, Zenon
    <3>3. CASE ~idleClosed /\ ~CanSend
      BY <2>21, <2>f, <3>3, Zenon DEF Send
    <3> QED BY <3>1, <3>2, <3>3
  <2>22. ASSUME NEW g \in Goroutines, Drop(g) PROVE ExclusiveOwnership'
    <3>1. ASSUME NEW p \in PC \ {"use"}, Step(g, p, None) PROVE ExclusiveOwnership'
      BY <2>22, <2>f, <3>1, Zenon DEF Drop
    <3> QED BY <2>22, <3>1, Zenon DEF Drop, Returned, PC
  <2>23. CASE Tick
    BY <2>23 DEF Tick
  <2>24. CASE LifecycleExit
    BY <2>24 DEF LifecycleExit
  <2>25. CASE LifecycleDrain
    <3>1. CASE idle # <<>>
      <4>1. IsInjective(idle') /\ Range(idle') = Range(idle) \ {Head(idle)}
        BY <2>25, <2>a, <3>1, Zenon DEF LifecycleDrain
      <4>2. UNCHANGED <<pc, has, inUse>>
        BY <2>25 DEF LifecycleDrain
      <4>3. CASE keep' = Append(keep, Head(idle)) /\ UNCHANGED stopping
        <5>1. IsInjective(keep') /\ Range(keep') = Range(keep) \cup {Head(idle)}
          <6>1. Head(idle) \in Containers /\ Head(idle) \notin Range(keep)
            BY <2>a, <3>1
          <6> QED BY AppendNew, <4>3, <6>1
        <5> QED BY <2>a, <3>1, <4>1, <4>2, <4>3, <5>1
      <4>4. CASE stopping' = stopping \cup {Head(idle)} /\ UNCHANGED keep
        BY <2>a, <3>1, <4>1, <4>2, <4>4
      <4> QED BY <2>25, <3>1, <4>3, <4>4 DEF LifecycleDrain
    <3>2. CASE idle = <<>>
      BY <2>25, <3>2 DEF LifecycleDrain
    <3> QED BY <3>1, <3>2
  <2>26. CASE LifecyclePutBack
    <3>1. CASE keep # <<>>
      <4>1. /\ IsInjective(keep') /\ Range(keep') = Range(keep) \ {Head(keep)}
            /\ UNCHANGED <<pc, has, inUse>>
        BY <2>26, <2>b, <3>1, Zenon DEF LifecyclePutBack
      <4>2. CASE idle' = Append(idle, Head(keep)) /\ UNCHANGED stopping
        <5>1. IsInjective(idle') /\ Range(idle') = Range(idle) \cup {Head(keep)}
          <6>1. Head(keep) \in Containers /\ Head(keep) \notin Range(idle)
            BY <2>b, <2>e, <3>1
          <6> QED BY AppendNew, <4>2, <6>1
        <5> QED BY <2>b, <3>1, <4>1, <4>2, <5>1
      <4>3. CASE stopping' = stopping \cup {Head(keep)} /\ UNCHANGED idle
        BY <2>b, <3>1, <4>1, <4>3
      <4> QED BY <2>26, <3>1, <4>2, <4>3 DEF LifecyclePutBack
    <3>2. CASE keep = <<>>
      BY <2>26, <3>2 DEF LifecyclePutBack
    <3> QED BY <3>1, <3>2
  <2>27. CASE LifecycleReplenish
    <3>1. ASSUME NEW m \in Makers, Spawned(m), Step(m, "enter", None)
          PROVE  ExclusiveOwnership'
      BY <2>27, <2>f, <3>1, Zenon DEF LifecycleReplenish, Spawned
    <3>2. CASE UNCHANGED <<pc, has>>
      BY <2>27, <3>2 DEF LifecycleReplenish
    <3> QED BY <2>27, <3>1, <3>2, Zenon DEF LifecycleReplenish
  <2>28. ASSUME NEW c \in Containers, StopEvicted(c) PROVE ExclusiveOwnership'
    BY <2>28 DEF StopEvicted
  <2>29. CASE UNCHANGED vars
    BY <2>29 DEF vars
  <2> QED
    BY <2>1, <2>2, <2>3, <2>4, <2>5, <2>6, <2>7, <2>8, <2>9, <2>10, <2>11, <2>12, <2>13, <2>14, <2>15, <2>16, <2>17, <2>18, <2>19, <2>20, <2>21, <2>22, <2>23, <2>24, <2>25, <2>26, <2>27, <2>28, <2>29, ZenonT(30)
       DEF Next, Running, Crashed, CallerNext, MakerNext, CloserNext, LifecycleNext
<1> QED BY <1>1, <1>2, TypeCorrect, PTL DEF Spec

-----------------------------------------------------------------------------
(* The inductive form of BackgroundSafe, which starts when wg.Wait has       *)
(* returned and close(p.idle) is still to come.                              *)
THEOREM BackgroundInductive == Spec => []BackgroundInv
<1>1. Init => BackgroundInv
  BY RolesAssumption DEF Init, BackgroundInv, Goroutines
<1>2. TypeInv /\ BackgroundInv /\ [Next]_vars => BackgroundInv'
  <2> SUFFICES ASSUME TypeInv, BackgroundInv, [Next]_vars PROVE BackgroundInv'
    OBVIOUS
  <2> USE RolesAssumption DEF TypeInv, TypeOK, Goroutines, BackgroundInv,
          Step, chan, table, flags, daemon, roles, cycle
  <2>1. ASSUME NEW w \in Callers, CallAcquire(w) PROVE BackgroundInv'
    BY <2>1 DEF CallAcquire
  <2>2. ASSUME NEW w \in Callers, AcquireReceive(w) PROVE BackgroundInv'
    BY <2>2 DEF AcquireReceive
  <2>3. ASSUME NEW w \in Callers, AcquireFail(w) PROVE BackgroundInv'
    BY <2>3 DEF AcquireFail
  <2>4. ASSUME NEW w \in Callers, AcquireStore(w) PROVE BackgroundInv'
    BY <2>4 DEF AcquireStore
  <2>5. ASSUME NEW w \in Callers, Release(w) PROVE BackgroundInv'
    BY <2>5 DEF Release
  <2>6. ASSUME NEW w \in Callers, ReleaseRetire(w) PROVE BackgroundInv'
    BY <2>6 DEF ReleaseRetire
  <2>7. ASSUME NEW w \in Callers, Discard(w) PROVE BackgroundInv'
    BY <2>7 DEF Discard
  <2>8. ASSUME NEW w \in Callers, SpawnReplacement(w) PROVE BackgroundInv'
    BY <2>8 DEF SpawnReplacement, Spawned
  <2>9. ASSUME NEW w \in Callers, Evict(w) PROVE BackgroundInv'
    BY <2>9 DEF Evict
  <2>10. ASSUME NEW m \in Makers, Start(m) PROVE BackgroundInv'
    BY <2>10 DEF Start
  <2>11. ASSUME NEW m \in Makers, CreateNew(m) PROVE BackgroundInv'
    BY <2>11 DEF CreateNew
  <2>12. ASSUME NEW m \in Makers, Create(m) PROVE BackgroundInv'
    BY <2>12 DEF Create, EndRole, Returned
  <2>13. ASSUME NEW m \in Makers, Seed(m) PROVE BackgroundInv'
    BY <2>13 DEF Seed
  <2>14. ASSUME NEW m \in Makers, StartLifecycle(m) PROVE BackgroundInv'
    BY <2>14 DEF StartLifecycle
  <2>15. ASSUME NEW k \in Closers, Shutdown(k) PROVE BackgroundInv'
    BY <2>15 DEF Shutdown
  <2>16. ASSUME NEW k \in Closers, ShutdownWait(k) PROVE BackgroundInv'
    BY <2>16 DEF ShutdownWait, WgZero
  <2>17. ASSUME NEW k \in Closers, ShutdownClose(k) PROVE BackgroundInv'
    BY <2>17 DEF ShutdownClose
  <2>18. ASSUME NEW k \in Closers, ShutdownDrain(k) PROVE BackgroundInv'
    BY <2>18 DEF ShutdownDrain
  <2>19. ASSUME NEW k \in Closers, ShutdownSweep(k) PROVE BackgroundInv'
    BY <2>19 DEF ShutdownSweep
  <2>20. ASSUME NEW g \in Goroutines, Test(g) PROVE BackgroundInv'
    BY <2>20 DEF Test, Tested, EndRole, Returned
  <2>21. ASSUME NEW g \in Goroutines, Send(g) PROVE BackgroundInv'
    BY <2>21 DEF Send, EndRole, Returned
  <2>22. ASSUME NEW g \in Goroutines, Drop(g) PROVE BackgroundInv'
    BY <2>22 DEF Drop, EndRole, Returned
  <2>23. CASE Tick
    BY <2>23 DEF Tick
  <2>24. CASE LifecycleExit
    BY <2>24 DEF LifecycleExit
  <2>25. CASE LifecycleDrain
    BY <2>25 DEF LifecycleDrain
  <2>26. CASE LifecyclePutBack
    BY <2>26 DEF LifecyclePutBack
  <2>27. CASE LifecycleReplenish
    BY <2>27 DEF LifecycleReplenish, Spawned
  <2>28. ASSUME NEW c \in Containers, StopEvicted(c) PROVE BackgroundInv'
    BY <2>28 DEF StopEvicted
  <2>29. CASE UNCHANGED vars
    BY <2>29 DEF vars
  <2> QED
    BY <2>1, <2>2, <2>3, <2>4, <2>5, <2>6, <2>7, <2>8, <2>9, <2>10, <2>11, <2>12, <2>13, <2>14, <2>15, <2>16, <2>17, <2>18, <2>19, <2>20, <2>21, <2>22, <2>23, <2>24, <2>25, <2>26, <2>27, <2>28, <2>29, ZenonT(30)
       DEF Next, Running, Crashed, CallerNext, MakerNext, CloserNext, LifecycleNext
<1> QED BY <1>1, <1>2, TypeCorrect, PTL DEF Spec

(* Hence BackgroundSafe: when Shutdown has closed idle, runLifecycle has     *)
(* ended and no counted enqueueNew is past its closed check.                 *)
THEOREM Background == Spec => []BackgroundSafe
<1>1. BackgroundInv => BackgroundSafe
  BY DEF BackgroundInv, BackgroundSafe
<1> QED BY <1>1, BackgroundInductive, PTL

-----------------------------------------------------------------------------
(* DockerPool implements LeasePool.  A step that is not a stutter of the     *)
(* abstract pool is a Borrow (AcquireReceive), a GiveUp (Release, Discard),  *)
(* a Withdraw (Evict and the two drains), an Offer (Send, LifecyclePutBack)  *)
(* or ShutDown (ShutdownClose).  An Offer is legal because of exclusive      *)
(* ownership; that of LifecyclePutBack also because of BackgroundInv.        *)
THEOREM Refinement == Spec => ImplementsLeasePool
<1>1. Init => Lease!LeaseInit
  BY RolesAssumption DEF Init, Lease!LeaseInit, LeaseOf, Range, Goroutines
<1>2. TypeInv /\ ExclusiveOwnership /\ BackgroundInv /\ [Next]_vars
        => [Lease!LeaseNext]_(Lease!leaseVars)
  <2> SUFFICES ASSUME TypeInv, ExclusiveOwnership, BackgroundInv, [Next]_vars
               PROVE  Lease!LeaseNext \/ UNCHANGED Lease!leaseVars
    OBVIOUS
  <2> USE RolesAssumption DEF TypeInv, Holding, TypeOK, Goroutines, LeaseOf, Step,
          chan, table, flags, daemon, roles, cycle
  <2>s. ASSUME UNCHANGED <<idle, idleClosed, LeaseOf>>
        PROVE  UNCHANGED Lease!leaseVars
    BY <2>s, Zenon DEF Lease!leaseVars
  <2>a. idle # <<>> => /\ Head(idle) \in Range(idle) /\ Head(idle) \in Containers
                       /\ Range(Tail(idle)) = Range(idle) \ {Head(idle)}
    BY TailFacts DEF ExclusiveOwnership
  (* A goroutine other than a request in Acquire receives from the channel. *)
  <2>t. ASSUME idle # <<>>, idle' = Tail(idle), UNCHANGED <<idleClosed, LeaseOf>>
        PROVE  Lease!LeaseNext
    <3>1. Lease!Withdraw(Head(idle))
      BY <2>a, <2>t DEF Lease!Withdraw
    <3> QED BY <2>a, <2>t, <3>1 DEF Lease!LeaseNext
  (* A container that nobody leases is sent to the channel. *)
  <2>o. ASSUME NEW c \in Containers, c \notin Range(idle), ~idleClosed,
               \A w \in Callers : LeaseOf[w] # c,
               idle' = Append(idle, c), UNCHANGED <<idleClosed, LeaseOf>>
        PROVE  Lease!LeaseNext
    <3>1. Range(idle') = Range(idle) \cup {c}
      BY AppendNew, <2>o DEF ExclusiveOwnership
    <3>2. Lease!Offer(c)
      BY <2>o, <3>1 DEF Lease!Offer, Lease!Leased
    <3> QED BY <3>2 DEF Lease!LeaseNext
  <2>1. ASSUME NEW w \in Callers, CallAcquire(w) PROVE UNCHANGED Lease!leaseVars
    BY <2>1, <2>s DEF CallAcquire
  <2>2. ASSUME NEW w \in Callers, AcquireFail(w) PROVE UNCHANGED Lease!leaseVars
    BY <2>2, <2>s DEF AcquireFail
  <2>3. ASSUME NEW w \in Callers, AcquireStore(w) PROVE UNCHANGED Lease!leaseVars
    BY <2>3, <2>s DEF AcquireStore
  <2>4. ASSUME NEW w \in Callers, ReleaseRetire(w) PROVE UNCHANGED Lease!leaseVars
    BY <2>4, <2>s DEF ReleaseRetire
  <2>5. ASSUME NEW w \in Callers, SpawnReplacement(w) PROVE UNCHANGED Lease!leaseVars
    BY <2>5, <2>s DEF SpawnReplacement, Spawned
  <2>6. ASSUME NEW m \in Makers, Start(m) PROVE UNCHANGED Lease!leaseVars
    BY <2>6, <2>s DEF Start
  <2>7. ASSUME NEW m \in Makers, CreateNew(m) PROVE UNCHANGED Lease!leaseVars
    BY <2>7, <2>s DEF CreateNew
  <2>8. ASSUME NEW m \in Makers, Create(m) PROVE UNCHANGED Lease!leaseVars
    BY <2>8, <2>s DEF Create, EndRole, Returned
  <2>9. ASSUME NEW m \in Makers, Seed(m) PROVE UNCHANGED Lease!leaseVars
    BY <2>9, <2>s DEF Seed
  <2>10. ASSUME NEW m \in Makers, StartLifecycle(m) PROVE UNCHANGED Lease!leaseVars
    BY <2>10, <2>s DEF StartLifecycle
  <2>11. ASSUME NEW k \in Closers, Shutdown(k) PROVE UNCHANGED Lease!leaseVars
    BY <2>11, <2>s DEF Shutdown
  <2>12. ASSUME NEW k \in Closers, ShutdownWait(k) PROVE UNCHANGED Lease!leaseVars
    BY <2>12, <2>s DEF ShutdownWait
  <2>13. ASSUME NEW k \in Closers, ShutdownSweep(k) PROVE UNCHANGED Lease!leaseVars
    BY <2>13, <2>s DEF ShutdownSweep
  <2>14. ASSUME NEW g \in Goroutines, Test(g) PROVE UNCHANGED Lease!leaseVars
    BY <2>14, <2>s DEF Test, Tested, EndRole, Returned
  <2>15. ASSUME NEW g \in Goroutines, Drop(g) PROVE UNCHANGED Lease!leaseVars
    BY <2>15, <2>s DEF Drop, EndRole, Returned
  <2>16. ASSUME NEW w \in Callers, AcquireReceive(w) PROVE Lease!LeaseNext
    <3>1. Lease!Borrow(w)
      BY <2>16, <2>a, Zenon DEF AcquireReceive, Lease!Borrow
    <3> QED BY <3>1 DEF Lease!LeaseNext
  <2>17. ASSUME NEW w \in Callers, Release(w) PROVE Lease!LeaseNext
    <3>1. Lease!GiveUp(w)
      BY <2>17, Zenon DEF Release, Lease!GiveUp
    <3> QED BY <3>1 DEF Lease!LeaseNext
  <2>18. ASSUME NEW w \in Callers, Discard(w) PROVE Lease!LeaseNext
    <3>1. Lease!GiveUp(w)
      BY <2>18, Zenon DEF Discard, Lease!GiveUp
    <3> QED BY <3>1 DEF Lease!LeaseNext
  <2>19. ASSUME NEW w \in Callers, Evict(w)
        PROVE  Lease!LeaseNext \/ UNCHANGED Lease!leaseVars
    BY <2>19, <2>s, <2>t DEF Evict
  <2>20. ASSUME NEW k \in Closers, ShutdownDrain(k)
        PROVE  Lease!LeaseNext \/ UNCHANGED Lease!leaseVars
    BY <2>20, <2>s, <2>t DEF ShutdownDrain
  <2>21. ASSUME NEW k \in Closers, ShutdownClose(k)
        PROVE  Lease!LeaseNext \/ UNCHANGED Lease!leaseVars
    BY <2>21, <2>s, Zenon DEF ShutdownClose, Lease!LeaseNext, Lease!ShutDown
  <2>22. ASSUME NEW g \in Goroutines, Send(g)
        PROVE  Lease!LeaseNext \/ UNCHANGED Lease!leaseVars
    <3>1. CASE ~idleClosed /\ CanSend
      <4>1. /\ has[g] \in Containers /\ pc[g] = "send" /\ idle' = Append(idle, has[g])
            /\ UNCHANGED <<idleClosed, inUse>>
        BY <2>22, <3>1, Zenon DEF Send
      <4>2. pc' = [pc EXCEPT ![g] = Returned(g, FALSE)] /\ has' = [has EXCEPT ![g] = None]
        BY <2>22, <3>1, Zenon DEF Send
      <4>3. has[g] \notin Range(idle) /\ \A w \in Callers : LeaseOf[w] # has[g]
        BY <4>1 DEF ExclusiveOwnership
      <4>4. UNCHANGED LeaseOf
        BY <4>1, <4>2 DEF Returned
      <4> QED BY <2>o, <3>1, <4>1, <4>3, <4>4
    <3>2. CASE idleClosed \/ ~CanSend
      BY <2>22, <2>s, <3>2, Zenon DEF Send
    <3> QED BY <3>1, <3>2
  <2>23. CASE Tick
    BY <2>23, <2>s DEF Tick
  <2>24. CASE LifecycleExit
    BY <2>24, <2>s DEF LifecycleExit
  <2>25. CASE LifecycleReplenish
    BY <2>25, <2>s DEF LifecycleReplenish, Spawned
  <2>26. CASE LifecycleDrain
    BY <2>26, <2>s, <2>t DEF LifecycleDrain
  <2>27. CASE LifecyclePutBack
    <3>1. CASE keep # <<>> /\ CanSend
      <4>1. Head(keep) \in Containers /\ Head(keep) \in Range(keep)
        BY <3>1, TailFacts
      <4>2. idle' = Append(idle, Head(keep)) /\ UNCHANGED <<idleClosed, pc, has>>
        BY <2>27, <3>1 DEF LifecyclePutBack
      <4>3. ~idleClosed
        BY <2>27 DEF LifecyclePutBack, BackgroundInv
      <4>4. Head(keep) \notin Range(idle) /\ \A w \in Callers : LeaseOf[w] # Head(keep)
        BY <4>1 DEF ExclusiveOwnership
      <4>5. UNCHANGED LeaseOf
        BY <4>2
      <4> QED BY <2>o, <4>1, <4>2, <4>3, <4>4, <4>5
    <3>2. CASE keep = <<>> \/ ~CanSend
      BY <2>27, <2>s, <3>2 DEF LifecyclePutBack
    <3> QED BY <3>1, <3>2
  <2>28. ASSUME NEW c \in Containers, StopEvicted(c) PROVE UNCHANGED Lease!leaseVars
    BY <2>28, <2>s DEF StopEvicted
  <2>29. CASE UNCHANGED vars
    BY <2>29, <2>s DEF vars
  <2> QED
    BY <2>1, <2>2, <2>3, <2>4, <2>5, <2>6, <2>7, <2>8, <2>9, <2>10, <2>11, <2>12, <2>13, <2>14,
       <2>15, <2>16, <2>17, <2>18, <2>19, <2>20, <2>21, <2>22, <2>23, <2>24, <2>25, <2>26, <2>27, <2>28, <2>29
       DEF Next, Running, Crashed, CallerNext, MakerNext, CloserNext, LifecycleNext
<1> QED
  BY <1>1, <1>2, TypeCorrect, Exclusive, BackgroundInductive, PTL
     DEF Spec, ImplementsLeasePool, Lease!LeaseSpec

-----------------------------------------------------------------------------
(* Uses, hand-outs and leaks *)

(* What the steps that receive and send do to the contents of a channel. *)
LEMMA Contents ==
  ASSUME NEW s \in Seq(Containers)
  PROVE  /\ s # <<>> => /\ Head(s) \in Containers /\ Head(s) \in Range(s)
                       /\ Range(Tail(s)) \subseteq Range(s)
                       /\ Range(s) = Range(Tail(s)) \cup {Head(s)}
         /\ \A c \in Containers : Range(Append(s, c)) = Range(s) \cup {c}
         /\ Range(s) \subseteq Containers
  <1>1. ASSUME s # <<>>
        PROVE  /\ Head(s) \in Containers /\ Head(s) \in Range(s)
               /\ Range(Tail(s)) \subseteq Range(s)
               /\ Range(s) \subseteq Range(Tail(s)) \cup {Head(s)}
    <2>1. Head(s) \in Containers /\ Head(s) \in Range(s) /\ Range(Tail(s)) \subseteq Range(s)
      BY <1>1, TailFacts
    <2>2. \A i \in 2 .. Len(s) : i - 1 \in DOMAIN Tail(s) /\ s[i] = Tail(s)[i - 1]
      BY <1>1
    <2>3. \A i \in DOMAIN s : i = 1 \/ i \in 2 .. Len(s)
      BY <1>1
    <2>4. Range(s) \subseteq Range(Tail(s)) \cup {Head(s)}
      <3> SUFFICES ASSUME NEW i \in DOMAIN s, i # 1 PROVE s[i] \in Range(Tail(s))
        BY <1>1 DEF Range
      <3> QED
        BY <2>2, <2>3, Zenon DEF Range
    <2> QED
      BY <2>1, <2>4
  <1>2. \A c \in Containers : Range(Append(s, c)) = Range(s) \cup {c}
    BY AppendFacts
  <1>3. Range(s) \subseteq Containers
    BY DEF Range
  <1> QED
    BY <1>1, <1>2, <1>3

(* Where evictAndReplenish moves a container. *)
LEMMA Drained ==
  ASSUME TypeInv, LifecycleDrain
  PROVE  \/ UNCHANGED <<idle, keep, stopping>>
         \/ \E c \in Containers : /\ Range(idle) = Range(idle') \cup {c}
                                 /\ \/ Range(keep') = Range(keep) \cup {c} /\ UNCHANGED stopping
                                    \/ stopping' = stopping \cup {c} /\ UNCHANGED keep
  <1>1. CASE idle = <<>>
    BY <1>1 DEF LifecycleDrain
  <1>2. CASE idle # <<>>
    <2>1. Head(idle) \in Containers /\ Range(idle) = Range(Tail(idle)) \cup {Head(idle)}
      BY <1>2, Contents DEF TypeInv, TypeOK
    <2>2. \A c \in Containers : Range(Append(keep, c)) = Range(keep) \cup {c}
      BY Contents DEF TypeInv, TypeOK
    <2>3. /\ idle' = Tail(idle)
          /\ \/ keep' = Append(keep, Head(idle)) /\ UNCHANGED stopping
             \/ stopping' = stopping \cup {Head(idle)} /\ UNCHANGED keep
      BY <1>2 DEF LifecycleDrain
    <2> QED
      BY <2>1, <2>2, <2>3, Zenon
  <1> QED
    BY <1>1, <1>2

LEMMA PutBack ==
  ASSUME TypeInv, LifecyclePutBack
  PROVE  \/ UNCHANGED <<idle, keep, stopping>>
         \/ \E c \in Containers : /\ Range(keep) = Range(keep') \cup {c}
                                 /\ \/ Range(idle') = Range(idle) \cup {c} /\ UNCHANGED stopping
                                    \/ stopping' = stopping \cup {c} /\ UNCHANGED idle
  <1>1. CASE keep = <<>>
    BY <1>1 DEF LifecyclePutBack
  <1>2. CASE keep # <<>>
    <2>1. Head(keep) \in Containers /\ Range(keep) = Range(Tail(keep)) \cup {Head(keep)}
      BY <1>2, Contents DEF TypeInv, TypeOK
    <2>2. \A c \in Containers : Range(Append(idle, c)) = Range(idle) \cup {c}
      BY Contents DEF TypeInv, TypeOK
    <2>3. /\ keep' = Tail(keep)
          /\ \/ idle' = Append(idle, Head(keep)) /\ UNCHANGED stopping
             \/ stopping' = stopping \cup {Head(keep)} /\ UNCHANGED idle
      BY <1>2 DEF LifecyclePutBack
    <2> QED
      BY <2>1, <2>2, <2>3, Zenon
  <1> QED
    BY <1>1, <1>2

LEMMA NothingInside == Range(<<>>) = {}
  BY DEF Range

-----------------------------------------------------------------------------
(* The inductive form of UseCountBound: whatever is on its way to Acquire    *)
(* has a use left.                                                           *)
UseInv ==
  MaxUseCount > 0 =>
    /\ \A c \in Containers : uses[c] <= MaxUseCount
    /\ \A c \in Range(idle) \cup Range(keep) : uses[c] < MaxUseCount
    /\ \A g \in Goroutines : pc[g] \in {"got", "seed", "recheck", "send", "warm"}
                               => uses[has[g]] < MaxUseCount

(* No container serves more than MaxUseCount requests: Release retires it    *)
(* when it has, and nobody else can use it between Acquire's increment and   *)
(* that test, for any number of goroutines.                                  *)
THEOREM UsesBounded == Spec => []UseCountBound
<1>1. Init => UseInv
  BY PoolConfigAssumption, NothingInside DEF Init, UseInv, Goroutines
<1>2. TypeInv /\ ExclusiveOwnership /\ UseInv /\ [Next]_vars => UseInv'
  <2> SUFFICES ASSUME TypeInv, ExclusiveOwnership, UseInv, [Next]_vars PROVE UseInv'
    OBVIOUS
  <2> USE PoolConfigAssumption, RolesAssumption DEF TypeInv, Holding, TypeOK, Goroutines, UseInv,
          Step, chan, table, flags, daemon, roles, cycle
  <2>i. /\ idle # <<>> => /\ Head(idle) \in Containers /\ Head(idle) \in Range(idle)
                         /\ Range(Tail(idle)) \subseteq Range(idle)
                         /\ Range(idle) = Range(Tail(idle)) \cup {Head(idle)}
        /\ \A c \in Containers : Range(Append(idle, c)) = Range(idle) \cup {c}
        /\ Range(idle) \subseteq Containers
    BY Contents
  <2>k. /\ keep # <<>> => /\ Head(keep) \in Containers /\ Head(keep) \in Range(keep)
                         /\ Range(Tail(keep)) \subseteq Range(keep)
                         /\ Range(keep) = Range(Tail(keep)) \cup {Head(keep)}
        /\ \A c \in Containers : Range(Append(keep, c)) = Range(keep) \cup {c}
        /\ Range(keep) \subseteq Containers
    BY Contents
  <2>1. ASSUME NEW w \in Callers, CallAcquire(w) PROVE UseInv'
    BY <2>1 DEF CallAcquire
  <2>2. ASSUME NEW w \in Callers, AcquireReceive(w) PROVE UseInv'
    BY <2>2, <2>i DEF AcquireReceive
  <2>3. ASSUME NEW w \in Callers, AcquireFail(w) PROVE UseInv'
    BY <2>3 DEF AcquireFail
  <2>4. ASSUME NEW w \in Callers, AcquireStore(w) PROVE UseInv'
    <3>1. /\ has[w] \in Containers /\ uses[has[w]] \in Nat /\ MaxUseCount > 0 => uses[has[w]] < MaxUseCount
          /\ uses'[has[w]] = uses[has[w]] + 1 /\ \A c \in Containers \ {has[w]} : uses'[c] = uses[c]
          /\ UNCHANGED <<idle, keep, has>>
      BY <2>4 DEF AcquireStore
    <3>2. pc'[w] = "use" /\ \A g \in Goroutines \ {w} : pc'[g] = pc[g]
      BY <2>4 DEF AcquireStore
    <3>3. /\ \A g \in Goroutines \ {w} : has[g] # has[w]
          /\ has[w] \notin Range(idle) \cup Range(keep)
      <4>1. has[w] # None /\ w \in Goroutines
        BY <2>4 DEF AcquireStore
      <4> QED BY <4>1, Zenon DEF ExclusiveOwnership
    <3>4. ASSUME MaxUseCount > 0, NEW c \in Containers PROVE uses'[c] <= MaxUseCount
      <4>1. CASE c = has[w]
        <5>1. uses'[c] = uses[c] + 1 /\ uses[c] \in Nat /\ uses[c] < MaxUseCount /\ MaxUseCount \in Nat
          BY <3>1, <3>4, <4>1
        <5> HIDE DEF TypeInv, TypeOK, UseInv
        <5> QED BY <5>1
      <4>2. CASE c # has[w]
        BY <3>1, <3>4, <4>2
      <4> QED BY <4>1, <4>2
    <3>5. MaxUseCount > 0 => \A c \in Range(idle) \cup Range(keep) : uses'[c] < MaxUseCount
      BY <2>i, <2>k, <3>1, <3>3
    <3>6. ASSUME MaxUseCount > 0, NEW g \in Goroutines,
                 pc'[g] \in {"got", "seed", "recheck", "send", "warm"}
          PROVE  uses'[has'[g]] < MaxUseCount
      <4>1. g # w /\ pc[g] \in {"got", "seed", "recheck", "send", "warm"}
        BY <3>2, <3>6
      <4>2. has[g] \in Containers /\ uses[has[g]] < MaxUseCount
        BY <3>6, <4>1
      <4> QED BY <3>1, <3>3, <4>1, <4>2
    <3> HIDE DEF TypeInv, TypeOK, Goroutines
    <3> QED BY <3>1, <3>4, <3>5, <3>6
  <2>5. ASSUME NEW w \in Callers, Release(w) PROVE UseInv'
    <3>1. UNCHANGED <<idle, keep, uses, has>> /\ \A g \in Goroutines \ {w} : pc'[g] = pc[g]
      BY <2>5 DEF Release
    <3>2. has[w] \in Containers /\ uses[has[w]] \in Nat
      BY <2>5 DEF Release
    <3>3. pc'[w] = "retire" \/ (pc'[w] = "warm" /\ (MaxUseCount > 0 => uses[has[w]] < MaxUseCount))
      BY <2>5, <3>2 DEF Release, Exhausted
    <3> QED BY <3>1, <3>3
  <2>6. ASSUME NEW w \in Callers, ReleaseRetire(w) PROVE UseInv'
    BY <2>6, ZenonT(30) DEF ReleaseRetire, Removed
  <2>7. ASSUME NEW w \in Callers, Discard(w) PROVE UseInv'
    BY <2>7 DEF Discard
  <2>8. ASSUME NEW w \in Callers, SpawnReplacement(w) PROVE UseInv'
    <3>1. PICK m \in Makers :
            /\ pc' = [pc EXCEPT ![w] = "out",
                                ![m] = IF pc[w] = "spawn" THEN "replenish" ELSE "stop"]
            /\ has' = [has EXCEPT ![w] = None, ![m] = has[w]]
      BY <2>8 DEF SpawnReplacement
    <3>2. /\ pc'[w] = "out" /\ pc'[m] \in {"replenish", "stop"}
          /\ \A g \in Goroutines \ {w, m} : pc'[g] = pc[g] /\ has'[g] = has[g]
      BY <3>1
    <3>3. UNCHANGED <<idle, keep, uses>>
      BY <2>8 DEF SpawnReplacement
    <3> QED BY <3>2, <3>3, Zenon
  <2>9. ASSUME NEW w \in Callers, Evict(w) PROVE UseInv'
    BY <2>9, <2>i, ZenonT(30) DEF Evict
  <2>10. ASSUME NEW m \in Makers, Start(m) PROVE UseInv'
    BY <2>10 DEF Start
  <2>11. ASSUME NEW m \in Makers, CreateNew(m) PROVE UseInv'
    BY <2>11 DEF CreateNew
  <2>12. ASSUME NEW m \in Makers, Create(m) PROVE UseInv'
    <3>1. ASSUME NEW c \in Containers, Step(m, "seed", c), uses' = [uses EXCEPT ![c] = 0] PROVE UseInv'
      <4>1. UNCHANGED <<idle, keep>> /\ \A d \in Containers : uses'[d] <= uses[d]
        BY <2>12, <3>1 DEF Create
      <4>2. uses'[c] = 0
        BY <3>1
      <4>3. \A g \in Goroutines \ {m} : pc'[g] = pc[g] /\ has'[g] = has[g]
        BY <3>1
      <4>4. has'[m] = c
        BY <3>1
      <4>5. \A g \in Goroutines \ {m} : pc[g] \in {"got", "seed", "recheck", "send", "warm"}
                                          => has[g] \in Containers
        OBVIOUS
      <4>6. \A d \in Containers : uses'[d] \in Nat /\ uses[d] \in Nat
        BY <3>1
      <4>7. MaxUseCount > 0 => \A d \in Containers : uses'[d] <= MaxUseCount
        BY <4>1, <4>6
      <4>8. MaxUseCount > 0 => \A d \in Range(idle') \cup Range(keep') : uses'[d] < MaxUseCount
        BY <2>i, <2>k, <4>1, <4>6
      <4>9. ASSUME MaxUseCount > 0, NEW g \in Goroutines,
                   pc'[g] \in {"got", "seed", "recheck", "send", "warm"}
            PROVE  uses'[has'[g]] < MaxUseCount
        <5>1. CASE g = m
          BY <4>2, <4>4, <4>9, <5>1
        <5>2. CASE g # m
          <6>1. has'[g] = has[g] /\ has[g] \in Containers /\ uses[has[g]] < MaxUseCount
            BY <4>3, <4>5, <4>9, <5>2
          <6> QED BY <4>1, <4>6, <6>1
        <5> QED BY <5>1, <5>2
      <4> HIDE DEF TypeInv, TypeOK, Goroutines
      <4> QED BY <4>7, <4>8, <4>9
    <3>2. ASSUME Step(m, Returned(m, TRUE), None), UNCHANGED uses PROVE UseInv'
      <4>1. Returned(m, TRUE) \in {"launch", "out"} /\ UNCHANGED <<idle, keep>>
        BY <2>12 DEF Create, Returned
      <4> QED BY <3>2, <4>1, Zenon
    <3> QED BY <2>12, <3>1, <3>2, Zenon DEF Create
  <2>13. ASSUME NEW m \in Makers, Seed(m) PROVE UseInv'
    BY <2>13 DEF Seed
  <2>14. ASSUME NEW m \in Makers, StartLifecycle(m) PROVE UseInv'
    BY <2>14 DEF StartLifecycle
  <2>15. ASSUME NEW k \in Closers, Shutdown(k) PROVE UseInv'
    BY <2>15 DEF Shutdown
  <2>16. ASSUME NEW k \in Closers, ShutdownWait(k) PROVE UseInv'
    BY <2>16 DEF ShutdownWait
  <2>17. ASSUME NEW k \in Closers, ShutdownClose(k) PROVE UseInv'
    BY <2>17 DEF ShutdownClose
  <2>18. ASSUME NEW k \in Closers, ShutdownDrain(k) PROVE UseInv'
    <3>1. CASE idle # <<>>
      <4>1. /\ Step(k, "drop", Head(idle)) /\ Range(idle') \subseteq Range(idle)
            /\ UNCHANGED <<keep, uses>>
        BY <2>18, <2>i, <3>1, Zenon DEF ShutdownDrain
      <4> QED BY <4>1
    <3>2. CASE idle = <<>>
      <4>1. Step(k, "sweep", None) /\ idleClosed /\ UNCHANGED <<idle, keep, uses>>
        BY <2>18, <3>2 DEF ShutdownDrain
      <4> QED BY <4>1
    <3> QED BY <3>1, <3>2
  <2>19. ASSUME NEW k \in Closers, ShutdownSweep(k) PROVE UseInv'
    BY <2>19 DEF ShutdownSweep, Stop, Removed
  <2>20. ASSUME NEW g \in Goroutines, Test(g) PROVE UseInv'
    BY <2>20 DEF Test, Tested, EndRole, Returned
  <2>21. ASSUME NEW g \in Goroutines, Send(g) PROVE UseInv'
    <3>1. CASE ~idleClosed /\ CanSend
      <4>1. /\ has[g] \in Containers /\ pc[g] = "send" /\ idle' = Append(idle, has[g])
            /\ Step(g, Returned(g, FALSE), None) /\ UNCHANGED <<keep, uses>>
        BY <2>21, <3>1, Zenon DEF Send
      <4>2. Range(idle') = Range(idle) \cup {has[g]}
        BY <2>i, <4>1
      <4>3. Returned(g, FALSE) \in {"fill", "out"}
        BY DEF Returned
      <4> QED BY <4>1, <4>2, <4>3, Zenon
    <3>2. CASE idleClosed \/ ~CanSend
      BY <2>21, <3>2, Zenon DEF Send
    <3> QED BY <3>1, <3>2
  <2>22. ASSUME NEW g \in Goroutines, Drop(g) PROVE UseInv'
    BY <2>22 DEF Drop, EndRole, Returned, Stop, Removed
  <2>23. CASE Tick
    BY <2>23 DEF Tick
  <2>24. CASE LifecycleExit
    BY <2>24 DEF LifecycleExit
  <2>25. CASE LifecycleDrain
    <3>1. Range(idle') \cup Range(keep') \subseteq Range(idle) \cup Range(keep)
      BY <2>25, Drained
    <3>2. UNCHANGED <<pc, has, uses>>
      BY <2>25 DEF LifecycleDrain
    <3> QED BY <3>1, <3>2
  <2>26. CASE LifecyclePutBack
    <3>1. Range(idle') \cup Range(keep') \subseteq Range(idle) \cup Range(keep)
      BY <2>26, PutBack
    <3>2. UNCHANGED <<pc, has, uses>>
      BY <2>26 DEF LifecyclePutBack
    <3> QED BY <3>1, <3>2
  <2>27. CASE LifecycleReplenish
    BY <2>27, ZenonT(30) DEF LifecycleReplenish, Spawned
  <2>28. ASSUME NEW c \in Containers, StopEvicted(c) PROVE UseInv'
    BY <2>28 DEF StopEvicted, Stop, Removed
  <2>29. CASE UNCHANGED vars
    BY <2>29 DEF vars
  <2> QED
    BY <2>1, <2>2, <2>3, <2>4, <2>5, <2>6, <2>7, <2>8, <2>9, <2>10, <2>11, <2>12, <2>13, <2>14, <2>15, <2>16, <2>17, <2>18, <2>19, <2>20, <2>21, <2>22, <2>23, <2>24, <2>25, <2>26, <2>27, <2>28, <2>29, ZenonT(30)
       DEF Next, Running, Crashed, CallerNext, MakerNext, CloserNext, LifecycleNext
<1>3. UseInv => UseCountBound
  BY DEF UseInv, UseCountBound
<1> QED BY <1>1, <1>2, <1>3, TypeCorrect, Exclusive, PTL DEF Spec

-----------------------------------------------------------------------------
(* The inductive form of HandoutAlive: only a closed channel lets Shutdown   *)
(* sweep what requests are using.                                            *)
AliveInv ==
  /\ Range(idle) \cup Range(keep) \subseteq docker \ leaked
  /\ \A g \in Goroutines : pc[g] \in {"got", "seed", "recheck", "send"} => has[g] \in docker \ leaked
  /\ ~idleClosed => \A g \in Goroutines : pc[g] \in {"use", "warm"} => has[g] \in docker \ leaked
  /\ \A k \in Closers : pc[k] = "sweep" => idleClosed

(* Acquire never hands out a container that the pool has removed, nor one    *)
(* that a failed removal left behind.                                        *)
THEOREM HandoutsAlive == Spec => []HandoutAlive
<1>1. Init => AliveInv
  BY NothingInside DEF Init, AliveInv, Goroutines
<1>2. TypeInv /\ ExclusiveOwnership /\ BackgroundInv /\ AliveInv /\ [Next]_vars => AliveInv'
  <2> SUFFICES ASSUME TypeInv, ExclusiveOwnership, BackgroundInv, AliveInv, [Next]_vars PROVE AliveInv'
    OBVIOUS
  <2> USE PoolConfigAssumption, RolesAssumption DEF TypeInv, Holding, TypeOK, Goroutines, AliveInv,
          Step, chan, table, flags, daemon, roles, cycle
  <2>i. /\ idle # <<>> => /\ Head(idle) \in Containers /\ Head(idle) \in Range(idle)
                         /\ Range(Tail(idle)) \subseteq Range(idle)
                         /\ Range(idle) = Range(Tail(idle)) \cup {Head(idle)}
        /\ \A c \in Containers : Range(Append(idle, c)) = Range(idle) \cup {c}
        /\ Range(idle) \subseteq Containers
    BY Contents
  <2>k. /\ keep # <<>> => /\ Head(keep) \in Containers /\ Head(keep) \in Range(keep)
                         /\ Range(Tail(keep)) \subseteq Range(keep)
                         /\ Range(keep) = Range(Tail(keep)) \cup {Head(keep)}
        /\ \A c \in Containers : Range(Append(keep, c)) = Range(keep) \cup {c}
        /\ Range(keep) \subseteq Containers
    BY Contents
  <2>1. ASSUME NEW w \in Callers, CallAcquire(w) PROVE AliveInv'
    BY <2>1 DEF CallAcquire
  <2>2. ASSUME NEW w \in Callers, AcquireReceive(w) PROVE AliveInv'
    BY <2>2, <2>i DEF AcquireReceive
  <2>3. ASSUME NEW w \in Callers, AcquireFail(w) PROVE AliveInv'
    BY <2>3 DEF AcquireFail
  <2>4. ASSUME NEW w \in Callers, AcquireStore(w) PROVE AliveInv'
    BY <2>4 DEF AcquireStore
  <2>5. ASSUME NEW w \in Callers, Release(w) PROVE AliveInv'
    BY <2>5 DEF Release, Exhausted
  <2>6. ASSUME NEW w \in Callers, ReleaseRetire(w) PROVE AliveInv'
    <3>1. /\ pc[w] = "retire" /\ has[w] \in Containers /\ (docker \ leaked) \ {has[w]} \subseteq docker' \ leaked'
          /\ UNCHANGED <<idle, keep, idleClosed>>
      BY <2>6 DEF ReleaseRetire, Removed
    <3>2. /\ has[w] \notin Range(idle) \cup Range(keep)
          /\ \A g \in Goroutines \ {w} : has[g] # has[w]
      BY <3>1 DEF ExclusiveOwnership
    <3>3. pc'[w] \in {"spawn", "out"} /\ \A g \in Goroutines \ {w} : pc'[g] = pc[g] /\ has'[g] = has[g]
      BY <2>6 DEF ReleaseRetire
    <3> QED BY <3>1, <3>2, <3>3, Zenon
  <2>7. ASSUME NEW w \in Callers, Discard(w) PROVE AliveInv'
    BY <2>7 DEF Discard
  <2>8. ASSUME NEW w \in Callers, SpawnReplacement(w) PROVE AliveInv'
    <3>1. PICK m \in Makers :
            /\ pc' = [pc EXCEPT ![w] = "out",
                                ![m] = IF pc[w] = "spawn" THEN "replenish" ELSE "stop"]
            /\ has' = [has EXCEPT ![w] = None, ![m] = has[w]]
      BY <2>8 DEF SpawnReplacement
    <3>2. /\ pc'[w] = "out" /\ pc'[m] \in {"replenish", "stop"}
          /\ \A g \in Goroutines \ {w, m} : pc'[g] = pc[g] /\ has'[g] = has[g]
      BY <3>1
    <3>3. UNCHANGED <<idle, keep, idleClosed, daemon>>
      BY <2>8 DEF SpawnReplacement
    <3> QED BY <3>2, <3>3, ZenonT(30)
  <2>9. ASSUME NEW w \in Callers, Evict(w) PROVE AliveInv'
    BY <2>9, <2>i, ZenonT(30) DEF Evict
  <2>10. ASSUME NEW m \in Makers, Start(m) PROVE AliveInv'
    BY <2>10 DEF Start
  <2>11. ASSUME NEW m \in Makers, CreateNew(m) PROVE AliveInv'
    BY <2>11 DEF CreateNew
  <2>12. ASSUME NEW m \in Makers, Create(m) PROVE AliveInv'
    <3>1. /\ UNCHANGED <<idle, keep, idleClosed>> /\ docker \ leaked \subseteq docker' \ leaked'
          /\ \A g \in Goroutines \ {m} : pc'[g] = pc[g] /\ has'[g] = has[g]
      BY <2>12, Zenon DEF Create
    <3>2. pc'[m] \in {"launch", "out"} \/ (pc'[m] = "seed" /\ has'[m] \in docker' \ leaked')
      <4>1. ASSUME NEW c \in Containers \ docker, docker' = docker \cup {c}, UNCHANGED leaked, Step(m, "seed", c)
            PROVE  pc'[m] = "seed" /\ has'[m] \in docker' \ leaked'
        BY <4>1
      <4>2. Step(m, Returned(m, TRUE), None) => pc'[m] \in {"launch", "out"}
        BY DEF Returned
      <4> QED BY <2>12, <4>1, <4>2 DEF Create
    <3>3. m \notin Closers
      OBVIOUS
    <3> QED BY <3>1, <3>2, <3>3, Zenon
  <2>13. ASSUME NEW m \in Makers, Seed(m) PROVE AliveInv'
    BY <2>13 DEF Seed
  <2>14. ASSUME NEW m \in Makers, StartLifecycle(m) PROVE AliveInv'
    BY <2>14 DEF StartLifecycle
  <2>15. ASSUME NEW k \in Closers, Shutdown(k) PROVE AliveInv'
    BY <2>15 DEF Shutdown
  <2>16. ASSUME NEW k \in Closers, ShutdownWait(k) PROVE AliveInv'
    BY <2>16 DEF ShutdownWait
  <2>17. ASSUME NEW k \in Closers, ShutdownClose(k) PROVE AliveInv'
    BY <2>17 DEF ShutdownClose
  <2>18. ASSUME NEW k \in Closers, ShutdownDrain(k) PROVE AliveInv'
    <3>1. CASE idle # <<>>
      <4>1. /\ Step(k, "drop", Head(idle)) /\ Range(idle') \subseteq Range(idle)
            /\ UNCHANGED <<keep, idleClosed, daemon>>
        BY <2>18, <2>i, <3>1, ZenonT(30) DEF ShutdownDrain
      <4> QED BY <4>1
    <3>2. CASE idle = <<>>
      <4>1. Step(k, "sweep", None) /\ idleClosed /\ UNCHANGED <<idle, keep, idleClosed, daemon>>
        BY <2>18, <3>2 DEF ShutdownDrain
      <4> QED BY <4>1
    <3> QED BY <3>1, <3>2
  <2>19. ASSUME NEW k \in Closers, ShutdownSweep(k) PROVE AliveInv'
    <3>1. CASE UNCHANGED <<pc, has, daemon>>
      BY <2>19, <3>1 DEF ShutdownSweep
    <3>2. ASSUME NEW c \in inUse, Stop(c), UNCHANGED <<pc, has>> PROVE AliveInv'
      <4>1. PICK v \in Callers : pc[v] = "use" /\ has[v] = c
        <5>1. c \in Held(Callers, {"use"})
          BY <3>2 DEF ExclusiveOwnership
        <5> QED BY <5>1 DEF Held
      <4>2. /\ c \notin Range(idle) \cup Range(keep) /\ c # None
            /\ \A g \in Goroutines \ {v} : has[g] # c
        BY <4>1 DEF ExclusiveOwnership
      <4>3. (docker \ leaked) \ {c} \subseteq docker' \ leaked' /\ UNCHANGED <<idle, keep, idleClosed>>
        BY <2>19, <3>2 DEF ShutdownSweep, Stop, Removed
      <4>4. idleClosed
        BY <2>19 DEF ShutdownSweep
      <4> QED BY <3>2, <4>1, <4>2, <4>3, <4>4
    <3>3. CASE Step(k, "done", None) /\ UNCHANGED daemon
      BY <2>19, <3>3 DEF ShutdownSweep
    <3> QED BY <2>19, <3>1, <3>2, <3>3, ZenonT(30) DEF ShutdownSweep
  <2>20. ASSUME NEW g \in Goroutines, Test(g) PROVE AliveInv'
    BY <2>20 DEF Test, Tested, EndRole, Returned, BackgroundInv
  <2>21. ASSUME NEW g \in Goroutines, Send(g) PROVE AliveInv'
    <3>1. CASE ~idleClosed /\ CanSend
      <4>1. /\ has[g] \in Containers /\ pc[g] = "send" /\ idle' = Append(idle, has[g])
            /\ Step(g, Returned(g, FALSE), None) /\ UNCHANGED <<keep, idleClosed, daemon>>
        BY <2>21, <3>1, Zenon DEF Send
      <4>2. Range(idle') = Range(idle) \cup {has[g]}
        BY <2>i, <4>1
      <4>3. Returned(g, FALSE) \in {"fill", "out"}
        BY DEF Returned
      <4> QED BY <4>1, <4>2, <4>3, Zenon
    <3>2. CASE idleClosed \/ ~CanSend
      BY <2>21, <3>2, ZenonT(30) DEF Send
    <3> QED BY <3>1, <3>2
  <2>22. ASSUME NEW g \in Goroutines, Drop(g) PROVE AliveInv'
    BY <2>22 DEF Drop, EndRole, Returned, Stop, Removed, ExclusiveOwnership
  <2>23. CASE Tick
    BY <2>23 DEF Tick
  <2>24. CASE LifecycleExit
    BY <2>24 DEF LifecycleExit
  <2>25. CASE LifecycleDrain
    BY <2>25, Drained, ZenonT(30) DEF LifecycleDrain
  <2>26. CASE LifecyclePutBack
    BY <2>26, PutBack, ZenonT(30) DEF LifecyclePutBack
  <2>27. CASE LifecycleReplenish
    <3>1. /\ UNCHANGED <<idle, keep, idleClosed, docker, leaked>>
          /\ UNCHANGED <<pc, has>> \/ \E m \in Makers : Step(m, "enter", None)
      BY <2>27 DEF LifecycleReplenish
    <3>2. ASSUME NEW m \in Makers, Step(m, "enter", None) PROVE AliveInv'
      <4>1. pc'[m] = "enter" /\ \A g \in Goroutines \ {m} : pc'[g] = pc[g] /\ has'[g] = has[g]
        BY <3>2
      <4>2. m \notin Closers
        OBVIOUS
      <4> QED BY <3>1, <4>1, <4>2
    <3> QED BY <3>1, <3>2
  <2>28. ASSUME NEW c \in Containers, StopEvicted(c) PROVE AliveInv'
    <3>1. c \notin Range(idle) \cup Range(keep) /\ \A g \in Goroutines : has[g] # c
      <4>1. c \in stopping
        BY <2>28 DEF StopEvicted
      <4> HIDE DEF TypeInv, TypeOK, AliveInv
      <4> QED BY <4>1, Zenon DEF ExclusiveOwnership
    <3>2. (docker \ leaked) \ {c} \subseteq docker' \ leaked' /\ UNCHANGED <<idle, keep, idleClosed, pc, has>>
      BY <2>28 DEF StopEvicted, Stop, Removed
    <3> QED BY <3>1, <3>2
  <2>29. CASE UNCHANGED vars
    BY <2>29 DEF vars
  <2> QED
    BY <2>1, <2>2, <2>3, <2>4, <2>5, <2>6, <2>7, <2>8, <2>9, <2>10, <2>11, <2>12, <2>13, <2>14, <2>15, <2>16, <2>17, <2>18, <2>19, <2>20, <2>21, <2>22, <2>23, <2>24, <2>25, <2>26, <2>27, <2>28, <2>29, ZenonT(30)
       DEF Next, Running, Crashed, CallerNext, MakerNext, CloserNext, LifecycleNext
<1>3. TypeInv /\ AliveInv => HandoutAlive
  BY Zenon DEF AliveInv, HandoutAlive, Held, Goroutines
<1> QED BY <1>1, <1>2, <1>3, TypeCorrect, Exclusive, BackgroundInductive, PTL DEF Spec

-----------------------------------------------------------------------------
(* Start runs once and launches the lifecycle goroutine at its end, so that  *)
(* the keep list is empty whenever nobody drains or puts back; who is not    *)
(* working on a container has none; the sweep over inUse begins with the     *)
(* channel closed and drained, and it stays so.                              *)
OrderInv ==
  /\ starter # {} => lpc = "none"
  /\ \A m, n \in starter : m = n
  /\ \A g \in Goroutines : pc[g] \in {"fill", "launch"} => g \in starter
  /\ \A g \in Goroutines : pc[g] \notin Holding => has[g] = None
  /\ lpc \notin {"drain", "putback"} => keep = <<>>
  /\ \A k \in Closers : pc[k] \in {"sweep", "done"} => idleClosed /\ idle = <<>>

LEMMA Order == Spec => []OrderInv
<1>1. Init => OrderInv
  BY DEF Init, OrderInv, Goroutines
<1>2. TypeInv /\ BackgroundInv /\ OrderInv /\ [Next]_vars => OrderInv'
  <2> SUFFICES ASSUME TypeInv, BackgroundInv, OrderInv, [Next]_vars PROVE OrderInv'
    OBVIOUS
  <2> USE PoolConfigAssumption, RolesAssumption DEF TypeInv, Holding, TypeOK, Goroutines, OrderInv, PC,
          Step, chan, table, flags, daemon, roles, cycle
  (* One goroutine moves. *)
  <2>s. ASSUME NEW g \in Goroutines, NEW p \in PC, NEW c, Step(g, p, c),
               p \in {"fill", "launch"} => g \in starter, p \notin Holding => c = None,
               p \notin {"sweep", "done"} \/ (idleClosed /\ idle = <<>>),
               UNCHANGED <<starter, lpc, keep, idleClosed>>,
               idleClosed /\ idle = <<>> => idle' = <<>>
        PROVE  OrderInv'
    BY <2>s
  <2>1. ASSUME NEW w \in Callers, CallAcquire(w) PROVE OrderInv'
    BY <2>1 DEF CallAcquire
  <2>2. ASSUME NEW w \in Callers, AcquireReceive(w) PROVE OrderInv'
    BY <2>2 DEF AcquireReceive
  <2>3. ASSUME NEW w \in Callers, AcquireFail(w) PROVE OrderInv'
    BY <2>3 DEF AcquireFail
  <2>4. ASSUME NEW w \in Callers, AcquireStore(w) PROVE OrderInv'
    BY <2>4 DEF AcquireStore
  <2>5. ASSUME NEW w \in Callers, Release(w) PROVE OrderInv'
    BY <2>5 DEF Release, Exhausted
  <2>6. ASSUME NEW w \in Callers, ReleaseRetire(w) PROVE OrderInv'
    <3>1. PICK p \in {"spawn", "out"} : Step(w, p, None)
      BY <2>6 DEF ReleaseRetire
    <3>2. UNCHANGED <<idle, starter, lpc, keep, idleClosed>>
      BY <2>6 DEF ReleaseRetire
    <3>3. w \in Goroutines /\ p \in PC /\ p \notin {"fill", "launch"} /\ p \notin {"sweep", "done"}
      OBVIOUS
    <3> QED BY <2>s, <3>1, <3>2, <3>3, ZenonT(30)
  <2>7. ASSUME NEW w \in Callers, Discard(w) PROVE OrderInv'
    BY <2>7 DEF Discard
  <2>8. ASSUME NEW w \in Callers, SpawnReplacement(w) PROVE OrderInv'
    <3>1. PICK m \in Makers :
            /\ Spawned(m)
            /\ pc' = [pc EXCEPT ![w] = "out", ![m] = IF pc[w] = "spawn" THEN "replenish" ELSE "stop"]
            /\ has' = [has EXCEPT ![w] = None, ![m] = has[w]]
      BY <2>8 DEF SpawnReplacement
    <3>2. /\ pc'[w] = "out" /\ has'[w] = None /\ w \notin Closers /\ m \notin Closers
          /\ \/ pc'[m] = "replenish" /\ has'[m] = None
             \/ pc'[m] = "stop"
          /\ \A g \in Goroutines \ {w, m} : pc'[g] = pc[g] /\ has'[g] = has[g]
      <4>1. w \in Goroutines /\ m \in Goroutines /\ w # m /\ w \notin Closers /\ m \notin Closers
        OBVIOUS
      <4>2. /\ pc'[w] = "out" /\ pc'[m] = IF pc[w] = "spawn" THEN "replenish" ELSE "stop"
            /\ \A g \in Goroutines \ {w, m} : pc'[g] = pc[g]
        BY <3>1, <4>1
      <4>3. /\ has'[w] = None /\ has'[m] = has[w]
            /\ \A g \in Goroutines \ {w, m} : has'[g] = has[g]
        BY <3>1, <4>1
      <4>4. pc[w] = "spawn" => has[w] = None
        BY <4>1
      <4> QED BY <4>1, <4>2, <4>3, <4>4
    <3>3. UNCHANGED <<idle, starter, lpc, keep, idleClosed>>
      BY <2>8 DEF SpawnReplacement
    <3> QED BY <3>2, <3>3
  <2>9. ASSUME NEW w \in Callers, Evict(w) PROVE OrderInv'
    <3>1. CASE idle # <<>>
      <4>1. Step(w, "drop", Head(idle)) /\ UNCHANGED <<starter, lpc, keep, idleClosed>>
        BY <2>9, <3>1 DEF Evict
      <4> QED BY <2>s, <3>1, <4>1, Zenon
    <3>2. CASE idle = <<>>
      BY <2>9, <3>2 DEF Evict
    <3> QED BY <3>1, <3>2
  <2>10. ASSUME NEW m \in Makers, Start(m) PROVE OrderInv'
    BY <2>10 DEF Start
  <2>11. ASSUME NEW m \in Makers, CreateNew(m) PROVE OrderInv'
    BY <2>11 DEF CreateNew
  <2>12. ASSUME NEW m \in Makers, Create(m) PROVE OrderInv'
    <3>1. /\ (\E c \in Containers : Step(m, "seed", c)) \/ Step(m, Returned(m, TRUE), None)
          /\ UNCHANGED <<starter, lpc, keep, chan>>
      BY <2>12, Zenon DEF Create, EndRole
    <3>2. Returned(m, TRUE) \in {"launch", "out"} /\ (Returned(m, TRUE) = "launch" => m \in starter)
      BY DEF Returned
    <3>3. ASSUME NEW c \in Containers, Step(m, "seed", c) PROVE OrderInv'
      BY <2>s, <3>1, <3>3, ZenonT(30)
    <3>4. CASE Step(m, Returned(m, TRUE), None)
      BY <2>s, <3>1, <3>2, <3>4, ZenonT(30)
    <3> QED BY <3>1, <3>3, <3>4, Zenon
  <2>13. ASSUME NEW m \in Makers, Seed(m) PROVE OrderInv'
    <3>1. PICK p \in {"recheck", "dropErr"} : Step(m, p, has[m])
      BY <2>13 DEF Seed
    <3>2. UNCHANGED <<idle, starter, lpc, keep, idleClosed>>
      BY <2>13 DEF Seed
    <3>3. m \in Goroutines /\ p \in PC /\ p \in Holding /\ p \notin {"fill", "launch"} /\ p \notin {"sweep", "done"}
      OBVIOUS
    <3> QED BY <2>s, <3>1, <3>2, <3>3, ZenonT(30)
  <2>14. ASSUME NEW m \in Makers, StartLifecycle(m) PROVE OrderInv'
    <3>1. /\ m \in starter /\ lpc = "none" /\ keep = <<>>
          /\ \A g \in Goroutines \ {m} : pc[g] \notin {"fill", "launch"}
      BY <2>14 DEF StartLifecycle
    <3>2. /\ pc'[m] = "out" /\ has'[m] = None /\ m \notin Closers
          /\ \A g \in Goroutines \ {m} : pc'[g] = pc[g] /\ has'[g] = has[g]
      BY <2>14 DEF StartLifecycle
    <3>3. starter' = {} /\ lpc' \in {"exited", "select"} /\ UNCHANGED <<idle, keep, idleClosed>>
      BY <2>14 DEF StartLifecycle
    <3> QED BY <3>1, <3>2, <3>3
  <2>15. ASSUME NEW k \in Closers, Shutdown(k) PROVE OrderInv'
    BY <2>15 DEF Shutdown
  <2>16. ASSUME NEW k \in Closers, ShutdownWait(k) PROVE OrderInv'
    BY <2>16 DEF ShutdownWait
  <2>17. ASSUME NEW k \in Closers, ShutdownClose(k) PROVE OrderInv'
    BY <2>17 DEF ShutdownClose
  <2>18. ASSUME NEW k \in Closers, ShutdownDrain(k) PROVE OrderInv'
    <3>1. CASE idle # <<>>
      <4>1. Step(k, "drop", Head(idle)) /\ UNCHANGED <<starter, lpc, keep, idleClosed>>
        BY <2>18, <3>1 DEF ShutdownDrain
      <4> QED BY <2>s, <3>1, <4>1, ZenonT(30)
    <3>2. CASE idle = <<>>
      <4>1. Step(k, "sweep", None) /\ idleClosed /\ UNCHANGED <<starter, lpc, keep, idleClosed, idle>>
        BY <2>18, <3>2 DEF ShutdownDrain
      <4> QED BY <2>s, <3>2, <4>1, ZenonT(30)
    <3> QED BY <3>1, <3>2
  <2>19. ASSUME NEW k \in Closers, ShutdownSweep(k) PROVE OrderInv'
    <3>1. CASE UNCHANGED <<pc, has>>
      BY <2>19, <3>1 DEF ShutdownSweep
    <3>2. CASE Step(k, "done", None)
      <4>1. idleClosed /\ idle = <<>> /\ UNCHANGED <<starter, lpc, keep, idleClosed, idle>>
        BY <2>19 DEF ShutdownSweep
      <4> QED BY <2>s, <3>2, <4>1, ZenonT(30)
    <3> QED BY <2>19, <3>1, <3>2, ZenonT(30) DEF ShutdownSweep
  <2>20. ASSUME NEW g \in Goroutines, Test(g) PROVE OrderInv'
    <3>1. Step(g, Tested(g), has[g]) /\ UNCHANGED <<starter, lpc, keep, chan>>
      BY <2>20 DEF Test, EndRole
    <3>2. /\ Tested(g) \in {"enter", "launch", "out", "create", "fill", "dropErr", "send", "drop"}
          /\ Tested(g) \in {"fill", "launch"} => g \in starter
          /\ Tested(g) \notin Holding => has[g] = None
      BY <2>20, ZenonT(30) DEF Test, Tested, Returned
    <3> QED BY <2>s, <3>1, <3>2, ZenonT(30)
  <2>21. ASSUME NEW g \in Goroutines, Send(g) PROVE OrderInv'
    <3>1. CASE ~idleClosed /\ CanSend
      <4>1. Step(g, Returned(g, FALSE), None) /\ UNCHANGED <<starter, lpc, keep, idleClosed>>
        BY <2>21, <3>1, Zenon DEF Send, EndRole
      <4>2. Returned(g, FALSE) \in {"fill", "out"} /\ (Returned(g, FALSE) = "fill" => g \in starter)
        BY DEF Returned
      <4> QED BY <2>s, <3>1, <4>1, <4>2, ZenonT(30)
    <3>2. CASE ~idleClosed /\ ~CanSend
      <4>1. Step(g, "drop", has[g]) /\ UNCHANGED <<starter, lpc, keep, chan>>
        BY <2>21, <3>2, Zenon DEF Send
      <4> QED BY <2>s, <4>1, ZenonT(30)
    <3>3. CASE idleClosed
      BY <2>21, <3>3 DEF Send
    <3> QED BY <3>1, <3>2, <3>3, Zenon
  <2>22. ASSUME NEW g \in Goroutines, Drop(g) PROVE OrderInv'
    BY <2>22 DEF Drop, EndRole, Returned, Stop, Removed
  <2>23. CASE Tick
    BY <2>23 DEF Tick
  <2>24. CASE LifecycleExit
    BY <2>24 DEF LifecycleExit
  <2>25. CASE LifecycleDrain
    BY <2>25 DEF LifecycleDrain
  <2>26. CASE LifecyclePutBack
    BY <2>26 DEF LifecyclePutBack, BackgroundInv
  <2>27. CASE LifecycleReplenish
    BY <2>27 DEF LifecycleReplenish, Spawned
  <2>28. ASSUME NEW c \in Containers, StopEvicted(c) PROVE OrderInv'
    BY <2>28 DEF StopEvicted, Stop, Removed
  <2>29. CASE UNCHANGED vars
    BY <2>29 DEF vars
  <2> QED
    BY <2>1, <2>2, <2>3, <2>4, <2>5, <2>6, <2>7, <2>8, <2>9, <2>10, <2>11, <2>12, <2>13, <2>14, <2>15, <2>16, <2>17, <2>18, <2>19, <2>20, <2>21, <2>22, <2>23, <2>24, <2>25, <2>26, <2>27, <2>28, <2>29, ZenonT(30)
       DEF Next, Running, Crashed, CallerNext, MakerNext, CloserNext, LifecycleNext
<1> QED BY <1>1, <1>2, TypeCorrect, BackgroundInductive, PTL DEF Spec

-----------------------------------------------------------------------------
(* Some part of the pool refers to the container. *)
Tracked(c) == c \in Range(idle) \cup Range(keep) \cup stopping \/ \E g \in Goroutines : has[g] = c

LeakInv == \A c \in docker \ leaked : Tracked(c)

(* A goroutine that moves, and lets go of a container only when the channel  *)
(* or the daemon has taken it.                                               *)
LEMMA TrackedStep ==
  ASSUME TypeInv, LeakInv, NEW g \in Goroutines, NEW p, NEW c, Step(g, p, c),
         has[g] \notin docker' \ leaked' \/ has[g] \in {None, c} \/ has[g] \in Range(idle'),
         docker' \ leaked' \subseteq (docker \ leaked) \cup {c},
         Range(idle) \subseteq Range(idle') \cup {c}, UNCHANGED <<keep, stopping>>
  PROVE  LeakInv'
  <1> SUFFICES ASSUME NEW d \in docker' \ leaked' PROVE Tracked(d)'
    BY DEF LeakInv
  <1>1. has'[g] = c /\ \A h \in Goroutines \ {g} : has'[h] = has[h]
    BY DEF Step, TypeInv, TypeOK
  <1>2. CASE d = c
    BY <1>1, <1>2, ZenonT(30) DEF Tracked
  <1>3. CASE d # c
    <2>1. Tracked(d) /\ d # None
      BY <1>3, RolesAssumption DEF LeakInv, TypeInv, TypeOK
    <2>2. CASE d \in Range(idle) \cup Range(keep) \cup stopping
      BY <1>3, <2>2, ZenonT(30) DEF Tracked
    <2>3. ASSUME NEW h \in Goroutines, has[h] = d PROVE Tracked(d)'
      BY <1>1, <1>3, <2>1, <2>3, Zenon DEF Tracked
    <2> QED BY <2>1, <2>2, <2>3, Zenon DEF Tracked
  <1> QED BY <1>2, <1>3

LEMMA Leak == Spec => []LeakInv
<1>1. Init => LeakInv
  BY DEF Init, LeakInv
<1>2. TypeInv /\ OrderInv /\ LeakInv /\ [Next]_vars => LeakInv'
  <2> SUFFICES ASSUME TypeInv, OrderInv, LeakInv, [Next]_vars PROVE LeakInv'
    OBVIOUS
  <2> USE DEF chan, table, flags, daemon, roles, cycle
  <2>g. Callers \subseteq Goroutines /\ Makers \subseteq Goroutines /\ Closers \subseteq Goroutines
    BY DEF Goroutines
  <2>i. /\ idle # <<>> => Range(idle) = Range(Tail(idle)) \cup {Head(idle)}
        /\ \A c \in Containers : Range(Append(idle, c)) = Range(idle) \cup {c}
    BY Contents DEF TypeInv, TypeOK
  <2>u. ASSUME docker' \ leaked' \subseteq docker \ leaked, UNCHANGED has,
               Range(idle) \cup Range(keep) \cup stopping \subseteq Range(idle') \cup Range(keep') \cup stopping'
        PROVE  LeakInv'
    BY <2>u, Zenon DEF LeakInv, Tracked
  <2>1. ASSUME NEW w \in Callers, CallAcquire(w) PROVE LeakInv'
    <3>1. Step(w, "acquire", None) /\ UNCHANGED <<idle, keep, stopping, daemon>>
      BY <2>1 DEF CallAcquire
    <3>2. has[w] = None
      BY <2>1, <2>g DEF CallAcquire, OrderInv, Holding
    <3> QED BY <2>g, <3>1, <3>2, TrackedStep
  <2>2. ASSUME NEW w \in Callers, AcquireReceive(w) PROVE LeakInv'
    <3>1. CASE idle # <<>>
      <4>1. Step(w, "got", Head(idle)) /\ idle' = Tail(idle) /\ UNCHANGED <<keep, stopping, daemon>>
        BY <2>2, <3>1 DEF AcquireReceive
      <4>2. has[w] = None
        BY <2>2, <2>g DEF AcquireReceive, OrderInv, Holding
      <4>3. Range(idle) \subseteq Range(idle') \cup {Head(idle)}
        BY <2>i, <3>1, <4>1
      <4> QED BY <2>g, <4>1, <4>2, <4>3, TrackedStep
    <3> QED BY <2>2, <3>1 DEF AcquireReceive
  <2>3. ASSUME NEW w \in Callers, AcquireFail(w) PROVE LeakInv'
    <3>1. Step(w, "out", None) /\ UNCHANGED <<idle, keep, stopping, daemon>>
      BY <2>3 DEF AcquireFail
    <3>2. has[w] = None
      BY <2>3, <2>g DEF AcquireFail, OrderInv, Holding
    <3> QED BY <2>g, <3>1, <3>2, TrackedStep
  <2>4. ASSUME NEW w \in Callers, AcquireStore(w) PROVE LeakInv'
    <3>1. Step(w, "use", has[w]) /\ UNCHANGED <<idle, keep, stopping, daemon>>
      BY <2>4 DEF AcquireStore
    <3> QED BY <2>g, <3>1, TrackedStep
  <2>5. ASSUME NEW w \in Callers, Release(w) PROVE LeakInv'
    <3>1. Step(w, IF Exhausted(has[w]) THEN "retire" ELSE "warm", has[w]) /\ UNCHANGED <<idle, keep, stopping, daemon>>
      BY <2>5 DEF Release
    <3> QED BY <2>g, <3>1, TrackedStep
  <2>6. ASSUME NEW w \in Callers, ReleaseRetire(w) PROVE LeakInv'
    <3>1. /\ Step(w, "spawn", None) \/ Step(w, "out", None)
          /\ UNCHANGED <<idle, keep, stopping>>
      BY <2>6 DEF ReleaseRetire
    <3>2. has[w] \notin docker' \ leaked' /\ docker' \ leaked' \subseteq docker \ leaked
      BY <2>6 DEF ReleaseRetire, Removed
    <3> QED BY <2>g, <3>1, <3>2, TrackedStep
  <2>7. ASSUME NEW w \in Callers, Discard(w) PROVE LeakInv'
    <3>1. Step(w, "discard", has[w]) /\ UNCHANGED <<idle, keep, stopping, daemon>>
      BY <2>7 DEF Discard
    <3> QED BY <2>g, <3>1, TrackedStep
  <2>8. ASSUME NEW w \in Callers, SpawnReplacement(w) PROVE LeakInv'
    <3>1. PICK m \in Makers :
            /\ Spawned(m)
            /\ has' = [has EXCEPT ![w] = None, ![m] = has[w]]
      BY <2>8, Zenon DEF SpawnReplacement
    <3>2. has[m] = None /\ w # m
      BY <3>1, RolesAssumption DEF Spawned, OrderInv, Holding, Goroutines
    <3>3. has'[m] = has[w] /\ \A g \in Goroutines \ {w, m} : has'[g] = has[g]
      BY <3>1, <3>2 DEF TypeInv, TypeOK, Goroutines
    <3>4. UNCHANGED <<idle, keep, stopping, daemon>>
      BY <2>8 DEF SpawnReplacement
    <3> SUFFICES ASSUME NEW d \in docker \ leaked PROVE Tracked(d)'
      BY <3>4 DEF LeakInv
    <3>5. Tracked(d) /\ d # None
      BY RolesAssumption DEF LeakInv, TypeInv, TypeOK
    <3>6. CASE d \in Range(idle) \cup Range(keep) \cup stopping
      BY <3>4, <3>6 DEF Tracked
    <3>7. ASSUME NEW h \in Goroutines, has[h] = d PROVE Tracked(d)'
      <4>1. \E g \in Goroutines : has'[g] = d
        BY <2>g, <3>2, <3>3, <3>5, <3>7
      <4> QED BY <4>1 DEF Tracked
    <3> QED BY <3>5, <3>6, <3>7 DEF Tracked
  <2>9. ASSUME NEW w \in Callers, Evict(w) PROVE LeakInv'
    <3>1. CASE idle # <<>>
      <4>1. Step(w, "drop", Head(idle)) /\ idle' = Tail(idle) /\ UNCHANGED <<keep, stopping, daemon>>
        BY <2>9, <3>1 DEF Evict
      <4>2. has[w] = None
        BY <2>9, <2>g DEF Evict, OrderInv, Holding
      <4>3. Range(idle) \subseteq Range(idle') \cup {Head(idle)}
        BY <2>i, <3>1, <4>1
      <4> QED BY <2>g, <4>1, <4>2, <4>3, TrackedStep
    <3>2. CASE idle = <<>>
      <4>1. UNCHANGED <<idle, keep, stopping, has, daemon>>
        BY <2>9, <3>2 DEF Evict
      <4> QED BY <2>u, <4>1
    <3> QED BY <3>1, <3>2
  <2>10. ASSUME NEW m \in Makers, Start(m) PROVE LeakInv'
    <3>1. Step(m, "fill", None) /\ UNCHANGED <<idle, keep, stopping, daemon>>
      BY <2>10 DEF Start
    <3>2. has[m] = None
      BY <2>10, <2>g DEF Start, OrderInv, Holding
    <3> QED BY <2>g, <3>1, <3>2, TrackedStep
  <2>11. ASSUME NEW m \in Makers, CreateNew(m) PROVE LeakInv'
    <3>1. Step(m, "enter", None) /\ UNCHANGED <<idle, keep, stopping, daemon>>
      BY <2>11 DEF CreateNew
    <3>2. has[m] = None
      BY <2>11, <2>g DEF CreateNew, OrderInv, Holding
    <3> QED BY <2>g, <3>1, <3>2, TrackedStep
  <2>12. ASSUME NEW m \in Makers, Create(m) PROVE LeakInv'
    <3>1. has[m] = None /\ UNCHANGED <<idle, keep, stopping>>
      BY <2>12, <2>g, Zenon DEF Create, OrderInv, Holding
    <3>2. ASSUME NEW c \in Containers, docker' = docker \cup {c}, Step(m, "seed", c), UNCHANGED leaked
          PROVE  LeakInv'
      <4>1. docker' \ leaked' \subseteq (docker \ leaked) \cup {c}
        BY <3>2
      <4> QED BY <2>g, <3>1, <3>2, <4>1, TrackedStep
    <3>3. ASSUME Step(m, Returned(m, TRUE), None), docker' \ leaked' \subseteq docker \ leaked
          PROVE  LeakInv'
      BY <2>g, <3>1, <3>3, TrackedStep, Zenon
    <3> QED BY <2>12, <3>2, <3>3, Zenon DEF Create
  <2>13. ASSUME NEW m \in Makers, Seed(m) PROVE LeakInv'
    <3>1. PICK p \in {"recheck", "dropErr"} : Step(m, p, has[m])
      BY <2>13 DEF Seed
    <3>2. UNCHANGED <<idle, keep, stopping, daemon>>
      BY <2>13 DEF Seed
    <3> QED BY <2>g, <3>1, <3>2, TrackedStep
  <2>14. ASSUME NEW m \in Makers, StartLifecycle(m) PROVE LeakInv'
    <3>1. Step(m, "out", None) /\ UNCHANGED <<idle, keep, stopping, daemon>>
      BY <2>14 DEF StartLifecycle
    <3>2. has[m] = None
      BY <2>14, <2>g DEF StartLifecycle, OrderInv, Holding
    <3> QED BY <2>g, <3>1, <3>2, TrackedStep
  <2>15. ASSUME NEW k \in Closers, Shutdown(k) PROVE LeakInv'
    <3>1. Step(k, IF closed THEN "drain" ELSE "wait", None) /\ UNCHANGED <<idle, keep, stopping, daemon>>
      BY <2>15 DEF Shutdown
    <3>2. has[k] = None
      BY <2>15, <2>g DEF Shutdown, OrderInv, Holding
    <3> QED BY <2>g, <3>1, <3>2, TrackedStep
  <2>16. ASSUME NEW k \in Closers, ShutdownWait(k) PROVE LeakInv'
    <3>1. Step(k, "close", None) /\ UNCHANGED <<idle, keep, stopping, daemon>>
      BY <2>16 DEF ShutdownWait
    <3>2. has[k] = None
      BY <2>16, <2>g DEF ShutdownWait, OrderInv, Holding
    <3> QED BY <2>g, <3>1, <3>2, TrackedStep
  <2>17. ASSUME NEW k \in Closers, ShutdownClose(k) PROVE LeakInv'
    <3>1. Step(k, "drain", None) /\ UNCHANGED <<idle, keep, stopping, daemon>>
      BY <2>17 DEF ShutdownClose
    <3>2. has[k] = None
      BY <2>17, <2>g DEF ShutdownClose, OrderInv, Holding
    <3> QED BY <2>g, <3>1, <3>2, TrackedStep
  <2>18. ASSUME NEW k \in Closers, ShutdownDrain(k) PROVE LeakInv'
    <3>1. CASE idle # <<>>
      <4>1. Step(k, "drop", Head(idle)) /\ idle' = Tail(idle) /\ UNCHANGED <<keep, stopping, daemon>>
        BY <2>18, <3>1 DEF ShutdownDrain
      <4>2. has[k] = None
        BY <2>18, <2>g, Zenon DEF ShutdownDrain, OrderInv, Holding
      <4>3. Range(idle) \subseteq Range(idle') \cup {Head(idle)}
        BY <2>i, <3>1, <4>1
      <4> QED BY <2>g, <4>1, <4>2, <4>3, TrackedStep
    <3>2. CASE idle = <<>>
      <4>1. Step(k, "sweep", None) /\ UNCHANGED <<idle, keep, stopping, daemon>>
        BY <2>18, <3>2 DEF ShutdownDrain
      <4>2. has[k] = None
        BY <2>18, <2>g, Zenon DEF ShutdownDrain, OrderInv, Holding
      <4> QED BY <2>g, <4>1, <4>2, TrackedStep
    <3> QED BY <3>1, <3>2
  <2>19. ASSUME NEW k \in Closers, ShutdownSweep(k) PROVE LeakInv'
    <3>1. CASE UNCHANGED <<pc, has>>
      <4>1. docker' \ leaked' \subseteq docker \ leaked /\ UNCHANGED <<idle, keep, stopping, has>>
        BY <2>19, <3>1, Zenon DEF ShutdownSweep, Stop, Removed
      <4> QED BY <2>u, <4>1
    <3>2. CASE Step(k, "done", None) /\ UNCHANGED daemon
      <4>1. has[k] = None /\ UNCHANGED <<idle, keep, stopping>>
        BY <2>19, <2>g, Zenon DEF ShutdownSweep, OrderInv, Holding
      <4> QED BY <2>g, <3>2, <4>1, TrackedStep
    <3> QED BY <2>19, <3>1, <3>2, Zenon DEF ShutdownSweep
  <2>20. ASSUME NEW g \in Goroutines, Test(g) PROVE LeakInv'
    <3>1. Step(g, Tested(g), has[g]) /\ UNCHANGED <<idle, keep, stopping, daemon>>
      BY <2>20 DEF Test
    <3> QED BY <2>g, <3>1, TrackedStep
  <2>21. ASSUME NEW g \in Goroutines, Send(g) PROVE LeakInv'
    <3>1. CASE idleClosed
      <4>1. UNCHANGED <<idle, keep, stopping, has, daemon>>
        BY <2>21, <3>1 DEF Send
      <4> QED BY <2>u, <4>1
    <3>2. CASE ~idleClosed /\ CanSend
      <4>1. /\ Step(g, Returned(g, FALSE), None) /\ idle' = Append(idle, has[g])
            /\ UNCHANGED <<keep, stopping, daemon>>
        BY <2>21, <3>2, Zenon DEF Send
      <4>2. has[g] \in Containers
        BY <2>21 DEF Send, TypeInv, TypeOK, Holding
      <4>3. Range(idle') = Range(idle) \cup {has[g]}
        BY <2>i, <4>1, <4>2
      <4> QED BY <4>1, <4>3, TrackedStep, ZenonT(30)
    <3>3. CASE ~idleClosed /\ ~CanSend
      <4>1. Step(g, "drop", has[g]) /\ UNCHANGED <<idle, keep, stopping, daemon>>
        BY <2>21, <3>3, Zenon DEF Send
      <4> QED BY <4>1, TrackedStep
    <3> QED BY <3>1, <3>2, <3>3
  <2>22. ASSUME NEW g \in Goroutines, Drop(g) PROVE LeakInv'
    <3>1. PICK p : Step(g, p, None)
      BY <2>22 DEF Drop
    <3>2. /\ has[g] \notin docker' \ leaked' /\ docker' \ leaked' \subseteq docker \ leaked
          /\ UNCHANGED <<idle, keep, stopping>>
      BY <2>22 DEF Drop, Stop, Removed
    <3> QED BY <3>1, <3>2, TrackedStep
  <2>23. CASE Tick
    BY <2>23, <2>u DEF Tick
  <2>24. CASE LifecycleExit
    BY <2>24, <2>u DEF LifecycleExit
  <2>25. CASE LifecycleDrain
    <3>1. Range(idle) \cup Range(keep) \cup stopping \subseteq Range(idle') \cup Range(keep') \cup stopping'
      BY <2>25, Drained
    <3>2. UNCHANGED <<has, daemon>>
      BY <2>25 DEF LifecycleDrain
    <3> QED BY <2>u, <3>1, <3>2
  <2>26. CASE LifecyclePutBack
    <3>1. Range(idle) \cup Range(keep) \cup stopping \subseteq Range(idle') \cup Range(keep') \cup stopping'
      BY <2>26, PutBack
    <3>2. UNCHANGED <<has, daemon>>
      BY <2>26 DEF LifecyclePutBack
    <3> QED BY <2>u, <3>1, <3>2
  <2>27. CASE LifecycleReplenish
    <3>1. UNCHANGED <<idle, keep, stopping, daemon>>
      BY <2>27 DEF LifecycleReplenish
    <3>2. ASSUME NEW m \in Makers, Spawned(m), Step(m, "enter", None) PROVE LeakInv'
      <4>1. has[m] = None
        BY <2>g, <3>2 DEF Spawned, OrderInv, Holding
      <4> QED BY <2>g, <3>1, <3>2, <4>1, TrackedStep
    <3>3. CASE UNCHANGED <<pc, has>>
      BY <2>u, <3>1, <3>3
    <3> QED BY <2>27, <3>2, <3>3 DEF LifecycleReplenish
  <2>28. ASSUME NEW c \in Containers, StopEvicted(c) PROVE LeakInv'
    <3>1. /\ docker' \ leaked' \subseteq (docker \ leaked) \ {c}
          /\ stopping' = stopping \ {c} /\ UNCHANGED <<idle, keep, has>>
      BY <2>28 DEF StopEvicted, Stop, Removed
    <3> SUFFICES ASSUME NEW d \in docker' \ leaked' PROVE Tracked(d)'
      BY DEF LeakInv
    <3>2. Tracked(d) /\ d # c
      BY <3>1 DEF LeakInv
    <3> QED BY <3>1, <3>2 DEF Tracked
  <2>29. CASE UNCHANGED vars
    BY <2>29, <2>u DEF vars
  <2> QED
    BY <2>1, <2>2, <2>3, <2>4, <2>5, <2>6, <2>7, <2>8, <2>9, <2>10, <2>11, <2>12, <2>13, <2>14, <2>15, <2>16, <2>17, <2>18, <2>19, <2>20, <2>21, <2>22, <2>23, <2>24, <2>25, <2>26, <2>27, <2>28, <2>29
       DEF Next, Running, Crashed, CallerNext, MakerNext, CloserNext, LifecycleNext
<1> QED BY <1>1, <1>2, TypeCorrect, Order, PTL DEF Spec

(* The pool loses track of no container that the daemon started and did not  *)
(* fail to remove, and once Shutdown has returned and the goroutines that it *)
(* raced with are through, none is left running.                             *)
THEOREM NothingLeaks == Spec => []NoSilentLeak
<1>1. TypeInv /\ ExclusiveOwnership /\ BackgroundInv /\ OrderInv /\ LeakInv => NoSilentLeak
  <2> SUFFICES ASSUME TypeInv, ExclusiveOwnership, BackgroundInv, OrderInv, LeakInv PROVE NoSilentLeak
    OBVIOUS
  <2>1. ASSUME NEW c \in docker \ leaked PROVE c \in Known
    <3>1. \A g \in Goroutines : has[g] \in Range(has)
      BY DEF TypeInv, TypeOK, Range
    <3> QED BY <3>1 DEF LeakInv, Tracked, Known
  <2>2. ASSUME NEW k \in Closers, pc[k] = "done",
               \A g \in Goroutines : pc[g] \in {"out", "done", "acquire"}, stopping = {},
               NEW c \in docker, c \notin leaked
        PROVE  FALSE
    <3>1. idleClosed /\ idle = <<>> /\ keep = <<>>
      BY <2>2 DEF OrderInv, BackgroundInv
    <3>2. \A g \in Goroutines : has[g] = None
      BY <2>2 DEF OrderInv, Holding
    <3>3. c # None
      BY RolesAssumption DEF TypeInv, TypeOK
    <3> QED BY <2>2, <3>1, <3>2, <3>3, NothingInside DEF LeakInv, Tracked
  <2> QED BY <2>1, <2>2 DEF NoSilentLeak
<1> QED
  BY <1>1, TypeCorrect, Exclusive, BackgroundInductive, Order, Leak, PTL
=============================================================================
