-------------------------- MODULE KubernetesPodPool --------------------------
(***************************************************************************)
(* The pool of runner pods of one runtime, with the requests that use it:  *)
(* lambda-service/internal/pool/kubernetes_pool.go, and executeWithPool of *)
(* lambda-service/internal/executor/kubernetes_runtime.go.                 *)
(*                                                                         *)
(* A step is one critical section of the pool's mutex, one access outside  *)
(* of it or one exchange with the Kubernetes API, which may fail.          *)
(***************************************************************************)
EXTENDS Naturals, Sequences, FiniteSets, Functions

CONSTANTS Pods,         \* pod names; one that nothing knows is used again
          Requests,     \* concurrent executions
          MaxSize,      \* PoolConfig.MaxSize
          MaxUseCount,  \* PoolConfig.MaxUseCount; 0 means unlimited
          None          \* no pod

ASSUME PodPoolAssumption ==
  /\ IsFiniteSet(Requests) /\ None \notin Pods
  /\ MaxSize \in Nat \ {0} /\ MaxUseCount \in Nat

VARIABLES
  pods,     \* the containers slice
  state,    \* Container.State
  uses,     \* Container.UseCount
  older,    \* pairs of pods of the pool in the order of Container.LastUsed
  cluster,  \* pods that exist in the cluster
  lost,     \* those of them whose start or deletion failed
  pc, has   \* where a request is, and the pod it holds

vars == <<pods, state, uses, older, cluster, lost, pc, has>>

TypeOK ==
  /\ pods \in Seq(Pods) /\ older \subseteq Pods \X Pods
  /\ state \in [Pods -> {"warm", "inUse", "cleaning"}] /\ uses \in [Pods -> Nat]
  /\ cluster \subseteq Pods /\ lost \subseteq cluster
  /\ pc \in [Requests -> {"out", "check", "evict", "create", "append", "use", "release"}]
  /\ has \in [Requests -> Pods \cup {None}]
  /\ \A r \in Requests : pc[r] \in {"append", "use", "release"} => has[r] \in Pods

Init ==
  /\ pods = <<>> /\ older = {}
  /\ state = [p \in Pods |-> "warm"] /\ uses = [p \in Pods |-> 0]
  /\ cluster = {} /\ lost = {}
  /\ pc = [r \in Requests |-> "out"] /\ has = [r \in Requests |-> None]

-----------------------------------------------------------------------------

Step(r, l, p) == pc' = [pc EXCEPT ![r] = l] /\ has' = [has EXCEPT ![r] = p]

(* The pods of the slice and the ones about to enter it. *)
Pooled == Range(pods) \cup {has[r] : r \in {q \in Requests : pc[q] = "append"}}

Forgotten(S) == {e \in older : e[1] \notin S /\ e[2] \notin S}

(* LastUsed = time.Now() *)
Touched(p) == Forgotten({p}) \cup ((Pooled \ {p}) \X {p})

moveToEnd(s, i) ==
  [j \in 1..Len(s) |-> IF j < i THEN s[j] ELSE IF j < Len(s) THEN s[j + 1] ELSE s[i]]

(* The removal in removePodUnsafe: the last element takes the pod's place. *)
Without(s, p) ==
  IF p \in Range(s)
    THEN LET i == CHOOSE k \in DOMAIN s : s[k] = p
         IN  [j \in 1..(Len(s) - 1) |-> IF j = i THEN s[Len(s)] ELSE s[j]]
    ELSE s

(* The API deletes the pods of S; those of F it fails to delete stay. *)
Delete(S, F) ==
  /\ cluster' = cluster \ (S \ F)
  /\ lost' = (lost \cup (F \cap cluster)) \ (S \ F)

(* Mutant of removePodUnsafe: the slice is kept when the deletion succeeds. *)
removeOnlyOnError(p) ==
  \E F \in SUBSET {p} :
    /\ Delete({p}, F)
    /\ pods' = IF F = {} THEN pods ELSE Without(pods, p)
    /\ older' = Forgotten({p})

removePodUnsafe(p) ==
  /\ \E F \in SUBSET {p} : Delete({p}, F)
  /\ pods' = Without(pods, p)
  /\ older' = Forgotten({p})

(* Mutant of Exhausted: off by one. *)
ExhaustedLate(p) == MaxUseCount > 0 /\ uses[p] > MaxUseCount

Exhausted(p) == MaxUseCount > 0 /\ uses[p] >= MaxUseCount

(* Mutant of Warm: the test only skips a pod that is being cleaned. *)
WarmOrInUse == {i \in DOMAIN pods : state[pods[i]] # "cleaning"}

Warm == {i \in DOMAIN pods : state[pods[i]] = "warm"}

-----------------------------------------------------------------------------
(* acquireContainer *)

(* Acquire never waits: the first warm pod, or nil, after which the caller   *)
(* turns to CreateNew.                                                       *)
Acquire(r) ==
  /\ pc[r] = "out"
  /\ \/ \E i \in Warm :
          /\ \A j \in Warm : i <= j
          /\ state' = [state EXCEPT ![pods[i]] = "inUse"]
          /\ uses' = [uses EXCEPT ![pods[i]] = @ + 1]
          /\ older' = Touched(pods[i])
          /\ pods' = moveToEnd(pods, i)
          /\ Step(r, "use", pods[i])
     \/ /\ Warm = {}
        /\ Step(r, "check", None)
        /\ UNCHANGED <<pods, state, uses, older>>
  /\ UNCHANGED <<cluster, lost>>

AtCapacity == Len(pods) >= MaxSize

(* CreateNew reads the capacity under a lock it gives up again. *)
CreateNew(r) ==
  /\ pc[r] = "check"
  /\ Step(r, IF AtCapacity THEN "evict" ELSE "create", None)
  /\ UNCHANGED <<pods, state, uses, older, cluster, lost>>

(* The least recently used warm pod; the pod at index 0 when none is warm. *)
Victim(p) ==
  IF Warm = {} THEN p = Head(pods)
  ELSE LET warm == {pods[i] : i \in Warm}
       IN  p \in warm /\ \A q \in warm : <<q, p>> \notin older

Evict(r) ==
  /\ pc[r] = "evict"
  /\ \/ /\ pods # <<>>
        /\ \E p \in Pods : Victim(p) /\ removePodUnsafe(p)
        /\ Step(r, "create", None)
     \/ /\ pods = <<>>
        /\ Step(r, "out", None)
        /\ UNCHANGED <<pods, older, cluster, lost>>
  /\ UNCHANGED <<state, uses>>

(* createPod: the pod runs; or it was created but the watch failed, reported *)
(* a failure or timed out, and nothing deletes it; or it was not created.    *)
createPod(r) ==
  /\ pc[r] = "create"
  /\ \/ \E p \in Pods \ (cluster \cup Range(pods) \cup Range(has)) :
          /\ cluster' = cluster \cup {p}
          /\ \/ /\ Step(r, "append", p)
                /\ state' = [state EXCEPT ![p] = "warm"]
                /\ uses' = [uses EXCEPT ![p] = 0]
                /\ older' = Touched(p)
                /\ UNCHANGED lost
             \/ /\ Step(r, "out", None)
                /\ lost' = lost \cup {p}
                /\ UNCHANGED <<state, uses, older>>
     \/ /\ Step(r, "out", None)
        /\ UNCHANGED <<state, uses, older, cluster, lost>>
  /\ UNCHANGED pods

(* The end of CreateNew.  The pod enters the slice warm, and the request     *)
(* goes on to use it.                                                        *)
Publish(r) ==
  /\ pc[r] = "append"
  /\ pods' = Append(pods, has[r])
  /\ Step(r, "use", has[r])
  /\ UNCHANGED <<state, uses, older, cluster, lost>>

-----------------------------------------------------------------------------
(* Release marks the pod before it takes the lock. *)

ReleaseMark(r) ==
  /\ pc[r] = "use"
  /\ state' = [state EXCEPT ![has[r]] = "cleaning"]
  /\ Step(r, "release", has[r])
  /\ UNCHANGED <<pods, uses, older, cluster, lost>>

(* Mutant of Release: the pod is left marked as being cleaned. *)
ReleaseUnmarked(r) ==
  /\ pc[r] = "release"
  /\ IF Exhausted(has[r])
       THEN removePodUnsafe(has[r])
       ELSE /\ older' = IF has[r] \in Range(pods) THEN Touched(has[r]) ELSE older
            /\ UNCHANGED <<pods, cluster, lost>>
  /\ Step(r, "out", None)
  /\ UNCHANGED <<state, uses>>

Release(r) ==
  /\ pc[r] = "release"
  /\ IF Exhausted(has[r])
       THEN removePodUnsafe(has[r]) /\ UNCHANGED state
       ELSE /\ state' = [state EXCEPT ![has[r]] = "warm"]
            /\ older' = IF has[r] \in Range(pods) THEN Touched(has[r]) ELSE older
            /\ UNCHANGED <<pods, cluster, lost>>
  /\ Step(r, "out", None)
  /\ UNCHANGED uses

(* One critical section deletes every pod of the slice. *)
Shutdown ==
  /\ pods # <<>>
  /\ \E F \in SUBSET Range(pods) : Delete(Range(pods), F)
  /\ pods' = <<>>
  /\ older' = Forgotten(Range(pods))
  /\ UNCHANGED <<state, uses, pc, has>>

-----------------------------------------------------------------------------

RequestNext(r) ==
  \/ Acquire(r) \/ CreateNew(r) \/ Evict(r) \/ createPod(r) \/ Publish(r)
  \/ ReleaseMark(r) \/ Release(r)

Next == Shutdown \/ \E r \in Requests : RequestNext(r)

Spec == Init /\ [][Next]_vars

-----------------------------------------------------------------------------
(* Properties *)

Users(p) == {r \in Requests : pc[r] \in {"use", "release"} /\ has[r] = p}

Creating == {r \in Requests : pc[r] \in {"check", "evict", "create", "append"}}

(* However many requests pass CreateNew's capacity check before any of them  *)
(* appends its pod, and whatever MaxSize is, the pool never holds more pods  *)
(* than there are concurrent requests, each request in CreateNew counted as  *)
(* one pod: a request turns to CreateNew only when other requests hold every *)
(* pod of the slice.                                                         *)
PodsWithinDemand == Len(pods) + Cardinality(Creating) <= Cardinality(Requests)

(* CreateNew leaves the pod it returns warm, so that a second request may be *)
(* given it, but never a third: a pod serves at most two requests at a time, *)
(* and only one while it is marked warm, whatever the order of the unlocked  *)
(* write in Release and the critical sections.                               *)
AtMostTwoUsers ==
  \A p \in Pods :
    /\ Cardinality(Users(p)) <= 2
    /\ state[p] = "warm" => Cardinality(Users(p)) <= 1

(* The slice, the request that has just created it or a recorded API failure *)
(* accounts for every pod in the cluster, and the slice lists a pod once and *)
(* only if it exists: Evict, Release and Shutdown never forget a pod and     *)
(* never keep one they deleted.                                              *)
PodsAccounted ==
  /\ IsInjective(pods)
  /\ cluster \ lost = Pooled

(* Its inductive form: only its creator knows a pod that is about to enter   *)
(* the slice.                                                                *)
PodsInv ==
  /\ PodsAccounted
  /\ \A r \in Requests : pc[r] = "append" =>
       has[r] \notin Range(pods) /\ \A q \in Requests \ {r} : has[q] # has[r]

(* What PodsWithinDemand rests on: a pod that no request holds is warm. *)
UnusedIsWarm == \A p \in Range(pods) : state[p] = "warm" \/ Users(p) # {}

(* Acquire never takes a pod beyond MaxUseCount, not even one that two       *)
(* requests share and release in either order.                               *)
UseCountBound ==
  MaxUseCount > 0 => \A p \in Pods : uses[p] <= MaxUseCount
=============================================================================
