----------------------- MODULE KubernetesPodPoolProofs -----------------------
(* Theorems about KubernetesPodPool, for any finite set of requests, any set *)
(* of pods and any configuration.                                            *)
EXTENDS KubernetesPodPool, FiniteSetTheorems, SequenceTheorems, TLAPS

(* A function on 1..n is a sequence of length n. *)
LEMMA SeqOfFunction ==
  ASSUME NEW S, NEW n \in Nat, NEW f \in [1..n -> S]
  PROVE  f \in Seq(S) /\ Len(f) = n
<1>1. f \in Seq(S)
  BY SeqDef
<1>2. DOMAIN f = 1..Len(f) /\ Len(f) \in Nat
  BY <1>1, LenProperties
<1>3. 1..n = 1..Len(f)
  BY <1>2
<1>4. \A m, k \in Nat : 1..m = 1..k => m = k
  <2> SUFFICES ASSUME NEW m \in Nat, NEW k \in Nat, 1..m = 1..k PROVE m = k
    OBVIOUS
  <2>1. CASE m < k
    BY <2>1, k \in 1..k
  <2>2. CASE k < m
    BY <2>2, m \in 1..m
  <2> QED BY <2>1, <2>2
<1> QED BY <1>1, <1>2, <1>3, <1>4

(* Appending a new element *)
LEMMA AppendFacts ==
  ASSUME NEW S, NEW s \in Seq(S), NEW x \in S, x \notin Range(s), IsInjective(s)
  PROVE  Range(Append(s, x)) = Range(s) \cup {x} /\ IsInjective(Append(s, x))
<1> DEFINE n == Len(s)
           t == Append(s, x)
<1>1. /\ n \in Nat /\ DOMAIN s = 1..n /\ DOMAIN t = 1..(n + 1)
      /\ t[n + 1] = x /\ \A j \in 1..n : t[j] = s[j]
  BY LenProperties, AppendProperties
<1> HIDE DEF n, t
<1>2. 1..(n + 1) = 1..n \cup {n + 1}
  BY <1>1
<1> QED BY <1>1, <1>2 DEF Range, IsInjective, t

(* moveToEnd permutes the slice. *)
LEMMA MoveFacts ==
  ASSUME NEW S, NEW s \in Seq(S), NEW i \in DOMAIN s
  PROVE  /\ moveToEnd(s, i) \in Seq(S) /\ Len(moveToEnd(s, i)) = Len(s)
         /\ Range(moveToEnd(s, i)) = Range(s)
         /\ IsInjective(s) => IsInjective(moveToEnd(s, i))
<1> DEFINE n == Len(s)
           f == moveToEnd(s, i)
<1>0. n \in Nat /\ DOMAIN s = 1..n /\ i \in 1..n
  BY LenProperties
<1>1. \A j \in 1..n : s[j] \in S
  BY ElementOfSeq
<1>2. f = [j \in 1..n |-> IF j < i THEN s[j] ELSE IF j < n THEN s[j + 1] ELSE s[i]]
  BY DEF moveToEnd
<1>3. f \in [1..n -> S]
  <2>1. \A j \in 1..n : (IF j < i THEN s[j] ELSE IF j < n THEN s[j + 1] ELSE s[i]) \in S
    BY <1>0, <1>1
  <2> QED BY <2>1, <1>2
<1>4. f \in Seq(S) /\ Len(f) = n
  BY <1>0, <1>3, SeqOfFunction
<1> HIDE DEF f
<1>5. DOMAIN f = 1..n
  BY <1>3
<1>6. Range(f) \subseteq Range(s)
  <2> SUFFICES ASSUME NEW j \in 1..n PROVE f[j] \in Range(s)
    BY <1>5 DEF Range
  <2>1. \E k \in 1..n : f[j] = s[k]
    BY <1>0, <1>2
  <2> QED BY <2>1, <1>0 DEF Range
<1>7. Range(s) \subseteq Range(f)
  <2> SUFFICES ASSUME NEW k \in 1..n PROVE s[k] \in Range(f)
    BY <1>0 DEF Range
  <2>1. CASE k < i
    <3>1. f[k] = s[k]
      BY <2>1, <1>2
    <3> QED BY <3>1, <1>5 DEF Range
  <2>2. CASE k = i
    <3>1. n \in 1..n /\ f[n] = s[i]
      BY <1>0, <1>2
    <3> QED BY <2>2, <3>1, <1>5 DEF Range
  <2>3. CASE k > i
    <3>1. k - 1 \in 1..n /\ f[k - 1] = s[k]
      BY <2>3, <1>0, <1>2
    <3> QED BY <3>1, <1>5 DEF Range
  <2> QED BY <2>1, <2>2, <2>3, <1>0
<1>8. IsInjective(s) => IsInjective(f)
  <2> SUFFICES ASSUME \A a, b \in 1..n : s[a] = s[b] => a = b,
                      NEW a \in 1..n, NEW b \in 1..n, f[a] = f[b]
               PROVE  a = b
    BY <1>0, <1>5 DEF IsInjective
  <2> QED BY <1>0, <1>2
<1> QED BY <1>4, <1>6, <1>7, <1>8 DEF f

(* The removal in removePodUnsafe takes one pod out of the slice. *)
LEMMA WithoutFacts ==
  ASSUME NEW S, NEW s \in Seq(S), NEW p
  PROVE  /\ Without(s, p) \in Seq(S)
         /\ Len(Without(s, p)) = IF p \in Range(s) THEN Len(s) - 1 ELSE Len(s)
         /\ IsInjective(s) =>
              IsInjective(Without(s, p)) /\ Range(Without(s, p)) = Range(s) \ {p}
<1>1. CASE p \notin Range(s)
  BY <1>1 DEF Without
<1>2. CASE p \in Range(s)
  <2> DEFINE n == Len(s)
             i == CHOOSE k \in DOMAIN s : s[k] = p
             f == Without(s, p)
  <2>0. n \in Nat /\ DOMAIN s = 1..n /\ \A j \in 1..n : s[j] \in S
    BY LenProperties, ElementOfSeq
  <2>1. i \in 1..n /\ s[i] = p
    BY <1>2, <2>0 DEF Range
  <2>2. f = [j \in 1..(n - 1) |-> IF j = i THEN s[n] ELSE s[j]]
    BY <1>2 DEF Without
  <2> HIDE DEF f, i
  <2>3. n - 1 \in Nat /\ f \in [1..(n - 1) -> S]
    BY <2>0, <2>1, <2>2
  <2>4. f \in Seq(S) /\ Len(f) = n - 1
    BY <2>3, SeqOfFunction
  <2>5. DOMAIN f = 1..(n - 1)
    BY <2>3
  <2>6. ASSUME \A a, b \in 1..n : s[a] = s[b] => a = b
        PROVE  IsInjective(f) /\ Range(f) = Range(s) \ {p}
    <3>1. IsInjective(f)
      BY <2>0, <2>1, <2>2, <2>5, <2>6 DEF IsInjective
    <3>2. ASSUME NEW j \in 1..(n - 1) PROVE f[j] \in Range(s) \ {p}
      <4>1. \E k \in 1..n : f[j] = s[k] /\ k # i
        BY <2>0, <2>1, <2>2
      <4> QED BY <4>1, <2>0, <2>1, <2>6 DEF Range
    <3>3. ASSUME NEW k \in 1..n, s[k] # p PROVE s[k] \in Range(f)
      <4>1. CASE k = n
        <5>1. i \in 1..(n - 1) /\ f[i] = s[k]
          BY <4>1, <3>3, <2>0, <2>1, <2>2
        <5> QED BY <5>1, <2>5 DEF Range
      <4>2. CASE k # n
        <5>1. k # i
          BY <3>3, <2>1
        <5>2. k \in 1..(n - 1)
          <6>1. \A m \in Nat : \A x \in 1..m : x # m => x \in 1..(m - 1)
            OBVIOUS
          <6> QED BY <6>1, <4>2, <2>0
        <5>3. f[k] = s[k]
          BY <5>1, <5>2, <2>2
        <5> QED BY <5>2, <5>3, <2>5 DEF Range
      <4> QED BY <4>1, <4>2
    <3> QED BY <3>1, <3>2, <3>3, <2>0, <2>5 DEF Range
  <2> QED BY <1>2, <2>0, <2>4, <2>6 DEF f, IsInjective
<1> QED BY <1>1, <1>2

(* What a warm index of the slice refers to. *)
LEMMA WarmFacts ==
  ASSUME pods \in Seq(Pods), NEW i \in Warm
  PROVE  i \in DOMAIN pods /\ pods[i] \in Pods /\ state[pods[i]] = "warm"
<1>1. i \in DOMAIN pods /\ state[pods[i]] = "warm"
  BY DEF Warm
<1>2. \A j \in DOMAIN pods : pods[j] \in Pods
  OBVIOUS
<1> QED BY <1>1, <1>2

(* Every variable keeps its type. *)
THEOREM TypeCorrect == Spec => []TypeOK
<1> USE PodPoolAssumption
<1>1. Init => TypeOK
  BY DEF Init, TypeOK
<1>2. TypeOK /\ [Next]_vars => TypeOK'
  <2> SUFFICES ASSUME TypeOK, [Next]_vars PROVE TypeOK'
    OBVIOUS
  <2> USE DEF TypeOK, Step
  <2>f. \A S : Forgotten(S) \subseteq Pods \X Pods
    BY DEF Forgotten
  <2>p. Pooled \subseteq Pods
    BY ElementOfSeq, LenProperties DEF Pooled, Range
  <2>t. \A p \in Pods : Touched(p) \subseteq Pods \X Pods
    BY <2>f, <2>p DEF Touched
  <2>r. ASSUME NEW p \in Pods, removePodUnsafe(p)
        PROVE  /\ pods' \in Seq(Pods) /\ older' \subseteq Pods \X Pods
               /\ cluster' \subseteq Pods /\ lost' \subseteq cluster'
    BY <2>r, <2>f, WithoutFacts DEF removePodUnsafe, Delete
  <2>1. ASSUME NEW r \in Requests, Acquire(r) PROVE TypeOK'
    <3>1. CASE Warm = {}
      BY <2>1, <3>1 DEF Acquire
    <3>2. ASSUME NEW i \in Warm,
                 state' = [state EXCEPT ![pods[i]] = "inUse"],
                 uses' = [uses EXCEPT ![pods[i]] = @ + 1],
                 older' = Touched(pods[i]), pods' = moveToEnd(pods, i),
                 Step(r, "use", pods[i]), UNCHANGED <<cluster, lost>>
          PROVE  TypeOK'
      <4>1. i \in DOMAIN pods /\ pods[i] \in Pods
        BY WarmFacts
      <4>2. pods' \in Seq(Pods) /\ older' \subseteq Pods \X Pods
        BY <3>2, <4>1, <2>t, MoveFacts
      <4> QED BY <3>2, <4>1, <4>2
    <3> QED BY <2>1, <3>1, <3>2 DEF Acquire
  <2>2. ASSUME NEW r \in Requests, CreateNew(r) PROVE TypeOK'
    BY <2>2 DEF CreateNew
  <2>3. ASSUME NEW r \in Requests, Evict(r) PROVE TypeOK'
    <3>1. CASE pods = <<>>
      BY <2>3, <3>1 DEF Evict
    <3>2. CASE pods # <<>>
      <4>1. PICK p \in Pods : removePodUnsafe(p)
        BY <2>3, <3>2 DEF Evict
      <4>2. Step(r, "create", None) /\ UNCHANGED <<state, uses>>
        BY <2>3, <3>2 DEF Evict
      <4> QED BY <2>r, <4>1, <4>2
    <3> QED BY <3>1, <3>2
  <2>4. ASSUME NEW r \in Requests, createPod(r) PROVE TypeOK'
    <3>1. ASSUME NEW p \in Pods, Step(r, "append", p),
                 cluster' = cluster \cup {p}, UNCHANGED <<pods, lost>>,
                 state' = [state EXCEPT ![p] = "warm"], uses' = [uses EXCEPT ![p] = 0],
                 older' = Touched(p)
          PROVE  TypeOK'
      <4>1. older' \subseteq Pods \X Pods
        BY <3>1, <2>t
      <4> QED BY <3>1, <4>1
    <3>2. ASSUME Step(r, "out", None), UNCHANGED <<pods, state, uses, older>>,
                 cluster' \subseteq Pods, lost' \subseteq cluster'
          PROVE  TypeOK'
      BY <3>2
    <3> QED BY <2>4, <3>1, <3>2 DEF createPod
  <2>5. ASSUME NEW r \in Requests, Publish(r) PROVE TypeOK'
    BY <2>5 DEF Publish
  <2>6. ASSUME NEW r \in Requests, ReleaseMark(r) PROVE TypeOK'
    BY <2>6 DEF ReleaseMark
  <2>7. ASSUME NEW r \in Requests, Release(r) PROVE TypeOK'
    BY <2>7, <2>r, <2>t DEF Release
  <2>8. CASE Shutdown
    BY <2>8, <2>f DEF Shutdown, Delete
  <2>9. CASE UNCHANGED vars
    BY <2>9 DEF vars
  <2> QED
    BY <2>1, <2>2, <2>3, <2>4, <2>5, <2>6, <2>7, <2>8, <2>9 DEF Next, RequestNext
<1> QED BY <1>1, <1>2, PTL DEF Spec

(* No pod is forgotten and none is kept that was deleted: PodsInv is         *)
(* inductive, because removePodUnsafe and Shutdown take the same pods out of *)
(* the slice and out of the cluster (or record the failure).                 *)
THEOREM PodsInductive == Spec => []PodsInv
<1> USE PodPoolAssumption
<1>1. Init => PodsInv
  BY DEF Init, PodsInv, PodsAccounted, Pooled, IsInjective, Range
<1>2. TypeOK /\ PodsInv /\ [Next]_vars => PodsInv'
  <2> SUFFICES ASSUME TypeOK, PodsInv, [Next]_vars PROVE PodsInv'
    OBVIOUS
  <2> DEFINE Entering == {has[r] : r \in {q \in Requests : pc[q] = "append"}}
  <2>e. Pooled = Range(pods) \cup Entering
    BY DEF Pooled
  <2>d. ASSUME NEW S, NEW F \in SUBSET S, Delete(S, F)
        PROVE  cluster' \ lost' = (cluster \ lost) \ S
    BY <2>d DEF Delete
  (* A request that neither comes to "append" nor leaves it keeps its pod or *)
  (* drops it, and the slice loses the pods of S, none of which is entering. *)
  <2>out. ASSUME NEW r \in Requests, pc[r] # "append",
                 NEW l, l # "append", NEW c \in {has[r], None}, Step(r, l, c),
                 NEW S, S \cap Entering = {}, cluster' \ lost' = (cluster \ lost) \ S,
                 IsInjective(pods'), Range(pods') = Range(pods) \ S
          PROVE  PodsInv'
    <3>1. /\ \A q \in Requests : pc'[q] = "append" <=> pc[q] = "append"
          /\ \A q \in Requests : has'[q] \in {has[q], None}
          /\ \A q \in Requests : pc[q] = "append" => has'[q] = has[q]
      BY <2>out DEF Step, TypeOK
    <3>2. Entering' = Entering
      BY <3>1
    <3>3. Pooled' = Pooled \ S
      BY <3>2, <2>e, <2>out DEF Pooled
    <3>4. \A q \in Requests : pc[q] = "append" => has[q] # None
      BY DEF TypeOK
    <3>5. PodsAccounted'
      BY <3>3, <2>out DEF PodsInv, PodsAccounted
    <3> QED BY <3>1, <3>4, <3>5, <2>out DEF PodsInv
  <2>keep. ASSUME NEW r \in Requests, pc[r] # "append",
                  NEW l, l # "append", NEW c \in {has[r], None}, Step(r, l, c),
                  UNCHANGED <<pods, cluster, lost>>
           PROVE  PodsInv'
    <3>1. {} \cap Entering = {} /\ cluster' \ lost' = (cluster \ lost) \ {}
          /\ IsInjective(pods') /\ Range(pods') = Range(pods) \ {}
      BY <2>keep DEF PodsInv, PodsAccounted
    <3> QED BY <3>1, <2>keep, <2>out
  <2>rem. ASSUME NEW r \in Requests, pc[r] # "append", NEW l, l # "append",
                 Step(r, l, None), NEW p \in Pods, p \notin Entering, removePodUnsafe(p)
          PROVE  PodsInv'
    <3>1. PICK F \in SUBSET {p} : Delete({p}, F)
      BY <2>rem DEF removePodUnsafe
    <3>2. cluster' \ lost' = (cluster \ lost) \ {p}
      BY <3>1, <2>d
    <3>3. IsInjective(pods') /\ Range(pods') = Range(pods) \ {p}
      BY <2>rem, WithoutFacts DEF removePodUnsafe, PodsInv, PodsAccounted, TypeOK
    <3>4. {p} \cap Entering = {}
      BY <2>rem
    <3> QED BY <3>2, <3>3, <3>4, <2>rem, <2>out
  <2>1. ASSUME NEW r \in Requests, Acquire(r) PROVE PodsInv'
    <3>1. CASE Warm = {}
      BY <2>1, <3>1, <2>keep DEF Acquire
    <3>2. ASSUME NEW i \in Warm, pods' = moveToEnd(pods, i), Step(r, "use", pods[i]),
                 UNCHANGED <<cluster, lost>>, pc[r] = "out"
          PROVE  PodsInv'
      <4>1. i \in DOMAIN pods /\ pods[i] \in Range(pods)
        BY DEF Warm, Range
      <4>2. IsInjective(pods') /\ Range(pods') = Range(pods)
        BY <3>2, <4>1, MoveFacts DEF PodsInv, PodsAccounted, TypeOK
      <4>3. \A q \in Requests : pc'[q] = "append" <=> pc[q] = "append"
        BY <3>2 DEF Step, TypeOK
      <4>4. \A q \in Requests \ {r} : has'[q] = has[q]
        BY <3>2 DEF Step, TypeOK
      <4>5. has'[r] = pods[i]
        BY <3>2 DEF Step, TypeOK
      <4>6. Pooled' = Pooled
        BY <3>2, <4>2, <4>3, <4>4 DEF Pooled
      <4> QED BY <3>2, <4>1, <4>2, <4>3, <4>4, <4>5, <4>6 DEF PodsInv, PodsAccounted
    <3> QED BY <2>1, <3>1, <3>2 DEF Acquire
  <2>2. ASSUME NEW r \in Requests, CreateNew(r) PROVE PodsInv'
    BY <2>2, <2>keep DEF CreateNew
  <2>3. ASSUME NEW r \in Requests, Evict(r) PROVE PodsInv'
    <3>1. CASE pods = <<>>
      BY <2>3, <3>1, <2>keep DEF Evict
    <3>2. CASE pods # <<>>
      <4>1. PICK p \in Pods : Victim(p) /\ removePodUnsafe(p)
        BY <3>2, <2>3 DEF Evict
      <4>2. p \in Range(pods)
        BY <3>2, <4>1, LenProperties DEF Victim, Warm, Range, TypeOK
      <4>3. p \notin Entering
        BY <4>2 DEF PodsInv
      <4> QED BY <2>3, <3>2, <4>1, <4>3, <2>rem DEF Evict
    <3> QED BY <3>1, <3>2
  <2>4. ASSUME NEW r \in Requests, createPod(r) PROVE PodsInv'
    <3>0. pc[r] = "create" /\ pods' = pods
      BY <2>4 DEF createPod
    <3>1. ASSUME NEW p \in Pods \ (cluster \cup Range(pods) \cup Range(has)),
                 cluster' = cluster \cup {p}, lost' = lost, Step(r, "append", p)
          PROVE  PodsInv'
      <4>1. /\ pc' = [pc EXCEPT ![r] = "append"] /\ has' = [has EXCEPT ![r] = p]
            /\ \A q \in Requests : has[q] # p
        BY <3>1 DEF Step, Range, TypeOK
      <4>2. Entering' = Entering \cup {p}
        BY <4>1, <3>0 DEF TypeOK
      <4>3. Pooled' = Pooled \cup {p}
        BY <4>2, <3>0 DEF Pooled
      <4>4. cluster' \ lost' = (cluster \ lost) \cup {p}
        BY <3>1 DEF TypeOK
      <4>5. PodsAccounted'
        BY <4>3, <4>4, <3>0 DEF PodsInv, PodsAccounted
      <4> QED BY <4>1, <4>5, <3>0, <3>1 DEF PodsInv, TypeOK
    <3>2. ASSUME NEW p \in Pods \ cluster, cluster' = cluster \cup {p},
                 lost' = lost \cup {p}, Step(r, "out", None)
          PROVE  PodsInv'
      <4>1. {} \cap Entering = {} /\ cluster' \ lost' = (cluster \ lost) \ {}
            /\ IsInjective(pods') /\ Range(pods') = Range(pods) \ {}
        BY <3>0, <3>2 DEF PodsInv, PodsAccounted
      <4> QED BY <4>1, <3>0, <3>2, <2>out
    <3>3. ASSUME Step(r, "out", None), UNCHANGED <<cluster, lost>> PROVE PodsInv'
      BY <3>0, <3>3, <2>keep
    <3> QED BY <2>4, <3>1, <3>2, <3>3 DEF createPod
  <2>5. ASSUME NEW r \in Requests, Publish(r) PROVE PodsInv'
    <3>0. /\ pc[r] = "append" /\ pods' = Append(pods, has[r]) /\ has[r] \in Pods
          /\ pc' = [pc EXCEPT ![r] = "use"] /\ has' = has
          /\ UNCHANGED <<cluster, lost>> /\ pods \in Seq(Pods)
      BY <2>5 DEF Publish, Step, TypeOK
    <3>1. /\ has[r] \notin Range(pods) /\ IsInjective(pods)
          /\ \A q \in Requests \ {r} : has[q] # has[r]
      BY <3>0 DEF PodsInv, PodsAccounted
    <3>2. Range(pods') = Range(pods) \cup {has[r]} /\ IsInjective(pods')
      BY <3>0, <3>1, AppendFacts
    <3>3. Pooled' = Pooled
      BY <3>0, <3>2 DEF Pooled, TypeOK
    <3> QED BY <3>0, <3>1, <3>2, <3>3 DEF PodsInv, PodsAccounted, TypeOK
  <2>6. ASSUME NEW r \in Requests, ReleaseMark(r) PROVE PodsInv'
    BY <2>6, <2>keep DEF ReleaseMark
  <2>7. ASSUME NEW r \in Requests, Release(r) PROVE PodsInv'
    <3>0. pc[r] = "release" /\ Step(r, "out", None) /\ has[r] \in Pods
      BY <2>7 DEF Release, TypeOK
    <3>1. has[r] \notin Entering
      BY <3>0 DEF PodsInv
    <3>2. CASE Exhausted(has[r])
      BY <2>7, <3>0, <3>1, <3>2, <2>rem DEF Release
    <3>3. CASE ~Exhausted(has[r])
      BY <2>7, <3>0, <3>3, <2>keep DEF Release
    <3> QED BY <3>2, <3>3
  <2>8. CASE Shutdown
    <3>1. PICK F \in SUBSET Range(pods) : Delete(Range(pods), F)
      BY <2>8 DEF Shutdown
    <3>2. cluster' \ lost' = (cluster \ lost) \ Range(pods)
      BY <3>1, <2>d
    <3>3. pods' = <<>> /\ pc' = pc /\ has' = has
      BY <2>8 DEF Shutdown
    <3>4. IsInjective(pods') /\ Range(pods') = {}
      BY <3>3 DEF IsInjective, Range
    <3>5. Pooled' = Pooled \ Range(pods)
      BY <3>3, <3>4 DEF Pooled, PodsInv
    <3> QED BY <3>2, <3>3, <3>4, <3>5 DEF PodsInv, PodsAccounted
  <2>9. CASE UNCHANGED vars
    BY <2>9 DEF vars, PodsInv, PodsAccounted, Pooled
  <2> QED
    BY <2>1, <2>2, <2>3, <2>4, <2>5, <2>6, <2>7, <2>8, <2>9 DEF Next, RequestNext
<1> QED BY <1>1, <1>2, TypeCorrect, PTL DEF Spec

(* Every pod in the cluster is in the slice, about to enter it or a recorded *)
(* API failure, and the slice lists each pod once.                           *)
THEOREM Accounted == Spec => []PodsAccounted
<1>1. PodsInv => PodsAccounted
  BY DEF PodsInv
<1> QED BY <1>1, PodsInductive, PTL

(* A pod that no request holds is warm, so that the next Acquire finds it:   *)
(* whoever marks a pod otherwise holds it, and Release marks it warm or      *)
(* removes it.                                                               *)
THEOREM UnusedWarm == Spec => []UnusedIsWarm
<1> USE PodPoolAssumption
<1>1. Init => UnusedIsWarm
  BY DEF Init, UnusedIsWarm, Range
<1>2. TypeOK /\ PodsInv /\ UnusedIsWarm /\ [Next]_vars => UnusedIsWarm'
  <2> SUFFICES ASSUME TypeOK, PodsInv, UnusedIsWarm, [Next]_vars PROVE UnusedIsWarm'
    OBVIOUS
  <2> DEFINE Uses(r, p) == pc[r] \in {"use", "release"} /\ has[r] = p
             Same(r, p) == p \in Range(pods) /\ state'[p] = state[p] /\ ~Uses(r, p)
  <2>i. IsInjective(pods) /\ pods \in Seq(Pods) /\ Range(pods) \subseteq Pods
    BY DEF PodsInv, PodsAccounted, TypeOK, Range
  (* When r moves, every pod is warm, held by r or as before. *)
  <2>f. ASSUME NEW r \in Requests, NEW l, NEW c, Step(r, l, c),
               \A p \in Range(pods') : \/ state'[p] = "warm"
                                       \/ l \in {"use", "release"} /\ c = p
                                       \/ Same(r, p)
        PROVE  UnusedIsWarm'
    <3>1. SUFFICES ASSUME NEW p \in Range(pods'), state'[p] # "warm"
                   PROVE  \E q \in Requests : pc'[q] \in {"use", "release"} /\ has'[q] = p
      BY DEF UnusedIsWarm, Users
    <3>2. CASE l \in {"use", "release"} /\ c = p
      BY <2>f, <3>2 DEF Step, TypeOK
    <3>3. CASE Same(r, p)
      <4>1. PICK q \in Requests : Uses(q, p)
        BY <3>1, <3>3 DEF UnusedIsWarm, Users
      <4>2. q # r
        BY <3>3, <4>1
      <4> QED BY <2>f, <4>1, <4>2 DEF Step, TypeOK
    <3> QED BY <2>f, <3>1, <3>2, <3>3
  <2>rem. ASSUME NEW p, removePodUnsafe(p)
          PROVE  Range(pods') = Range(pods) \ {p}
    BY <2>rem, <2>i, WithoutFacts DEF removePodUnsafe
  <2>1. ASSUME NEW r \in Requests, Acquire(r) PROVE UnusedIsWarm'
    <3>1. CASE Warm = {}
      BY <2>1, <3>1, <2>f DEF Acquire
    <3>2. ASSUME NEW i \in Warm, pods' = moveToEnd(pods, i), Step(r, "use", pods[i]),
                 state' = [state EXCEPT ![pods[i]] = "inUse"], pc[r] = "out"
          PROVE  UnusedIsWarm'
      <4>1. i \in DOMAIN pods
        BY DEF Warm
      <4>2. Range(pods') = Range(pods)
        BY <2>i, <3>2, <4>1, MoveFacts
      <4>3. \A p \in Range(pods') : p = pods[i] \/ Same(r, p)
        BY <2>i, <3>2, <4>2 DEF TypeOK
      <4> QED BY <2>f, <3>2, <4>3
    <3> QED BY <2>1, <3>1, <3>2 DEF Acquire
  <2>2. ASSUME NEW r \in Requests, CreateNew(r) PROVE UnusedIsWarm'
    BY <2>2, <2>f DEF CreateNew
  <2>3. ASSUME NEW r \in Requests, Evict(r) PROVE UnusedIsWarm'
    <3>0. pc[r] = "evict" /\ state' = state
      BY <2>3 DEF Evict
    <3>1. CASE pods = <<>>
      BY <2>3, <3>0, <3>1, <2>f DEF Evict
    <3>2. CASE pods # <<>>
      <4>1. PICK p \in Pods : removePodUnsafe(p)
        BY <2>3, <3>2 DEF Evict
      <4>2. \A q \in Range(pods') : Same(r, q)
        BY <2>rem, <3>0, <4>1
      <4> QED BY <2>3, <3>2, <4>2, <2>f DEF Evict
    <3> QED BY <3>1, <3>2
  <2>4. ASSUME NEW r \in Requests, createPod(r) PROVE UnusedIsWarm'
    <3>0. pc[r] = "create" /\ pods' = pods
      BY <2>4 DEF createPod
    <3>1. \A p \in Range(pods) : state'[p] = state[p]
      BY <2>4, <2>i DEF createPod, TypeOK
    <3>2. \E l, c : Step(r, l, c)
      BY <2>4 DEF createPod
    <3> QED BY <2>f, <3>0, <3>1, <3>2
  <2>5. ASSUME NEW r \in Requests, Publish(r) PROVE UnusedIsWarm'
    <3>0. /\ pc[r] = "append" /\ pods' = Append(pods, has[r]) /\ has[r] \in Pods
          /\ Step(r, "use", has[r]) /\ state' = state
      BY <2>5 DEF Publish, TypeOK
    <3>1. Range(pods') = Range(pods) \cup {has[r]}
      BY <2>i, <3>0, AppendFacts DEF PodsInv
    <3> QED BY <2>f, <3>0, <3>1
  <2>6. ASSUME NEW r \in Requests, ReleaseMark(r) PROVE UnusedIsWarm'
    <3>0. /\ pods' = pods /\ Step(r, "release", has[r])
          /\ state' = [state EXCEPT ![has[r]] = "cleaning"]
      BY <2>6 DEF ReleaseMark
    <3>1. \A p \in Range(pods') : p = has[r] \/ Same(r, p)
      BY <2>i, <3>0 DEF TypeOK
    <3> QED BY <2>f, <3>0, <3>1
  <2>7. ASSUME NEW r \in Requests, Release(r) PROVE UnusedIsWarm'
    <3>0. Step(r, "out", None)
      BY <2>7 DEF Release
    <3>1. CASE Exhausted(has[r])
      <4>1. \A p \in Range(pods') : Same(r, p)
        BY <2>7, <3>1, <2>rem DEF Release
      <4> QED BY <2>f, <3>0, <4>1
    <3>2. CASE ~Exhausted(has[r])
      <4>1. pods' = pods /\ state' = [state EXCEPT ![has[r]] = "warm"]
        BY <2>7, <3>2 DEF Release
      <4>2. \A p \in Range(pods') : state'[p] = "warm" \/ Same(r, p)
        BY <2>i, <4>1 DEF TypeOK
      <4> QED BY <2>f, <3>0, <4>2
    <3> QED BY <3>1, <3>2
  <2>8. CASE Shutdown
    BY <2>8 DEF Shutdown, UnusedIsWarm, Range
  <2>9. CASE UNCHANGED vars
    BY <2>9 DEF vars, UnusedIsWarm, Users
  <2> QED
    BY <2>1, <2>2, <2>3, <2>4, <2>5, <2>6, <2>7, <2>8, <2>9 DEF Next, RequestNext
<1> QED BY <1>1, <1>2, TypeCorrect, PodsInductive, PTL DEF Spec

(* A sequence without duplicates whose elements all belong to members of U   *)
(* is no longer than U is large.                                             *)
LEMMA OwnersBound ==
  ASSUME NEW S, NEW s \in Seq(S), IsInjective(s), NEW U, IsFiniteSet(U), NEW own,
         \A p \in Range(s) : \E r \in U : own[r] = p
  PROVE  Len(s) <= Cardinality(U)
<1> DEFINE n == Len(s)
           f == [i \in 1..n |-> CHOOSE r \in U : own[r] = s[i]]
<1>1. n \in Nat /\ DOMAIN s = 1..n
  BY LenProperties
<1>2. \A i \in 1..n : f[i] \in U /\ own[f[i]] = s[i]
  BY <1>1 DEF Range
<1>3. \A i, j \in 1..n : f[i] = f[j] => i = j
  <2>1. \A i, j \in 1..n : s[i] = s[j] => i = j
    BY <1>1 DEF IsInjective
  <2> HIDE DEF f
  <2> QED BY <1>2, <2>1
<1>4. f \in Injection(1..n, U)
  BY <1>2, <1>3 DEF Injection, IsInjective
<1>5. Cardinality(1..n) <= Cardinality(U)
  BY <1>4, FS_Injection
<1>6. Cardinality(1..n) = n
  <2>1. ASSUME NEW k \in Nat PROVE Cardinality(1..k) = k
    BY FS_Interval
  <2> HIDE DEF n
  <2> QED BY <1>1, <2>1
<1> QED BY <1>5, <1>6

(* The pool never holds more pods than there are concurrent requests: a      *)
(* request joins those in CreateNew only when the users account for the      *)
(* whole slice, and nothing but a request that leaves them adds a pod.       *)
THEOREM WithinDemand == Spec => []PodsWithinDemand
<1> USE PodPoolAssumption
<1>0. ASSUME NEW S \in SUBSET Requests
      PROVE  /\ IsFiniteSet(S) /\ Cardinality(S) \in Nat
             /\ \A r \in S : Cardinality(S \ {r}) = Cardinality(S) - 1
             /\ \A r : r \notin S => Cardinality(S \cup {r}) = Cardinality(S) + 1
  <2>1. IsFiniteSet(S)
    BY FS_Subset
  <2> QED BY <2>1, FS_CardinalityType, FS_RemoveElement, FS_AddElement
<1>1. Init => PodsWithinDemand
  <2> SUFFICES ASSUME Init PROVE PodsWithinDemand
    OBVIOUS
  <2>1. Creating = {} /\ Len(pods) = 0
    BY DEF Init, Creating
  <2> QED BY <2>1, <1>0, FS_EmptySet DEF PodsWithinDemand
<1>2. TypeOK /\ PodsInv /\ UnusedIsWarm /\ PodsWithinDemand /\ [Next]_vars => PodsWithinDemand'
  <2> SUFFICES ASSUME TypeOK, PodsInv, UnusedIsWarm, PodsWithinDemand, [Next]_vars
               PROVE  Len(pods') + Cardinality(Creating') <= Cardinality(Requests)
    BY DEF PodsWithinDemand
  <2> DEFINE N == Cardinality(Requests)
             C == Cardinality(Creating)
             Goal == Len(pods') + Cardinality(Creating') <= N
  <2>n. /\ N \in Nat /\ C \in Nat /\ Len(pods) \in Nat /\ Len(pods) + C <= N
        /\ Creating \in SUBSET Requests
    <3>1. Creating \in SUBSET Requests
      BY DEF Creating
    <3> QED BY <3>1, <1>0, LenProperties DEF PodsWithinDemand, TypeOK
  <2>same. ASSUME Creating' = Creating, Len(pods') \in Nat, Len(pods') <= Len(pods)
           PROVE  Goal
    BY <2>same, <2>n
  <2>stay. ASSUME NEW r \in Requests, NEW l, NEW p, Step(r, l, p),
                  l \in {"check", "evict", "create", "append"} <=> r \in Creating
           PROVE  Creating' = Creating
    BY <2>stay DEF Step, Creating, TypeOK
  <2>leave. ASSUME NEW r \in Creating, NEW l \in {"out", "use"}, NEW p, Step(r, l, p)
            PROVE  Cardinality(Creating') = C - 1
    <3>1. Creating' = Creating \ {r}
      BY <2>leave, <2>n DEF Step, Creating, TypeOK
    <3> QED BY <3>1, <2>n, <1>0
  <2>rem. ASSUME NEW p, removePodUnsafe(p)
          PROVE  Len(pods') \in Nat /\ Len(pods') <= Len(pods)
    <3>1. pods' \in Seq(Pods)
          /\ Len(pods') = IF p \in Range(pods) THEN Len(pods) - 1 ELSE Len(pods)
      BY <2>rem, WithoutFacts DEF removePodUnsafe, TypeOK
    <3> QED BY <3>1, <2>n, LenProperties
  <2>1. ASSUME NEW r \in Requests, Acquire(r) PROVE Goal
    <3>1. CASE Warm # {}
      <4>1. Len(pods') = Len(pods)
        <5>1. PICK i \in Warm : pods' = moveToEnd(pods, i)
          BY <2>1, <3>1 DEF Acquire
        <5>2. pods \in Seq(Pods) /\ i \in DOMAIN pods
          BY DEF TypeOK, Warm
        <5> QED BY <5>1, <5>2, MoveFacts
      <4>2. Creating' = Creating
        BY <2>1, <3>1, <2>stay DEF Acquire, Creating
      <4> QED BY <4>1, <4>2, <2>same, <2>n
    <3>2. CASE Warm = {}
      <4> DEFINE U == {q \in Requests : pc[q] \in {"use", "release"}}
      <4>1. pc[r] = "out" /\ pods' = pods /\ Step(r, "check", None)
        BY <2>1, <3>2 DEF Acquire
      <4>2. Creating' = Creating \cup {r} /\ r \notin Creating
        BY <4>1 DEF Step, Creating, TypeOK
      <4>3. Cardinality(Creating') = C + 1
        BY <4>2, <2>n, <1>0
      <4>4. \A p \in Range(pods) : \E q \in U : has[q] = p
        <5>1. \A p \in Range(pods) : state[p] # "warm"
          BY <3>2 DEF Warm, Range
        <5> QED BY <5>1 DEF UnusedIsWarm, Users
      <4>5. Len(pods) <= Cardinality(U)
        <5>1. U \in SUBSET Requests /\ IsInjective(pods) /\ pods \in Seq(Pods)
          BY DEF PodsInv, PodsAccounted, TypeOK
        <5> HIDE DEF U
        <5> QED BY <5>1, <4>4, <1>0, OwnersBound
      <4>6. Cardinality(U) + Cardinality(Creating') <= N
        <5>1. U \in SUBSET Requests /\ Creating' \in SUBSET Requests /\ U \cap Creating' = {}
          BY <4>1, <4>2, <2>n DEF Creating
        <5> HIDE DEF U
        <5>2. U \cup Creating' \in SUBSET Requests
          BY <5>1
        <5>3. Cardinality(U \cup Creating') <= N
          BY <5>2, FS_Subset
        <5>4. Cardinality(U \cup Creating') = Cardinality(U) + Cardinality(Creating')
          <6>1. Cardinality(U \cup Creating')
                  = Cardinality(U) + Cardinality(Creating') - Cardinality(U \cap Creating')
            BY <5>1, <1>0, FS_Union
          <6> QED BY <6>1, <5>1, <1>0, FS_EmptySet
        <5> QED BY <5>3, <5>4
      <4>7. Cardinality(U) \in Nat
        BY <1>0
      <4> HIDE DEF U
      <4> QED BY <4>1, <4>3, <4>5, <4>6, <4>7, <2>n
    <3> QED BY <3>1, <3>2
  <2>2. ASSUME NEW r \in Requests, CreateNew(r) PROVE Goal
    BY <2>2, <2>stay, <2>same, <2>n DEF CreateNew, Creating
  <2>3. ASSUME NEW r \in Requests, Evict(r) PROVE Goal
    <3>0. r \in Creating
      BY <2>3 DEF Evict, Creating
    <3>1. CASE pods = <<>>
      BY <3>0, <3>1, <2>3, <2>leave, <2>n DEF Evict
    <3>2. CASE pods # <<>>
      <4>1. Len(pods') \in Nat /\ Len(pods') <= Len(pods)
        BY <2>3, <3>2, <2>rem DEF Evict
      <4>2. Creating' = Creating
        BY <2>3, <3>0, <3>2, <2>stay DEF Evict
      <4> QED BY <4>1, <4>2, <2>same
    <3> QED BY <3>1, <3>2
  <2>4. ASSUME NEW r \in Requests, createPod(r) PROVE Goal
    <3>0. r \in Creating /\ pods' = pods
      BY <2>4 DEF createPod, Creating
    <3>1. ASSUME NEW p, Step(r, "append", p) PROVE Goal
      BY <3>0, <3>1, <2>stay, <2>same, <2>n
    <3>2. CASE Step(r, "out", None)
      BY <3>0, <3>2, <2>leave, <2>n
    <3> QED BY <3>1, <3>2, <2>4 DEF createPod
  <2>5. ASSUME NEW r \in Requests, Publish(r) PROVE Goal
    <3>1. Cardinality(Creating') = C - 1
      BY <2>5, <2>leave DEF Publish, Creating
    <3>2. Len(pods') = Len(pods) + 1
      BY <2>5 DEF Publish, TypeOK
    <3> QED BY <3>1, <3>2, <2>n
  <2>6. ASSUME NEW r \in Requests, ReleaseMark(r) PROVE Goal
    BY <2>6, <2>stay, <2>same, <2>n DEF ReleaseMark, Creating
  <2>7. ASSUME NEW r \in Requests, Release(r) PROVE Goal
    <3>1. Creating' = Creating
      BY <2>7, <2>stay DEF Release, Creating
    <3>2. Len(pods') \in Nat /\ Len(pods') <= Len(pods)
      BY <2>7, <2>rem, <2>n DEF Release
    <3> QED BY <3>1, <3>2, <2>same
  <2>8. CASE Shutdown
    <3>1. Creating' = Creating /\ Len(pods') = 0
      BY <2>8 DEF Shutdown, Creating
    <3> QED BY <3>1, <2>n, <2>same
  <2>9. CASE UNCHANGED vars
    BY <2>9, <2>n DEF vars, Creating
  <2> QED
    BY <2>1, <2>2, <2>3, <2>4, <2>5, <2>6, <2>7, <2>8, <2>9 DEF Next, RequestNext
<1> QED BY <1>1, <1>2, TypeCorrect, PodsInductive, UnusedWarm, PTL DEF Spec

(* UseCount never passes MaxUseCount: a pod is marked warm only with a use   *)
(* left, and only a warm one is acquired.                                    *)
THEOREM UsesBounded == Spec => []UseCountBound
<1> USE PodPoolAssumption
<1> DEFINE Inv == MaxUseCount > 0 => \A p \in Pods :
                    uses[p] <= MaxUseCount /\ (state[p] = "warm" => uses[p] < MaxUseCount)
<1>1. Init => Inv
  BY DEF Init
<1>2. TypeOK /\ Inv /\ [Next]_vars => Inv'
  <2> SUFFICES ASSUME TypeOK, Inv, [Next]_vars PROVE Inv'
    OBVIOUS
  <2>1. ASSUME NEW r \in Requests, Acquire(r) PROVE Inv'
    <3>1. CASE UNCHANGED <<state, uses>>
      BY <3>1
    <3>2. ASSUME NEW i \in Warm, state' = [state EXCEPT ![pods[i]] = "inUse"],
                 uses' = [uses EXCEPT ![pods[i]] = @ + 1]
          PROVE  Inv'
      <4>1. pods[i] \in Pods /\ state[pods[i]] = "warm"
        BY WarmFacts DEF TypeOK
      <4>2. state'[pods[i]] = "inUse" /\ uses'[pods[i]] = uses[pods[i]] + 1
        BY <3>2, <4>1 DEF TypeOK
      <4>3. \A p \in Pods \ {pods[i]} : state'[p] = state[p] /\ uses'[p] = uses[p]
        BY <3>2 DEF TypeOK
      <4>4. MaxUseCount > 0 => uses[pods[i]] + 1 <= MaxUseCount
        BY <4>1 DEF TypeOK
      <4> QED BY <4>2, <4>3, <4>4
    <3> QED BY <2>1, <3>1, <3>2 DEF Acquire
  <2>2. ASSUME NEW r \in Requests, createPod(r) PROVE Inv'
    <3>1. ASSUME NEW p \in Pods, state' = [state EXCEPT ![p] = "warm"],
                 uses' = [uses EXCEPT ![p] = 0]
          PROVE  Inv'
      BY <3>1 DEF TypeOK
    <3>2. CASE UNCHANGED <<state, uses>>
      BY <3>2
    <3> QED BY <2>2, <3>1, <3>2 DEF createPod
  <2>3. ASSUME NEW r \in Requests, ReleaseMark(r) PROVE Inv'
    BY <2>3 DEF ReleaseMark, TypeOK
  <2>4. ASSUME NEW r \in Requests, Release(r) PROVE Inv'
    BY <2>4 DEF Release, Exhausted, TypeOK
  <2>5. CASE UNCHANGED <<state, uses>>
    BY <2>5
  <2> QED
    BY <2>1, <2>2, <2>3, <2>4, <2>5
       DEF Next, RequestNext, CreateNew, Evict, Publish, Shutdown, vars
<1>3. Inv => UseCountBound
  BY DEF UseCountBound
<1> QED BY <1>1, <1>2, <1>3, TypeCorrect, PTL DEF Spec

(* A pod serves at most two requests, and one while it is warm: an Acquire   *)
(* adds a user to a warm pod and marks it in use, a Release that marks it    *)
(* warm again takes one away, and nobody but its creator has a pod that      *)
(* enters the slice.                                                         *)
THEOREM TwoUsers == Spec => []AtMostTwoUsers
<1> USE PodPoolAssumption
<1>0. ASSUME NEW S \in SUBSET Requests
      PROVE  /\ IsFiniteSet(S) /\ Cardinality(S) \in Nat
             /\ \A r \in S : Cardinality(S \ {r}) = Cardinality(S) - 1
             /\ \A r : r \notin S => Cardinality(S \cup {r}) = Cardinality(S) + 1
  <2>1. IsFiniteSet(S)
    BY FS_Subset
  <2> QED BY <2>1, FS_CardinalityType, FS_RemoveElement, FS_AddElement
<1>1. Init => AtMostTwoUsers
  <2> SUFFICES ASSUME Init, NEW p \in Pods PROVE Users(p) = {}
    BY FS_EmptySet DEF AtMostTwoUsers
  <2> QED BY DEF Init, Users
<1>2. TypeOK /\ PodsInv /\ AtMostTwoUsers /\ [Next]_vars => AtMostTwoUsers'
  <2> SUFFICES ASSUME TypeOK, PodsInv, AtMostTwoUsers, [Next]_vars, NEW p \in Pods
               PROVE  Cardinality(Users(p)') <= 2
                      /\ (state'[p] = "warm" => Cardinality(Users(p)') <= 1)
    BY DEF AtMostTwoUsers
  <2> DEFINE Goal == Cardinality(Users(p)') <= 2
                     /\ (state'[p] = "warm" => Cardinality(Users(p)') <= 1)
             n == Cardinality(Users(p))
  <2>n. /\ Users(p) \in SUBSET Requests
        /\ n \in Nat /\ n <= 2 /\ (state[p] = "warm" => n <= 1)
    BY <1>0 DEF AtMostTwoUsers, Users
  <2>same. ASSUME Users(p)' = Users(p), state'[p] \in {state[p], "inUse", "cleaning"}
           PROVE  Goal
    BY <2>same, <2>n
  <2>idle. ASSUME NEW r \in Requests, pc[r] \notin {"use", "release"},
                  NEW l, l \notin {"use", "release"}, NEW c, Step(r, l, c),
                  state'[p] = state[p]
           PROVE  Goal
    <3>1. Users(p)' = Users(p)
      BY <2>idle DEF Users, Step, TypeOK
    <3> QED BY <3>1, <2>idle, <2>same
  <2>1. ASSUME NEW r \in Requests, Acquire(r) PROVE Goal
    <3>1. CASE Warm = {}
      BY <2>1, <3>1, <2>idle DEF Acquire
    <3>2. ASSUME NEW i \in Warm, state' = [state EXCEPT ![pods[i]] = "inUse"],
                 pc[r] = "out", Step(r, "use", pods[i])
          PROVE  Goal
      <4>1. pods[i] \in Pods /\ state[pods[i]] = "warm"
        BY WarmFacts DEF TypeOK
      <4>2. CASE p = pods[i]
        <5>1. Users(p)' = Users(p) \cup {r} /\ r \notin Users(p)
          BY <3>2, <4>2 DEF Users, Step, TypeOK
        <5>2. state'[p] = "inUse"
          BY <3>2, <4>1, <4>2 DEF TypeOK
        <5> QED BY <5>1, <5>2, <4>1, <4>2, <2>n, <1>0
      <4>3. CASE p # pods[i]
        <5>1. Users(p)' = Users(p) /\ state'[p] = state[p]
          BY <3>2, <4>1, <4>3 DEF Users, Step, TypeOK
        <5> QED BY <5>1, <2>same
      <4> QED BY <4>2, <4>3
    <3> QED BY <2>1, <3>1, <3>2 DEF Acquire
  <2>2. ASSUME NEW r \in Requests, CreateNew(r) PROVE Goal
    BY <2>2, <2>idle DEF CreateNew
  <2>3. ASSUME NEW r \in Requests, Evict(r) PROVE Goal
    BY <2>3, <2>idle DEF Evict
  <2>4. ASSUME NEW r \in Requests, createPod(r) PROVE Goal
    <3>1. ASSUME NEW c \in Pods \ (cluster \cup Range(pods) \cup Range(has)),
                 Step(r, "append", c), state' = [state EXCEPT ![c] = "warm"],
                 pc[r] = "create"
          PROVE  Goal
      <4>1. Users(p)' = Users(p)
        BY <3>1 DEF Users, Step, TypeOK
      <4>2. CASE p = c
        <5>1. Users(p) = {}
          BY <3>1, <4>2 DEF Users, Range, TypeOK
        <5> QED BY <4>1, <5>1, FS_EmptySet
      <4>3. CASE p # c
        BY <3>1, <4>1, <4>3, <2>same DEF TypeOK
      <4> QED BY <4>2, <4>3
    <3>2. ASSUME Step(r, "out", None), pc[r] = "create", state' = state PROVE Goal
      BY <3>2, <2>idle
    <3> QED BY <2>4, <3>1, <3>2 DEF createPod
  <2>5. ASSUME NEW r \in Requests, Publish(r) PROVE Goal
    <3>0. /\ pc[r] = "append" /\ pc' = [pc EXCEPT ![r] = "use"] /\ has' = has
          /\ state' = state
      BY <2>5 DEF Publish, Step, TypeOK
    <3>1. CASE has[r] = p
      <4>1. Users(p) = {}
        BY <3>0, <3>1 DEF PodsInv, Users
      <4>2. Users(p)' = {r}
        BY <3>0, <3>1, <4>1 DEF Users, TypeOK
      <4>3. Cardinality(Users(p)') = 1
        BY <4>2, FS_Singleton
      <4> QED BY <4>3
    <3>2. CASE has[r] # p
      <4>1. Users(p)' = Users(p)
        BY <3>0, <3>2 DEF Users, TypeOK
      <4> QED BY <4>1, <3>0, <2>same
    <3> QED BY <3>1, <3>2
  <2>6. ASSUME NEW r \in Requests, ReleaseMark(r) PROVE Goal
    <3>1. Users(p)' = Users(p)
      BY <2>6 DEF ReleaseMark, Step, Users, TypeOK
    <3>2. state'[p] \in {state[p], "cleaning"}
      BY <2>6 DEF ReleaseMark, TypeOK
    <3> QED BY <3>1, <3>2, <2>same
  <2>7. ASSUME NEW r \in Requests, Release(r) PROVE Goal
    <3>0. pc[r] = "release" /\ Step(r, "out", None) /\ has[r] \in Pods
      BY <2>7 DEF Release, TypeOK
    <3>1. CASE has[r] = p
      <4>1. r \in Users(p) /\ Users(p)' = Users(p) \ {r}
        BY <3>0, <3>1 DEF Users, Step, TypeOK
      <4>2. Cardinality(Users(p)') = n - 1
        BY <4>1, <2>n, <1>0
      <4> QED BY <4>2, <2>n
    <3>2. CASE has[r] # p
      <4>1. Users(p)' = Users(p)
        BY <3>0, <3>2 DEF Users, Step, TypeOK
      <4>2. state'[p] = state[p]
        BY <2>7, <3>0, <3>2 DEF Release, TypeOK
      <4> QED BY <4>1, <4>2, <2>same
    <3> QED BY <3>1, <3>2
  <2>8. CASE UNCHANGED <<state, pc, has>>
    <3>1. Users(p)' = Users(p) /\ state'[p] = state[p]
      BY <2>8 DEF Users
    <3> QED BY <3>1, <2>same
  <2> QED
    BY <2>1, <2>2, <2>3, <2>4, <2>5, <2>6, <2>7, <2>8
       DEF Next, RequestNext, Shutdown, vars
<1> QED BY <1>1, <1>2, TypeCorrect, PodsInductive, PTL DEF Spec
=============================================================================
