--------------------------- MODULE AdmissionProofs ---------------------------
(***************************************************************************)
(* Proofs about Admission: its types, the bound of the build queue and how *)
(* closely the token bucket in Redis follows an exact one.                 *)
(***************************************************************************)
EXTENDS Admission, FiniteSetTheorems, TLAPS

(* Actions of a client's request leave the types. *)
LEMMA ClientTypes ==
  ASSUME TypeOK, NEW c \in Clients,
         HandleInvokeFunction(c) \/ AllowFallback(c) \/ CheckGlobal(c) \/ Building(c)
  PROVE  TypeOK'
  <1> USE AdmissionAssumption
  <1>1. CASE HandleInvokeFunction(c)
    BY <1>1 DEF TypeOK, HandleInvokeFunction, Goto, bucket, quota, queue
  <1>2. CASE AllowFallback(c)
    BY <1>2 DEF TypeOK, AllowFallback, Goto, quota, queue
  <1>3. CASE CheckGlobal(c)
    BY <1>3 DEF TypeOK, CheckGlobal, Goto, bucket, queue, Charged, Expiry, Least
  <1>4. CASE CheckUser(c)
    <2>1. CASE ~redis
      BY <1>4, <2>1 DEF TypeOK, CheckUser, Goto, bucket, queue
    <2>2. CASE redis
      <3>1. PICK u \in Users :
              /\ user' = [user EXCEPT ![u] = Charged(@, UserLimit)]
              /\ uttl' = [uttl EXCEPT ![u] = Expiry(user[u], @)]
              /\ Goto(c, IF user[u] + 1 <= UserLimit THEN "depth" ELSE "idle")
        BY <1>4, <2>2 DEF CheckUser
      <3>2. Charged(user[u], UserLimit) \in 0..(UserLimit + 1) /\ Expiry(user[u], uttl[u]) \in 0..Window
        BY DEF TypeOK, Charged, Expiry, Least
      <3>3. user' \in [Users -> 0..(UserLimit + 1)] /\ uttl' \in [Users -> 0..Window]
        BY <3>1, <3>2 DEF TypeOK
      <3> QED
        BY <1>4, <3>1, <3>3 DEF TypeOK, CheckUser, Goto, bucket, queue
    <2> QED
      BY <2>1, <2>2
  <1>5. CASE CheckDepth(c)
    BY <1>5 DEF TypeOK, CheckDepth, Goto, bucket, quota, queue
  <1>6. CASE Publish(c)
    BY <1>6 DEF TypeOK, Publish, Goto, bucket, quota
  <1> QED
    BY <1>1, <1>2, <1>3, <1>4, <1>5, <1>6 DEF Building

(* The level the script computes is an integer, at most Capacity. *)
LEMMA RefilledType ==
  ASSUME TypeOK, NEW e \in Int
  PROVE  Refilled(e) \in Int /\ Refilled(e) <= Capacity
  BY AdmissionAssumption DEF TypeOK, Refilled, Least

LEMMA AllowTypes == ASSUME TypeOK, NEW c \in Clients, Allow(c) PROVE TypeOK'
  <1> USE AdmissionAssumption
  <1> DEFINE t == Refilled(el - lag[c])
  <1>1. t \in Int /\ t <= Capacity
    BY RefilledType DEF TypeOK
  <1> HIDE DEF t
  <1>2. lag' \in [Clients -> 0..MaxLag] /\ lag[c] \in 0..MaxLag
    BY DEF TypeOK, Allow
  <1>3. CASE t = 0
    BY <1>2, <1>3 DEF Allow, t, TypeOK, Goto, bucket, quota, queue
  <1>4. CASE t # 0
    <2>1. /\ tokens' = IF t > -MaxDebt THEN t - 1 ELSE -MaxDebt
          /\ el' = lag[c] /\ disordered' = (disordered \/ el < lag[c])
          /\ ideal' = IF disordered' THEN 0 ELSE ideal - 1
          /\ spare' = spare
      BY <1>4 DEF Allow, t
    <2>2. tokens' \in (-MaxDebt)..Capacity
      BY <2>1, <1>1
    <2>3. el' \in 0..Old /\ ideal' \in Int /\ disordered' \in BOOLEAN
      BY <2>1, <1>2 DEF TypeOK, Old
    <2>4. UNCHANGED <<redis, global, gttl, user, uttl, ready, unacked>> /\ Goto(c, "idle")
      BY DEF Allow, quota, queue
    <2> QED
      BY <2>1, <2>2, <2>3, <2>4, <1>2 DEF TypeOK, Goto
  <1> QED
    BY <1>3, <1>4

LEMMA TickTypes == ASSUME TypeOK, Tick PROVE TypeOK'
  <1> USE AdmissionAssumption
  <1>1. lag' \in [Clients -> 0..MaxLag]
    BY DEF TypeOK, Tick
  <1>2. el' \in 0..Old /\ ideal' \in Int /\ spare' \in 0..Capacity
    BY DEF TypeOK, Tick, Least, Old
  <1>3. /\ global' \in 0..(GlobalLimit + 1) /\ gttl' \in 0..Window
        /\ user' \in [Users -> 0..(UserLimit + 1)] /\ uttl' \in [Users -> 0..Window]
    BY DEF TypeOK, Tick, Kept, Left
  <1> QED
    BY <1>1, <1>2, <1>3 DEF TypeOK, Tick, queue

(* Every variable of the limiters keeps its type: no schedule takes a        *)
(* counter past its limit by more than one, or the bucket past Capacity.     *)
THEOREM TypeCorrect == Spec => []TypeOK
  <1>1. Init => TypeOK
    <2> SUFFICES ASSUME Init PROVE TypeOK
      OBVIOUS
    <2>1. disordered \in BOOLEAN /\ redis \in BOOLEAN
      BY DEF Init
    <2>2. /\ tokens \in (-MaxDebt)..Capacity /\ el \in 0..Old /\ ideal \in Int
          /\ spare \in 0..Capacity /\ global \in 0..(GlobalLimit + 1) /\ gttl \in 0..Window
          /\ ready \in Nat /\ unacked \in Nat
      BY AdmissionAssumption DEF Init, Old
    <2>3. /\ user \in [Users -> 0..(UserLimit + 1)] /\ uttl \in [Users -> 0..Window]
          /\ cpc \in [Clients -> {"idle", "invoke", "user", "depth", "publish"}]
          /\ lag \in [Clients -> 0..MaxLag]
      BY AdmissionAssumption DEF Init
    <2> QED
      BY <2>1, <2>2, <2>3 DEF TypeOK
  <1>2. TypeOK /\ [Next]_vars => TypeOK'
    <2> SUFFICES ASSUME TypeOK, [Next]_vars PROVE TypeOK'
      OBVIOUS
    <2>1. ASSUME NEW c \in Clients,
                 HandleInvokeFunction(c) \/ Limiting(c) \/ CheckGlobal(c) \/ Building(c)
          PROVE  TypeOK'
      BY <2>1, ClientTypes, AllowTypes DEF Limiting
    <2>2. CASE WorkerStep
      BY <2>2, AdmissionAssumption DEF TypeOK, WorkerStep, bucket, quota
    <2>3. CASE Tick
      BY <2>3, TickTypes
    <2>4. CASE RedisOutage
      BY <2>4 DEF TypeOK, RedisOutage, bucket, quota, queue
    <2>5. CASE UNCHANGED vars
      BY <2>5 DEF TypeOK, vars, bucket, quota, queue
    <2> QED
      BY <2>1, <2>2, <2>3, <2>4, <2>5 DEF Next
  <1> QED
    BY <1>1, <1>2, PTL DEF Spec

-----------------------------------------------------------------------------
(* What the queue's bound needs: each worker has one unacknowledged job. *)
QueueInv == unacked <= Workers /\ QueueBounded

(* The check of the depth admits a request only while every threshold is     *)
(* above what is ready; all others that are admitted are clients too.        *)
LEMMA QueueStep ==
  ASSUME TypeOK, QueueInv, [Next]_vars
  PROVE  QueueInv'
  <1> USE AdmissionAssumption
  <1>1. /\ Cardinality(Clients) \in Nat /\ IsFiniteSet(Admitted) /\ Cardinality(Admitted) \in Nat
        /\ IsFiniteSet(Admitted') /\ Cardinality(Admitted') \in Nat
        /\ Cardinality(Admitted') <= Cardinality(Clients)
    <2>1. Admitted \in SUBSET Clients /\ Admitted' \in SUBSET Clients
      BY DEF Admitted
    <2> QED
      BY <2>1, FS_Subset, FS_CardinalityType
  <1>2. ready \in Nat /\ unacked \in Nat /\ \A t \in Thresholds : t \in Nat
    BY DEF TypeOK
  <1>3. ASSUME UNCHANGED queue, Admitted' = Admitted PROVE QueueInv'
    BY <1>3 DEF QueueInv, QueueBounded, queue
  <1>4. ASSUME NEW c \in Clients,
               HandleInvokeFunction(c) \/ Limiting(c) \/ CheckGlobal(c) \/ CheckUser(c)
        PROVE  QueueInv'
    <2>1. UNCHANGED queue
      BY <1>4 DEF HandleInvokeFunction, Limiting, Allow, AllowFallback, CheckGlobal, CheckUser
    <2>2. \E p : p # "publish" /\ cpc[c] # "publish" /\ Goto(c, p)
      BY <1>4 DEF HandleInvokeFunction, Limiting, Allow, AllowFallback, CheckGlobal, CheckUser
    <2>3. Admitted' = Admitted
      BY <2>2 DEF Admitted, Goto, TypeOK
    <2> QED
      BY <1>3, <2>1, <2>3
  <1>5. ASSUME NEW c \in Clients, CheckDepth(c) PROVE QueueInv'
    <2>1. UNCHANGED queue
      BY <1>5 DEF CheckDepth
    <2>2. CASE CanAcceptRequest
      <3>1. \A t \in Thresholds : ready <= t - 1
        BY <1>2, <2>2 DEF CanAcceptRequest
      <3> QED
        BY <1>1, <1>2, <2>1, <3>1 DEF QueueInv, QueueBounded, queue
    <2>3. CASE ~CanAcceptRequest
      <3>1. Admitted' = Admitted
        BY <1>5, <2>3 DEF CheckDepth, Admitted, Goto, TypeOK
      <3> QED
        BY <1>3, <2>1, <3>1
    <2> QED
      BY <2>2, <2>3
  <1>6. ASSUME NEW c \in Clients, Publish(c) PROVE QueueInv'
    <2>1. c \in Admitted /\ Admitted' = Admitted \ {c}
      BY <1>6 DEF Publish, Admitted, Goto, TypeOK
    <2>2. Cardinality(Admitted') = Cardinality(Admitted) - 1
      BY <1>1, <2>1, FS_RemoveElement
    <2> QED
      BY <1>1, <1>2, <1>6, <2>2 DEF Publish, QueueInv, QueueBounded
  <1>7. CASE WorkerStep
    <2>1. Admitted' = Admitted
      BY <1>7 DEF WorkerStep, Admitted
    <2> QED
      BY <1>1, <1>2, <1>7, <2>1 DEF WorkerStep, QueueInv, QueueBounded
  <1>8. CASE Tick \/ RedisOutage \/ UNCHANGED vars
    <2>1. UNCHANGED queue /\ UNCHANGED cpc
      BY <1>8 DEF Tick, RedisOutage, vars
    <2> QED
      BY <1>3, <2>1 DEF Admitted
  <1> QED
    BY <1>4, <1>5, <1>6, <1>7, <1>8 DEF Next, Building

(* Whatever the thresholds and the numbers of clients and workers, the jobs  *)
(* admitted past the backpressure check exceed a threshold by no more than   *)
(* the requests that overlap and the workers that may put a job back.        *)
THEOREM QueueBound == Spec => []QueueBounded
  <1>1. Init => QueueInv
    <2> SUFFICES ASSUME Init PROVE QueueInv
      OBVIOUS
    <2>1. Admitted = {}
      BY DEF Init, Admitted
    <2>2. Cardinality(Admitted) = 0 /\ Cardinality(Clients) \in Nat
      BY <2>1, FS_EmptySet, FS_CardinalityType, AdmissionAssumption
    <2> QED
      BY <2>2, AdmissionAssumption DEF Init, QueueInv, QueueBounded
  <1>2. TypeOK /\ QueueInv /\ [Next]_vars => QueueInv'
    BY QueueStep
  <1>3. QueueInv => QueueBounded
    BY DEF QueueInv
  <1> QED
    BY <1>1, <1>2, <1>3, TypeCorrect, PTL DEF Spec

-----------------------------------------------------------------------------
(* While scripts run in order the exact bucket is never below the level in   *)
(* Redis, less what refills in the time a request may be on its way.         *)
BucketInv ==
  ~disordered =>
    tokens >= 0 /\ ideal >= Least(Capacity, tokens + RefillRate * (el - MaxLag))

(* Arithmetic of the refill *)
LEMMA Products ==
  ASSUME NEW r \in Nat, NEW a \in Int, NEW b \in Int, NEW m \in Int
  PROVE  /\ r * (a - m) = (a - b) * r + r * (b - m)
         /\ r * ((a + 1) - m) = r * (a - m) + r
         /\ r * (a - m) \in Int /\ (a - b) * r \in Int
         /\ a <= b => r * (a - b) <= 0
         /\ b <= a => (a - b) * r >= 0
         /\ a >= 0 => r * (a - m) >= -(r * m)
  OBVIOUS

LEMMA AllowBucket ==
  ASSUME TypeOK, BucketInv, NEW c \in Clients, Allow(c)
  PROVE  BucketInv'
  <1> USE AdmissionAssumption
  <1> DEFINE t == Refilled(el - lag[c])
  <1>1. CASE t = 0
    BY <1>1 DEF Allow, t, bucket, BucketInv
  <1>2. CASE t # 0
    <2> SUFFICES ASSUME ~disordered'
                 PROVE  tokens' >= 0 /\ ideal' >= Least(Capacity, tokens' + RefillRate * (el' - MaxLag))
      BY DEF BucketInv
    <2>1. /\ tokens' = IF t > -MaxDebt THEN t - 1 ELSE -MaxDebt
          /\ el' = lag[c] /\ disordered' = (disordered \/ el < lag[c])
          /\ ideal' = IF disordered' THEN 0 ELSE ideal - 1
      BY <1>2 DEF Allow, t
    <2>2. ~disordered /\ ~(el < lag[c]) /\ ideal' = ideal - 1
      BY <2>1
    <2>3. /\ el \in Int /\ lag[c] \in Int /\ lag[c] <= MaxLag /\ lag[c] <= el
          /\ tokens \in Int /\ ideal \in Int
      BY <2>2 DEF TypeOK, Old
    <2> DEFINE gain == (el - lag[c]) * RefillRate
               late == RefillRate * (lag[c] - MaxLag)
    <2>4. /\ gain \in Int /\ late \in Int /\ gain >= 0 /\ late <= 0
          /\ RefillRate * (el - MaxLag) = gain + late
      BY <2>3, Products
    <2>5. t = Least(Capacity, tokens + gain)
      BY DEF Refilled
    <2>6. tokens >= 0 /\ ideal >= Least(Capacity, tokens + (gain + late))
      BY <2>2, <2>4 DEF BucketInv
    <2>7. RefillRate * (el' - MaxLag) = late
      BY <2>1
    <2> HIDE DEF gain, late, t
    <2>8. t \in Int /\ t >= 1 /\ t <= Capacity /\ t <= tokens + gain
      BY <1>2, <2>3, <2>4, <2>5, <2>6 DEF Least
    <2>9. tokens' = t - 1
      BY <2>1, <2>8
    <2>10. ideal >= t + late
      BY <2>3, <2>4, <2>6, <2>8 DEF Least
    <2> QED
      BY <2>2, <2>3, <2>4, <2>7, <2>8, <2>9, <2>10 DEF Least
  <1> QED
    BY <1>1, <1>2

LEMMA TickBucket == ASSUME TypeOK, BucketInv, Tick PROVE BucketInv'
  <1> USE AdmissionAssumption
  <1> SUFFICES ASSUME ~disordered
               PROVE  tokens' >= 0 /\ ideal' >= Least(Capacity, tokens' + RefillRate * (el' - MaxLag))
    BY DEF BucketInv, Tick
  <1>1. tokens \in Int /\ el \in Int /\ ideal \in Int
    BY DEF TypeOK
  <1> DEFINE level == RefillRate * (el - MaxLag)
  <1>2. level \in Int /\ RefillRate * ((el + 1) - MaxLag) = level + RefillRate
    BY <1>1, Products
  <1>3. RefillRate * (el' - MaxLag) \in {level, level + RefillRate}
    <2>1. el' \in {el, el + 1}
      BY <1>1 DEF Tick, Least, TypeOK, Old
    <2> QED
      BY <1>2, <2>1
  <1>4. /\ tokens' = tokens /\ tokens >= 0 /\ ideal >= Least(Capacity, tokens + level)
        /\ ideal' = Least(ideal + RefillRate, Capacity)
    BY DEF BucketInv, Tick
  <1> HIDE DEF level
  <1> QED
    BY <1>1, <1>2, <1>3, <1>4 DEF Least

(* For every capacity, rate and delay: as long as the scripts run in the     *)
(* order of the times they carry, the bucket in Redis admits no more than an *)
(* exact one plus the refill of the longest delay.                           *)
THEOREM BucketFollowed == Spec => []WithinBucket
  <1> USE AdmissionAssumption
  <1>1. Init => BucketInv
    <2> SUFFICES ASSUME Init PROVE ideal >= Least(Capacity, tokens + RefillRate * (el - MaxLag)) /\ tokens >= 0
      BY DEF BucketInv
    <2>1. RefillRate * (el - MaxLag) \in Int
      BY Products DEF Init, Old
    <2> QED
      BY <2>1 DEF Init, Least
  <1>2. TypeOK /\ BucketInv /\ [Next]_vars => BucketInv'
    <2> SUFFICES ASSUME TypeOK, BucketInv, [Next]_vars PROVE BucketInv'
      OBVIOUS
    <2>1. ASSUME UNCHANGED <<tokens, el, ideal, disordered>> PROVE BucketInv'
      BY <2>1 DEF BucketInv
    <2>2. ASSUME NEW c \in Clients,
                 HandleInvokeFunction(c) \/ AllowFallback(c) \/ CheckGlobal(c) \/ Building(c)
          PROVE  BucketInv'
      BY <2>1, <2>2 DEF HandleInvokeFunction, AllowFallback, CheckGlobal, Building, CheckUser,
                        CheckDepth, Publish, bucket
    <2>3. CASE WorkerStep \/ RedisOutage \/ UNCHANGED vars
      BY <2>1, <2>3 DEF WorkerStep, RedisOutage, vars, bucket
    <2> QED
      BY <2>2, <2>3, AllowBucket, TickBucket DEF Next, Limiting
  <1>3. TypeOK /\ BucketInv => WithinBucket
    <2> SUFFICES ASSUME TypeOK, BucketInv, ~disordered PROVE ideal >= -(RefillRate * MaxLag)
      BY DEF WithinBucket
    <2>1. tokens \in Int /\ el \in Int /\ el >= 0 /\ ideal \in Int
      BY DEF TypeOK
    <2> DEFINE level == RefillRate * (el - MaxLag)
               slack == RefillRate * MaxLag
    <2>2. level \in Int /\ slack \in Nat /\ level >= -slack
      BY <2>1, Products
    <2>3. tokens >= 0 /\ ideal >= Least(Capacity, tokens + level)
      BY DEF BucketInv
    <2> HIDE DEF level, slack
    <2>4. ideal >= -slack
      BY <2>1, <2>2, <2>3 DEF Least
    <2> QED
      BY <2>4 DEF slack
  <1> QED
    BY <1>1, <1>2, <1>3, TypeCorrect, PTL DEF Spec
=============================================================================
