------------------------------ MODULE Admission ------------------------------
(***************************************************************************)
(* Who gets in: the gateway's token bucket for invocations, its build      *)
(* quotas (gateway/internal/ratelimit), and the backpressure with which    *)
(* the build master protects its queue.                                    *)
(*                                                                         *)
(* Time is counted in seconds and kept relative: `el` is how long ago the  *)
(* bucket was last charged, `lag` how long ago a request read the clock.   *)
(* All gateways share the buckets in Redis; each counter and bucket        *)
(* operation is one Lua script, atomic there, but the time a script works  *)
(* with was read before, in the gateway.                                   *)
(***************************************************************************)
EXTENDS Integers, FiniteSets

CONSTANTS Clients,      \* clients, each with one request at a time
          Users,        \* values of X-User-ID
          Capacity, RefillRate,      \* RATE_LIMIT_CAPACITY, RATE_LIMIT_REFILL_RATE
          GlobalLimit, UserLimit,    \* builds per window
          Window,       \* seconds of a build window
          Thresholds,   \* backpressureThresholds
          Workers,      \* number of build workers, each with one unacked job
          MaxLag,       \* bound: seconds between time.Now() and the script
          MaxDebt       \* bound: deeper debts of a bucket are not told apart

ASSUME AdmissionAssumption ==
  /\ Capacity \in Nat \ {0} /\ RefillRate \in Nat \ {0}
  /\ GlobalLimit \in Nat /\ UserLimit \in Nat /\ Window \in Nat \ {0}
  /\ Workers \in Nat /\ MaxLag \in Nat /\ MaxDebt \in Nat
  /\ IsFiniteSet(Clients) /\ Thresholds \subseteq Nat \ {0}

VARIABLES
  tokens, el,     \* ratelimit:bucket, and the age of ratelimit:timestamp
  ideal,          \* what an exact token bucket would still admit, while ordered
  disordered,     \* a script has run with a time before the bucket's timestamp
  spare,          \* tokens of the in-memory fallback limiter
  redis,          \* Redis answers
  global, gttl,   \* the global build counter and the seconds it has left
  user, uttl,     \* the same per user
  ready, unacked, \* messages of build-jobs
  cpc, lag        \* where a client's request is

bucket == <<tokens, el, ideal, disordered, spare>>
quota == <<global, gttl, user, uttl>>
queue == <<ready, unacked>>
vars == <<bucket, redis, quota, queue, cpc, lag>>

Least(a, b) == IF a < b THEN a ELSE b

(* An age from which any bucket is full again. *)
Old == MaxDebt + Capacity + MaxLag

TypeOK ==
  /\ tokens \in (-MaxDebt)..Capacity /\ el \in 0..Old /\ ideal \in Int
  /\ disordered \in BOOLEAN /\ spare \in 0..Capacity /\ redis \in BOOLEAN
  /\ global \in 0..(GlobalLimit + 1) /\ gttl \in 0..Window
  /\ user \in [Users -> 0..(UserLimit + 1)] /\ uttl \in [Users -> 0..Window]
  /\ ready \in Nat /\ unacked \in Nat
  /\ cpc \in [Clients -> {"idle", "invoke", "user", "depth", "publish"}]
  /\ lag \in [Clients -> 0..MaxLag]

(* No key exists: the bucket is full. *)
Init ==
  /\ tokens = Capacity /\ el = Old /\ ideal = Capacity /\ disordered = FALSE
  /\ spare = Capacity /\ redis = TRUE
  /\ global = 0 /\ gttl = 0
  /\ user = [u \in Users |-> 0] /\ uttl = [u \in Users |-> 0]
  /\ ready = 0 /\ unacked = 0
  /\ cpc = [c \in Clients |-> "idle"] /\ lag = [c \in Clients |-> 0]

Goto(c, p) == cpc' = [cpc EXCEPT ![c] = p]

-----------------------------------------------------------------------------
(* Invocations *)

(* HandleInvokeFunction asks the limiter, which reads the clock. *)
HandleInvokeFunction(c) ==
  /\ cpc[c] = "idle" /\ Goto(c, "invoke")
  /\ lag' = [lag EXCEPT ![c] = 0]
  /\ UNCHANGED <<bucket, redis, quota, queue>>

(* Mutant of Refilled: the refill is not capped. *)
RefilledUncapped(elapsed) == tokens + elapsed * RefillRate

Refilled(elapsed) == Least(Capacity, tokens + elapsed * RefillRate)

(* The script: 429 without a change when the bucket is exactly empty.        *)
Allow(c) ==
  LET t == Refilled(el - lag[c]) IN
  /\ cpc[c] = "invoke" /\ redis /\ Goto(c, "idle")
  /\ lag' = [lag EXCEPT ![c] = 0]
  /\ \/ t = 0 /\ UNCHANGED bucket
     \/ /\ t # 0
        /\ tokens' = IF t > -MaxDebt THEN t - 1 ELSE -MaxDebt
        /\ el' = lag[c]
        /\ disordered' = (disordered \/ el < lag[c])
        /\ ideal' = IF disordered' THEN 0 ELSE ideal - 1
        /\ UNCHANGED spare
  /\ UNCHANGED <<redis, quota, queue>>

(* Redis fails: a limiter of the gateway's own, with its own burst. *)
AllowFallback(c) ==
  /\ cpc[c] = "invoke" /\ ~redis /\ Goto(c, "idle")
  /\ lag' = [lag EXCEPT ![c] = 0]
  /\ spare' = IF spare > 0 THEN spare - 1 ELSE 0
  /\ UNCHANGED <<tokens, el, ideal, disordered, redis, quota, queue>>

-----------------------------------------------------------------------------
(* Builds *)

(* Mutant of Expiry: every INCR starts the window anew. *)
ExpiryRenewed(count, ttl) == Window

(* checkLimit: the window starts with the first INCR. *)
Expiry(count, ttl) == IF count = 0 THEN Window ELSE ttl
Charged(count, limit) == Least(count + 1, limit + 1)

(* HandleCreateFunction: the global quota is charged first, and stays        *)
(* charged when the user's is exceeded (429) or Redis fails (500).           *)
CheckGlobal(c) ==
  /\ cpc[c] = "idle" /\ redis
  /\ global' = Charged(global, GlobalLimit) /\ gttl' = Expiry(global, gttl)
  /\ Goto(c, IF global + 1 <= GlobalLimit THEN "user" ELSE "idle")
  /\ UNCHANGED <<bucket, redis, user, uttl, queue, lag>>

CheckUser(c) ==
  /\ cpc[c] = "user"
  /\ \/ \E u \in Users :
          /\ redis
          /\ user' = [user EXCEPT ![u] = Charged(@, UserLimit)]
          /\ uttl' = [uttl EXCEPT ![u] = Expiry(user[u], @)]
          /\ Goto(c, IF user[u] + 1 <= UserLimit THEN "depth" ELSE "idle")
     \/ ~redis /\ Goto(c, "idle") /\ UNCHANGED <<user, uttl>>
  /\ UNCHANGED <<bucket, redis, global, gttl, queue, lag>>

(* Mutant of CanAcceptRequest: unacknowledged jobs are counted instead. *)
CanAcceptUnacked == \A t \in Thresholds : unacked < t

CanAcceptRequest == \A t \in Thresholds : ready < t

CheckDepth(c) ==
  /\ cpc[c] = "depth"
  /\ Goto(c, IF CanAcceptRequest THEN "publish" ELSE "idle")
  /\ UNCHANGED <<bucket, redis, quota, queue, lag>>

Publish(c) ==
  /\ cpc[c] = "publish" /\ Goto(c, "idle")
  /\ ready' = ready + 1
  /\ UNCHANGED <<bucket, redis, quota, unacked, lag>>

(* A worker takes a job, settles it, or loses its connection. *)
WorkerStep ==
  /\ \/ ready > 0 /\ unacked < Workers /\ ready' = ready - 1 /\ unacked' = unacked + 1
     \/ unacked > 0 /\ unacked' = unacked - 1 /\ ready' \in {ready, ready + 1}
  /\ UNCHANGED <<bucket, redis, quota, cpc, lag>>

-----------------------------------------------------------------------------
Left(ttl) == IF ttl = 0 THEN 0 ELSE ttl - 1
Kept(count, ttl) == IF ttl <= 1 THEN 0 ELSE count

Tick ==
  /\ \A c \in Clients : cpc[c] = "invoke" => lag[c] < MaxLag
  /\ lag' = [c \in Clients |-> IF cpc[c] = "invoke" THEN lag[c] + 1 ELSE 0]
  /\ el' = Least(el + 1, Old)
  /\ ideal' = IF disordered THEN 0 ELSE Least(ideal + RefillRate, Capacity)
  /\ spare' = Least(spare + RefillRate, Capacity)
  /\ global' = Kept(global, gttl) /\ gttl' = Left(gttl)
  /\ user' = [u \in Users |-> Kept(user[u], uttl[u])]
  /\ uttl' = [u \in Users |-> Left(uttl[u])]
  /\ UNCHANGED <<tokens, disordered, redis, queue, cpc>>

RedisOutage == redis' = ~redis /\ UNCHANGED <<bucket, quota, queue, cpc, lag>>

Limiting(c) == Allow(c) \/ AllowFallback(c)
Building(c) == CheckUser(c) \/ CheckDepth(c) \/ Publish(c)

Next ==
  \/ \E c \in Clients : HandleInvokeFunction(c) \/ Limiting(c) \/ CheckGlobal(c) \/ Building(c)
  \/ WorkerStep \/ Tick \/ RedisOutage

Spec == Init /\ [][Next]_vars

(* Time passes, and requests do not stop in the limiter. *)
FairSpec == Spec /\ WF_vars(Tick) /\ \A c \in Clients : WF_vars(Limiting(c))

-----------------------------------------------------------------------------
(* Properties *)

(* However requests of all gateways interleave, the token bucket in Redis    *)
(* admits at most what an exact token bucket would, plus what refills while  *)
(* a request is on its way to Redis, as long as the scripts run in the order *)
(* of the times they carry.                                                  *)
WithinBucket == ~disordered => ideal >= -(RefillRate * MaxLag)

(* The build queue is bounded although the depth is checked before the job   *)
(* is published: what is ready, admitted or with a worker exceeds every      *)
(* threshold by no more than the requests and workers there are.             *)
Admitted == {c \in Clients : cpc[c] = "publish"}
QueueBounded ==
  \A t \in Thresholds :
    ready + Cardinality(Admitted) + unacked <= t - 1 + Cardinality(Clients) + Workers

(* However many rejected requests keep coming, every build window ends and   *)
(* the users get a new quota.                                                *)
WindowCloses == []<>(global = 0) /\ \A u \in Users : []<>(user[u] = 0)
=============================================================================
