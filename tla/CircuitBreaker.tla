--------------------------- MODULE CircuitBreaker ---------------------------
(***************************************************************************)
(* The circuit breaker the gateway puts in front of one downstream service *)
(* (gateway/internal/circuitbreaker/circuit_breaker.go), with the requests *)
(* that forwardRequest sends through it.                                   *)
(*                                                                         *)
(* Call takes the lock three times: getState reads the state, handleOpen   *)
(* decides on a value read before, and recordResult runs after the         *)
(* downstream call, when the state may have changed again.                 *)
(***************************************************************************)
EXTENDS Naturals

CONSTANTS Requests,      \* goroutines serving requests to this service
          MaxFailures,   \* maxFailures
          ResetTimeout   \* resetTimeout, in clock ticks

ASSUME BreakerAssumption ==
  MaxFailures \in Nat \ {0} /\ ResetTimeout \in Nat

VARIABLES state,      \* "closed", "open" or "half"
          failures,   \* up to MaxFailures: it is only compared with that
          age,        \* ticks since lastFailureTime, up to ResetTimeout + 1
          answering,  \* httpClient.Do returns no error (else down, or cancelled)
          rpc,        \* where a request is
          seen,       \* the state getState returned to it
          failed      \* its downstream call returned an error

breaker == <<state, failures, age>>
request == <<rpc, seen, failed>>
vars == <<breaker, answering, request>>

States == {"closed", "open", "half"}

TypeOK ==
  /\ state \in States /\ failures \in 0..MaxFailures /\ age \in 0..(ResetTimeout + 1)
  /\ answering \in BOOLEAN
  /\ rpc \in [Requests -> {"idle", "call", "forward", "record"}]
  /\ seen \in [Requests -> States]
  /\ failed \in [Requests -> BOOLEAN]

Init ==
  /\ state = "closed" /\ failures = 0 /\ age = ResetTimeout + 1
  /\ answering = TRUE
  /\ rpc = [r \in Requests |-> "idle"]
  /\ seen = [r \in Requests |-> "closed"]
  /\ failed = [r \in Requests |-> FALSE]

Goto(r, p) == rpc' = [rpc EXCEPT ![r] = p]

(* forwardRequest calls cb.Call, which reads the state. *)
GetState(r) ==
  /\ rpc[r] = "idle"
  /\ Goto(r, "call")
  /\ seen' = [seen EXCEPT ![r] = state]
  /\ UNCHANGED <<breaker, answering, failed>>

(* handleClosed and handleHalfOpen let the request through. *)
Admit(r) ==
  /\ rpc[r] = "call" /\ seen[r] # "open"
  /\ Goto(r, "forward")
  /\ UNCHANGED <<breaker, answering, seen, failed>>

(* handleOpen rejects (503) or makes this request a trial, whatever the      *)
(* state is by now.                                                          *)
HandleOpen(r) ==
  /\ rpc[r] = "call" /\ seen[r] = "open"
  /\ \/ age <= ResetTimeout /\ Goto(r, "idle") /\ UNCHANGED state
     \/ age > ResetTimeout /\ state' = "half" /\ Goto(r, "forward")
  /\ UNCHANGED <<failures, age, answering, seen, failed>>

(* httpClient.Do; any HTTP status is a success. *)
Forward(r) ==
  /\ rpc[r] = "forward"
  /\ Goto(r, "record")
  /\ failed' = [failed EXCEPT ![r] = ~answering]
  /\ UNCHANGED <<breaker, answering, seen>>

(* Mutant of Tripped: "failures exceed maxFailures", as handleClosed's comment has it. *)
TrippedAbove(n) == n > MaxFailures

Tripped(n) == n >= MaxFailures

(* Mutants of AfterSuccess: any success closes the circuit; none does. *)
AlwaysClosed == "closed"
NeverClosed == state

AfterSuccess == IF state = "half" THEN "closed" ELSE state

RecordResult(r) ==
  /\ rpc[r] = "record"
  /\ Goto(r, "idle")
  /\ \/ /\ failed[r]
        /\ failures' = IF failures < MaxFailures THEN failures + 1 ELSE failures
        /\ age' = 0
        /\ state' = IF Tripped(failures + 1) THEN "open" ELSE state
     \/ /\ ~failed[r]
        /\ failures' = 0
        /\ state' = AfterSuccess
        /\ UNCHANGED age
  /\ UNCHANGED <<answering, seen, failed>>

ClockTick ==
  /\ age <= ResetTimeout /\ age' = age + 1
  /\ UNCHANGED <<state, failures, answering, request>>

(* The service fails, clients go away, or all is well again. *)
Weather == answering' = ~answering /\ UNCHANGED <<breaker, request>>

RequestNext(r) ==
  GetState(r) \/ Admit(r) \/ HandleOpen(r) \/ Forward(r) \/ RecordResult(r)

Next == (\E r \in Requests : RequestNext(r)) \/ ClockTick \/ Weather

Spec == Init /\ [][Next]_vars

(* Requests keep coming and are served, and time passes. *)
FairSpec ==
  /\ Spec
  /\ WF_vars(ClockTick)
  /\ \A r \in Requests : WF_vars(RequestNext(r))

-----------------------------------------------------------------------------
(* Properties *)

(* Late results of calls admitted in another state, in any order, never      *)
(* leave the circuit closed with maxFailures failures counted against it:    *)
(* recordResult opens it, and what closes it resets the count.               *)
ClosedBelowMax == state = "closed" => failures < MaxFailures

(* An open circuit protects the service for the whole reset timeout: late    *)
(* successes of requests admitted before it opened, and callers acting on a  *)
(* state they read earlier, do not end the open state before the last        *)
(* failure is older than resetTimeout.                                       *)
OpenHolds == [][state = "open" /\ state' # "open" => age > ResetTimeout]_vars

(* Once the service answers for good the circuit closes and stays closed:    *)
(* no stale reader of "open" can keep it half-open.                          *)
Recovers == <>[]answering => <>[](state = "closed")
=============================================================================
