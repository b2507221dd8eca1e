------------------------ MODULE CircuitBreakerProofs ------------------------
(* Theorems about CircuitBreaker, for any number of requests, any threshold  *)
(* and any reset timeout.                                                    *)
EXTENDS CircuitBreaker, TLAPS

(* Every variable keeps its type. *)
THEOREM TypeCorrect == Spec => []TypeOK
<1> USE BreakerAssumption DEF TypeOK, States
<1>1. Init => TypeOK
  BY DEF Init
<1>2. TypeOK /\ [Next]_vars => TypeOK'
  <2> SUFFICES ASSUME TypeOK, [Next]_vars PROVE TypeOK'
    OBVIOUS
  <2> USE DEF breaker, request, Goto
  <2>1. ASSUME NEW r \in Requests, GetState(r) PROVE TypeOK'
    BY <2>1 DEF GetState
  <2>2. ASSUME NEW r \in Requests, Admit(r) PROVE TypeOK'
    BY <2>2 DEF Admit
  <2>3. ASSUME NEW r \in Requests, HandleOpen(r) PROVE TypeOK'
    BY <2>3 DEF HandleOpen
  <2>4. ASSUME NEW r \in Requests, Forward(r) PROVE TypeOK'
    BY <2>4 DEF Forward
  <2>5. ASSUME NEW r \in Requests, RecordResult(r) PROVE TypeOK'
    BY <2>5 DEF RecordResult, AfterSuccess
  <2>6. CASE ClockTick
    BY <2>6 DEF ClockTick
  <2>7. CASE Weather
    BY <2>7 DEF Weather
  <2>8. CASE UNCHANGED vars
    BY <2>8 DEF vars
  <2> QED BY <2>1, <2>2, <2>3, <2>4, <2>5, <2>6, <2>7, <2>8 DEF Next, RequestNext
<1> QED BY <1>1, <1>2, PTL DEF Spec

(* The circuit is never closed with maxFailures failures counted, in any     *)
(* order of late results: recordResult is the only action that counts one or *)
(* closes the circuit.                                                       *)
THEOREM ClosedMeansBelowMax == Spec => []ClosedBelowMax
<1> USE BreakerAssumption DEF ClosedBelowMax
<1>1. Init => ClosedBelowMax
  BY DEF Init
<1>2. TypeOK /\ ClosedBelowMax /\ [Next]_vars => ClosedBelowMax'
  <2> SUFFICES ASSUME TypeOK, ClosedBelowMax, [Next]_vars PROVE ClosedBelowMax'
    OBVIOUS
  <2>1. ASSUME NEW r \in Requests, HandleOpen(r) PROVE ClosedBelowMax'
    BY <2>1 DEF HandleOpen
  <2>2. ASSUME NEW r \in Requests, RecordResult(r) PROVE ClosedBelowMax'
    BY <2>2 DEF RecordResult, AfterSuccess, Tripped, TypeOK, States
  <2>3. CASE UNCHANGED <<state, failures>>
    BY <2>3
  <2> QED
    BY <2>1, <2>2, <2>3
       DEF Next, RequestNext, GetState, Admit, Forward, ClockTick, Weather, vars, breaker
<1> QED BY <1>1, <1>2, TypeCorrect, PTL DEF Spec

(* An open circuit stays open until the last failure is older than           *)
(* resetTimeout, whatever late results and stale readers do.                 *)
THEOREM OpenStaysOpen == Spec => OpenHolds
<1>1. [Next]_vars => [state = "open" /\ state' # "open" => age > ResetTimeout]_vars
  <2> SUFFICES ASSUME Next, state = "open", state' # "open" PROVE age > ResetTimeout
    OBVIOUS
  <2>1. ASSUME NEW r \in Requests, HandleOpen(r) PROVE age > ResetTimeout
    BY <2>1 DEF HandleOpen
  <2>2. ASSUME NEW r \in Requests, RecordResult(r) PROVE FALSE
    BY <2>2 DEF RecordResult, AfterSuccess
  <2> QED
    BY <2>1, <2>2 DEF Next, RequestNext, GetState, Admit, Forward, ClockTick, Weather, breaker
<1> QED BY <1>1, PTL DEF Spec, OpenHolds
=============================================================================
