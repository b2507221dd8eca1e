------------------------- MODULE BuildPipelineProofs -------------------------
(***************************************************************************)
(* Proofs about BuildPipeline: its types, and what holds of jobs, their    *)
(* verdicts and registered functions whatever fails, for any number of     *)
(* requests, workers and faults.                                           *)
(***************************************************************************)
EXTENDS BuildPipeline, TLAPS

LEMMA FaultsBounded == MaxFaults \in Nat
  BY PipelineAssumption

Streams == [exists : BOOLEAN, ttl : BOOLEAN, first : Verdicts \cup {None}]

LEMMA StreamOps ==
  ASSUME NEW l \in Streams, NEW s \in Verdicts \cup {None}
  PROVE  Appended(l, s) \in Streams /\ Expired(l) \in Streams
  BY DEF Streams, Appended, Expired

(* Every handler with a job is past "idle" and the other way round. *)
HasJob == \A w \in Workers : step[w] # "idle" => job[w] \in Requests

TypeInv == TypeOK /\ HasJob

LEMMA MasterTypes ==
  ASSUME TypeInv, NEW r \in Requests, CreateFunction(r) \/ MasterStep(r)
  PROVE  TypeInv'
  <1> USE FaultsBounded DEF TypeInv
  <1>1. CASE CreateFunction(r)
    <2>1. PICK s \in Submissions :
            sub' = [sub EXCEPT ![r] = s] /\ late' = IF Recorded(s) THEN late \cup {r} ELSE late
      BY <1>1 DEF CreateFunction
    <2>2. sub' \in [Requests -> Submissions \cup {None}] /\ late' \subseteq Requests
      BY <2>1 DEF TypeOK
    <2>3. /\ \E p \in {"admitted", "end"} : rpc' = [rpc EXCEPT ![r] = p]
          /\ resp' = resp \/ \E n \in {500, 503} : resp' = [resp EXCEPT ![r] = n]
      BY <1>1 DEF CreateFunction, Answer, GoOn
    <2>4. rpc' \in [Requests -> {"new", "admitted", "unique", "queued", "end"}]
      BY <2>3 DEF TypeOK
    <2>5. resp' \in [Requests -> {None, 202, 409, 500, 503}]
      BY <2>3 DEF TypeOK
    <2> QED
      BY <1>1, <2>2, <2>4, <2>5 DEF TypeOK, HasJob, CreateFunction, worker, result, events, registrar
  <1>2. CASE CheckBuildMetadata(r)
    BY <1>2 DEF TypeOK, HasJob, CheckBuildMetadata, Answer, GoOn, Fault, Fine, worker, events, registrar
  <1>3. CASE PublishJob(r)
    <2>1. packages' \subseteq Requests
      BY <1>3 DEF TypeOK, PublishJob, UploadPackage, Zipped
    <2>2. \E p \in {"queued", "end"}, n \in {202, 500} :
            rpc' = [rpc EXCEPT ![r] = p] /\ resp' = [resp EXCEPT ![r] = n]
      BY <1>3 DEF PublishJob, Answer
    <2>3. /\ rpc' \in [Requests -> {"new", "admitted", "unique", "queued", "end"}]
          /\ resp' \in [Requests -> {None, 202, 409, 500, 503}]
      BY <2>2 DEF TypeOK
    <2>4. \/ UNCHANGED <<msg, pub>> /\ (Fault \/ Fine)
          \/ msg' = [msg EXCEPT ![r] = "ready"] /\ Fine /\ UNCHANGED pub
          \/ msg' = [msg EXCEPT ![r] = "lost"] /\ Fault /\ pub' = "down"
      BY <1>3 DEF PublishJob, Publish
    <2>5. /\ msg' \in [Requests -> {"none", "ready", "settled", "lost"} \cup Workers]
          /\ pub' \in {"up", "down"} /\ faults' \in 0..MaxFaults
      <3>1. msg' = msg \/ \E m \in {"ready", "lost"} : msg' = [msg EXCEPT ![r] = m]
        BY <2>4
      <3>2. msg' \in [Requests -> {"none", "ready", "settled", "lost"} \cup Workers]
        <4> DEFINE M == {"none", "ready", "settled", "lost"} \cup Workers
        <4>1. msg \in [Requests -> M] /\ "ready" \in M /\ "lost" \in M
          BY DEF TypeOK
        <4> HIDE DEF M
        <4>2. msg' \in [Requests -> M]
          BY <3>1, <4>1
        <4> QED
          BY <4>2 DEF M
      <3>3. pub' \in {"up", "down"} /\ (Fault \/ Fine)
        BY <2>4 DEF TypeOK
      <3>4. faults' \in 0..MaxFaults
        BY <3>3 DEF TypeOK, Fault, Fine
      <3> QED
        BY <3>2, <3>3, <3>4
    <2> QED
      BY <1>3, <2>1, <2>3, <2>5 DEF TypeOK, HasJob, PublishJob, worker, result, events, registrar
  <1>4. CASE SaveBuildMetadata(r)
    BY <1>4 DEF TypeOK, HasJob, SaveBuildMetadata, Saved, GoOn, Fault, Fine, worker, events, registrar
  <1> QED
    BY <1>1, <1>2, <1>3, <1>4 DEF MasterStep

LEMMA ConsumerTypes ==
  ASSUME TypeInv, NEW w \in Workers, ConsumerStep(w)
  PROVE  TypeInv'
  <1> USE FaultsBounded DEF TypeInv
  <1>1. CASE StartConsuming(w)
    BY <1>1 DEF TypeOK, HasJob, StartConsuming, master, front, result, events, registrar
  <1>2. ASSUME NEW r \in Requests, Deliver(w, r) PROVE TypeInv'
    BY <1>2 DEF TypeOK, HasJob, Deliver, Unacked, Steps, master, front, result, events, registrar
  <1>3. CASE Settle(w)
    BY <1>3 DEF TypeOK, HasJob, Settle, Steps, master, front, result, events, registrar
  <1>4. CASE NoticeClose(w)
    BY <1>4 DEF TypeOK, HasJob, NoticeClose, master, front, result, events, registrar
  <1>5. CASE Reconnect(w)
    BY <1>5 DEF TypeOK, HasJob, Reconnect, master, front, result, events, registrar
  <1> QED
    BY <1>1, <1>2, <1>3, <1>4, <1>5 DEF ConsumerStep

(* The log calls of a step leave a stream a stream. *)
LEMMA LoggedTypes ==
  ASSUME TypeInv, NEW w \in Workers, job[w] \in Requests,
         NEW full \in Streams, NEW part \in SUBSET Streams, Logged(w, full, part)
  PROVE  log' \in [Requests -> Streams] /\ hurt' \subseteq Requests /\ faults' \in 0..MaxFaults
  BY FaultsBounded DEF TypeInv, TypeOK, Streams, Logged, Refused, Fault, Fine

LEMMA BuildTypes ==
  ASSUME TypeInv, NEW w \in Workers, BuildStep(w)
  PROVE  TypeInv'
  <1> USE FaultsBounded DEF TypeInv
  <1>1. job[w] \in Requests
    BY DEF BuildStep, Build, Announce, Finish, FailBuild, HasJob
  <1>2. log[job[w]] \in Streams
    BY <1>1 DEF TypeOK, Streams
  <1> DEFINE l == log[job[w]]
  <1>3. \A s \in Verdicts \cup {None} : /\ Appended(l, s) \in Streams /\ Expired(l) \in Streams
                                       /\ Appended(Expired(l), s) \in Streams
                                       /\ Expired(Appended(l, s)) \in Streams
    BY <1>2, StreamOps
  <1>4. CASE Build(w)
    <2>1. log' \in [Requests -> Streams] /\ hurt' \subseteq Requests /\ faults' \in 0..MaxFaults
      BY <1>1, <1>2, <1>3, <1>4, LoggedTypes DEF Build
    <2>2. step' \in [Workers -> Steps] /\ artifacts' \subseteq Requests
      <3>1. /\ \E s \in Steps : step' = [step EXCEPT ![w] = s]
            /\ artifacts' \in {artifacts, artifacts \cup {job[w]}}
        BY <1>4 DEF Build, CloneAndBuild, ProcessZip, UploadDirectory, Steps
      <3> QED
        BY <1>1, <3>1 DEF TypeOK
    <2> QED
      BY <1>1, <1>4, <2>1, <2>2 DEF TypeOK, HasJob, Build, CloneAndBuild, ProcessZip, Streams,
                                    master, front, events, registrar
  <1>5. CASE Announce(w)
    <2>1. built' \in [Requests -> Nat] /\ announced' \subseteq Requests
      <3>1. \/ UNCHANGED <<built, announced>>
            \/ built' = [built EXCEPT ![job[w]] = @ + 1] /\ announced' = announced \cup {job[w]}
        BY <1>5 DEF Announce, events
      <3>2. built \in [Requests -> Nat] /\ announced \subseteq Requests
        BY DEF TypeOK
      <3> QED
        BY <1>1, <3>1, <3>2
    <2>2. faults' \in 0..MaxFaults
      BY <1>5 DEF TypeOK, Announce, Refused, Fault, Fine
    <2>3. step' \in [Workers -> Steps]
      BY <1>5 DEF TypeOK, Announce, Steps
    <2> QED
      BY <1>1, <1>5, <2>1, <2>2, <2>3 DEF TypeOK, HasJob, Announce, master, front, result, registrar
  <1>6. ASSUME NEW v \in Verdicts, NEW next \in Steps, Reached(w, v, next),
               log' \in [Requests -> Streams], hurt' \subseteq Requests, faults' \in 0..MaxFaults
        PROVE  TypeInv'
    <2>1. outcome' \in [Requests -> SUBSET Verdicts] /\ step' \in [Workers -> Steps]
      BY <1>1, <1>6 DEF TypeOK, Reached
    <2> QED
      BY <1>1, <1>6, <2>1 DEF TypeOK, HasJob, Reached, Streams, master, front, events, registrar
  <1>7. CASE Finish(w)
    <2>1. log' \in [Requests -> Streams] /\ hurt' \subseteq Requests /\ faults' \in 0..MaxFaults
      BY <1>1, <1>2, <1>3, <1>7, LoggedTypes DEF Finish, Verdicts
    <2> QED
      BY <1>6, <1>7, <2>1 DEF Finish, Verdicts, Steps
  <1>8. CASE FailBuild(w)
    <2>1. log' \in [Requests -> Streams] /\ hurt' \subseteq Requests /\ faults' \in 0..MaxFaults
      BY <1>1, <1>2, <1>3, <1>8, LoggedTypes DEF FailBuild, Verdicts
    <2> QED
      BY <1>6, <1>8, <2>1 DEF FailBuild, Verdicts, Steps
  <1> QED
    BY <1>4, <1>5, <1>7, <1>8 DEF BuildStep

LEMMA OtherTypes ==
  ASSUME TypeInv, ReconnectLoop \/ RegStep \/ Infrastructure
  PROVE  TypeInv'
  <1> USE FaultsBounded DEF TypeInv
  <1>1. CASE ReconnectLoop
    BY <1>1 DEF TypeOK, HasJob, ReconnectLoop, front, worker, result, events, registrar
  <1>2. CASE RegHandle
    BY <1>2 DEF TypeOK, HasJob, RegHandle, Registered, Fault, Fine, master, front, worker, result, events
  <1>3. ASSUME NEW r \in Requests, RegDeliver(r) PROVE TypeInv'
    BY <1>3 DEF TypeOK, HasJob, RegDeliver, master, front, worker, result
  <1>4. ASSUME NEW w \in Workers, LoseConnection(w) PROVE TypeInv'
    BY <1>4 DEF TypeOK, HasJob, LoseConnection, Requeued, Fault, master, front, result, events, registrar
  <1>5. ASSUME NEW w \in Workers, Terminate(w) PROVE TypeInv'
    BY <1>5 DEF TypeOK, HasJob, Terminate, Fault, master, front, result, events, registrar
  <1>6. ASSUME NEW w \in Workers, Crash(w) PROVE TypeInv'
    BY <1>6 DEF TypeOK, HasJob, Crash, Requeued, Fault, Steps, master, front, result, events, registrar
  <1>7. CASE PublisherDrops
    BY <1>7 DEF TypeOK, HasJob, PublisherDrops, Fault, front, worker, result, events, registrar
  <1>8. CASE RegLoseConnection
    BY <1>8 DEF TypeOK, HasJob, RegLoseConnection, Fault, master, front, worker, result
  <1>9. CASE RegRestart
    BY <1>9 DEF TypeOK, HasJob, RegRestart, master, front, worker, result, events
  <1> QED
    BY <1>1, <1>2, <1>3, <1>4, <1>5, <1>6, <1>7, <1>8, <1>9 DEF RegStep, Infrastructure

(* Every variable of the pipeline keeps its type, and a handler that is not  *)
(* idle has a job, whatever fails.                                           *)
THEOREM TypeCorrect == Spec => []TypeInv
  <1>1. Init => TypeInv
    <2> SUFFICES ASSUME Init PROVE TypeInv
      OBVIOUS
    <2>1. NoStream \in Streams
      BY DEF NoStream, Streams
    <2>2. log \in [Requests -> Streams] /\ declared \in BOOLEAN /\ term \in [Workers -> BOOLEAN]
      BY <2>1 DEF Init
    <2>3. /\ built \in [Requests -> Nat] /\ faults \in 0..MaxFaults
          /\ resp \in [Requests -> {None, 202, 409, 500, 503}]
      BY PipelineAssumption DEF Init
    <2>4. /\ step \in [Workers -> Steps] /\ job \in [Workers -> Requests \cup {None}]
          /\ outcome \in [Requests -> SUBSET Verdicts] /\ HasJob
      BY DEF Init, Steps, HasJob
    <2> QED
      BY <2>2, <2>3, <2>4 DEF Init, TypeInv, TypeOK, Streams
  <1>2. TypeInv /\ [Next]_vars => TypeInv'
    <2> SUFFICES ASSUME TypeInv, [Next]_vars PROVE TypeInv'
      OBVIOUS
    <2>1. CASE UNCHANGED vars
      BY <2>1 DEF TypeInv, TypeOK, HasJob, vars, master, front, worker, result, events, registrar
    <2> QED
      BY <2>1, MasterTypes, ConsumerTypes, BuildTypes, OtherTypes DEF Next
  <1> QED
    BY <1>1, <1>2, PTL DEF Spec

(* In particular each job's message is with the queue or with one worker,    *)
(* and no call of the services leaves a value outside its range.             *)
THEOREM WellTyped == Spec => []TypeOK
  BY TypeCorrect, PTL DEF TypeInv

-----------------------------------------------------------------------------
(* A request that has not been handled has left no trace, so its submission  *)
(* is settled before anything of it is queued, built or registered.          *)
Traceless ==
  /\ \A r \in Requests : rpc[r] = "new" => msg[r] = "none" /\ r \notin artifacts
  /\ \A w \in Workers : job[w] # None => rpc[job[w]] # "new"

(* A handler that will announce or has announced its job has stored the      *)
(* result; one that is about to settle it has reached a verdict.             *)
HandlerInv ==
  \A w \in Workers :
    /\ step[w] \in {"announce", "finish"} => job[w] \in artifacts
    /\ step[w] \in {"ack", "nack"} => outcome[job[w]] # {}

PipelineInv ==
  Traceless /\ HandlerInv /\ SettledHasVerdict /\ ReaderToldTruth /\ RegisteredComplete

LEMMA MasterInv ==
  ASSUME TypeInv, PipelineInv, NEW r \in Requests, CreateFunction(r) \/ MasterStep(r)
  PROVE  PipelineInv'
  <1> USE FaultsBounded DEF TypeInv
  <1>1. UNCHANGED <<step, job, artifacts, log, outcome, rows>>
    BY DEF CreateFunction, MasterStep, CheckBuildMetadata, PublishJob, SaveBuildMetadata, worker,
           result, registrar
  <1>2. \E p : p # "new" /\ rpc' = [rpc EXCEPT ![r] = p]
    BY DEF CreateFunction, MasterStep, CheckBuildMetadata, PublishJob, SaveBuildMetadata, Answer, GoOn
  <1>3. msg' = msg \/ \E m \in {"ready", "lost"} : msg' = [msg EXCEPT ![r] = m]
    BY DEF CreateFunction, MasterStep, CheckBuildMetadata, PublishJob, SaveBuildMetadata, Publish
  <1>4. sub' = sub \/ (rpc[r] = "new" /\ \E s \in Submissions : sub' = [sub EXCEPT ![r] = s])
    BY DEF CreateFunction, MasterStep, CheckBuildMetadata, PublishJob, SaveBuildMetadata
  <1>5. Traceless'
    BY <1>1, <1>2, <1>3 DEF PipelineInv, Traceless, TypeOK
  <1>6. HandlerInv' /\ ReaderToldTruth'
    BY <1>1 DEF PipelineInv, HandlerInv, ReaderToldTruth, HandleBuildLogs
  <1>7. SettledHasVerdict'
    BY <1>1, <1>3 DEF PipelineInv, SettledHasVerdict, TypeOK
  <1>8. RegisteredComplete'
    <2>1. rows \subseteq artifacts /\ \A q \in rows : q \in Requests /\ rpc[q] # "new"
      BY DEF PipelineInv, RegisteredComplete, Traceless, TypeOK
    <2>2. \A q \in rows : sub'[q] = sub[q]
      BY <1>4, <2>1 DEF TypeOK
    <2> QED
      BY <1>1, <2>1, <2>2 DEF PipelineInv, RegisteredComplete
  <1> QED
    BY <1>5, <1>6, <1>7, <1>8 DEF PipelineInv

(* A worker's queue and connection: only Settle takes a message for settled. *)
LEMMA ConsumerInv ==
  ASSUME TypeInv, PipelineInv, NEW w \in Workers,
         ConsumerStep(w) \/ LoseConnection(w) \/ Terminate(w) \/ Crash(w)
  PROVE  PipelineInv'
  <1> USE FaultsBounded DEF TypeInv
  <1>1. UNCHANGED <<rpc, sub, artifacts, log, outcome, rows>>
    BY DEF ConsumerStep, StartConsuming, Deliver, Settle, NoticeClose, Reconnect, LoseConnection,
           Terminate, Crash, master, front, result, registrar
  <1>2. ReaderToldTruth' /\ RegisteredComplete'
    BY <1>1 DEF PipelineInv, ReaderToldTruth, HandleBuildLogs, RegisteredComplete
  <1>3. ASSUME NEW r \in Requests, Deliver(w, r) PROVE PipelineInv'
    <2>1. /\ rpc[r] # "new" /\ msg' = [msg EXCEPT ![r] = w]
          /\ job' = [job EXCEPT ![w] = r] /\ step' = [step EXCEPT ![w] = "build"]
      BY <1>3 DEF PipelineInv, Traceless, Deliver, Unacked
    <2>2. Traceless'
      BY <1>1, <2>1 DEF PipelineInv, Traceless, TypeOK
    <2>3. HandlerInv'
      BY <1>1, <2>1 DEF PipelineInv, HandlerInv, TypeOK
    <2>4. SettledHasVerdict'
      BY <1>1, <2>1, PipelineAssumption DEF PipelineInv, SettledHasVerdict, TypeOK
    <2> QED
      BY <1>2, <2>2, <2>3, <2>4 DEF PipelineInv
  <1>4. CASE Settle(w)
    <2>1. /\ step[w] \in {"ack", "nack"} /\ job[w] \in Requests
          /\ msg' = [msg EXCEPT ![job[w]] = IF @ = w THEN "settled" ELSE @]
          /\ job' = [job EXCEPT ![w] = None] /\ step' = [step EXCEPT ![w] = "idle"]
      BY <1>4 DEF Settle, HasJob
    <2>2. Traceless'
      BY <1>1, <2>1, PipelineAssumption DEF PipelineInv, Traceless, TypeOK
    <2>3. HandlerInv'
      BY <1>1, <2>1 DEF PipelineInv, HandlerInv, TypeOK
    <2>4. SettledHasVerdict'
      BY <1>1, <2>1 DEF PipelineInv, SettledHasVerdict, HandlerInv, TypeOK
    <2> QED
      BY <1>2, <2>2, <2>3, <2>4 DEF PipelineInv
  <1>5. CASE LoseConnection(w) \/ Crash(w)
    <2>1. /\ msg' = [r \in Requests |-> IF msg[r] = w THEN "ready" ELSE msg[r]]
          /\ \/ UNCHANGED <<job, step>>
             \/ job' = [job EXCEPT ![w] = None] /\ step' = [step EXCEPT ![w] = "idle"]
      BY <1>5 DEF LoseConnection, Crash, Requeued
    <2>2. Traceless'
      <3>1. \A r \in Requests : msg[r] = "none" => msg'[r] = "none"
        BY <2>1, PipelineAssumption
      <3>2. \A v \in Workers : job'[v] = job[v] \/ job'[v] = None
        BY <2>1 DEF TypeOK
      <3> QED
        BY <1>1, <3>1, <3>2 DEF PipelineInv, Traceless
    <2>3. HandlerInv'
      <3>1. CASE UNCHANGED <<job, step>>
        BY <1>1, <3>1 DEF PipelineInv, HandlerInv
      <3>2. CASE job' = [job EXCEPT ![w] = None] /\ step' = [step EXCEPT ![w] = "idle"]
        BY <1>1, <3>2 DEF PipelineInv, HandlerInv, TypeOK
      <3> QED
        BY <2>1, <3>1, <3>2
    <2>4. SettledHasVerdict'
      BY <1>1, <2>1 DEF PipelineInv, SettledHasVerdict
    <2> QED
      BY <1>2, <2>2, <2>3, <2>4 DEF PipelineInv
  <1>6. CASE StartConsuming(w) \/ NoticeClose(w) \/ Reconnect(w) \/ Terminate(w)
    <2>1. UNCHANGED <<msg, job, step>>
      BY <1>6 DEF StartConsuming, NoticeClose, Reconnect, Terminate
    <2> QED
      BY <1>1, <1>2, <2>1 DEF PipelineInv, Traceless, HandlerInv, SettledHasVerdict
  <1> QED
    BY <1>3, <1>4, <1>5, <1>6 DEF ConsumerStep

(* What a stream's reader is told after one of the log calls. *)
LEMMA StreamFirst ==
  ASSUME NEW l \in Streams, NEW s \in Verdicts \cup {None}
  PROVE  /\ Expired(l).first = l.first
         /\ Appended(l, s).first \in {l.first, s}
         /\ Appended(Expired(l), s).first \in {l.first, s}
         /\ Expired(Appended(l, s)).first \in {l.first, s}
  BY DEF Streams, Appended, Expired

LEMMA BuildInv ==
  ASSUME TypeInv, PipelineInv, NEW w \in Workers, BuildStep(w)
  PROVE  PipelineInv'
  <1> USE FaultsBounded DEF TypeInv
  <1> DEFINE l == log[job[w]]
  <1>1. job[w] \in Requests /\ job[w] # None /\ rpc[job[w]] # "new"
    BY PipelineAssumption DEF BuildStep, Build, Announce, Finish, FailBuild, HasJob, PipelineInv, Traceless
  <1>2. l \in Streams
    BY <1>1 DEF TypeOK, Streams
  <1>3. UNCHANGED <<rpc, sub, msg, job, rows>>
    BY DEF BuildStep, Build, Announce, Finish, FailBuild, Reached, master, front, registrar
  <1>4. /\ artifacts \subseteq artifacts' /\ artifacts' \subseteq artifacts \cup {job[w]}
        /\ \A r \in Requests : outcome[r] \subseteq outcome'[r]
        /\ \E s \in Steps : step' = [step EXCEPT ![w] = s]
    <2>1. CASE Build(w)
      BY <2>1 DEF Build, CloneAndBuild, ProcessZip, UploadDirectory, Steps
    <2>2. CASE Announce(w)
      BY <2>2 DEF Announce, result, Steps
    <2>3. CASE Finish(w) \/ FailBuild(w)
      <3>1. PICK v \in Verdicts, s \in Steps : Reached(w, v, s)
        BY <2>3 DEF Finish, FailBuild, Verdicts, Steps
      <3>2. \A r \in Requests : outcome[r] \subseteq outcome'[r]
        BY <1>1, <3>1 DEF Reached, TypeOK
      <3> QED
        BY <3>1, <3>2 DEF Reached
    <2> QED
      BY <2>1, <2>2, <2>3 DEF BuildStep
  <1>5. Traceless'
    BY <1>1, <1>3, <1>4 DEF PipelineInv, Traceless
  <1>6. SettledHasVerdict'
    BY <1>3, <1>4 DEF PipelineInv, SettledHasVerdict
  <1>7. RegisteredComplete'
    BY <1>3, <1>4 DEF PipelineInv, RegisteredComplete
  <1>8. ASSUME step'[w] \in {"announce", "finish"} => job[w] \in artifacts',
               step'[w] \in {"ack", "nack"} => outcome'[job[w]] # {}
        PROVE  HandlerInv'
    <2> SUFFICES ASSUME NEW v \in Workers
                 PROVE  /\ step'[v] \in {"announce", "finish"} => job'[v] \in artifacts'
                        /\ step'[v] \in {"ack", "nack"} => outcome'[job'[v]] # {}
      BY DEF HandlerInv
    <2>1. CASE v = w
      BY <1>3, <1>8, <2>1
    <2>2. CASE v # w
      <3>1. step'[v] = step[v] /\ job'[v] = job[v]
        BY <1>3, <1>4, <2>2 DEF TypeOK
      <3>2. step[v] # "idle" => outcome[job[v]] \subseteq outcome'[job[v]]
        BY <1>4 DEF HasJob
      <3> QED
        BY <1>4, <3>1, <3>2 DEF PipelineInv, HandlerInv
    <2> QED
      BY <2>1, <2>2
  <1>9. ASSUME NEW s,
               \A r \in Requests : \/ log'[r].first = log[r].first
                                   \/ r = job[w] /\ log'[r].first = s,
               s # None => s \in outcome'[job[w]] /\ (s = "done" => job[w] \in artifacts')
        PROVE  ReaderToldTruth'
    <2> SUFFICES ASSUME NEW r \in Requests, log'[r].first # None
                 PROVE  log'[r].first \in outcome'[r] /\ (log'[r].first = "done" => r \in artifacts')
      BY DEF ReaderToldTruth, HandleBuildLogs
    <2>1. CASE log'[r].first = log[r].first
      <3>1. log[r].first \in outcome[r] /\ (log[r].first = "done" => r \in artifacts)
        BY <2>1 DEF PipelineInv, ReaderToldTruth, HandleBuildLogs
      <3> QED
        BY <1>4, <2>1, <3>1
    <2>2. CASE r = job[w] /\ log'[r].first = s
      BY <1>9, <2>2
    <2> QED
      BY <1>9, <2>1, <2>2
  <1>10. CASE Build(w)
    <2>1. step'[w] \in {"announce", "finish", "fail"} /\ (step'[w] # "fail" => job[w] \in artifacts')
      <3>1. step \in [Workers -> Steps]
        BY DEF TypeOK
      <3>2. \/ step' = [step EXCEPT ![w] = "fail"]
            \/ /\ job[w] \in artifacts'
               /\ step' = [step EXCEPT ![w] = "finish"] \/ step' = [step EXCEPT ![w] = "announce"]
        BY <1>10 DEF Build, CloneAndBuild, ProcessZip, UploadDirectory
      <3> QED
        BY <3>1, <3>2
    <2>2. Appended(l, None).first \in {l.first, None}
      BY <1>2, StreamFirst
    <2>3. \A r \in Requests : log'[r].first = log[r].first \/ (r = job[w] /\ log'[r].first = None)
      <3>1. PICK m \in {Appended(l, None)} \cup {l} : log' = [log EXCEPT ![job[w]] = m]
        BY <1>10 DEF Build, Logged
      <3>2. m.first \in {l.first, None}
        BY <2>2
      <3>3. \A r \in Requests : log'[r] = IF r = job[w] THEN m ELSE log[r]
        BY <3>1 DEF TypeOK
      <3> QED
        BY <1>1, <3>2, <3>3
    <2>4. HandlerInv'
      BY <1>8, <2>1
    <2>5. ReaderToldTruth'
      BY <1>9, <2>3
    <2> QED
      BY <1>5, <1>6, <1>7, <2>4, <2>5 DEF PipelineInv
  <1>11. CASE Announce(w)
    <2>1. step[w] = "announce" /\ step'[w] = "finish" /\ UNCHANGED result
      BY <1>11 DEF Announce, TypeOK
    <2>2. HandlerInv'
      BY <1>4, <1>8, <2>1 DEF PipelineInv, HandlerInv
    <2>3. ReaderToldTruth'
      BY <2>1 DEF PipelineInv, ReaderToldTruth, HandleBuildLogs, result
    <2> QED
      BY <1>5, <1>6, <1>7, <2>2, <2>3 DEF PipelineInv
  <1>12. CASE Finish(w)
    <2>1. /\ step[w] = "finish" /\ step'[w] = "ack" /\ "done" \in outcome'[job[w]]
          /\ job[w] \in artifacts'
      BY <1>1, <1>4, <1>12 DEF Finish, Reached, TypeOK, PipelineInv, HandlerInv
    <2>2. /\ Expired(l).first \in {l.first, "done"} /\ Appended(l, "done").first \in {l.first, "done"}
          /\ Appended(Expired(l), "done").first \in {l.first, "done"}
      BY <1>2, StreamFirst DEF Verdicts
    <2>3. \A r \in Requests : log'[r].first = log[r].first \/ (r = job[w] /\ log'[r].first = "done")
      <3>1. PICK m \in {Appended(Expired(l), "done")} \cup {l, Expired(l), Appended(l, "done")} : log' = [log EXCEPT ![job[w]] = m]
        BY <1>12 DEF Finish, Logged
      <3>2. m.first \in {l.first, "done"}
        BY <2>2
      <3>3. \A r \in Requests : log'[r] = IF r = job[w] THEN m ELSE log[r]
        BY <3>1 DEF TypeOK
      <3> QED
        BY <1>1, <3>2, <3>3
    <2>4. HandlerInv'
      BY <1>8, <2>1
    <2>5. ReaderToldTruth'
      BY <1>9, <2>1, <2>3
    <2> QED
      BY <1>5, <1>6, <1>7, <2>4, <2>5 DEF PipelineInv
  <1>13. CASE FailBuild(w)
    <2>1. step'[w] = "nack" /\ "failed" \in outcome'[job[w]]
      BY <1>1, <1>13 DEF FailBuild, Reached, TypeOK
    <2>2. /\ Expired(l).first \in {l.first, "failed"} /\ Appended(l, "failed").first \in {l.first, "failed"}
          /\ Expired(Appended(l, "failed")).first \in {l.first, "failed"}
      BY <1>2, StreamFirst DEF Verdicts
    <2>3. \A r \in Requests : log'[r].first = log[r].first \/ (r = job[w] /\ log'[r].first = "failed")
      <3>1. PICK m \in {Expired(Appended(l, "failed"))} \cup {l, Expired(l), Appended(l, "failed")} : log' = [log EXCEPT ![job[w]] = m]
        BY <1>13 DEF FailBuild, Logged
      <3>2. m.first \in {l.first, "failed"}
        BY <2>2
      <3>3. \A r \in Requests : log'[r] = IF r = job[w] THEN m ELSE log[r]
        BY <3>1 DEF TypeOK
      <3> QED
        BY <1>1, <3>2, <3>3
    <2>4. HandlerInv'
      BY <1>8, <2>1
    <2>5. ReaderToldTruth'
      BY <1>9, <2>1, <2>3
    <2> QED
      BY <1>5, <1>6, <1>7, <2>4, <2>5 DEF PipelineInv
  <1> QED
    BY <1>10, <1>11, <1>12, <1>13 DEF BuildStep

(* The registration consumer stores a row only for a complete result under a *)
(* free name.                                                                *)
LEMMA RegInv ==
  ASSUME TypeInv, PipelineInv,
         ReconnectLoop \/ RegStep \/ PublisherDrops \/ RegLoseConnection \/ RegRestart
  PROVE  PipelineInv'
  <1> USE FaultsBounded DEF TypeInv
  <1>1. UNCHANGED <<rpc, sub, msg, step, job, artifacts, log, outcome>>
    BY DEF ReconnectLoop, RegStep, RegHandle, RegDeliver, PublisherDrops, RegLoseConnection, RegRestart,
           master, front, worker, result
  <1>2. Traceless' /\ HandlerInv' /\ SettledHasVerdict' /\ ReaderToldTruth'
    BY <1>1 DEF PipelineInv, Traceless, HandlerInv, SettledHasVerdict, ReaderToldTruth, HandleBuildLogs
  <1>3. rows' = rows \/ (regJob \in artifacts /\ ~NameTaken(regJob) /\ rows' = rows \cup {regJob})
    BY DEF ReconnectLoop, RegStep, RegHandle, RegDeliver, PublisherDrops, RegLoseConnection, RegRestart,
           Registered, registrar
  <1>4. RegisteredComplete'
    BY <1>1, <1>3 DEF PipelineInv, RegisteredComplete, NameTaken
  <1> QED
    BY <1>2, <1>4 DEF PipelineInv

LEMMA PipelineInvariant == Spec => []PipelineInv
  <1>1. Init => PipelineInv
    <2> SUFFICES ASSUME Init PROVE PipelineInv
      OBVIOUS
    <2>1. Traceless /\ HandlerInv /\ RegisteredComplete
      BY DEF Init, Traceless, HandlerInv, RegisteredComplete
    <2>2. SettledHasVerdict /\ ReaderToldTruth
      BY DEF Init, SettledHasVerdict, ReaderToldTruth, HandleBuildLogs, NoStream
    <2> QED
      BY <2>1, <2>2 DEF PipelineInv
  <1>2. TypeInv /\ PipelineInv /\ [Next]_vars => PipelineInv'
    <2> SUFFICES ASSUME TypeInv, PipelineInv, [Next]_vars PROVE PipelineInv'
      OBVIOUS
    <2>1. CASE UNCHANGED vars
      BY <2>1 DEF PipelineInv, Traceless, HandlerInv, SettledHasVerdict, ReaderToldTruth,
                  HandleBuildLogs, RegisteredComplete, vars, master, front, worker, result, registrar
    <2> QED
      BY <2>1, MasterInv, ConsumerInv, BuildInv, RegInv DEF Next, Infrastructure
  <1> QED
    BY <1>1, <1>2, TypeCorrect, PTL DEF Spec

(* No accepted job is lost by Ack or Nack: for any number of crashes, lost   *)
(* connections and redeliveries a message leaves the queue only after a      *)
(* handler of the job has decided.                                           *)
THEOREM JobsJudged == Spec => []SettledHasVerdict
  BY PipelineInvariant, PTL DEF PipelineInv

(* However the deliveries of a job overlap, HandleBuildLogs tells its reader *)
(* only what a delivery decided, and success only when the result is stored. *)
THEOREM LogTruthful == Spec => []ReaderToldTruth
  BY PipelineInvariant, PTL DEF PipelineInv

(* Whatever order events come in and however often, a registered function    *)
(* has its complete code in S3, and no two have one name.                    *)
THEOREM RegistryComplete == Spec => []RegisteredComplete
  BY PipelineInvariant, PTL DEF PipelineInv

-----------------------------------------------------------------------------
(* The log calls never take a stream or its TTL away. *)
Sound(l) == l \in Streams /\ (l.ttl => l.exists)
Grows(l, m) == Sound(m) /\ (l.exists => m.exists) /\ (l.ttl => m.ttl)

LEMMA StreamGrows ==
  ASSUME NEW l, Sound(l), NEW s \in Verdicts \cup {None}
  PROVE  /\ Grows(l, l) /\ Grows(l, Expired(l)) /\ Grows(l, Appended(l, s))
         /\ Grows(l, Appended(Expired(l), s)) /\ Grows(l, Expired(Appended(l, s)))
         /\ Appended(l, s).exists
         /\ l.exists => Appended(Expired(l), s).ttl
         /\ Expired(Appended(l, s)).ttl
  BY DEF Streams, Appended, Expired, Sound, Grows

(* Whoever is about to set a stream's TTL has written to it, and whoever is  *)
(* about to settle a job has set it, unless a call was not executed.         *)
LogInv ==
  /\ \A r \in Requests : Sound(log[r])
  /\ \A w \in Workers :
       /\ step[w] \in {"announce", "finish"} => log[job[w]].exists \/ job[w] \in hurt
       /\ step[w] \in {"ack", "nack"} => log[job[w]].ttl \/ job[w] \in hurt
  /\ LogReclaimed

(* The stream of the handler's job becomes m, which the next step relies on. *)
Written(w, m) ==
  /\ log' = [log EXCEPT ![job[w]] = m] /\ Grows(log[job[w]], m)
  /\ step'[w] \in {"announce", "finish"} => m.exists \/ job[w] \in hurt'
  /\ step'[w] \in {"ack", "nack"} => m.ttl \/ job[w] \in hurt'

(* A handler's step, as far as the logs see it. *)
LEMMA LogWritten ==
  ASSUME TypeInv, LogInv, NEW w \in Workers, BuildStep(w)
  PROVE  /\ UNCHANGED <<msg, job>> /\ hurt \subseteq hurt' /\ job[w] \in Requests
         /\ \E p : step' = [step EXCEPT ![w] = p]
         /\ \E m : Written(w, m)
  <1> DEFINE l == log[job[w]]
  <1>1. job[w] \in Requests
    BY DEF TypeInv, HasJob, BuildStep, Build, Announce, Finish, FailBuild
  <1>2. Sound(l)
    BY <1>1 DEF LogInv
  <1>3. UNCHANGED <<msg, job>> /\ hurt \subseteq hurt'
    BY DEF BuildStep, Build, Announce, Finish, FailBuild, Reached, Logged, result
  <1>4. \E p : step' = [step EXCEPT ![w] = p]
    BY DEF BuildStep, Build, CloneAndBuild, ProcessZip, Announce, Finish, FailBuild, Reached
  <1>5. CASE Build(w)
    <2>1. \/ log' = [log EXCEPT ![job[w]] = Appended(l, None)]
          \/ log' = [log EXCEPT ![job[w]] = l] /\ job[w] \in hurt'
      BY <1>5 DEF Build, Logged
    <2>2. step'[w] \notin {"ack", "nack"}
      <3>1. \E p \in {"announce", "finish", "fail"} : step' = [step EXCEPT ![w] = p]
        BY <1>5 DEF Build, CloneAndBuild, ProcessZip
      <3> QED
        BY <3>1 DEF TypeInv, TypeOK
    <2>3. Grows(l, Appended(l, None)) /\ Appended(l, None).exists /\ Grows(l, l)
      BY <1>2, StreamGrows
    <2> QED
      BY <1>1, <1>3, <1>4, <2>1, <2>2, <2>3 DEF Written
  <1>6. CASE Announce(w)
    <2>1. step[w] = "announce" /\ step'[w] = "finish" /\ UNCHANGED <<log, hurt>>
      BY <1>6 DEF Announce, TypeInv, TypeOK, result
    <2>2. log' = [log EXCEPT ![job[w]] = l]
      BY <2>1 DEF TypeInv, TypeOK
    <2>3. Grows(l, l)
      BY <1>2, StreamGrows
    <2>4. l.exists \/ job[w] \in hurt'
      BY <2>1 DEF LogInv
    <2> QED
      BY <1>1, <1>3, <1>4, <2>1, <2>2, <2>3, <2>4 DEF Written
  <1>7. CASE Finish(w)
    <2> DEFINE full == Appended(Expired(l), "done")
    <2>1. \/ log' = [log EXCEPT ![job[w]] = full]
          \/ \E m \in {l, Expired(l), Appended(l, "done")} :
               log' = [log EXCEPT ![job[w]] = m] /\ job[w] \in hurt'
      BY <1>7 DEF Finish, Logged
    <2>2. step[w] = "finish" /\ step'[w] = "ack"
      BY <1>7 DEF Finish, Reached, TypeInv, TypeOK
    <2>3. /\ Grows(l, full) /\ (l.exists => full.ttl)
          /\ \A m \in {l, Expired(l), Appended(l, "done")} : Grows(l, m)
      BY <1>2, StreamGrows DEF Verdicts
    <2>4. l.exists \/ job[w] \in hurt'
      BY <1>3, <2>2 DEF LogInv
    <2> HIDE DEF full
    <2> QED
      BY <1>1, <1>3, <1>4, <2>1, <2>2, <2>3, <2>4 DEF Written
  <1>8. CASE FailBuild(w)
    <2> DEFINE full == Expired(Appended(l, "failed"))
    <2>1. \/ log' = [log EXCEPT ![job[w]] = full]
          \/ \E m \in {l, Expired(l), Appended(l, "failed")} :
               log' = [log EXCEPT ![job[w]] = m] /\ job[w] \in hurt'
      BY <1>8 DEF FailBuild, Logged
    <2>2. step'[w] = "nack"
      BY <1>8 DEF FailBuild, Reached, TypeInv, TypeOK
    <2>3. /\ Grows(l, full) /\ full.ttl
          /\ \A m \in {l, Expired(l), Appended(l, "failed")} : Grows(l, m)
      BY <1>2, StreamGrows DEF Verdicts
    <2> HIDE DEF full
    <2> QED
      BY <1>1, <1>3, <1>4, <2>1, <2>2, <2>3 DEF Written
  <1> QED
    BY <1>5, <1>6, <1>7, <1>8 DEF BuildStep

LEMMA LogBuild ==
  ASSUME TypeInv, LogInv, NEW w \in Workers, BuildStep(w) PROVE LogInv'
  <1>1. /\ UNCHANGED <<msg, job>> /\ hurt \subseteq hurt' /\ job[w] \in Requests
        /\ \E p : step' = [step EXCEPT ![w] = p]
    BY LogWritten
  <1>2. PICK m : Written(w, m)
    BY LogWritten
  <1>3. \A r \in Requests : log'[r] = IF r = job[w] THEN m ELSE log[r]
    BY <1>2 DEF Written, TypeInv, TypeOK
  <1>4. \A r \in Requests : /\ Sound(log'[r]) /\ (log[r].exists => log'[r].exists)
                            /\ (log[r].ttl => log'[r].ttl)
    BY <1>2, <1>3 DEF LogInv, Written, Grows
  <1>5. LogReclaimed'
    BY <1>1, <1>4 DEF LogInv, LogReclaimed
  <1>6. ASSUME NEW v \in Workers
        PROVE  /\ step'[v] \in {"announce", "finish"} => log'[job'[v]].exists \/ job'[v] \in hurt'
               /\ step'[v] \in {"ack", "nack"} => log'[job'[v]].ttl \/ job'[v] \in hurt'
    <2>1. CASE v = w
      BY <1>1, <1>2, <1>3, <2>1 DEF Written
    <2>2. CASE v # w
      <3>1. step'[v] = step[v] /\ job'[v] = job[v] /\ (step[v] # "idle" => job[v] \in Requests)
        BY <1>1, <2>2 DEF TypeInv, TypeOK, HasJob
      <3>2. /\ step[v] \in {"announce", "finish"} => log[job[v]].exists \/ job[v] \in hurt
            /\ step[v] \in {"ack", "nack"} => log[job[v]].ttl \/ job[v] \in hurt
        BY DEF LogInv
      <3> QED
        BY <1>1, <1>4, <3>1, <3>2
    <2> QED
      BY <2>1, <2>2
  <1> QED
    BY <1>4, <1>5, <1>6 DEF LogInv

(* The others leave the streams alone; only Settle, after ack or nack, takes *)
(* a message for settled.                                                    *)
LEMMA LogOthers ==
  ASSUME TypeInv, LogInv, [Next]_vars, \A w \in Workers : ~BuildStep(w)
  PROVE  LogInv'
  <1>1. UNCHANGED log /\ hurt \subseteq hurt'
    BY DEF Next, CreateFunction, MasterStep, CheckBuildMetadata, PublishJob, SaveBuildMetadata,
           ConsumerStep, StartConsuming, Deliver, Settle, NoticeClose, Reconnect, ReconnectLoop,
           RegStep, RegHandle, RegDeliver, Infrastructure, LoseConnection, Terminate, Crash,
           PublisherDrops, RegLoseConnection, RegRestart, vars, result
  <1>2. \A v \in Workers : \/ step'[v] = step[v] /\ job'[v] = job[v]
                          \/ step'[v] \in {"idle", "build"}
    <2>1. \/ UNCHANGED <<step, job>>
          \/ \E w \in Workers : \E p \in {"idle", "build"} : \E q :
               step' = [step EXCEPT ![w] = p] /\ job' = [job EXCEPT ![w] = q]
      BY DEF Next, CreateFunction, MasterStep, CheckBuildMetadata, PublishJob, SaveBuildMetadata,
             ConsumerStep, StartConsuming, Deliver, Settle, NoticeClose, Reconnect, ReconnectLoop,
             RegStep, RegHandle, RegDeliver, Infrastructure, LoseConnection, Terminate, Crash,
             PublisherDrops, RegLoseConnection, RegRestart, vars, worker
    <2> QED
      BY <2>1 DEF TypeInv, TypeOK
  <1>3. \A r \in Requests : msg'[r] = "settled" =>
          msg[r] = "settled" \/ \E w \in Workers : step[w] \in {"ack", "nack"} /\ job[w] = r
    <2>1. \/ UNCHANGED msg
          \/ \E r \in Requests, m \in {"ready", "lost"} \cup Workers : msg' = [msg EXCEPT ![r] = m]
          \/ \E w \in Workers : msg' = Requeued(w)
          \/ \E w \in Workers : /\ step[w] \in {"ack", "nack"}
                               /\ msg' = [msg EXCEPT ![job[w]] = IF @ = w THEN "settled" ELSE @]
      <3>1. ASSUME NEW w \in Workers, Settle(w) PROVE <2>1!:
        BY <3>1 DEF Settle
      <3>2. ASSUME NEW w \in Workers, NEW r \in Requests, Deliver(w, r) PROVE <2>1!:
        BY <3>2 DEF Deliver, Unacked
      <3>3. ASSUME NEW w \in Workers, LoseConnection(w) \/ Crash(w) PROVE <2>1!:
        BY <3>3 DEF LoseConnection, Crash
      <3>4. ASSUME NEW r \in Requests, PublishJob(r) PROVE <2>1!:
        BY <3>4 DEF PublishJob, Publish
      <3> QED
        BY <3>1, <3>2, <3>3, <3>4
        DEF Next, CreateFunction, MasterStep, CheckBuildMetadata, SaveBuildMetadata, ConsumerStep,
            StartConsuming, NoticeClose, Reconnect, ReconnectLoop, RegStep, RegHandle, RegDeliver,
            Infrastructure, Terminate, PublisherDrops, RegLoseConnection, RegRestart, vars
    <2>2. "settled" \notin {"ready", "lost"} \cup Workers
      BY PipelineAssumption
    <2>3. ASSUME NEW q \in Requests, NEW m \in {"ready", "lost"} \cup Workers, msg' = [msg EXCEPT ![q] = m],
                 NEW r \in Requests, msg'[r] = "settled"
          PROVE  msg[r] = "settled"
      BY <2>2, <2>3 DEF TypeInv, TypeOK
    <2>4. ASSUME NEW w \in Workers, msg' = Requeued(w), NEW r \in Requests, msg'[r] = "settled"
          PROVE  msg[r] = "settled"
      BY <2>4 DEF Requeued
    <2>5. ASSUME NEW w \in Workers, msg' = [msg EXCEPT ![job[w]] = IF @ = w THEN "settled" ELSE @],
                 NEW r \in Requests, msg'[r] = "settled"
          PROVE  msg[r] = "settled" \/ job[w] = r
      BY <2>5 DEF TypeInv, TypeOK
    <2> QED
      BY <2>1, <2>3, <2>4, <2>5
  <1>4. LogReclaimed'
    BY <1>1, <1>3 DEF LogInv, LogReclaimed
  <1> QED
    BY <1>1, <1>2, <1>4 DEF LogInv

(* Redis gets every stream of a settled job back: for any number of workers  *)
(* and redeliveries, and whichever of them writes last, expireBuildLog has   *)
(* set a TTL that no later call removes.                                     *)
THEOREM LogsReclaimed == Spec => []LogReclaimed
  <1>1. Init => LogInv
    <2> SUFFICES ASSUME Init PROVE LogInv
      OBVIOUS
    <2>1. Sound(NoStream)
      BY DEF Sound, NoStream, Streams
    <2> QED
      BY <2>1 DEF Init, LogInv, LogReclaimed
  <1>2. TypeInv /\ LogInv /\ [Next]_vars => LogInv'
    BY LogBuild, LogOthers
  <1>3. LogInv => LogReclaimed
    BY DEF LogInv
  <1> QED
    BY <1>1, <1>2, <1>3, TypeCorrect, PTL DEF Spec

-----------------------------------------------------------------------------
(* The duplicates *)

(* A request accepted and recorded leaves its record, which nothing removes; *)
(* one that came late finds it before it is accepted.                        *)
Dup(r) ==
  /\ rpc[r] # "new" => sub[r] \in Submissions
  /\ rpc[r] \in {"new", "admitted", "unique"} => resp[r] # 202
  /\ rpc[r] = "end" /\ resp[r] = 202 /\ r \notin hurt => Exists(sub[r])
  /\ r \in late => rpc[r] # "new" /\ Exists(sub[r])
  /\ r \in late \ hurt => rpc[r] \in {"admitted", "end"} /\ resp[r] # 202

DupInv == \A r \in Requests : Dup(r)

(* A step that does nothing for the request, and removes no record. *)
LEMMA DupFrame ==
  ASSUME NEW q \in Requests, Dup(q),
         rpc'[q] = rpc[q], sub'[q] = sub[q], resp'[q] = resp[q], hurt \subseteq hurt',
         q \in late' => q \in late,
         sub[q] \in Submissions /\ Exists(sub[q]) => Exists(sub[q])'
  PROVE  Dup(q)'
  BY DEF Dup, Exists

(* A request that is turned away. *)
LEMMA DupAnswered ==
  ASSUME NEW r \in Requests, sub[r] \in Submissions, UNCHANGED <<sub, late>>,
         rpc'[r] = "end", resp'[r] # 202, r \in late => Exists(sub[r])'
  PROVE  Dup(r)'
  BY DEF Dup, Exists

LEMMA DupCreate ==
  ASSUME TypeInv, DupInv, NEW r \in Requests, CreateFunction(r) PROVE DupInv'
  <1>1. PICK s \in Submissions : /\ sub' = [sub EXCEPT ![r] = s]
                                 /\ late' = IF Recorded(s) THEN late \cup {r} ELSE late
    BY DEF CreateFunction
  <1>2. /\ rpc[r] = "new" /\ UNCHANGED <<metadata, hurt>>
        /\ \E p \in {"admitted", "end"} : rpc' = [rpc EXCEPT ![r] = p]
        /\ resp' = resp \/ \E n \in {500, 503} : resp' = [resp EXCEPT ![r] = n]
    BY DEF CreateFunction, Answer, GoOn, result
  <1>3. /\ sub'[r] = s /\ rpc'[r] \in {"admitted", "end"}
        /\ \A q \in Requests \ {r} : sub'[q] = sub[q] /\ rpc'[q] = rpc[q] /\ resp'[q] = resp[q]
    BY <1>1, <1>2 DEF TypeInv, TypeOK
  <1>4. resp'[r] # 202
    BY <1>2 DEF TypeInv, TypeOK, DupInv, Dup
  <1>5. Recorded(s) => Exists(s)
    BY DEF Recorded, DupInv, Dup
  <1>6. r \in late' => Exists(s)
    BY <1>1, <1>2, <1>5 DEF DupInv, Dup
  <1>7. Dup(r)'
    BY <1>2, <1>3, <1>4, <1>6 DEF Dup, Exists
  <1>8. ASSUME NEW q \in Requests \ {r} PROVE Dup(q)'
    <2>1. Dup(q) /\ (q \in late' => q \in late)
      BY <1>1 DEF DupInv
    <2>2. Exists(sub[q]) => Exists(sub[q])'
      <3>1. sub'[q] = sub[q] /\ metadata' = metadata
        BY <1>3 DEF CreateFunction
      <3> QED
        BY <3>1 DEF Exists
    <2>3. rpc'[q] = rpc[q] /\ sub'[q] = sub[q] /\ resp'[q] = resp[q] /\ hurt \subseteq hurt'
      BY <1>2, <1>3
    <2> QED
      BY <2>1, <2>2, <2>3, DupFrame
  <1> QED
    BY <1>7, <1>8 DEF DupInv

LEMMA DupMaster ==
  ASSUME TypeInv, DupInv, NEW r \in Requests, MasterStep(r) PROVE DupInv'
  <1>1. UNCHANGED <<sub, late>> /\ hurt \subseteq hurt' /\ Dup(r)
    BY DEF MasterStep, CheckBuildMetadata, PublishJob, SaveBuildMetadata, result, DupInv
  <1>2. \A q \in Requests : sub[q] \in Submissions /\ Exists(sub[q]) => Exists(sub[q])'
    <2>1. UNCHANGED metadata \/ (rpc[r] = "queued" /\ metadata' = [metadata EXCEPT ![sub[r]] = r])
      BY DEF MasterStep, CheckBuildMetadata, PublishJob, SaveBuildMetadata, Saved
    <2>2. metadata \in [Submissions -> Requests \cup {None}] /\ None \notin Requests
      BY PipelineAssumption DEF TypeInv, TypeOK
    <2> QED
      BY <1>1, <2>1, <2>2 DEF Exists
  <1>3. ASSUME NEW q \in Requests \ {r} PROVE Dup(q)'
    <2>1. rpc'[q] = rpc[q]
      <3>1. \E p : rpc' = [rpc EXCEPT ![r] = p]
        BY DEF MasterStep, CheckBuildMetadata, PublishJob, SaveBuildMetadata, Answer, GoOn
      <3> QED
        BY <3>1 DEF TypeInv, TypeOK
    <2>2. resp'[q] = resp[q]
      <3>1. CASE CheckBuildMetadata(r)
        BY <3>1 DEF CheckBuildMetadata, Answer, GoOn, TypeInv, TypeOK
      <3>2. CASE PublishJob(r)
        BY <3>2 DEF PublishJob, Answer, TypeInv, TypeOK
      <3>3. CASE SaveBuildMetadata(r)
        BY <3>3 DEF SaveBuildMetadata, GoOn
      <3> QED
        BY <3>1, <3>2, <3>3 DEF MasterStep
    <2>3. Dup(q)
      BY DEF DupInv
    <2> QED
      BY <1>1, <1>2, <2>1, <2>2, <2>3, DupFrame
  <1>4. Dup(r)'
    <2>1. CASE CheckBuildMetadata(r)
      <3>1. rpc[r] = "admitted" /\ UNCHANGED metadata /\ sub[r] \in Submissions /\ resp[r] # 202
        BY <1>1, <2>1 DEF CheckBuildMetadata, Dup
      <3>2. CASE Answer(r, 409)
        <4>1. rpc'[r] = "end" /\ resp'[r] # 202
          BY <3>2 DEF Answer, TypeInv, TypeOK
        <4>2. r \in late => Exists(sub[r])'
          BY <1>1, <1>2, <3>1 DEF Dup
        <4> QED
          BY <1>1, <3>1, <4>1, <4>2, DupAnswered
      <3>3. CASE GoOn(r, "unique") /\ (~Exists(sub[r]) \/ r \in hurt')
        <4>1. rpc'[r] = "unique" /\ resp'[r] = resp[r]
          BY <3>3 DEF GoOn, TypeInv, TypeOK
        <4>2. r \notin late \ hurt'
          BY <1>1, <3>3 DEF Dup
        <4> QED
          BY <1>1, <3>1, <4>1, <4>2 DEF Dup, Exists
      <3> QED
        BY <2>1, <3>2, <3>3 DEF CheckBuildMetadata
    <2>2. CASE PublishJob(r)
      <3>1. rpc[r] = "unique" /\ UNCHANGED <<metadata, hurt>>
        BY <2>2 DEF PublishJob, result
      <3>2. r \notin late \ hurt /\ sub[r] \in Submissions
        BY <1>1, <3>1 DEF Dup
      <3>3. r \in late => Exists(sub[r])'
        BY <1>1, <1>2, <3>2 DEF Dup
      <3>4. CASE rpc' = [rpc EXCEPT ![r] = "queued"]
        <4>1. rpc'[r] = "queued"
          BY <3>4 DEF TypeInv, TypeOK
        <4> QED
          BY <1>1, <3>2, <3>3, <4>1 DEF Dup
      <3>5. CASE Answer(r, 500)
        <4>1. rpc'[r] = "end" /\ resp'[r] # 202
          BY <3>5 DEF Answer, TypeInv, TypeOK
        <4> QED
          BY <1>1, <3>2, <3>3, <4>1, DupAnswered
      <3> QED
        BY <2>2, <3>4, <3>5 DEF PublishJob
    <2>3. CASE SaveBuildMetadata(r)
      <3>1. rpc[r] = "queued" /\ rpc'[r] = "end"
        BY <2>3 DEF SaveBuildMetadata, GoOn, TypeInv, TypeOK
      <3>2. r \notin late \ hurt /\ sub[r] \in Submissions
        BY <1>1, <3>1 DEF Dup
      <3>3. metadata' = Saved(r) \/ r \in hurt'
        BY <2>3 DEF SaveBuildMetadata
      <3>4. metadata' = Saved(r) => Exists(sub[r])'
        <4>1. metadata \in [Submissions -> Requests \cup {None}] /\ None \notin Requests
          BY PipelineAssumption DEF TypeInv, TypeOK
        <4> QED
          BY <1>1, <3>2, <4>1 DEF Saved, Exists
      <3>5. r \in late => Exists(sub[r])'
        BY <1>1, <1>2, <3>2 DEF Dup
      <3> QED
        BY <1>1, <3>1, <3>2, <3>3, <3>4, <3>5 DEF Dup, Exists
    <2> QED
      BY <2>1, <2>2, <2>3 DEF MasterStep
  <1> QED
    BY <1>3, <1>4 DEF DupInv

(* A repeated submission is answered 409: once a request has been accepted   *)
(* and its record written, no number of later ones with the same content is  *)
(* accepted, unless S3 failed the later one's check.                         *)
THEOREM NoLateDuplicates == Spec => []DuplicatesOverlap
  <1>1. Init => DupInv
    <2> SUFFICES ASSUME Init, NEW r \in Requests PROVE Dup(r)
      BY DEF DupInv
    <2>1. rpc[r] = "new" /\ resp[r] # 202 /\ r \notin late
      BY PipelineAssumption DEF Init
    <2> QED
      BY <2>1 DEF Dup
  <1>2. TypeInv /\ DupInv /\ [Next]_vars => DupInv'
    <2> SUFFICES ASSUME TypeInv, DupInv, [Next]_vars,
                        \A r \in Requests : ~CreateFunction(r) /\ ~MasterStep(r)
                 PROVE  DupInv'
      BY DupCreate, DupMaster
    <2>1. UNCHANGED front /\ hurt \subseteq hurt'
      BY DEF Next, ConsumerStep, StartConsuming, Deliver, Settle, NoticeClose, Reconnect, BuildStep, Build,
             Announce, Finish, FailBuild, Reached, Logged, ReconnectLoop, RegStep, RegHandle, RegDeliver,
             Infrastructure, LoseConnection, Terminate, Crash, PublisherDrops, RegLoseConnection,
             RegRestart, vars, master, result
    <2>2. UNCHANGED <<rpc, sub, resp, metadata, late>>
      BY <2>1 DEF front
    <2> QED
      BY <2>1, <2>2, DupFrame DEF DupInv, Exists
  <1>3. TypeInv /\ DupInv => DuplicatesOverlap
    <2> SUFFICES ASSUME TypeInv, DupInv, NEW r \in late \ hurt PROVE resp[r] # 202
      BY DEF DuplicatesOverlap
    <2>1. r \in Requests
      BY DEF TypeInv, TypeOK
    <2>2. Dup(r)
      BY <2>1 DEF DupInv
    <2> QED
      BY <2>2 DEF Dup
  <1> QED
    BY <1>1, <1>2, <1>3, TypeCorrect, PTL DEF Spec
=============================================================================
