---------------------------- MODULE BuildPipeline ----------------------------
(***************************************************************************)
(* From a create-function request to a registered function: the build      *)
(* master (build-service/cmd/master), the build-jobs queue, the workers    *)
(* and their self-reconnecting consumer (cmd/worker, internal/queue), the  *)
(* build log in Redis, and the registration consumer of lambda-service     *)
(* (internal/registration).                                                *)
(*                                                                         *)
(* A request's identifier stands for the job ID and the function ID that   *)
(* the master generates for it.  Builds fail for any reason at any step;   *)
(* what the infrastructure does to the services (dropped connections,      *)
(* crashes, SIGTERM, failing S3, Redis or Postgres calls, publishings lost *)
(* without publisher confirms) is limited to MaxFaults.                    *)
(***************************************************************************)
EXTENDS Naturals, FiniteSets

CONSTANTS Requests,     \* POST /functions calls
          Submissions,  \* what is hashed: [kind : {"zip", "repo"}, name : Names]
          Workers,      \* build worker processes
          Thresholds,   \* queue depths at which backpressure rejects
          MaxFaults,    \* bound on the infrastructure's misbehaviour
          None

Verdicts == {"done", "failed"}

ASSUME PipelineAssumption ==
  /\ Thresholds \subseteq Nat /\ MaxFaults \in Nat
  /\ None \notin Requests /\ None \notin Verdicts /\ None # 202
  /\ Workers \cap {None, "none", "ready", "settled", "lost"} = {}

VARIABLES
  rpc,        \* where handleCreateFunction is, per request
  sub,        \* the submission the request carries
  resp,       \* the status it was answered, or None
  metadata,   \* metadata/<hash>.json: the job recorded for a submission, or None
  packages,   \* requests whose package is in S3
  pub,        \* the master's publisher connection: "up" or "down"
  late,       \* requests that came after the same submission had been accepted
  declared,   \* the build-jobs queue exists at the broker
  msg,        \* the job's message: "none", "ready", a worker, "settled" or "lost"
  link,       \* "up", or "down" once the worker's connection is gone
  cpc,        \* its Consume loop: "start", "consume" or "redial"
  term,       \* SIGTERM has cancelled the worker's context
  step, job,  \* where processBuildJob is, and its job
  artifacts,  \* jobs whose complete result is in S3
  log,        \* the job's Redis stream: exists, has a TTL, first sentinel
  hurt,       \* requests and jobs with an S3 or Redis call that was not executed
  outcome,    \* verdicts the handlers of a job have reached
  announced,  \* jobs whose function.built event has reached its queue
  built,      \* copies of that event in the queue
  reg,        \* the registration consumer: "up" or "down"
  regJob,     \* the event it handles, or None
  rows,       \* functions registered in Postgres
  discarded,  \* events it has nacked because a call failed
  faults

front == <<rpc, sub, resp, metadata, packages, late>>
master == <<front, pub>>
worker == <<link, cpc, term, step, job>>
result == <<artifacts, log, hurt, outcome>>
events == <<announced, built>>
registrar == <<reg, regJob, rows, discarded>>
vars == <<master, declared, msg, worker, result, events, registrar, faults>>

Steps == {"idle", "build", "announce", "finish", "fail", "ack", "nack"}

TypeOK ==
  /\ rpc \in [Requests -> {"new", "admitted", "unique", "queued", "end"}]
  /\ sub \in [Requests -> Submissions \cup {None}]
  /\ resp \in [Requests -> {None, 202, 409, 500, 503}]
  /\ metadata \in [Submissions -> Requests \cup {None}]
  /\ packages \subseteq Requests /\ late \subseteq Requests
  /\ pub \in {"up", "down"} /\ declared \in BOOLEAN
  /\ msg \in [Requests -> {"none", "ready", "settled", "lost"} \cup Workers]
  /\ link \in [Workers -> {"up", "down"}]
  /\ cpc \in [Workers -> {"start", "consume", "redial"}]
  /\ term \in [Workers -> BOOLEAN]
  /\ step \in [Workers -> Steps] /\ job \in [Workers -> Requests \cup {None}]
  /\ artifacts \subseteq Requests
  /\ log \in [Requests -> [exists : BOOLEAN, ttl : BOOLEAN, first : Verdicts \cup {None}]]
  /\ hurt \subseteq Requests /\ outcome \in [Requests -> SUBSET Verdicts]
  /\ announced \subseteq Requests /\ built \in [Requests -> Nat]
  /\ reg \in {"up", "down"} /\ regJob \in Requests \cup {None}
  /\ rows \subseteq Requests /\ discarded \subseteq Requests
  /\ faults \in 0..MaxFaults

NoStream == [exists |-> FALSE, ttl |-> FALSE, first |-> None]

Init ==
  /\ rpc = [r \in Requests |-> "new"] /\ sub = [r \in Requests |-> None]
  /\ resp = [r \in Requests |-> None]
  /\ metadata = [s \in Submissions |-> None] /\ packages = {} /\ late = {}
  /\ pub = "up"
  /\ declared = FALSE /\ msg = [r \in Requests |-> "none"]
  /\ link = [w \in Workers |-> "up"] /\ cpc = [w \in Workers |-> "start"]
  /\ term = [w \in Workers |-> FALSE]
  /\ step = [w \in Workers |-> "idle"] /\ job = [w \in Workers |-> None]
  /\ artifacts = {} /\ log = [r \in Requests |-> NoStream] /\ hurt = {}
  /\ outcome = [r \in Requests |-> {}]
  /\ announced = {} /\ built = [r \in Requests |-> 0]
  /\ reg = "up" /\ regJob = None /\ rows = {} /\ discarded = {}
  /\ faults = 0

Fault == faults < MaxFaults /\ faults' = faults + 1
Fine == UNCHANGED faults

-----------------------------------------------------------------------------
(* The build master *)

GoOn(r, p) == rpc' = [rpc EXCEPT ![r] = p] /\ UNCHANGED resp
Answer(r, status) ==
  rpc' = [rpc EXCEPT ![r] = "end"] /\ resp' = [resp EXCEPT ![r] = status]

(* GetQueueDepth fails on a dead connection, and as long as neither a worker *)
(* nor Publish has declared the queue.                                       *)
Readable == declared /\ pub = "up"

(* QueueDeclarePassive's message count: the messages ready for delivery. *)
GetQueueDepth == Cardinality({r \in Requests : msg[r] = "ready"})

CanAcceptRequest == \A t \in Thresholds : GetQueueDepth < t

(* The submission has been accepted, and the master has done all it does     *)
(* about it.                                                                 *)
Recorded(s) ==
  \E r \in Requests : sub[r] = s /\ rpc[r] = "end" /\ resp[r] = 202 /\ r \notin hurt

(* A request arrives and passes the backpressure check, or is answered 500   *)
(* (the depth cannot be read: no queue yet, or no connection) or 503.        *)
CreateFunction(r) ==
  /\ rpc[r] = "new"
  /\ \E s \in Submissions :
       /\ sub' = [sub EXCEPT ![r] = s]
       /\ late' = IF Recorded(s) THEN late \cup {r} ELSE late
  /\ \/ ~Readable /\ Answer(r, 500)
     \/ Readable /\ CanAcceptRequest /\ GoOn(r, "admitted")
     \/ Readable /\ ~CanAcceptRequest /\ Answer(r, 503)
  /\ UNCHANGED <<metadata, packages, pub, declared, msg, worker, result, events, registrar,
                 faults>>

(* metadata/<hash>.json is in S3. *)
Exists(s) == metadata[s] # None

(* Any failure to read the record counts as "not found". *)
CheckBuildMetadata(r) ==
  /\ rpc[r] = "admitted"
  /\ \/ Exists(sub[r]) /\ Answer(r, 409) /\ Fine /\ UNCHANGED hurt
     \/ ~Exists(sub[r]) /\ GoOn(r, "unique") /\ Fine /\ UNCHANGED hurt
     \/ GoOn(r, "unique") /\ Fault /\ hurt' = hurt \cup {r}
  /\ UNCHANGED <<sub, metadata, packages, late, pub, declared, msg, worker, artifacts, log, outcome,
                 events, registrar>>

Zipped(r) == IF sub[r].kind = "zip" THEN {r} ELSE {}

UploadPackage(r) == packages' = packages \cup Zipped(r)

(* Without publisher confirms a connection that breaks now loses the message *)
(* after Publish has returned.                                               *)
Publish(r) ==
  /\ pub = "up"
  /\ \/ msg' = [msg EXCEPT ![r] = "ready"] /\ Fine /\ UNCHANGED pub
     \/ msg' = [msg EXCEPT ![r] = "lost"] /\ Fault /\ pub' = "down"

(* The package goes to S3 and the job to the queue.  202 is answered before  *)
(* the record is written.                                                    *)
PublishJob(r) ==
  /\ rpc[r] = "unique"
  /\ \/ Answer(r, 500) /\ Fault /\ UNCHANGED <<packages, msg, pub>>
     \/ /\ UploadPackage(r)
        /\ \/ pub = "down" /\ Answer(r, 500) /\ Fine /\ UNCHANGED <<msg, pub>>
           \/ /\ Publish(r)
              /\ rpc' = [rpc EXCEPT ![r] = "queued"] /\ resp' = [resp EXCEPT ![r] = 202]
  /\ UNCHANGED <<sub, metadata, late, declared, worker, result, events, registrar>>

(* Mutant of SaveBuildMetadata: the record is not written. *)
SaveBuildMetadataSkipped(r) ==
  /\ rpc[r] = "queued" /\ GoOn(r, "end") /\ Fine
  /\ UNCHANGED <<sub, metadata, packages, late, pub, declared, msg, worker, result, events, registrar>>

Saved(r) == [metadata EXCEPT ![sub[r]] = r]

(* After the answer: the record for later requests with the same content.    *)
(* If it is not written, the failure is logged.                              *)
SaveBuildMetadata(r) ==
  /\ rpc[r] = "queued" /\ GoOn(r, "end")
  /\ \/ metadata' = Saved(r) /\ Fine /\ UNCHANGED hurt
     \/ UNCHANGED metadata /\ Fault /\ hurt' = hurt \cup {r}
  /\ UNCHANGED <<sub, packages, late, pub, declared, msg, worker, artifacts, log, outcome, events,
                 registrar>>

(* The publisher's connection breaks; reconnectLoop redials until it has one. *)
PublisherDrops ==
  /\ pub = "up" /\ Fault /\ pub' = "down"
  /\ UNCHANGED <<front, declared, msg, worker, result, events, registrar>>

ReconnectLoop ==
  /\ pub = "down" /\ pub' = "up"
  /\ UNCHANGED <<front, declared, msg, worker, result, events, registrar, faults>>

-----------------------------------------------------------------------------
(* The worker's consumer *)

(* On a connection that is gone startConsuming fails; Consume backs off and  *)
(* calls it again on the same channel, which changes nothing.                *)
StartConsuming(w) ==
  /\ cpc[w] = "start" /\ link[w] = "up"
  /\ cpc' = [cpc EXCEPT ![w] = "consume"] /\ declared' = TRUE
  /\ UNCHANGED <<master, msg, link, term, step, job, result, events, registrar, faults>>

(* Mutant of Unacked: deliveries are acknowledged as they arrive. *)
AutoAck(w) == "settled"

(* The message of a delivery that is neither acked nor nacked yet. *)
Unacked(w) == w

(* Prefetch 1: processMessages takes the next delivery when it has settled   *)
(* the one before; processBuildJob begins.                                   *)
Deliver(w, r) ==
  /\ cpc[w] = "consume" /\ link[w] = "up" /\ step[w] = "idle"
  /\ msg[r] = "ready"
  /\ msg' = [msg EXCEPT ![r] = Unacked(w)]
  /\ job' = [job EXCEPT ![w] = r]
  /\ step' = [step EXCEPT ![w] = "build"]
  /\ UNCHANGED <<master, declared, link, cpc, term, result, events, registrar, faults>>

(* Mutant of Settle: a failed build is requeued. *)
SettleRequeues(w) ==
  /\ step[w] \in {"ack", "nack"}
  /\ msg' = [msg EXCEPT ![job[w]] =
                IF @ # w THEN @ ELSE IF step[w] = "ack" THEN "settled" ELSE "ready"]
  /\ step' = [step EXCEPT ![w] = "idle"] /\ job' = [job EXCEPT ![w] = None]
  /\ UNCHANGED <<master, declared, link, cpc, term, result, events, registrar, faults>>

(* Ack, or Nack without requeue; neither has an effect once the connection   *)
(* that delivered the message is gone.                                       *)
Settle(w) ==
  /\ step[w] \in {"ack", "nack"}
  /\ msg' = [msg EXCEPT ![job[w]] = IF @ = w THEN "settled" ELSE @]
  /\ step' = [step EXCEPT ![w] = "idle"] /\ job' = [job EXCEPT ![w] = None]
  /\ UNCHANGED <<master, declared, link, cpc, term, result, events, registrar, faults>>

(* The broker requeues what a lost connection had not acknowledged. *)
Requeued(w) == [r \in Requests |-> IF msg[r] = w THEN "ready" ELSE msg[r]]

LoseConnection(w) ==
  /\ link[w] = "up" /\ Fault
  /\ link' = [link EXCEPT ![w] = "down"] /\ msg' = Requeued(w)
  /\ UNCHANGED <<master, declared, cpc, term, step, job, result, events, registrar>>

(* processMessages returns when its handler has, and reconnect is called. *)
NoticeClose(w) ==
  /\ cpc[w] = "consume" /\ link[w] = "down" /\ step[w] = "idle"
  /\ cpc' = [cpc EXCEPT ![w] = "redial"]
  /\ UNCHANGED <<master, declared, msg, link, term, step, job, result, events, registrar, faults>>

Reconnect(w) ==
  /\ cpc[w] = "redial"
  /\ cpc' = [cpc EXCEPT ![w] = "start"] /\ link' = [link EXCEPT ![w] = "up"]
  /\ UNCHANGED <<master, declared, msg, term, step, job, result, events, registrar, faults>>

(* SIGTERM cancels the context of the builds; Consume goes on. *)
Terminate(w) ==
  /\ ~term[w] /\ Fault /\ term' = [term EXCEPT ![w] = TRUE]
  /\ UNCHANGED <<master, declared, msg, link, cpc, step, job, result, events, registrar>>

(* The process dies and is started again. *)
Crash(w) ==
  /\ Fault
  /\ msg' = Requeued(w)
  /\ link' = [link EXCEPT ![w] = "up"] /\ cpc' = [cpc EXCEPT ![w] = "start"]
  /\ term' = [term EXCEPT ![w] = FALSE]
  /\ step' = [step EXCEPT ![w] = "idle"] /\ job' = [job EXCEPT ![w] = None]
  /\ UNCHANGED <<master, declared, result, events, registrar>>

-----------------------------------------------------------------------------
(* processBuildJob *)

(* A Redis, S3 or broker call of the build that is not executed: its context *)
(* is cancelled, or the service does not answer.                             *)
Refused(w) == (term[w] /\ Fine) \/ Fault

Appended(l, sentinel) ==
  [l EXCEPT !.exists = TRUE, !.first = IF @ = None THEN sentinel ELSE @]

(* EXPIRE on a key that does not exist does nothing. *)
Expired(l) == [l EXCEPT !.ttl = l.exists]

(* The log calls of a step: with all of them executed the stream is `full`,  *)
(* otherwise one of `part`.                                                  *)
Logged(w, full, part) ==
  \/ ~term[w] /\ log' = [log EXCEPT ![job[w]] = full] /\ Fine /\ UNCHANGED hurt
  \/ \E l \in part : /\ log' = [log EXCEPT ![job[w]] = l]
                     /\ Refused(w) /\ hurt' = hurt \cup {job[w]}

DownloadPackage(r) == Zipped(r) \subseteq packages

(* UploadDirectory stops at the first file that fails, which leaves an       *)
(* incomplete result; here it has stored them all.                           *)
UploadDirectory(r) == artifacts' = artifacts \cup {r}

(* The repository is cloned and built, the image pushed, its URI stored. *)
CloneAndBuild(w) ==
  /\ sub[job[w]].kind = "repo" /\ artifacts' = artifacts \cup {job[w]}
  /\ step' = [step EXCEPT ![w] = "finish"]

(* The package is downloaded, validated and extracted, its files uploaded.   *)
(* Only this branch announces the function.                                  *)
ProcessZip(w) ==
  /\ sub[job[w]].kind = "zip" /\ DownloadPackage(job[w]) /\ UploadDirectory(job[w])
  /\ step' = [step EXCEPT ![w] = "announce"]

(* Mutant of Build: an upload that stopped halfway is announced all the same. *)
BuildGoesOn(w) ==
  /\ step[w] = "build"
  /\ Logged(w, Appended(log[job[w]], None), {log[job[w]]})
  /\ step' = [step EXCEPT ![w] = "announce"]
  /\ artifacts' \in {artifacts, artifacts \cup {job[w]}}
  /\ UNCHANGED <<master, declared, msg, link, cpc, term, job, outcome, events, registrar>>

(* Both branches may fail at each of their calls, and with a cancelled       *)
(* context they do.                                                          *)
Build(w) ==
  /\ step[w] = "build"
  /\ Logged(w, Appended(log[job[w]], None), {log[job[w]]})
  /\ \/ ~term[w] /\ (CloneAndBuild(w) \/ ProcessZip(w))
     \/ step' = [step EXCEPT ![w] = "fail"] /\ UNCHANGED artifacts
  /\ UNCHANGED <<master, declared, msg, link, cpc, term, job, outcome, events, registrar>>

(* The function.built event; a failure to publish it is only logged. *)
Announce(w) ==
  /\ step[w] = "announce" /\ step' = [step EXCEPT ![w] = "finish"]
  /\ \/ /\ built' = [built EXCEPT ![job[w]] = @ + 1]
        /\ announced' = announced \cup {job[w]} /\ Fine
     \/ Refused(w) /\ UNCHANGED events
  /\ UNCHANGED <<master, declared, msg, link, cpc, term, job, result, registrar>>

Reached(w, verdict, next) ==
  /\ outcome' = [outcome EXCEPT ![job[w]] = @ \cup {verdict}]
  /\ step' = [step EXCEPT ![w] = next]
  /\ UNCHANGED <<master, declared, msg, link, cpc, term, job, artifacts, events, registrar>>

(* expireBuildLog, then the final line *)
Finish(w) ==
  LET l == log[job[w]] IN
  /\ step[w] = "finish"
  /\ Logged(w, Appended(Expired(l), "done"), {l, Expired(l), Appended(l, "done")})
  /\ Reached(w, "done", "ack")

(* Mutant of FailBuild: the failed build's log gets no TTL. *)
FailBuildKeepsLog(w) ==
  LET l == log[job[w]] IN
  /\ step[w] = "fail"
  /\ Logged(w, Appended(l, "failed"), {l})
  /\ Reached(w, "failed", "nack")

FailBuild(w) ==
  LET l == log[job[w]] IN
  /\ step[w] = "fail"
  /\ Logged(w, Expired(Appended(l, "failed")), {l, Expired(l), Appended(l, "failed")})
  /\ Reached(w, "failed", "nack")

-----------------------------------------------------------------------------
(* The registration consumer *)

(* Mutant of RegDeliver: an event is handled again after it was settled. *)
RegDeliverAgain(r) ==
  /\ reg = "up" /\ regJob = None /\ r \in announced
  /\ built' = [built EXCEPT ![r] = @ - 1] /\ regJob' = r
  /\ UNCHANGED <<master, declared, msg, worker, result, announced, reg, rows, discarded, faults>>

RegDeliver(r) ==
  /\ reg = "up" /\ regJob = None /\ built[r] > 0
  /\ built' = [built EXCEPT ![r] = @ - 1] /\ regJob' = r
  /\ UNCHANGED <<master, declared, msg, worker, result, announced, reg, rows, discarded, faults>>

(* functions.name is UNIQUE: a row of another function has the name. *)
NameTaken(r) ==
  \E q \in rows \ {r} : sub[q].name = sub[r].name

(* Mutant of Registered: a row whose name exists is replaced. *)
RegisteredAnyway(r) == rows \cup {r}

(* repo.Save, an upsert on the function's ID *)
Registered(r) == IF NameTaken(r) THEN rows ELSE rows \cup {r}

(* handle, then Ack, or Nack without requeue *)
RegHandle ==
  /\ regJob # None /\ regJob' = None
  /\ \/ regJob \in artifacts /\ rows' = Registered(regJob) /\ Fine /\ UNCHANGED discarded
     \/ /\ (regJob \notin artifacts /\ Fine) \/ Fault
        /\ discarded' = discarded \cup {regJob} /\ UNCHANGED rows
  /\ UNCHANGED <<master, declared, msg, worker, result, events, reg>>

(* Mutant of RegLoseConnection: what was being handled is not requeued. *)
RegLoseDelivery ==
  /\ reg = "up" /\ Fault /\ reg' = "down"
  /\ UNCHANGED <<master, declared, msg, worker, result, events, regJob, rows, discarded>>

(* The delivery channel closes: Start returns once its handler has, and      *)
(* nothing calls it again.                                                   *)
RegLoseConnection ==
  /\ reg = "up" /\ Fault /\ reg' = "down"
  /\ built' = IF regJob = None THEN built ELSE [built EXCEPT ![regJob] = @ + 1]
  /\ UNCHANGED <<master, declared, msg, worker, result, announced, regJob, rows, discarded>>

(* lambda-service is started again. *)
RegRestart ==
  /\ reg = "down" /\ reg' = "up" /\ regJob' = None
  /\ UNCHANGED <<master, declared, msg, worker, result, events, rows, discarded, faults>>

-----------------------------------------------------------------------------
MasterStep(r) ==
  CheckBuildMetadata(r) \/ PublishJob(r) \/ SaveBuildMetadata(r)

ConsumerStep(w) ==
  \/ StartConsuming(w) \/ (\E r \in Requests : Deliver(w, r)) \/ Settle(w)
  \/ NoticeClose(w) \/ Reconnect(w)

BuildStep(w) == Build(w) \/ Announce(w) \/ Finish(w) \/ FailBuild(w)

RegStep == RegHandle \/ \E r \in Requests : RegDeliver(r)

Infrastructure ==
  \/ \E w \in Workers : LoseConnection(w) \/ Terminate(w) \/ Crash(w)
  \/ PublisherDrops \/ RegLoseConnection \/ RegRestart

Next ==
  \/ \E r \in Requests : CreateFunction(r) \/ MasterStep(r)
  \/ \E w \in Workers : ConsumerStep(w) \/ BuildStep(w)
  \/ ReconnectLoop \/ RegStep
  \/ Infrastructure

Spec == Init /\ [][Next]_vars

(* The goroutines of the services run; nothing obliges the infrastructure to *)
(* restart what has stopped.                                                 *)
FairSpec ==
  /\ Spec
  /\ \A w \in Workers : WF_vars(ConsumerStep(w) \/ BuildStep(w))
  /\ WF_vars(RegStep)

-----------------------------------------------------------------------------
(* Properties *)

(* Every accepted job is built to a verdict: its message leaves the queue    *)
(* only after a handler has decided "done" or "failed", whatever crashes,    *)
(* redeliveries and reconnects happen in between.                            *)
SettledHasVerdict == \A r \in Requests : msg[r] = "settled" => outcome[r] # {}

(* What a log reader (HandleBuildLogs) is told, the first sentinel in the    *)
(* stream, is what some delivery of the job decided, and "done" is told only *)
(* when the complete result is in S3.                                        *)
HandleBuildLogs(r) == log[r].first
ReaderToldTruth ==
  \A r \in Requests :
    HandleBuildLogs(r) # None =>
      /\ HandleBuildLogs(r) \in outcome[r]
      /\ HandleBuildLogs(r) = "done" => r \in artifacts

(* The log stream of a settled job has a TTL, whichever deliveries of the    *)
(* job have written to it in whichever order, unless one of the job's calls  *)
(* to Redis was not executed.                                                *)
LogReclaimed ==
  \A r \in Requests : msg[r] = "settled" => log[r].ttl \/ r \in hurt

(* A build once accepted and recorded is not accepted again: a later request *)
(* with the same name, runtime and content is never answered 202, unless S3  *)
(* failed it.  Two builds of one submission come from overlapping requests.  *)
DuplicatesOverlap == \A r \in late \ hurt : resp[r] # 202

(* Registered functions have their complete code in S3 and unique names,     *)
(* although events are duplicated and arrive in any order.                   *)
RegisteredComplete ==
  /\ rows \subseteq artifacts
  /\ \A r, q \in rows : sub[r].name = sub[q].name => r = q

Stuck(w) == cpc[w] = "start" /\ link[w] = "down"

(* The queue drains: whatever the infrastructure does in its bounded number  *)
(* of faults, no job stays queued or unacknowledged for ever, unless every   *)
(* worker is retrying on a dead channel (see Resumes).                       *)
JobsSettle ==
  []<>((\A r \in Requests : msg[r] \in {"none", "settled", "lost"})
       \/ \A w \in Workers : Stuck(w))

(* A built function becomes a registered one once its event is queued,       *)
(* unless the registration consumer has stopped, another function has its    *)
(* name, or a failed call has made the consumer discard the event.           *)
BuiltRegistered ==
  []<>(\A r \in announced : r \in rows \/ reg = "down" \/ NameTaken(r) \/ r \in discarded)

(* queue/rabbitmq.go:297: "It blocks until the consumer is closed (via       *)
(* Close), automatically reconnecting to RabbitMQ and resuming message       *)
(* processing whenever the connection drops."                                *)
Resumes == \A w \in Workers : link[w] = "down" ~> cpc[w] = "consume" /\ link[w] = "up"
=============================================================================
