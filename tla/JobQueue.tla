------------------------------ MODULE JobQueue ------------------------------
(***************************************************************************)
(* Background mail: services/BullMQService.ts (adding, working, replaying  *)
(* and retrying jobs, their log in the database, shutting down) with       *)
(* services/MailService.ts as the producer and the processor of its queue. *)
(*                                                                         *)
(* What BullMQ keeps in Redis is external, and modelled from how the code  *)
(* uses it: a job is done by one worker at a time; a failed attempt is     *)
(* retried after a delay until `attempts` are made; a job whose worker     *)
(* vanished is given to another worker, a bounded number of times.         *)
(* Every write of the log may fail, which the code only prints.            *)
(***************************************************************************)
EXTENDS Naturals, FiniteSets

CONSTANTS
    Jobs,           \* ids BullMQ may assign: the bound on jobs ever added
    Replicas, Requests, None,
    QUEUE_ATTEMPTS, WORKER_CONCURRENCY,
    MaxStalled      \* BullMQ's maxStalledCount

ASSUME JobQueueAssumption ==
    /\ QUEUE_ATTEMPTS \in Nat \ {0}
    /\ WORKER_CONCURRENCY \in Nat \ {0}
    /\ MaxStalled \in Nat
    /\ None \notin Jobs \union Replicas

VARIABLES
    service,    \* the BullMQService of each replica
    state,      \* state of each job in Redis
    made,       \* attempts of each job that failed
    stalled,    \* times each job lost its worker
    at,         \* the replica whose worker does each job
    step,       \* the await that worker is at
    log,        \* status of each job's JobLog row, None without a row
    origin,     \* history: the job each job is a copy of, itself if none
    sent,       \* history: times each job's mail was sent, 2 for more
    failedOnce, \* history: jobs of which an attempt failed
    lost,       \* history: jobs whose worker vanished after sending
    pc,         \* the await each request is at
    req         \* the replica that serves it, the job added or to be copied

redis == <<state, made, stalled>>
worker == <<at, step>>
history == <<origin, sent, failedOnce, lost>>
callers == <<pc, req>>
vars == <<service, redis, worker, log, history, callers>>

JobStates == {"none", "waiting", "active", "delayed", "completed", "failed"}
Statuses == {"pending", "processing", "completed", "failed"}
Steps == {"idle", "decrypt", "process", "logCompleted", "logFailed", "resolve", "reject"}
Waits == {"idle", "log", "replay"}

\* No row is not a status.
ASSUME NoRowIsNone == None \notin Statuses

Nothing == [replica |-> None, job |-> None]
ActiveAt(p) == {j \in Jobs : at[j] = p}

\* logJobToDatabase: the upsert, or an error that is only printed.
LogAs(j, status) == log' = [log EXCEPT ![j] = status] \/ UNCHANGED log

Init ==
    /\ service = [p \in Replicas |-> "up"]
    /\ state = [j \in Jobs |-> "none"]
    /\ made = [j \in Jobs |-> 0]
    /\ stalled = [j \in Jobs |-> 0]
    /\ at = [j \in Jobs |-> None]
    /\ step = [j \in Jobs |-> "idle"]
    /\ log = [j \in Jobs |-> None]
    /\ origin = [j \in Jobs |-> j]
    /\ sent = [j \in Jobs |-> 0]
    /\ failedOnce = {}
    /\ lost = {}
    /\ pc = [r \in Requests |-> "idle"]
    /\ req = [r \in Requests |-> Nothing]

-----------------------------------------------------------------------------
(* Adding: MailService.send through addJobToQueue, and replayJobById.      *)

\* queue.add.  A queue that is closed is gone from the map of queues, and
\* then MailService sends in the request itself, without a job.
Enqueue(r, p, j, copied) ==
    /\ service[p] \in {"up", "closing"}
    /\ state[j] = "none"
    /\ state' = [state EXCEPT ![j] = "waiting"]
    /\ origin' = [origin EXCEPT ![j] = copied]
    /\ pc' = [pc EXCEPT ![r] = "log"]
    /\ req' = [req EXCEPT ![r] = [replica |-> p, job |-> j]]
    /\ UNCHANGED <<service, made, stalled, worker, log, sent, failedOnce, lost>>

AddJob(r, p, j) == pc[r] = "idle" /\ Enqueue(r, p, j, j)

\* The job may be worked on by now.
LogPending(r) ==
    /\ pc[r] = "log"
    /\ LogAs(req[r].job, "pending")
    /\ pc' = [pc EXCEPT ![r] = "idle"]
    /\ req' = [req EXCEPT ![r] = Nothing]
    /\ UNCHANGED <<service, redis, worker, history>>

\* Mutant: any job in the log may be replayed.
AnyRowMutant(r, p, j) ==
    /\ pc[r] = "idle"
    /\ service[p] \in {"up", "closing"}
    /\ log[j] # None
    /\ pc' = [pc EXCEPT ![r] = "replay"]
    /\ req' = [req EXCEPT ![r] = [replica |-> p, job |-> j]]
    /\ UNCHANGED <<service, redis, worker, log, history>>

\* replayJobById finds a row whose status is failed.  (Asked once the queue is
\* gone it can only fail.)
ReplayFound(r, p, j) ==
    /\ pc[r] = "idle"
    /\ service[p] \in {"up", "closing"}
    /\ log[j] = "failed"
    /\ pc' = [pc EXCEPT ![r] = "replay"]
    /\ req' = [req EXCEPT ![r] = [replica |-> p, job |-> j]]
    /\ UNCHANGED <<service, redis, worker, log, history>>

ReplayAdd(r, j) ==
    /\ pc[r] = "replay"
    /\ Enqueue(r, req[r].replica, j, origin[req[r].job])

\* No queue, or none any more, or queue.add fails.
ReplayFails(r) ==
    /\ pc[r] = "replay"
    /\ pc' = [pc EXCEPT ![r] = "idle"]
    /\ req' = [req EXCEPT ![r] = Nothing]
    /\ UNCHANGED <<service, redis, worker, log, history>>

\* Mutant: whatever is not being worked on is put back.
RetryMutant(j) ==
    /\ \E p \in Replicas : service[p] \in {"up", "closing"}
    /\ state[j] \in {"delayed", "completed", "failed"}
    /\ state' = [state EXCEPT ![j] = "waiting"]
    /\ UNCHANGED <<service, made, stalled, worker, log, history, callers>>

\* retryJob: BullMQ puts the job back only from its failed set.
RetryJob(j) ==
    /\ \E p \in Replicas : service[p] \in {"up", "closing"}
    /\ state[j] = "failed"
    /\ state' = [state EXCEPT ![j] = "waiting"]
    /\ UNCHANGED <<service, made, stalled, worker, log, history, callers>>

-----------------------------------------------------------------------------
(* The worker.                                                             *)

Take(p, j) ==
    /\ service[p] = "up"
    /\ state[j] = "waiting"
    /\ Cardinality(ActiveAt(p)) < WORKER_CONCURRENCY
    /\ state' = [state EXCEPT ![j] = "active"]
    /\ at' = [at EXCEPT ![j] = p]
    /\ step' = [step EXCEPT ![j] = "decrypt"]
    /\ UNCHANGED <<service, made, stalled, log, history, callers>>

\* The payload is decrypted and the row says processing.
StartJob(j) ==
    /\ step[j] = "decrypt"
    /\ LogAs(j, "processing")
    /\ step' = [step EXCEPT ![j] = "process"]
    /\ UNCHANGED <<service, redis, at, history, callers>>

\* JOB_ENCRYPTION_KEY is not the one the job was added with: the attempt
\* fails before the code that would log it.
DecryptFails(j) ==
    /\ step[j] = "decrypt"
    /\ failedOnce' = failedOnce \union {j}
    /\ step' = [step EXCEPT ![j] = "reject"]
    /\ UNCHANGED <<service, redis, at, log, origin, sent, lost, callers>>

SendMail(j) ==
    /\ step[j] = "process"
    /\ sent' = [sent EXCEPT ![j] = IF @ = 2 THEN 2 ELSE @ + 1]
    /\ step' = [step EXCEPT ![j] = "logCompleted"]
    /\ UNCHANGED <<service, redis, at, log, origin, failedOnce, lost, callers>>

\* Mutant: the callback of sendMail does not reject, so the promise stays.
NoRejectMutant(j) ==
    /\ step[j] = "process"
    /\ failedOnce' = failedOnce \union {j}
    /\ step' = [step EXCEPT ![j] = "idle"]
    /\ UNCHANGED <<service, redis, at, log, origin, sent, lost, callers>>

SendFails(j) ==
    /\ step[j] = "process"
    /\ failedOnce' = failedOnce \union {j}
    /\ step' = [step EXCEPT ![j] = "logFailed"]
    /\ UNCHANGED <<service, redis, at, log, origin, sent, lost, callers>>

\* Mutant: a write of the log that fails is thrown, into the worker's catch.
ThrowMutant(j) ==
    /\ step[j] = "logCompleted"
    /\ \/ /\ log' = [log EXCEPT ![j] = "completed"]
          /\ step' = [step EXCEPT ![j] = "resolve"]
       \/ /\ step' = [step EXCEPT ![j] = "logFailed"]
          /\ UNCHANGED log
    /\ UNCHANGED <<service, redis, at, history, callers>>

LogCompleted(j) ==
    /\ step[j] = "logCompleted"
    /\ LogAs(j, "completed")
    /\ step' = [step EXCEPT ![j] = "resolve"]
    /\ UNCHANGED <<service, redis, at, history, callers>>

\* Mutant: the end of an attempt is logged as completed in a finally.
FinallyMutant(j) ==
    /\ step[j] = "logFailed"
    /\ LogAs(j, "completed")
    /\ step' = [step EXCEPT ![j] = "reject"]
    /\ UNCHANGED <<service, redis, at, history, callers>>

LogFailed(j) ==
    /\ step[j] = "logFailed"
    /\ LogAs(j, "failed")
    /\ step' = [step EXCEPT ![j] = "reject"]
    /\ UNCHANGED <<service, redis, at, history, callers>>

\* The worker's function returned: BullMQ completes the job.
Resolve(j) ==
    /\ step[j] = "resolve"
    /\ state' = [state EXCEPT ![j] = "completed"]
    /\ at' = [at EXCEPT ![j] = None]
    /\ step' = [step EXCEPT ![j] = "idle"]
    /\ UNCHANGED <<service, made, stalled, log, history, callers>>

\* Mutant: the job was added with one attempt too many.
AttemptsMutant(j) ==
    /\ step[j] = "reject"
    /\ LET counted == made[j] + 1 IN
        /\ state' = [state EXCEPT ![j] =
                IF counted <= QUEUE_ATTEMPTS THEN "delayed" ELSE "failed"]
        /\ made' = [made EXCEPT ![j] = IF counted <= QUEUE_ATTEMPTS THEN counted ELSE @]
    /\ at' = [at EXCEPT ![j] = None]
    /\ step' = [step EXCEPT ![j] = "idle"]
    /\ UNCHANGED <<service, stalled, log, history, callers>>

\* The worker's function threw: BullMQ counts the attempt.  Attempts beyond
\* the last, which retryJob asks for, are not counted here.
Reject(j) ==
    /\ step[j] = "reject"
    /\ LET counted == made[j] + 1 IN
        /\ state' = [state EXCEPT ![j] =
                IF counted < QUEUE_ATTEMPTS THEN "delayed" ELSE "failed"]
        /\ made' = [made EXCEPT ![j] = IF counted < QUEUE_ATTEMPTS THEN counted ELSE @]
    /\ at' = [at EXCEPT ![j] = None]
    /\ step' = [step EXCEPT ![j] = "idle"]
    /\ UNCHANGED <<service, stalled, log, history, callers>>

\* The backoff has passed.
Promote(j) ==
    /\ state[j] = "delayed"
    /\ state' = [state EXCEPT ![j] = "waiting"]
    /\ UNCHANGED <<service, made, stalled, worker, log, history, callers>>

-----------------------------------------------------------------------------
(* The process.  SIGTERM or SIGINT (index.ts) shuts the queues down first: *)
(* the worker takes no more jobs and its jobs are waited for, then the     *)
(* queue is closed; then the server takes no more requests, and those it   *)
(* serves are waited for.                                                  *)

Shutdown(p) ==
    /\ service[p] = "up"
    /\ service' = [service EXCEPT ![p] = "closing"]
    /\ UNCHANGED <<redis, worker, log, history, callers>>

\* Mutant: worker.close(true), which does not wait for the worker's jobs.
ForcedCloseMutant(p) ==
    /\ service[p] = "closing"
    /\ service' = [service EXCEPT ![p] = "closed"]
    /\ UNCHANGED <<redis, worker, log, history, callers>>

CloseQueue(p) ==
    /\ service[p] = "closing"
    /\ ActiveAt(p) = {}
    /\ service' = [service EXCEPT ![p] = "closed"]
    /\ UNCHANGED <<redis, worker, log, history, callers>>

Exit(p) ==
    /\ service[p] = "closed"
    /\ \A r \in Requests : req[r].replica # p
    /\ service' = [service EXCEPT ![p] = "down"]
    /\ UNCHANGED <<redis, worker, log, history, callers>>

\* The process dies: its requests are gone, and BullMQ finds its jobs stalled.
Crash(p) ==
    /\ service[p] # "down"
    /\ service' = [service EXCEPT ![p] = "down"]
    /\ LET gone == ActiveAt(p)
           again == {j \in gone : stalled[j] < MaxStalled} IN
        /\ state' = [j \in Jobs |-> IF j \in again THEN "waiting"
                                    ELSE IF j \in gone THEN "failed" ELSE state[j]]
        /\ stalled' = [j \in Jobs |-> IF j \in again THEN stalled[j] + 1 ELSE stalled[j]]
        /\ at' = [j \in Jobs |-> IF j \in gone THEN None ELSE at[j]]
        /\ step' = [j \in Jobs |-> IF j \in gone THEN "idle" ELSE step[j]]
        /\ lost' = lost \union {j \in gone : step[j] \in {"logCompleted", "resolve"}}
    /\ pc' = [r \in Requests |-> IF req[r].replica = p THEN "idle" ELSE pc[r]]
    /\ req' = [r \in Requests |-> IF req[r].replica = p THEN Nothing ELSE req[r]]
    /\ UNCHANGED <<made, log, origin, sent, failedOnce>>

Restart(p) ==
    /\ service[p] = "down"
    /\ service' = [service EXCEPT ![p] = "up"]
    /\ UNCHANGED <<redis, worker, log, history, callers>>

-----------------------------------------------------------------------------
WorkerStep(j) ==
    \/ StartJob(j) \/ DecryptFails(j) \/ SendMail(j) \/ SendFails(j)
    \/ LogCompleted(j) \/ LogFailed(j) \/ Resolve(j) \/ Reject(j)

RequestStep(r) == LogPending(r) \/ ReplayFails(r) \/ \E j \in Jobs : ReplayAdd(r, j)
TakeSome(j) == \E p \in Replicas : Take(p, j)
Closing(p) == CloseQueue(p) \/ Exit(p) \/ Restart(p)

Next ==
    \/ \E r \in Requests, p \in Replicas, j \in Jobs : AddJob(r, p, j) \/ ReplayFound(r, p, j)
    \/ \E r \in Requests : RequestStep(r)
    \/ \E j \in Jobs : RetryJob(j) \/ TakeSome(j) \/ WorkerStep(j) \/ Promote(j)
    \/ \E p \in Replicas : Shutdown(p) \/ Closing(p) \/ Crash(p)

Spec == Init /\ [][Next]_vars

\* Awaits settle, delays pass, processes are started again, and BullMQ gives
\* a waiting job to some worker with room for it.
FairSpec ==
    /\ Spec
    /\ \A r \in Requests : WF_vars(RequestStep(r))
    /\ \A j \in Jobs : WF_vars(WorkerStep(j)) /\ WF_vars(Promote(j)) /\ SF_vars(TakeSome(j))
    /\ \A p \in Replicas : WF_vars(Closing(p))

-----------------------------------------------------------------------------
(* Properties.                                                             *)

\* Every variable has its type, and a job has a worker exactly while active.
TypeOK ==
    /\ service \in [Replicas -> {"up", "closing", "closed", "down"}]
    /\ state \in [Jobs -> JobStates]
    /\ made \in [Jobs -> 0..(QUEUE_ATTEMPTS - 1)]
    /\ stalled \in [Jobs -> 0..MaxStalled]
    /\ at \in [Jobs -> Replicas \union {None}]
    /\ step \in [Jobs -> Steps]
    /\ log \in [Jobs -> Statuses \union {None}]
    /\ origin \in [Jobs -> Jobs]
    /\ sent \in [Jobs -> 0..2]
    /\ failedOnce \subseteq Jobs /\ lost \subseteq Jobs
    /\ pc \in [Requests -> Waits]
    /\ req \in [Requests -> [replica : Replicas \union {None}, job : Jobs \union {None}]]
    /\ \A j \in Jobs : (state[j] = "active") <=> (at[j] # None)

\* A job's mail is sent once, whatever writes of its log fail and whoever
\* retries it, unless the worker vanished between the sending and the end of
\* the job: a log that cannot be written never makes the worker fail a job
\* it has done.
SentOnce == \A j \in Jobs : sent[j] > 1 => j \in lost

\* The job log may lag behind or lack a write, but never tells of something
\* that did not happen: completed is logged only of a job whose mail was
\* sent, failed only of a job of which an attempt failed.
LogTruthful ==
    \A j \in Jobs :
        /\ log[j] = "completed" => sent[j] > 0
        /\ log[j] = "failed" => j \in failedOnce

\* Over all jobs a mail is ever put on the queue as, its replays and their
\* replays included, it goes out once at most, as long as no attempt of its
\* first job failed and no worker vanished after sending it: neither log writes
\* that fail or come late nor replays and retries that race with the worker
\* send it again.  (After a failed attempt a replay may: the log says failed
\* while BullMQ goes on retrying, or because what was logged later was lost.)
ReceivedOnce ==
    \A j \in Jobs \ (failedOnce \union lost) : \A k \in Jobs :
        origin[k] = j /\ sent[k] > 0 => k = j /\ sent[k] = 1

\* A shutdown abandons nothing: once the queue is closed the process has no job
\* half done, and once it has exited no request either, whatever was added,
\* taken and replayed while it was closing.
NothingAbandoned ==
    \A p \in Replicas :
        /\ service[p] \in {"closed", "down"} => ActiveAt(p) = {}
        /\ service[p] = "down" => \A r \in Requests : req[r].replica # p

\* What has become of a mail, by the state of its job in Redis and the step of
\* its worker.
fate == [j \in Jobs |->
    CASE state[j] = "none" -> "none"
      [] state[j] = "completed" -> "done"
      [] state[j] = "failed" -> "given up"
      [] state[j] = "active" /\ step[j] \in {"logCompleted", "resolve"} -> "delivered"
      [] OTHER -> "queued"]

Promised == INSTANCE Mails

\* The queue keeps the promise Mails states, through failed attempts, failed
\* writes of the log, replays, retries, shutdowns and crashes: only a worker
\* that vanished puts a mail back that was delivered, and what is done is
\* never done again.
ImplementsMails == Promised!Spec

\* A job added is completed or failed for good in the end, through failed
\* attempts, crashes and shutdowns.
JobsSettle ==
    \A j \in Jobs : (state[j] \in {"waiting", "active", "delayed"}) ~> (state[j] \in {"completed", "failed"})

\* A shutdown comes to its end: the worker's jobs and the requests being
\* served are not waited for in vain.  (index.ts then waits for the open
\* connections too; those of Socket.io are for their clients to close.)
ShutdownEnds == \A p \in Replicas : (service[p] = "closing") ~> (service[p] = "down")
=============================================================================
