--------------------------- MODULE JobQueueProofs ---------------------------
(***************************************************************************)
(* Proofs about JobQueue, for any jobs, replicas, requests and bounds: its *)
(* type, that a mail is sent once (SentOnce), that the job log tells the   *)
(* truth (LogTruthful), that a mail of which no attempt failed goes out    *)
(* once over all jobs made of it (ReceivedOnce), that a shutdown abandons  *)
(* nothing (NothingAbandoned), and that the queue implements Mails.        *)
(***************************************************************************)
EXTENDS JobQueue, TLAPS

\* What the step of a job's worker, and the job's state, say of its mail: an
\* attempt that sent it can only go on to complete the job, which then stays
\* completed, unless the worker vanishes.
WorkerInv(j) ==
    /\ (step[j] = "idle") <=> (at[j] = None)
    /\ step[j] \in {"logCompleted", "resolve"} => sent[j] > 0
    /\ step[j] = "logFailed" => j \in failedOnce
    /\ sent[j] > 0 /\ j \notin lost =>
        /\ sent[j] = 1
        /\ state[j] = "completed" \/ step[j] \in {"logCompleted", "resolve"}

\* What a request carries at its await: the row it found failed stays one of
\* which an attempt failed.
Carries(r) ==
    /\ pc[r] # "idle" => req[r].replica \in Replicas /\ req[r].job \in Jobs
    /\ pc[r] = "replay" => req[r].job \in failedOnce

\* A copy is only made of a job of which an attempt failed.
OnlyFailedReplayed == \A j \in Jobs : origin[j] # j => origin[j] \in failedOnce

IInv ==
    /\ TypeOK
    /\ \A j \in Jobs : WorkerInv(j)
    /\ \A r \in Requests : Carries(r)
    /\ LogTruthful
    /\ OnlyFailedReplayed
    /\ NothingAbandoned

Requested == [replica : Replicas \union {None}, job : Jobs \union {None}]

\* The disjuncts of Next, one per operation.
Operations ==
    \/ \E r \in Requests, p \in Replicas, j \in Jobs : AddJob(r, p, j) \/ ReplayFound(r, p, j)
    \/ \E r \in Requests : LogPending(r) \/ ReplayFails(r)
    \/ \E r \in Requests, j \in Jobs : ReplayAdd(r, j)
    \/ \E p \in Replicas, j \in Jobs : Take(p, j)
    \/ \E j \in Jobs :
        \/ RetryJob(j) \/ Promote(j)
        \/ StartJob(j) \/ DecryptFails(j) \/ SendMail(j) \/ SendFails(j)
        \/ LogCompleted(j) \/ LogFailed(j) \/ Resolve(j) \/ Reject(j)
    \/ \E p \in Replicas :
        Shutdown(p) \/ CloseQueue(p) \/ Exit(p) \/ Restart(p) \/ Crash(p)

LEMMA NextOperations == Next => Operations
BY DEF Next, Operations, RequestStep, TakeSome, WorkerStep, Closing

-----------------------------------------------------------------------------
(* The invariant holds at first.                                           *)

LEMMA Initially == Init => IInv
<1> SUFFICES ASSUME Init PROVE IInv
  OBVIOUS
<1> USE JobQueueAssumption DEF Init
<1>1. TypeOK
  BY DEF TypeOK, JobStates, Steps, Statuses, Waits, Nothing
<1>2. \A j \in Jobs : WorkerInv(j)
  BY DEF WorkerInv
<1>3. \A r \in Requests : Carries(r)
  BY DEF Carries
<1>4. LogTruthful /\ OnlyFailedReplayed
  BY NoRowIsNone DEF LogTruthful, OnlyFailedReplayed, Statuses
<1>5. NothingAbandoned
  BY DEF NothingAbandoned
<1> QED
  BY <1>1, <1>2, <1>3, <1>4, <1>5 DEF IInv

-----------------------------------------------------------------------------
(* Each operation preserves it: those of requests ...                      *)

\* What leaves the jobs' state, worker and mail alone leaves WorkerInv.
LEMMA WorkersKept ==
    ASSUME IInv, UNCHANGED <<state, worker, sent, lost>>, failedOnce \subseteq failedOnce'
    PROVE  \A j \in Jobs : WorkerInv(j)'
BY DEF IInv, WorkerInv, worker

\* A request moves to an await with what it carries there.
LEMMA OneRequestMoves ==
    ASSUME IInv, NEW r \in Requests, NEW w \in Waits, NEW x \in Requested,
           pc' = [pc EXCEPT ![r] = w], req' = [req EXCEPT ![r] = x],
           UNCHANGED failedOnce,
           w # "idle" => x.replica \in Replicas /\ x.job \in Jobs,
           w = "replay" => x.job \in failedOnce
    PROVE  /\ pc' \in [Requests -> Waits] /\ req' \in [Requests -> Requested]
           /\ \A q \in Requests : Carries(q)'
<1>1. pc \in [Requests -> Waits] /\ req \in [Requests -> Requested]
  BY DEF IInv, TypeOK, Requested
<1>2. pc' \in [Requests -> Waits] /\ req' \in [Requests -> Requested]
  BY <1>1
<1>3. ASSUME NEW q \in Requests PROVE Carries(q)'
  BY <1>1, <1>3 DEF IInv, Carries
<1> QED
  BY <1>2, <1>3

\* The jobs' half of TypeOK.
JobsTyped ==
    /\ state \in [Jobs -> JobStates]
    /\ made \in [Jobs -> 0..(QUEUE_ATTEMPTS - 1)]
    /\ stalled \in [Jobs -> 0..MaxStalled]
    /\ at \in [Jobs -> Replicas \union {None}]
    /\ step \in [Jobs -> Steps]
    /\ log \in [Jobs -> Statuses \union {None}]
    /\ origin \in [Jobs -> Jobs]
    /\ sent \in [Jobs -> 0..2]
    /\ failedOnce \subseteq Jobs /\ lost \subseteq Jobs
    /\ \A j \in Jobs : (state[j] = "active") <=> (at[j] # None)

RequestsTyped ==
    /\ service \in [Replicas -> {"up", "closing", "closed", "down"}]
    /\ pc \in [Requests -> Waits]
    /\ req \in [Requests -> Requested]

LEMMA Types ==
    /\ TypeOK <=> JobsTyped /\ RequestsTyped
    /\ TypeOK' <=> JobsTyped' /\ RequestsTyped'
BY DEF TypeOK, JobsTyped, RequestsTyped, Requested

\* No job is taken but by a process that is up, and none is entered in a
\* request but by one that is not down.
LEMMA StillNothingAbandoned ==
    ASSUME IInv, UNCHANGED service,
           \A j \in Jobs : at'[j] # at[j] =>
                at'[j] \notin Replicas \/ service[at'[j]] = "up",
           \A r \in Requests : req'[r].replica # req[r].replica =>
                req'[r].replica \notin Replicas \/ service[req'[r].replica] # "down"
    PROVE  NothingAbandoned'
<1> SUFFICES ASSUME NEW p \in Replicas
             PROVE  /\ service[p] \in {"closed", "down"} => ActiveAt(p)' = {}
                    /\ service[p] = "down" => \A r \in Requests : req'[r].replica # p
  BY DEF NothingAbandoned
<1>1. ASSUME service[p] \in {"closed", "down"}, NEW j \in Jobs PROVE at'[j] # p
  BY <1>1 DEF IInv, NothingAbandoned, ActiveAt
<1>2. ASSUME service[p] = "down", NEW r \in Requests PROVE req'[r].replica # p
  BY <1>2 DEF IInv, NothingAbandoned
<1> QED
  BY <1>1, <1>2 DEF ActiveAt

LEMMA NothingTyped == Nothing \in Requested
BY DEF Nothing, Requested

LEMMA EnqueueKeeps ==
    ASSUME IInv, NEW r \in Requests, NEW p \in Replicas, NEW j \in Jobs, NEW o \in Jobs,
           Enqueue(r, p, j, o), o # j => o \in failedOnce
    PROVE  IInv'
<1> DEFINE x == [replica |-> p, job |-> j]
<1>1. x \in Requested /\ x.replica = p /\ x.job = j
  BY DEF Requested
<1>2. /\ RequestsTyped'
      /\ \A q \in Requests : Carries(q)'
  <2>1. pc' = [pc EXCEPT ![r] = "log"] /\ req' = [req EXCEPT ![r] = x]
    BY DEF Enqueue
  <2>2. "log" \in Waits /\ UNCHANGED <<service, failedOnce>>
    BY DEF Waits, Enqueue
  <2> HIDE DEF x
  <2> QED
    BY <1>1, <2>1, <2>2, OneRequestMoves, Types DEF IInv, RequestsTyped
<1>3. JobsTyped'
  BY Types DEF IInv, JobsTyped, JobStates, Enqueue, worker
<1>4. \A k \in Jobs : WorkerInv(k)'
  BY DEF IInv, TypeOK, WorkerInv, Enqueue, worker
<1>5. LogTruthful'
  BY DEF IInv, LogTruthful, Enqueue
<1>6. OnlyFailedReplayed'
  BY DEF IInv, TypeOK, OnlyFailedReplayed, Enqueue
<1>7. NothingAbandoned'
  <2>1. ASSUME NEW q \in Requests
        PROVE  req'[q].replica # req[q].replica => service[req'[q].replica] # "down"
    BY DEF IInv, TypeOK, Enqueue
  <2> QED
    BY <2>1, StillNothingAbandoned DEF Enqueue, worker
<1> QED
  BY <1>2, <1>3, <1>4, <1>5, <1>6, <1>7, Types DEF IInv

LEMMA AddJobKeeps ==
    ASSUME IInv, NEW r \in Requests, NEW p \in Replicas, NEW j \in Jobs, AddJob(r, p, j)
    PROVE  IInv'
BY EnqueueKeeps DEF AddJob

\* The copy is of a job that failed, or of what that one is a copy of.
LEMMA ReplayAddKeeps ==
    ASSUME IInv, NEW r \in Requests, NEW j \in Jobs, ReplayAdd(r, j)
    PROVE  IInv'
<1> DEFINE from == req[r].job
<1>1. /\ from \in Jobs /\ from \in failedOnce /\ req[r].replica \in Replicas
      /\ Enqueue(r, req[r].replica, j, origin[from])
  BY DEF IInv, Carries, ReplayAdd
<1> HIDE DEF from
<1>2. origin[from] \in Jobs
  BY <1>1 DEF IInv, TypeOK
<1>3. origin[from] \in failedOnce
  BY <1>1 DEF IInv, OnlyFailedReplayed
<1> QED
  BY <1>1, <1>2, <1>3, EnqueueKeeps

\* What changes neither jobs nor their mail, but for the log of one.
LEMMA RequestKeeps ==
    ASSUME IInv, UNCHANGED <<service, redis, worker, history>>, RequestsTyped',
           \A q \in Requests : Carries(q)',
           log' \in [Jobs -> Statuses \union {None}], LogTruthful',
           \A q \in Requests : req'[q].replica # req[q].replica =>
                req'[q].replica \notin Replicas \/ service[req'[q].replica] # "down"
    PROVE  IInv'
<1>1. JobsTyped'
  BY Types DEF IInv, JobsTyped, redis, worker, history
<1>2. \A j \in Jobs : WorkerInv(j)'
  BY WorkersKept DEF redis, history
<1>3. OnlyFailedReplayed'
  BY DEF IInv, OnlyFailedReplayed, history
<1>4. NothingAbandoned'
  BY StillNothingAbandoned DEF worker
<1> QED
  BY <1>1, <1>2, <1>3, <1>4, Types DEF IInv

LEMMA LogPendingKeeps ==
    ASSUME IInv, NEW r \in Requests, LogPending(r)
    PROVE  IInv'
<1>1. RequestsTyped' /\ \A q \in Requests : Carries(q)'
  <2>1. "idle" \in Waits /\ UNCHANGED <<service, failedOnce>>
    BY DEF Waits, LogPending, history
  <2> QED
    BY <2>1, OneRequestMoves, NothingTyped, Types DEF IInv, RequestsTyped, LogPending
<1>2. log' \in [Jobs -> Statuses \union {None}] /\ LogTruthful'
  BY DEF IInv, TypeOK, LogTruthful, LogPending, LogAs, Statuses, history
<1>3. ASSUME NEW q \in Requests
      PROVE  req'[q].replica # req[q].replica => req'[q].replica \notin Replicas
  BY JobQueueAssumption DEF IInv, TypeOK, LogPending, Nothing
<1> QED
  BY <1>1, <1>2, <1>3, RequestKeeps DEF LogPending

LEMMA ReplayFoundKeeps ==
    ASSUME IInv, NEW r \in Requests, NEW p \in Replicas, NEW j \in Jobs, ReplayFound(r, p, j)
    PROVE  IInv'
<1> DEFINE x == [replica |-> p, job |-> j]
<1>1. x \in Requested /\ x.replica = p /\ x.job = j
  BY DEF Requested
<1>2. RequestsTyped' /\ \A q \in Requests : Carries(q)'
  <2>1. pc' = [pc EXCEPT ![r] = "replay"] /\ req' = [req EXCEPT ![r] = x]
    BY DEF ReplayFound
  <2>2. "replay" \in Waits /\ UNCHANGED <<service, failedOnce>>
    BY DEF Waits, ReplayFound, history
  <2>3. j \in failedOnce
    BY DEF IInv, LogTruthful, ReplayFound
  <2> HIDE DEF x
  <2> QED
    BY <1>1, <2>1, <2>2, <2>3, OneRequestMoves, Types DEF IInv, RequestsTyped
<1>3. log' \in [Jobs -> Statuses \union {None}] /\ LogTruthful'
  BY DEF IInv, TypeOK, LogTruthful, ReplayFound, history
<1>4. ASSUME NEW q \in Requests
      PROVE  req'[q].replica # req[q].replica => service[req'[q].replica] # "down"
  BY DEF IInv, TypeOK, ReplayFound
<1> QED
  BY <1>2, <1>3, <1>4, RequestKeeps DEF ReplayFound

LEMMA ReplayFailsKeeps ==
    ASSUME IInv, NEW r \in Requests, ReplayFails(r)
    PROVE  IInv'
<1>1. RequestsTyped' /\ \A q \in Requests : Carries(q)'
  <2>1. "idle" \in Waits /\ UNCHANGED <<service, failedOnce>>
    BY DEF Waits, ReplayFails, history
  <2> QED
    BY <2>1, OneRequestMoves, NothingTyped, Types DEF IInv, RequestsTyped, ReplayFails
<1>2. log' \in [Jobs -> Statuses \union {None}] /\ LogTruthful'
  BY DEF IInv, TypeOK, LogTruthful, ReplayFails, history
<1>3. ASSUME NEW q \in Requests
      PROVE  req'[q].replica # req[q].replica => req'[q].replica \notin Replicas
  BY JobQueueAssumption DEF IInv, TypeOK, ReplayFails, Nothing
<1> QED
  BY <1>1, <1>2, <1>3, RequestKeeps DEF ReplayFails

-----------------------------------------------------------------------------
(* ... those of one job ...                                                *)

Truthful(j) ==
    /\ log[j] = "completed" => sent[j] > 0
    /\ log[j] = "failed" => j \in failedOnce

\* A job changes hands only to none or to a worker that is up.
TakenUp(j) ==
    \/ at'[j] \in {at[j], None}
    \/ at'[j] \in Replicas /\ service[at'[j]] = "up"

\* What moves one job, and asks nothing of the requests.
LEMMA OneJobMoves ==
    ASSUME IInv, NEW j \in Jobs, UNCHANGED <<service, origin, lost, callers>>,
           failedOnce \subseteq failedOnce', JobsTyped',
           \A k \in Jobs \ {j} :
                /\ state'[k] = state[k] /\ at'[k] = at[k] /\ step'[k] = step[k]
                /\ sent'[k] = sent[k] /\ log'[k] = log[k],
           WorkerInv(j)', Truthful(j)',
           TakenUp(j)
    PROVE  IInv'
<1>1. RequestsTyped'
  BY Types DEF IInv, RequestsTyped, callers
<1>2. \A k \in Jobs : WorkerInv(k)'
  BY DEF IInv, WorkerInv
<1>3. \A r \in Requests : Carries(r)'
  BY DEF IInv, Carries, callers
<1>4. LogTruthful'
  BY DEF IInv, LogTruthful, Truthful
<1>5. OnlyFailedReplayed'
  BY DEF IInv, OnlyFailedReplayed
<1>6. NothingAbandoned'
  <2>1. ASSUME NEW k \in Jobs, at'[k] # at[k]
        PROVE  at'[k] \notin Replicas \/ service[at'[k]] = "up"
    BY <2>1, JobQueueAssumption DEF TakenUp
  <2> QED
    BY <2>1, StillNothingAbandoned DEF callers
<1> QED
  BY <1>1, <1>2, <1>3, <1>4, <1>5, <1>6, Types DEF IInv

LEMMA RetryJobKeeps ==
    ASSUME IInv, NEW j \in Jobs, RetryJob(j)
    PROVE  IInv'
<1> USE DEF RetryJob, worker, history
<1>1. JobsTyped'
  BY Types DEF IInv, JobsTyped, JobStates
<1>2. WorkerInv(j)'
  BY DEF IInv, TypeOK, WorkerInv
<1>3. Truthful(j)'
  BY DEF IInv, TypeOK, LogTruthful, Truthful
<1>4. TakenUp(j)
  BY DEF IInv, TypeOK, TakenUp
<1> QED
  BY <1>1, <1>2, <1>3, <1>4, OneJobMoves DEF IInv, TypeOK

LEMMA PromoteKeeps ==
    ASSUME IInv, NEW j \in Jobs, Promote(j)
    PROVE  IInv'
<1> USE DEF Promote, worker, history
<1>1. JobsTyped'
  BY Types DEF IInv, JobsTyped, JobStates
<1>2. WorkerInv(j)'
  BY DEF IInv, TypeOK, WorkerInv
<1>3. Truthful(j)'
  BY DEF IInv, TypeOK, LogTruthful, Truthful
<1>4. TakenUp(j)
  BY DEF IInv, TypeOK, TakenUp
<1> QED
  BY <1>1, <1>2, <1>3, <1>4, OneJobMoves DEF IInv, TypeOK

LEMMA TakeKeeps ==
    ASSUME IInv, NEW p \in Replicas, NEW j \in Jobs, Take(p, j)
    PROVE  IInv'
<1> USE DEF Take, history
<1>1. JobsTyped'
  BY Types, JobQueueAssumption DEF IInv, JobsTyped, JobStates, Steps
<1>2. WorkerInv(j)'
  BY JobQueueAssumption DEF IInv, TypeOK, WorkerInv
<1>3. Truthful(j)'
  BY DEF IInv, TypeOK, LogTruthful, Truthful
<1>4. TakenUp(j)
  BY DEF IInv, TypeOK, TakenUp
<1> QED
  BY <1>1, <1>2, <1>3, <1>4, OneJobMoves DEF IInv, TypeOK

LEMMA StartJobKeeps ==
    ASSUME IInv, NEW j \in Jobs, StartJob(j)
    PROVE  IInv'
<1> USE DEF StartJob, LogAs, redis, history
<1>1. JobsTyped'
  BY Types DEF IInv, JobsTyped, Steps, Statuses
<1>2. WorkerInv(j)'
  BY DEF IInv, TypeOK, WorkerInv
<1>3. Truthful(j)'
  BY DEF IInv, TypeOK, LogTruthful, Truthful
<1>4. TakenUp(j)
  BY DEF IInv, TypeOK, TakenUp
<1> QED
  BY <1>1, <1>2, <1>3, <1>4, OneJobMoves DEF IInv, TypeOK

LEMMA DecryptFailsKeeps ==
    ASSUME IInv, NEW j \in Jobs, DecryptFails(j)
    PROVE  IInv'
<1> USE DEF DecryptFails, redis
<1>1. JobsTyped'
  BY Types DEF IInv, JobsTyped, Steps
<1>2. WorkerInv(j)'
  BY DEF IInv, TypeOK, WorkerInv
<1>3. Truthful(j)'
  BY DEF IInv, TypeOK, LogTruthful, Truthful
<1>4. TakenUp(j)
  BY DEF IInv, TypeOK, TakenUp
<1> QED
  BY <1>1, <1>2, <1>3, <1>4, OneJobMoves DEF IInv, TypeOK

LEMMA SendMailKeeps ==
    ASSUME IInv, NEW j \in Jobs, SendMail(j)
    PROVE  IInv'
<1> USE DEF SendMail, redis
<1>1. JobsTyped'
  BY Types DEF IInv, JobsTyped, Steps
<1>2. WorkerInv(j)'
  BY DEF IInv, TypeOK, WorkerInv
<1>3. Truthful(j)'
  BY DEF IInv, TypeOK, LogTruthful, Truthful
<1>4. TakenUp(j)
  BY DEF IInv, TypeOK, TakenUp
<1> QED
  BY <1>1, <1>2, <1>3, <1>4, OneJobMoves DEF IInv, TypeOK

LEMMA SendFailsKeeps ==
    ASSUME IInv, NEW j \in Jobs, SendFails(j)
    PROVE  IInv'
<1> USE DEF SendFails, redis
<1>1. JobsTyped'
  BY Types DEF IInv, JobsTyped, Steps
<1>2. WorkerInv(j)'
  BY DEF IInv, TypeOK, WorkerInv
<1>3. Truthful(j)'
  BY DEF IInv, TypeOK, LogTruthful, Truthful
<1>4. TakenUp(j)
  BY DEF IInv, TypeOK, TakenUp
<1> QED
  BY <1>1, <1>2, <1>3, <1>4, OneJobMoves DEF IInv, TypeOK

LEMMA LogCompletedKeeps ==
    ASSUME IInv, NEW j \in Jobs, LogCompleted(j)
    PROVE  IInv'
<1> USE DEF LogCompleted, LogAs, redis, history
<1>1. JobsTyped'
  BY Types DEF IInv, JobsTyped, Steps, Statuses
<1>2. WorkerInv(j)'
  BY DEF IInv, TypeOK, WorkerInv
<1>3. Truthful(j)'
  BY DEF IInv, TypeOK, WorkerInv, LogTruthful, Truthful
<1>4. TakenUp(j)
  BY DEF IInv, TypeOK, TakenUp
<1> QED
  BY <1>1, <1>2, <1>3, <1>4, OneJobMoves DEF IInv, TypeOK

LEMMA LogFailedKeeps ==
    ASSUME IInv, NEW j \in Jobs, LogFailed(j)
    PROVE  IInv'
<1> USE DEF LogFailed, LogAs, redis, history
<1>1. JobsTyped'
  BY Types DEF IInv, JobsTyped, Steps, Statuses
<1>2. WorkerInv(j)'
  BY DEF IInv, TypeOK, WorkerInv
<1>3. Truthful(j)'
  BY DEF IInv, TypeOK, WorkerInv, LogTruthful, Truthful
<1>4. TakenUp(j)
  BY DEF IInv, TypeOK, TakenUp
<1> QED
  BY <1>1, <1>2, <1>3, <1>4, OneJobMoves DEF IInv, TypeOK

LEMMA ResolveKeeps ==
    ASSUME IInv, NEW j \in Jobs, Resolve(j)
    PROVE  IInv'
<1> USE DEF Resolve, history
<1>1. JobsTyped'
  BY Types, JobQueueAssumption DEF IInv, JobsTyped, JobStates, Steps
<1>2. WorkerInv(j)'
  BY DEF IInv, TypeOK, WorkerInv
<1>3. Truthful(j)'
  BY DEF IInv, TypeOK, LogTruthful, Truthful
<1>4. TakenUp(j)
  BY DEF IInv, TypeOK, TakenUp
<1> QED
  BY <1>1, <1>2, <1>3, <1>4, OneJobMoves DEF IInv, TypeOK

LEMMA RejectKeeps ==
    ASSUME IInv, NEW j \in Jobs, Reject(j)
    PROVE  IInv'
<1> USE DEF Reject, history
<1>1. JobsTyped'
  BY Types, JobQueueAssumption DEF IInv, JobsTyped, JobStates, Steps
<1>2. WorkerInv(j)'
  BY DEF IInv, TypeOK, WorkerInv
<1>3. Truthful(j)'
  BY DEF IInv, TypeOK, LogTruthful, Truthful
<1>4. TakenUp(j)
  BY DEF IInv, TypeOK, TakenUp
<1> QED
  BY <1>1, <1>2, <1>3, <1>4, OneJobMoves DEF IInv, TypeOK

-----------------------------------------------------------------------------
(* ... and those of the process.                                           *)

\* What changes the service of one replica only.
LEMMA ServiceKeeps ==
    ASSUME IInv, NEW p \in Replicas, NEW phase \in {"up", "closing", "closed", "down"},
           service' = [service EXCEPT ![p] = phase],
           UNCHANGED <<redis, worker, log, history, callers>>,
           phase \in {"closed", "down"} => ActiveAt(p) = {},
           phase = "down" => \A r \in Requests : req[r].replica # p
    PROVE  IInv'
<1>1. RequestsTyped' /\ \A q \in Requests : Carries(q)'
  BY Types DEF IInv, RequestsTyped, Carries, callers, history
<1>2. log' \in [Jobs -> Statuses \union {None}] /\ LogTruthful'
  BY DEF IInv, TypeOK, LogTruthful, history
<1>3. JobsTyped'
  BY Types DEF IInv, JobsTyped, redis, worker, history
<1>4. \A j \in Jobs : WorkerInv(j)'
  BY WorkersKept DEF redis, history
<1>5. OnlyFailedReplayed'
  BY DEF IInv, OnlyFailedReplayed, history
<1>6. NothingAbandoned'
  BY DEF IInv, TypeOK, NothingAbandoned, ActiveAt, worker, callers
<1> QED
  BY <1>1, <1>2, <1>3, <1>4, <1>5, <1>6, Types DEF IInv

LEMMA ShutdownKeeps ==
    ASSUME IInv, NEW p \in Replicas, Shutdown(p)
    PROVE  IInv'
BY ServiceKeeps DEF Shutdown

LEMMA CloseQueueKeeps ==
    ASSUME IInv, NEW p \in Replicas, CloseQueue(p)
    PROVE  IInv'
BY ServiceKeeps DEF CloseQueue

LEMMA ExitKeeps ==
    ASSUME IInv, NEW p \in Replicas, Exit(p)
    PROVE  IInv'
<1>1. ActiveAt(p) = {} /\ \A r \in Requests : req[r].replica # p
  BY DEF IInv, NothingAbandoned, Exit
<1> QED
  BY <1>1, ServiceKeeps DEF Exit

LEMMA RestartKeeps ==
    ASSUME IInv, NEW p \in Replicas, Restart(p)
    PROVE  IInv'
BY ServiceKeeps DEF Restart

\* What a crash of p leaves of a job: nothing changes unless p worked on it;
\* then it is back in the queue or failed, with no worker.
LEMMA CrashOf ==
    ASSUME IInv, NEW p \in Replicas, Crash(p), NEW j \in Jobs
    PROVE  /\ at[j] # p =>
                /\ state'[j] = state[j] /\ stalled'[j] = stalled[j]
                /\ at'[j] = at[j] /\ step'[j] = step[j]
                /\ j \in lost' <=> j \in lost
           /\ at[j] = p =>
                /\ at'[j] = None /\ step'[j] = "idle"
                /\ state'[j] = IF stalled[j] < MaxStalled THEN "waiting" ELSE "failed"
                /\ stalled'[j] = IF stalled[j] < MaxStalled THEN stalled[j] + 1 ELSE stalled[j]
                /\ j \in lost' <=> j \in lost \/ step[j] \in {"logCompleted", "resolve"}
BY DEF Crash, ActiveAt

LEMMA CrashKeeps ==
    ASSUME IInv, NEW p \in Replicas, Crash(p)
    PROVE  IInv'
<1>1. RequestsTyped'
  BY Types DEF IInv, RequestsTyped, Crash, Requested, Nothing, Waits
<1>2. ASSUME NEW q \in Requests PROVE Carries(q)'
  BY <1>2 DEF IInv, Carries, Crash
<1>3. JobsTyped'
  <2>1. ASSUME NEW j \in Jobs
        PROVE  /\ state'[j] \in JobStates /\ at'[j] \in Replicas \union {None}
               /\ step'[j] \in Steps
               /\ (state'[j] = "active") <=> (at'[j] # None)
    BY <2>1, CrashOf, JobQueueAssumption DEF IInv, TypeOK, JobStates, Steps
  <2>2. ASSUME NEW j \in Jobs PROVE stalled'[j] \in 0..MaxStalled
    BY <2>2, CrashOf, JobQueueAssumption DEF IInv, TypeOK
  <2>3. /\ state' = [j \in Jobs |-> state'[j]] /\ stalled' = [j \in Jobs |-> stalled'[j]]
        /\ at' = [j \in Jobs |-> at'[j]] /\ step' = [j \in Jobs |-> step'[j]]
    BY DEF Crash
  <2>4. lost' \subseteq Jobs
    BY DEF IInv, TypeOK, Crash, ActiveAt
  <2> QED
    BY <2>1, <2>2, <2>3, <2>4, Types DEF IInv, JobsTyped, Crash
<1>4. ASSUME NEW j \in Jobs PROVE WorkerInv(j)'
  <2>1. sent' = sent /\ failedOnce' = failedOnce /\ WorkerInv(j)
    BY DEF IInv, Crash
  <2>2. (state[j] = "active") <=> (at[j] # None)
    BY DEF IInv, TypeOK
  <2>3. CASE at[j] # p
    BY <2>1, <2>3, CrashOf DEF WorkerInv
  <2>4. CASE at[j] = p
    BY <2>1, <2>2, <2>4, CrashOf, JobQueueAssumption DEF WorkerInv
  <2> QED
    BY <2>3, <2>4
<1>5. LogTruthful' /\ OnlyFailedReplayed'
  BY DEF IInv, LogTruthful, OnlyFailedReplayed, Crash
<1>6. NothingAbandoned'
  <2> SUFFICES ASSUME NEW q \in Replicas
               PROVE  /\ service'[q] \in {"closed", "down"} => ActiveAt(q)' = {}
                      /\ service'[q] = "down" => \A r \in Requests : req'[r].replica # q
    BY DEF NothingAbandoned
  <2>1. ASSUME NEW j \in Jobs PROVE at'[j] # p /\ (at'[j] = q => at[j] = q)
    BY <2>1, CrashOf, JobQueueAssumption
  <2>2. ASSUME NEW r \in Requests
        PROVE  req'[r].replica # p /\ (req'[r].replica = q => req[r].replica = q)
    BY <2>2, JobQueueAssumption DEF Crash, Nothing
  <2>3. q # p => service'[q] = service[q]
    BY DEF IInv, TypeOK, Crash
  <2> QED
    BY <2>1, <2>2, <2>3 DEF IInv, NothingAbandoned, ActiveAt
<1> QED
  BY <1>1, <1>2, <1>3, <1>4, <1>5, <1>6, Types DEF IInv

LEMMA StutterKeeps ==
    ASSUME IInv, UNCHANGED vars
    PROVE  IInv'
<1>1. RequestsTyped' /\ \A q \in Requests : Carries(q)'
  BY Types DEF IInv, RequestsTyped, Carries, vars, callers, history
<1>2. log' \in [Jobs -> Statuses \union {None}] /\ LogTruthful'
  BY DEF IInv, TypeOK, LogTruthful, vars, history
<1> QED
  BY <1>1, <1>2, RequestKeeps DEF vars, callers

LEMMA Inductive == IInv /\ [Next]_vars => IInv'
<1> SUFFICES ASSUME IInv, [Next]_vars PROVE IInv'
  OBVIOUS
<1>1. ASSUME NEW r \in Requests, NEW p \in Replicas, NEW j \in Jobs,
             AddJob(r, p, j) \/ ReplayFound(r, p, j)
      PROVE  IInv'
  BY <1>1, AddJobKeeps, ReplayFoundKeeps
<1>2. ASSUME NEW r \in Requests, LogPending(r) \/ ReplayFails(r)
      PROVE  IInv'
  BY <1>2, LogPendingKeeps, ReplayFailsKeeps
<1>3. ASSUME NEW r \in Requests, NEW j \in Jobs, ReplayAdd(r, j)
      PROVE  IInv'
  BY <1>3, ReplayAddKeeps
<1>4. ASSUME NEW p \in Replicas, NEW j \in Jobs, Take(p, j)
      PROVE  IInv'
  BY <1>4, TakeKeeps
<1>5. ASSUME NEW j \in Jobs,
             \/ RetryJob(j) \/ Promote(j)
             \/ StartJob(j) \/ DecryptFails(j) \/ SendMail(j) \/ SendFails(j)
             \/ LogCompleted(j) \/ LogFailed(j) \/ Resolve(j) \/ Reject(j)
      PROVE  IInv'
  BY <1>5, RetryJobKeeps, PromoteKeeps, StartJobKeeps, DecryptFailsKeeps, SendMailKeeps,
     SendFailsKeeps, LogCompletedKeeps, LogFailedKeeps, ResolveKeeps, RejectKeeps
<1>6. ASSUME NEW p \in Replicas,
             Shutdown(p) \/ CloseQueue(p) \/ Exit(p) \/ Restart(p) \/ Crash(p)
      PROVE  IInv'
  BY <1>6, ShutdownKeeps, CloseQueueKeeps, ExitKeeps, RestartKeeps, CrashKeeps
<1>7. CASE UNCHANGED vars
  BY <1>7, StutterKeeps
<1> QED
  BY <1>1, <1>2, <1>3, <1>4, <1>5, <1>6, <1>7, NextOperations DEF Operations

LEMMA Invariant == Spec => []IInv
BY Initially, Inductive, PTL DEF Spec

-----------------------------------------------------------------------------
(* Refinement: the queue implements Mails.  Each operation moves the fate  *)
(* of at most one mail, but for a crash, which is a Vanish.                *)

FateOf(j) ==
    CASE state[j] = "none" -> "none"
      [] state[j] = "completed" -> "done"
      [] state[j] = "failed" -> "given up"
      [] state[j] = "active" /\ step[j] \in {"logCompleted", "resolve"} -> "delivered"
      [] OTHER -> "queued"

LEMMA FateIs == fate = [j \in Jobs |-> FateOf(j)] /\ fate' = [j \in Jobs |-> FateOf(j)']
BY DEF fate, FateOf

\* What leaves state and worker of every job alone leaves every fate.
LEMMA FatesKept ==
    ASSUME UNCHANGED <<state, step, lost>>
    PROVE  UNCHANGED Promised!vars
BY FateIs DEF Promised!vars, FateOf

\* What changes one job changes one fate.
LEMMA OneFateMoves ==
    ASSUME NEW j \in Jobs, NEW from, NEW to, UNCHANGED lost,
           \A k \in Jobs \ {j} : state'[k] = state[k] /\ step'[k] = step[k],
           FateOf(j) = from, FateOf(j)' = to
    PROVE  Promised!Becomes(j, from, to)
<1>1. ASSUME NEW k \in Jobs \ {j} PROVE FateOf(k)' = FateOf(k)
  BY <1>1 DEF FateOf
<1> QED
  BY <1>1, FateIs DEF Promised!Becomes

\* One job moves on, and its fate stays.
LEMMA FateStays ==
    ASSUME NEW j \in Jobs, UNCHANGED lost,
           \A k \in Jobs \ {j} : state'[k] = state[k] /\ step'[k] = step[k],
           FateOf(j)' = FateOf(j)
    PROVE  UNCHANGED Promised!vars
<1>1. ASSUME NEW k \in Jobs PROVE FateOf(k)' = FateOf(k)
  BY <1>1 DEF FateOf
<1> QED
  BY <1>1, FateIs DEF Promised!vars

\* Becomes is a step of Mails wherever it is one of its five.
LEMMA MailMoves ==
    ASSUME NEW j \in Jobs,
           \/ Promised!Becomes(j, "none", "queued")
           \/ Promised!Becomes(j, "queued", "delivered")
           \/ Promised!Becomes(j, "delivered", "done")
           \/ Promised!Becomes(j, "queued", "given up")
           \/ Promised!Becomes(j, "given up", "queued")
    PROVE  Promised!Next
BY DEF Promised!Next, Promised!Accept, Promised!Deliver, Promised!Settle,
       Promised!GiveUp, Promised!AskAgain

LEMMA CrashVanishes ==
    ASSUME IInv, NEW p \in Replicas, Crash(p)
    PROVE  Promised!Vanish(ActiveAt(p))
<1> DEFINE gone == ActiveAt(p)
           again == {j \in gone : stalled[j] < MaxStalled}
<1>1. ASSUME NEW j \in gone
      PROVE  /\ state[j] = "active"
             /\ FateOf(j) = IF step[j] \in {"logCompleted", "resolve"}
                            THEN "delivered" ELSE "queued"
  BY JobQueueAssumption DEF ActiveAt, IInv, TypeOK, FateOf
<1>2. ASSUME NEW j \in Jobs
      PROVE  FateOf(j)' = IF j \in again THEN "queued"
                          ELSE IF j \in gone THEN "given up" ELSE FateOf(j)
  <2>1. CASE j \in gone
    BY <2>1, CrashOf DEF ActiveAt, FateOf
  <2>2. CASE j \notin gone
    BY <2>2, CrashOf DEF ActiveAt, FateOf
  <2> QED
    BY <2>1, <2>2
<1>3. again \in SUBSET gone /\ gone \subseteq Jobs
  BY DEF ActiveAt
<1>4. \A j \in gone : fate[j] \in {"queued", "delivered"}
  BY <1>1, <1>3, FateIs
<1>5. fate' = [j \in Jobs |-> IF j \in again THEN "queued"
                              ELSE IF j \in gone THEN "given up" ELSE fate[j]]
  BY <1>2, FateIs
<1>6. {j \in gone : step[j] \in {"logCompleted", "resolve"}} = {j \in gone : fate[j] = "delivered"}
  BY <1>1, <1>3, FateIs
<1>7. lost' = lost \union {j \in gone : fate[j] = "delivered"}
  BY <1>6 DEF Crash
<1> HIDE DEF gone, again
<1>8. Promised!Vanish(gone)
  BY <1>3, <1>4, <1>5, <1>7 DEF Promised!Vanish
<1> QED
  BY <1>8 DEF gone

LEMMA EnqueueAccepts ==
    ASSUME IInv, NEW r \in Requests, NEW p, NEW j \in Jobs, NEW o, Enqueue(r, p, j, o)
    PROVE  Promised!Becomes(j, "none", "queued")
BY OneFateMoves DEF IInv, TypeOK, Enqueue, FateOf, worker

LEMMA RetryAsksAgain ==
    ASSUME IInv, NEW j \in Jobs, RetryJob(j)
    PROVE  Promised!Becomes(j, "given up", "queued")
BY OneFateMoves DEF IInv, TypeOK, RetryJob, FateOf, worker, history

LEMMA SendMailDelivers ==
    ASSUME IInv, NEW j \in Jobs, SendMail(j)
    PROVE  Promised!Becomes(j, "queued", "delivered")
<1>1. state[j] = "active"
  BY JobQueueAssumption DEF IInv, TypeOK, WorkerInv, SendMail
<1> QED
  BY <1>1, OneFateMoves DEF IInv, TypeOK, SendMail, FateOf, redis

LEMMA ResolveSettles ==
    ASSUME IInv, NEW j \in Jobs, Resolve(j)
    PROVE  Promised!Becomes(j, "delivered", "done")
<1>1. state[j] = "active"
  BY JobQueueAssumption DEF IInv, TypeOK, WorkerInv, Resolve
<1> QED
  BY <1>1, OneFateMoves DEF IInv, TypeOK, Resolve, FateOf, history

\* The attempts run out, or the mail stays in the queue.
LEMMA RejectGivesUp ==
    ASSUME IInv, NEW j \in Jobs, Reject(j)
    PROVE  Promised!Becomes(j, "queued", "given up") \/ UNCHANGED Promised!vars
<1>1. state[j] = "active"
  BY JobQueueAssumption DEF IInv, TypeOK, WorkerInv, Reject
<1>2. /\ FateOf(j) = "queued" /\ UNCHANGED lost
      /\ \A k \in Jobs \ {j} : state'[k] = state[k] /\ step'[k] = step[k]
  BY <1>1 DEF IInv, TypeOK, Reject, FateOf, history
<1>3. CASE made[j] + 1 < QUEUE_ATTEMPTS
  <2>1. FateOf(j)' = "queued"
    BY <1>3 DEF IInv, TypeOK, Reject, FateOf
  <2> QED
    BY <1>2, <2>1, FateStays
<1>4. CASE ~(made[j] + 1 < QUEUE_ATTEMPTS)
  <2>1. FateOf(j)' = "given up"
    BY <1>4 DEF IInv, TypeOK, Reject, FateOf
  <2> QED
    BY <1>2, <2>1, OneFateMoves
<1> QED
  BY <1>3, <1>4

\* What the worker does between these, and the backoff that passes.
LEMMA WorkerStutters ==
    ASSUME IInv, NEW j \in Jobs,
           \/ \E p \in Replicas : Take(p, j)
           \/ Promote(j) \/ StartJob(j) \/ DecryptFails(j) \/ SendFails(j)
           \/ LogCompleted(j) \/ LogFailed(j)
    PROVE  UNCHANGED Promised!vars
<1>1. /\ UNCHANGED lost
      /\ \A k \in Jobs \ {j} : state'[k] = state[k] /\ step'[k] = step[k]
  BY DEF IInv, TypeOK, Take, Promote, StartJob, DecryptFails, SendFails, LogCompleted,
         LogFailed, history, worker, redis
<1>2. FateOf(j)' = FateOf(j)
  <2>1. step[j] # "idle" => state[j] = "active"
    BY DEF IInv, TypeOK, WorkerInv
  <2>2. CASE \E p \in Replicas : Take(p, j)
    BY <2>2 DEF IInv, TypeOK, Take, FateOf
  <2>3. CASE Promote(j)
    BY <2>3 DEF IInv, TypeOK, Promote, FateOf, worker
  <2>4. CASE StartJob(j) \/ DecryptFails(j) \/ SendFails(j)
    BY <2>1, <2>4 DEF IInv, TypeOK, StartJob, DecryptFails, SendFails, FateOf, redis
  <2>5. CASE LogCompleted(j) \/ LogFailed(j)
    BY <2>1, <2>5 DEF IInv, TypeOK, LogCompleted, LogFailed, FateOf, redis
  <2> QED
    BY <2>2, <2>3, <2>4, <2>5
<1> QED
  BY <1>1, <1>2, FateStays

LEMMA MailsStep == IInv /\ [Next]_vars => [Promised!Next]_Promised!vars
<1> SUFFICES ASSUME IInv, [Next]_vars PROVE Promised!Next \/ UNCHANGED Promised!vars
  OBVIOUS
<1>1. ASSUME NEW r \in Requests, NEW p \in Replicas, NEW j \in Jobs, AddJob(r, p, j)
      PROVE  Promised!Next
  BY <1>1, EnqueueAccepts, MailMoves DEF AddJob
<1>2. ASSUME NEW r \in Requests, NEW j \in Jobs, ReplayAdd(r, j)
      PROVE  Promised!Next
  <2>1. Promised!Becomes(j, "none", "queued")
    BY <1>2, EnqueueAccepts DEF ReplayAdd
  <2> QED
    BY <2>1, MailMoves
<1>3. ASSUME NEW r \in Requests,
             \/ LogPending(r) \/ ReplayFails(r)
             \/ \E p \in Replicas, j \in Jobs : ReplayFound(r, p, j)
      PROVE  UNCHANGED Promised!vars
  BY <1>3, FatesKept DEF LogPending, ReplayFails, ReplayFound, redis, worker, history
<1>4. ASSUME NEW j \in Jobs,
             \/ \E p \in Replicas : Take(p, j)
             \/ Promote(j) \/ StartJob(j) \/ DecryptFails(j) \/ SendFails(j)
             \/ LogCompleted(j) \/ LogFailed(j)
      PROVE  UNCHANGED Promised!vars
  BY <1>4, WorkerStutters
<1>5. ASSUME NEW j \in Jobs, RetryJob(j) \/ SendMail(j) \/ Resolve(j) \/ Reject(j)
      PROVE  Promised!Next \/ UNCHANGED Promised!vars
  BY <1>5, RetryAsksAgain, SendMailDelivers, ResolveSettles, RejectGivesUp, MailMoves
<1>6. ASSUME NEW p \in Replicas, Crash(p)
      PROVE  Promised!Next
  <2>1. Promised!Vanish(ActiveAt(p)) /\ ActiveAt(p) \in SUBSET Jobs
    BY <1>6, CrashVanishes DEF ActiveAt
  <2> QED
    BY <2>1 DEF Promised!Next
<1>7. ASSUME NEW p \in Replicas, Shutdown(p) \/ CloseQueue(p) \/ Exit(p) \/ Restart(p)
      PROVE  UNCHANGED Promised!vars
  BY <1>7, FatesKept DEF Shutdown, CloseQueue, Exit, Restart, redis, worker, history
<1>8. CASE UNCHANGED vars
  BY <1>8, FatesKept DEF vars, redis, worker, history
<1> QED
  BY <1>1, <1>2, <1>3, <1>4, <1>5, <1>6, <1>7, <1>8, NextOperations DEF Operations

-----------------------------------------------------------------------------
(* The theorems.                                                           *)

\* Every variable keeps its type, through whatever order of requests, worker
\* steps, shutdowns and crashes, and a job has a worker exactly while active.
THEOREM TypeCorrect == Spec => []TypeOK
<1>1. IInv => TypeOK
  BY DEF IInv
<1> QED
  BY <1>1, Invariant, PTL

\* A mail is sent once, unless the worker vanishes between the sending and the
\* end of its job.
THEOREM MailSentOnce == Spec => []SentOnce
<1>1. IInv => SentOnce
  <2> SUFFICES ASSUME IInv, NEW j \in Jobs, j \notin lost PROVE ~(sent[j] > 1)
    BY DEF SentOnce
  <2>1. sent[j] \in Nat /\ (sent[j] > 0 => sent[j] = 1)
    BY DEF IInv, TypeOK, WorkerInv
  <2> QED
    BY <2>1
<1> QED
  BY <1>1, Invariant, PTL

\* The job log never tells of a sending or of a failure that did not happen.
THEOREM LogIsTruthful == Spec => []LogTruthful
<1>1. IInv => LogTruthful
  BY DEF IInv
<1> QED
  BY <1>1, Invariant, PTL

\* A mail of which no attempt failed, and which no worker vanished with, goes
\* out once at most over all the jobs ever made of it.
THEOREM MailReceivedOnce == Spec => []ReceivedOnce
<1>1. IInv => ReceivedOnce
  <2> SUFFICES ASSUME IInv, NEW j \in Jobs, j \notin failedOnce, j \notin lost,
                      NEW k \in Jobs, origin[k] = j, sent[k] > 0
               PROVE  k = j /\ sent[k] = 1
    BY DEF ReceivedOnce
  <2>1. k = j
    BY DEF IInv, OnlyFailedReplayed
  <2> QED
    BY <2>1 DEF IInv, WorkerInv
<1> QED
  BY <1>1, Invariant, PTL

\* A shutdown that comes to its end has waited for every job and request.
THEOREM ShutdownAbandonsNothing == Spec => []NothingAbandoned
<1>1. IInv => NothingAbandoned
  BY DEF IInv
<1> QED
  BY <1>1, Invariant, PTL

\* The queue keeps the promise Mails states: every step of it is one of Mails
\* or leaves the fate of every mail alone.
THEOREM QueueImplementsMails == Spec => ImplementsMails
<1>1. Init => Promised!Init
  BY FateIs DEF Init, Promised!Init, FateOf
<1> QED
  BY <1>1, MailsStep, Invariant, PTL DEF Spec, ImplementsMails, Promised!Spec

LEMMA DoneStays ==
    ASSUME NEW j \in Jobs, [Promised!Next]_Promised!vars, fate[j] = "done"
    PROVE  fate'[j] = "done"
<1>1. ASSUME NEW k \in Jobs, NEW from, NEW to, Promised!Becomes(k, from, to), from # "done"
      PROVE  fate'[j] = "done"
  BY <1>1, FateIs DEF Promised!Becomes
<1>2. ASSUME NEW S \in SUBSET Jobs, Promised!Vanish(S)
      PROVE  fate'[j] = "done"
  <2>1. j \notin S
    BY <1>2 DEF Promised!Vanish
  <2> QED
    BY <1>2, <2>1 DEF Promised!Vanish
<1>3. CASE UNCHANGED Promised!vars
  BY <1>3 DEF Promised!vars
<1> QED
  BY <1>1, <1>2, <1>3 DEF Promised!Next, Promised!Accept, Promised!Deliver, Promised!Settle,
     Promised!GiveUp, Promised!AskAgain

\* What follows of Mails: a job that is completed is never worked on again,
\* whoever retries or replays and whichever process dies.
THEOREM CompletedForGood ==
    Spec => [][\A j \in Jobs : state[j] = "completed" => state'[j] = "completed"]_vars
<1>1. ASSUME IInv, [Next]_vars, NEW j \in Jobs, state[j] = "completed"
      PROVE  state'[j] = "completed"
  <2>1. fate[j] = "done"
    BY <1>1, FateIs DEF FateOf
  <2>2. fate'[j] = "done"
    BY <1>1, <2>1, MailsStep, DoneStays
  <2>3. FateOf(j)' = "done"
    BY <2>2, FateIs
  <2> QED
    BY <2>3 DEF FateOf
<1>2. IInv /\ [Next]_vars =>
        [\A j \in Jobs : state[j] = "completed" => state'[j] = "completed"]_vars
  BY <1>1
<1> QED
  BY <1>2, Invariant, PTL DEF Spec
=============================================================================
