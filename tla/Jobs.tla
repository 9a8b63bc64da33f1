-------------------------------- MODULE Jobs --------------------------------
(***************************************************************************)
(* The processing job queue of clearframe/jobs.py, with the two ways it is *)
(* deployed: threads of the API process (LocalJobRunner) and one container *)
(* execution per dispatch with a scheduled reconciler (cloud_jobs.py,      *)
(* worker.py, reconcile.py).  The row of a job in the database is the only *)
(* state that survives; dispatches, workers and the reconciler's work list *)
(* are lost when their process dies.                                       *)
(*                                                                         *)
(* Time is relative, so behaviours are unbounded over a finite state       *)
(* space: lease[j] is the time left until lease_expires_at, age[j] the     *)
(* time since created_at (saturating at QueuedAge), due[w] the time left   *)
(* until the heartbeat thread of worker w wakes up.                        *)
(***************************************************************************)
EXTENDS Integers

CONSTANTS
    Jobs,               \* rows of processing_jobs
    Workers,            \* threads of the local pool, or container executions
    NoJob,              \* what an idle worker holds
    Registered,         \* the jobs whose type has a handler in the executor
    Backend,            \* settings.job_backend
    LeaseDuration,      \* lease_duration, in ticks
    HeartbeatInterval,  \* heartbeat_interval_seconds, in ticks
    QueuedAge,          \* the reconciler's queued_age, in ticks
    MaxDeliveries       \* bound: dispatches of one job in flight at a time

\* jobs.py:132-137 and 339-340 refuse any other durations.
ASSUME DurationAssumption ==
    /\ LeaseDuration \in Nat \ {0}
    /\ HeartbeatInterval \in Nat \ {0}
    /\ HeartbeatInterval < LeaseDuration
    /\ QueuedAge \in Nat

ASSUME QueueAssumption ==
    /\ NoJob \notin Jobs
    /\ Registered \subseteq Jobs
    /\ Backend \in {"local", "cloud_run"}
    /\ MaxDeliveries \in Nat \ {0}

VARIABLES
    status,      \* ProcessingJob.status, "absent" before the row exists
    attempts,    \* ProcessingJob.attempts
    lease,       \* ticks left on the lease, NoLease when lease_expires_at is NULL
    age,         \* ticks since created_at
    submitting,  \* rows committed by a request that has not called enqueue yet
    deliveries,  \* deliveries[j]: executions of j dispatched and not yet begun
    pc,          \* pc[w]: where worker w stands in JobExecutor.execute
    holds,       \* holds[w]: the job worker w claimed
    due,         \* due[w]: ticks until the heartbeat of w is due
    todo,        \* queued ids the reconciler has read and not yet redispatched
    up           \* the API process is running

jobVars    == <<status, attempts, lease, age>>
workerVars == <<pc, holds, due>>
vars == <<jobVars, submitting, deliveries, workerVars, todo, up>>

NoLease  == -1
Statuses == {"absent", "queued", "running", "completed", "failed"}
Local    == Backend = "local"
Cloud    == Backend = "cloud_run"

TypeOK ==
    /\ status \in [Jobs -> Statuses]
    /\ attempts \in [Jobs -> Nat]
    /\ lease \in [Jobs -> NoLease..LeaseDuration]
    /\ age \in [Jobs -> 0..QueuedAge]
    /\ submitting \in SUBSET Jobs
    /\ deliveries \in [Jobs -> 0..MaxDeliveries]
    /\ pc \in [Workers -> {"idle", "handler", "returned", "raised"}]
    /\ holds \in [Workers -> Jobs \cup {NoJob}]
    /\ due \in [Workers -> 0..HeartbeatInterval]
    /\ todo \in SUBSET Jobs
    /\ up \in BOOLEAN

Init ==
    /\ status = [j \in Jobs |-> "absent"]
    /\ attempts = [j \in Jobs |-> 0]
    /\ lease = [j \in Jobs |-> NoLease]
    /\ age = [j \in Jobs |-> 0]
    /\ submitting = {}
    /\ deliveries = [j \in Jobs |-> 0]
    /\ pc = [w \in Workers |-> "idle"]
    /\ holds = [w \in Workers |-> NoJob]
    /\ due = [w \in Workers |-> 0]
    /\ todo = {}
    /\ up = TRUE

-----------------------------------------------------------------------------
(* Submission: a service commits the row, then calls the dispatcher.       *)

Submit(j) ==
    /\ up
    /\ status[j] = "absent"
    /\ status' = [status EXCEPT ![j] = "queued"]
    /\ age' = [age EXCEPT ![j] = 0]
    /\ submitting' = submitting \cup {j}
    /\ UNCHANGED <<attempts, lease, deliveries, workerVars, todo, up>>

Deliver(j) ==
    /\ deliveries[j] < MaxDeliveries
    /\ deliveries' = [deliveries EXCEPT ![j] = @ + 1]

Enqueue(j) ==
    /\ j \in submitting
    /\ submitting' = submitting \ {j}
    /\ Deliver(j)
    /\ UNCHANGED <<jobVars, workerVars, todo, up>>

\* The request dies between its commit and the call, or run_job raises.
EnqueueFails(j) ==
    /\ Cloud
    /\ j \in submitting
    /\ submitting' = submitting \ {j}
    /\ UNCHANGED <<jobVars, deliveries, workerVars, todo, up>>

-----------------------------------------------------------------------------
(* One execution: claim, handler under a heartbeat, outcome.               *)

Begin(j) ==
    /\ deliveries[j] > 0
    /\ deliveries' = [deliveries EXCEPT ![j] = @ - 1]

\* The execution never reaches a committed claim.
LoseExecution(j) ==
    /\ Begin(j)
    /\ UNCHANGED <<jobVars, submitting, workerVars, todo, up>>

\* The UPDATE of _claim; the job type then selects the handler.
ClaimRow(w, j) ==
    /\ pc[w] = "idle"
    /\ Begin(j)
    /\ status' = [status EXCEPT ![j] = "running"]
    /\ attempts' = [attempts EXCEPT ![j] = @ + 1]
    /\ lease' = [lease EXCEPT ![j] = LeaseDuration]
    /\ pc' = [pc EXCEPT ![w] = IF j \in Registered THEN "handler" ELSE "raised"]
    /\ holds' = [holds EXCEPT ![w] = j]
    /\ due' = [due EXCEPT ![w] = HeartbeatInterval]
    /\ UNCHANGED <<age, submitting, todo, up>>

Claim(w, j) ==
    /\ status[j] = "queued"
    /\ ClaimRow(w, j)

NotClaimed(j) ==
    /\ status[j] # "queued"
    /\ Begin(j)
    /\ UNCHANGED <<jobVars, submitting, workerVars, todo, up>>

\* Faulty variant: the row is touched, lease_expires_at is forgotten.
TouchOnly(j) == lease' = [lease EXCEPT ![j] = lease[j]]

RenewLease(j) == lease' = [lease EXCEPT ![j] = LeaseDuration]

\* JobContext.update, called by the handlers between their steps.
Update(w) ==
    /\ pc[w] = "handler"
    /\ status[holds[w]] = "running"
    /\ RenewLease(holds[w])
    /\ UNCHANGED <<status, attempts, age, submitting, deliveries, workerVars, todo, up>>

UpdateRejected(w) ==
    /\ pc[w] = "handler"
    /\ status[holds[w]] # "running"
    /\ pc' = [pc EXCEPT ![w] = "raised"]
    /\ UNCHANGED <<jobVars, submitting, deliveries, holds, due, todo, up>>

HeartbeatRow(w) ==
    /\ pc[w] = "handler"
    /\ due[w] = 0
    /\ RenewLease(holds[w])
    /\ due' = [due EXCEPT ![w] = HeartbeatInterval]
    /\ UNCHANGED <<status, attempts, age, submitting, deliveries, pc, holds, todo, up>>

\* The heartbeat thread; once a renewal is refused the thread is gone, and
\* no later renewal could succeed, so that case leaves nothing to do.
Heartbeat(w) ==
    /\ pc[w] = "handler"
    /\ status[holds[w]] = "running"
    /\ HeartbeatRow(w)

HandlerEnds(w, how) ==
    /\ pc[w] = "handler"
    /\ how \in {"returned", "raised"}
    /\ pc' = [pc EXCEPT ![w] = how]
    /\ UNCHANGED <<jobVars, submitting, deliveries, holds, due, todo, up>>

Free(w) ==
    /\ pc' = [pc EXCEPT ![w] = "idle"]
    /\ holds' = [holds EXCEPT ![w] = NoJob]
    /\ due' = [due EXCEPT ![w] = 0]

CompleteRow(w) ==
    /\ pc[w] = "returned"
    /\ status' = [status EXCEPT ![holds[w]] = "completed"]
    /\ lease' = [lease EXCEPT ![holds[w]] = NoLease]
    /\ Free(w)
    /\ UNCHANGED <<attempts, age, submitting, deliveries, todo, up>>

MarkCompleted(w) ==
    /\ pc[w] = "returned"
    /\ status[holds[w]] = "running"
    /\ CompleteRow(w)

CompletionRejected(w) ==
    /\ pc[w] = "returned"
    /\ status[holds[w]] # "running"
    /\ Free(w)
    /\ UNCHANGED <<jobVars, submitting, deliveries, todo, up>>

\* _fail_job applied to every row of S in one transaction.
FailJobs(S) ==
    /\ status' = [j \in Jobs |-> IF j \in S THEN "failed" ELSE status[j]]
    /\ lease' = [j \in Jobs |-> IF j \in S THEN NoLease ELSE lease[j]]

\* The code checks no status here.
MarkFailed(w) ==
    /\ pc[w] = "raised"
    /\ FailJobs({holds[w]})
    /\ Free(w)
    /\ UNCHANGED <<attempts, age, submitting, deliveries, todo, up>>

\* A container is killed wherever it stands; a thread of the local pool is
\* lost only with its process, but the write of its outcome may raise.
WorkerDies(w) ==
    /\ pc[w] # "idle"
    /\ Local => pc[w] # "handler"
    /\ Free(w)
    /\ UNCHANGED <<jobVars, submitting, deliveries, todo, up>>

-----------------------------------------------------------------------------
(* The scheduled reconciler of the cloud deployment.                       *)

\* Faulty variant: the NULL test of the expiry query inverted.
LeaselessJobs == {j \in Jobs : status[j] = "running" /\ lease[j] = NoLease}

ExpiredJobs == {j \in Jobs : status[j] = "running" /\ lease[j] = 0}
AgedQueued  == {j \in Jobs : status[j] = "queued" /\ age[j] = QueuedAge}

\* The two transactions at the head of a pass; what it read of the queue is
\* already old when the pass comes to redispatch it.
Reconcile ==
    /\ Cloud
    /\ todo = {}
    /\ FailJobs(ExpiredJobs)
    /\ todo' = AgedQueued
    /\ UNCHANGED <<attempts, age, submitting, deliveries, workerVars, up>>

Redispatch(j) ==
    /\ j \in todo
    /\ todo' = todo \ {j}
    /\ Deliver(j)
    /\ UNCHANGED <<jobVars, submitting, workerVars, up>>

\* One failed dispatch is counted and the pass goes on with the next job.
RedispatchFails(j) ==
    /\ j \in todo
    /\ todo' = todo \ {j}
    /\ UNCHANGED <<jobVars, submitting, deliveries, workerVars, up>>

ReconcilerDies ==
    /\ todo # {}
    /\ todo' = {}
    /\ UNCHANGED <<jobVars, submitting, deliveries, workerVars, up>>

-----------------------------------------------------------------------------
(* The API process of the local deployment.                                *)

\* Faulty variant: threads of the old process outlive it.
ApiDiesAlone ==
    /\ Local
    /\ up
    /\ up' = FALSE
    /\ UNCHANGED <<jobVars, submitting, deliveries, workerVars, todo>>

ApiDies ==
    /\ Local
    /\ up
    /\ up' = FALSE
    /\ submitting' = {}
    /\ deliveries' = [j \in Jobs |-> 0]
    /\ pc' = [w \in Workers |-> "idle"]
    /\ holds' = [w \in Workers |-> NoJob]
    /\ due' = [w \in Workers |-> 0]
    /\ UNCHANGED <<jobVars, todo>>

Interrupted == {j \in Jobs : status[j] \in {"queued", "running"}}

ApiStarts ==
    /\ ~up
    /\ up' = TRUE
    /\ FailJobs(Interrupted)
    /\ UNCHANGED <<attempts, age, submitting, deliveries, workerVars, todo>>

-----------------------------------------------------------------------------
\* Faulty variant of the next definition.
DownPastZero(n) == n - 1

Down(n) == IF n > 0 THEN n - 1 ELSE n

Tick ==
    /\ lease' = [j \in Jobs |-> Down(lease[j])]
    /\ age' = [j \in Jobs |->
                 IF status[j] # "absent" /\ age[j] < QueuedAge THEN age[j] + 1 ELSE age[j]]
    /\ due' = [w \in Workers |-> Down(due[w])]
    /\ UNCHANGED <<status, attempts, submitting, deliveries, pc, holds, todo, up>>

Execution(w) ==
    \/ \E j \in Jobs : Claim(w, j)
    \/ Update(w)
    \/ UpdateRejected(w)
    \/ Heartbeat(w)
    \/ \E how \in {"returned", "raised"} : HandlerEnds(w, how)
    \/ MarkCompleted(w)
    \/ CompletionRejected(w)
    \/ MarkFailed(w)
    \/ WorkerDies(w)

Dispatch(j) ==
    \/ Submit(j)
    \/ Enqueue(j)
    \/ EnqueueFails(j)
    \/ LoseExecution(j)
    \/ NotClaimed(j)
    \/ Redispatch(j)
    \/ RedispatchFails(j)

Step ==
    \/ \E w \in Workers : Execution(w)
    \/ \E j \in Jobs : Dispatch(j)
    \/ Reconcile
    \/ ReconcilerDies
    \/ ApiDies
    \/ ApiStarts

Next == Step \/ Tick

Spec == Init /\ [][Next]_vars

(***************************************************************************)
(* The same system on hosts that run the heartbeat thread of every live    *)
(* handler before the next tick once it is due.                            *)
(***************************************************************************)
TimelyTick ==
    /\ \A w \in Workers :
          pc[w] = "handler" /\ status[holds[w]] = "running" => due[w] > 0
    /\ Tick

TimelyNext == Step \/ TimelyTick

TimelySpec == Init /\ [][TimelyNext]_vars

(***************************************************************************)
(* Cloud Scheduler starts the reconciler again and again; a dispatch that  *)
(* is retried for ever is accepted some time, an execution begun for ever  *)
(* claims some time; a handler ends or is killed by the task timeout.      *)
(***************************************************************************)
CloudFairness ==
    /\ WF_vars(Tick)
    /\ WF_vars(Reconcile)
    /\ \A j \in Jobs :
          /\ WF_vars(Redispatch(j) \/ RedispatchFails(j) \/ ReconcilerDies)
          /\ SF_vars(Redispatch(j))
          /\ SF_vars(\E w \in Workers : Claim(w, j))
    /\ \A w \in Workers :
          /\ WF_vars(\E how \in {"returned", "raised"} : HandlerEnds(w, how))
          /\ WF_vars(MarkCompleted(w) \/ CompletionRejected(w) \/ MarkFailed(w) \/ WorkerDies(w))

CloudSpec == Spec /\ CloudFairness

-----------------------------------------------------------------------------
(* Properties                                                              *)

(***************************************************************************)
(* However often a job is dispatched, redispatched or raced for, at most   *)
(* one worker holds it, and only after the one claim that counts: _claim   *)
(* is a compare-and-set on QUEUED and nothing ever requeues a job          *)
(* (jobs.py:202-233).                                                      *)
(***************************************************************************)
SingleExecutor ==
    /\ \A v, w \in Workers : holds[v] = holds[w] /\ holds[v] \in Jobs => v = w
    /\ \A w \in Workers : holds[w] \in Jobs => attempts[holds[w]] = 1

(***************************************************************************)
(* A lease is held by running rows only: a renewal that lost the race with *)
(* the reconciler must not revive a failed job (jobs.py:36-59, 283-302).   *)
(***************************************************************************)
LeaseOnlyWhileRunning == \A j \in Jobs : status[j] = "running" <=> lease[j] # NoLease

(***************************************************************************)
(* No worker is still inside its handler after its job was given up.  True *)
(* of the local backend, where a restart takes the threads with it, and of *)
(* the cloud backend while heartbeats keep time (jobs.py:136, 271-302,     *)
(* 393-417); a paused container breaks it.                                 *)
(***************************************************************************)
NoZombie == \A w \in Workers : pc[w] = "handler" => status[holds[w]] = "running"

(***************************************************************************)
(* The reconciler takes a job only from a worker that is silent: as long   *)
(* as a worker is not due to renew its lease, whatever pass began before   *)
(* the last renewal, its running job is not failed (jobs.py:136-147,       *)
(* 271-302, 393-417).                                                      *)
(***************************************************************************)
OnlyOverdueWorkersExpire ==
    [][\A w \in Workers :
          pc[w] = "handler" /\ due[w] > 0 /\ status[holds[w]] = "running"
          => status'[holds[w]] # "failed"]_vars

(***************************************************************************)
(* Jobs implements the lifecycle promised to the services: started at most *)
(* once, final outcomes.  The unguarded write of _mark_failed              *)
(* (jobs.py:258-269) is harmless only because a completed row has no       *)
(* worker left.                                                            *)
(***************************************************************************)
Lifecycle == INSTANCE JobLifecycle WITH state <- status, starts <- attempts

ImplementsLifecycle == Lifecycle!LifecycleSpec

(***************************************************************************)
(* In the cloud deployment no job is left unfinished: lost dispatches are  *)
(* repeated and abandoned leases expire (jobs.py:346-417).                 *)
(***************************************************************************)
EveryJobEnds ==
    \A j \in Jobs :
        status[j] \in {"queued", "running"} ~> status[j] \in {"completed", "failed"}

=============================================================================
