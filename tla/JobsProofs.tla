----------------------------- MODULE JobsProofs -----------------------------
(***************************************************************************)
(* Theorems about module Jobs, for any sets of jobs and workers, either    *)
(* backend and any durations the constructors accept.                      *)
(***************************************************************************)
EXTENDS Jobs, TLAPS

(***************************************************************************)
(* The inductive invariant.  The safety of the unguarded _mark_failed      *)
(* rests on HoldersRunOrFailed: a job that somebody still holds is running *)
(* or already failed, never completed.                                     *)
(***************************************************************************)
IdleHoldsNothing == \A w \in Workers : pc[w] = "idle" <=> holds[w] = NoJob

HoldersRunOrFailed ==
    \A w \in Workers :
        holds[w] \in Jobs =>
            /\ status[holds[w]] \in {"running", "failed"}
            /\ attempts[holds[w]] = 1

UniqueHolders ==
    \A v, w \in Workers : holds[v] = holds[w] /\ holds[v] \in Jobs => v = w

UnstartedUnclaimed ==
    \A j \in Jobs : status[j] \in {"absent", "queued"} => attempts[j] = 0

QueueInv ==
    /\ TypeOK
    /\ IdleHoldsNothing
    /\ HoldersRunOrFailed
    /\ UniqueHolders
    /\ UnstartedUnclaimed
    /\ LeaseOnlyWhileRunning

-----------------------------------------------------------------------------
(* Every row keeps its type across every transaction of the queue.         *)
LEMMA DownType ==
    ASSUME NEW n \in Int, NEW hi \in Nat, n \in NoLease..hi
    PROVE  Down(n) \in NoLease..hi /\ (n \in 0..hi => Down(n) \in 0..hi)
BY DEF Down, NoLease

LEMMA InitType == Init => TypeOK
BY DurationAssumption, QueueAssumption DEF Init, TypeOK, NoLease, Statuses

LEMMA StepType == TypeOK /\ Step => TypeOK'
<1> SUFFICES ASSUME TypeOK, Step PROVE TypeOK'
  OBVIOUS
<1> USE DurationAssumption, QueueAssumption DEF TypeOK, NoLease, Statuses, jobVars, workerVars
<1>1. ASSUME NEW w \in Workers, NEW j \in Jobs, Claim(w, j) PROVE TypeOK'
  BY <1>1 DEF Claim, ClaimRow, Begin
<1>2. ASSUME NEW w \in Workers, Update(w) \/ Heartbeat(w) PROVE TypeOK'
  BY <1>2 DEF Update, Heartbeat, HeartbeatRow, RenewLease
<1>3. ASSUME NEW w \in Workers,
             UpdateRejected(w) \/ \E how \in {"returned", "raised"} : HandlerEnds(w, how)
      PROVE TypeOK'
  BY <1>3 DEF UpdateRejected, HandlerEnds
<1>4. ASSUME NEW w \in Workers, MarkCompleted(w) PROVE TypeOK'
  <2>1. status' \in [Jobs -> Statuses]
    BY <1>4 DEF MarkCompleted, CompleteRow
  <2>2. lease' \in [Jobs -> NoLease..LeaseDuration]
    <3>1. NoLease \in NoLease..LeaseDuration
      OBVIOUS
    <3>2. lease' = [lease EXCEPT ![holds[w]] = NoLease]
      BY <1>4 DEF MarkCompleted, CompleteRow
    <3> QED
      BY <3>1, <3>2
  <2>3. /\ pc' \in [Workers -> {"idle", "handler", "returned", "raised"}]
        /\ holds' \in [Workers -> Jobs \cup {NoJob}]
        /\ due' \in [Workers -> 0..HeartbeatInterval]
    BY <1>4 DEF MarkCompleted, CompleteRow, Free
  <2> QED
    BY <1>4, <2>1, <2>2, <2>3 DEF MarkCompleted, CompleteRow
<1>5. ASSUME NEW w \in Workers, CompletionRejected(w) \/ WorkerDies(w) PROVE TypeOK'
  BY <1>5 DEF CompletionRejected, WorkerDies, Free
<1>6. ASSUME NEW w \in Workers, MarkFailed(w) PROVE TypeOK'
  BY <1>6 DEF MarkFailed, FailJobs, Free
<1>7. ASSUME NEW j \in Jobs, Submit(j) PROVE TypeOK'
  BY <1>7 DEF Submit
<1>8. ASSUME NEW j \in Jobs, Enqueue(j) \/ Redispatch(j) PROVE TypeOK'
  BY <1>8 DEF Enqueue, Redispatch, Deliver
<1>9. ASSUME NEW j \in Jobs, EnqueueFails(j) \/ RedispatchFails(j) PROVE TypeOK'
  BY <1>9 DEF EnqueueFails, RedispatchFails
<1>10. ASSUME NEW j \in Jobs, LoseExecution(j) \/ NotClaimed(j) PROVE TypeOK'
  BY <1>10 DEF LoseExecution, NotClaimed, Begin
<1>11. CASE Reconcile
  BY <1>11 DEF Reconcile, FailJobs, AgedQueued
<1>12. CASE ReconcilerDies
  BY <1>12 DEF ReconcilerDies
<1>13. CASE ApiDies
  <2>1. deliveries' \in [Jobs -> 0..MaxDeliveries]
    BY <1>13 DEF ApiDies
  <2>2. /\ pc' \in [Workers -> {"idle", "handler", "returned", "raised"}]
        /\ holds' \in [Workers -> Jobs \cup {NoJob}]
    BY <1>13 DEF ApiDies
  <2>3. due' \in [Workers -> 0..HeartbeatInterval]
    BY <1>13 DEF ApiDies
  <2> QED
    BY <1>13, <2>1, <2>2, <2>3 DEF ApiDies
<1>14. CASE ApiStarts
  BY <1>14 DEF ApiStarts, FailJobs
<1> QED
  BY <1>1, <1>2, <1>3, <1>4, <1>5, <1>6, <1>7, <1>8, <1>9, <1>10, <1>11, <1>12,
     <1>13, <1>14
  DEF Step, Execution, Dispatch

LEMMA TickType == TypeOK /\ Tick => TypeOK'
<1> SUFFICES ASSUME TypeOK, Tick PROVE TypeOK'
  OBVIOUS
<1>1. \A j \in Jobs : Down(lease[j]) \in NoLease..LeaseDuration
  BY DownType, DurationAssumption DEF TypeOK, NoLease
<1>2. \A w \in Workers : Down(due[w]) \in 0..HeartbeatInterval
  BY DownType, DurationAssumption DEF TypeOK, NoLease
<1>3. age' \in [Jobs -> 0..QueuedAge]
  BY DurationAssumption DEF TypeOK, Tick
<1> QED
  BY <1>1, <1>2, <1>3 DEF TypeOK, Tick

(***************************************************************************)
(* Type correctness of the queue's rows, workers and reconciler.           *)
(***************************************************************************)
THEOREM TypeCorrect == Spec => []TypeOK
<1>1. TypeOK /\ [Next]_vars => TypeOK'
  BY StepType, TickType DEF Next, vars, jobVars, workerVars, TypeOK
<1> QED
  BY InitType, <1>1, PTL DEF Spec

-----------------------------------------------------------------------------
(* The queue invariant.  Each step below deals with one transaction.       *)

LEMMA InitInv == Init => QueueInv
BY InitType, QueueAssumption
DEF Init, QueueInv, IdleHoldsNothing, HoldersRunOrFailed, UniqueHolders,
    UnstartedUnclaimed, LeaseOnlyWhileRunning, NoLease

\* A worker outside its handler can be freed without a word to the database.
LEMMA FreeInv ==
    ASSUME NEW w \in Workers, QueueInv, TypeOK', Free(w),
           UNCHANGED <<status, attempts, lease>>
    PROVE  QueueInv'
<1> USE QueueAssumption
    DEF QueueInv, TypeOK, Free, IdleHoldsNothing, HoldersRunOrFailed, UniqueHolders
<1>1. IdleHoldsNothing'
  OBVIOUS
<1>2. HoldersRunOrFailed' /\ UniqueHolders'
  OBVIOUS
<1>3. UnstartedUnclaimed' /\ LeaseOnlyWhileRunning'
  BY DEF UnstartedUnclaimed, LeaseOnlyWhileRunning
<1> QED
  BY <1>1, <1>2, <1>3

\* A claim is the only step that makes a worker hold a job.
LEMMA ClaimInv ==
    ASSUME NEW w \in Workers, NEW j \in Jobs, QueueInv, TypeOK', Claim(w, j)
    PROVE  QueueInv'
<1> USE QueueAssumption DEF QueueInv, TypeOK, Claim, ClaimRow
<1>1. IdleHoldsNothing'
  BY DEF IdleHoldsNothing
<1>2. \A v \in Workers : holds[v] # j
  BY DEF HoldersRunOrFailed
<1>3. attempts[j] = 0
  BY DEF UnstartedUnclaimed
<1>4. HoldersRunOrFailed'
  BY <1>2, <1>3 DEF HoldersRunOrFailed
<1>5. UniqueHolders'
  BY <1>2 DEF UniqueHolders
<1>6. UnstartedUnclaimed'
  BY DEF UnstartedUnclaimed
<1>7. LeaseOnlyWhileRunning'
  BY DurationAssumption DEF LeaseOnlyWhileRunning, NoLease
<1> QED
  BY <1>1, <1>4, <1>5, <1>6, <1>7

\* Renewing the lease of a running row.
LEMMA RenewInv ==
    ASSUME NEW w \in Workers, QueueInv, TypeOK', Update(w) \/ Heartbeat(w)
    PROVE  QueueInv'
<1> USE DEF QueueInv, TypeOK, Update, Heartbeat, HeartbeatRow, RenewLease, workerVars
<1>1. LeaseOnlyWhileRunning'
  BY DurationAssumption DEF LeaseOnlyWhileRunning, NoLease
<1> QED
  BY <1>1 DEF IdleHoldsNothing, HoldersRunOrFailed, UniqueHolders, UnstartedUnclaimed

LEMMA HandlerInv ==
    ASSUME NEW w \in Workers, QueueInv, TypeOK',
           UpdateRejected(w) \/ \E how \in {"returned", "raised"} : HandlerEnds(w, how)
    PROVE  QueueInv'
<1> USE DEF QueueInv, TypeOK, UpdateRejected, HandlerEnds, jobVars
<1>1. IdleHoldsNothing'
  BY DEF IdleHoldsNothing
<1> QED
  BY <1>1
  DEF HoldersRunOrFailed, UniqueHolders, UnstartedUnclaimed, LeaseOnlyWhileRunning

LEMMA MarkCompletedInv ==
    ASSUME NEW w \in Workers, QueueInv, TypeOK', MarkCompleted(w)
    PROVE  QueueInv'
<1> USE QueueAssumption DEF QueueInv, TypeOK, MarkCompleted, CompleteRow, Free
<1>1. holds[w] \in Jobs
  BY DEF IdleHoldsNothing
<1>2. \A v \in Workers \ {w} : holds[v] # holds[w]
  BY <1>1 DEF UniqueHolders
<1>3. IdleHoldsNothing'
  BY DEF IdleHoldsNothing
<1>4. HoldersRunOrFailed' /\ UniqueHolders'
  BY <1>1, <1>2 DEF HoldersRunOrFailed, UniqueHolders
<1>5. UnstartedUnclaimed' /\ LeaseOnlyWhileRunning'
  BY <1>1 DEF UnstartedUnclaimed, LeaseOnlyWhileRunning, NoLease
<1> QED
  BY <1>3, <1>4, <1>5

\* Whatever rows _fail_job is applied to, as long as none is complete.
LEMMA FailJobsInv ==
    ASSUME NEW S \in SUBSET Jobs, QueueInv, FailJobs(S),
           \A j \in S : status[j] # "absent", UNCHANGED attempts
    PROVE  /\ \A j \in Jobs : status'[j] # "failed" => status'[j] = status[j]
           /\ \A j \in Jobs : status[j] = "failed" => status'[j] = "failed"
           /\ UnstartedUnclaimed'
           /\ LeaseOnlyWhileRunning'
BY DEF QueueInv, TypeOK, FailJobs, UnstartedUnclaimed, LeaseOnlyWhileRunning, NoLease

LEMMA MarkFailedInv ==
    ASSUME NEW w \in Workers, QueueInv, TypeOK', MarkFailed(w)
    PROVE  QueueInv'
<1> USE QueueAssumption DEF QueueInv, TypeOK, MarkFailed, Free
<1>1. holds[w] \in Jobs
  BY DEF IdleHoldsNothing
<1>2. status[holds[w]] # "absent"
  BY <1>1 DEF HoldersRunOrFailed
<1>3. /\ \A j \in Jobs : status'[j] # "failed" => status'[j] = status[j]
      /\ UnstartedUnclaimed'
      /\ LeaseOnlyWhileRunning'
  BY <1>1, <1>2, FailJobsInv
<1>4. IdleHoldsNothing'
  BY DEF IdleHoldsNothing
<1>5. HoldersRunOrFailed' /\ UniqueHolders'
  BY <1>3 DEF HoldersRunOrFailed, UniqueHolders
<1> QED
  BY <1>3, <1>4, <1>5

\* The reconciler and the restart fail rows without asking their workers.
LEMMA SweepInv ==
    ASSUME QueueInv, TypeOK', Reconcile \/ ApiStarts
    PROVE  QueueInv'
<1>1. PICK S \in SUBSET Jobs :
          /\ \A j \in S : status[j] # "absent"
          /\ FailJobs(S)
          /\ UNCHANGED <<attempts, workerVars>>
  BY DEF Reconcile, ApiStarts, ExpiredJobs, Interrupted
<1>2. /\ \A j \in Jobs : status'[j] # "failed" => status'[j] = status[j]
      /\ UnstartedUnclaimed'
      /\ LeaseOnlyWhileRunning'
  BY <1>1, FailJobsInv
<1>3. IdleHoldsNothing' /\ HoldersRunOrFailed' /\ UniqueHolders'
  BY <1>1, <1>2
  DEF QueueInv, workerVars, IdleHoldsNothing, HoldersRunOrFailed, UniqueHolders
<1> QED
  BY <1>2, <1>3 DEF QueueInv

LEMMA ApiDiesInv ==
    ASSUME QueueInv, TypeOK', ApiDies
    PROVE  QueueInv'
BY QueueAssumption
DEF QueueInv, TypeOK, ApiDies, jobVars, IdleHoldsNothing, HoldersRunOrFailed,
    UniqueHolders, UnstartedUnclaimed, LeaseOnlyWhileRunning

\* Steps that move dispatches about and leave rows and workers alone.
LEMMA QuietInv ==
    ASSUME QueueInv, TypeOK', UNCHANGED <<status, attempts, lease, workerVars>>
    PROVE  QueueInv'
BY DEF QueueInv, workerVars, IdleHoldsNothing, HoldersRunOrFailed, UniqueHolders,
    UnstartedUnclaimed, LeaseOnlyWhileRunning

LEMMA SubmitInv ==
    ASSUME NEW j \in Jobs, QueueInv, TypeOK', Submit(j)
    PROVE  QueueInv'
<1> USE DEF QueueInv, TypeOK, Submit, workerVars
<1>1. HoldersRunOrFailed'
  BY DEF HoldersRunOrFailed
<1> QED
  BY <1>1 DEF IdleHoldsNothing, UniqueHolders, UnstartedUnclaimed, LeaseOnlyWhileRunning

LEMMA TickInv ==
    ASSUME QueueInv, TypeOK', Tick
    PROVE  QueueInv'
<1>1. LeaseOnlyWhileRunning'
  BY DEF QueueInv, TypeOK, Tick, LeaseOnlyWhileRunning, NoLease, Down
<1> QED
  BY <1>1
  DEF QueueInv, Tick, IdleHoldsNothing, HoldersRunOrFailed, UniqueHolders, UnstartedUnclaimed

LEMMA NextInv == QueueInv /\ [Next]_vars => QueueInv'
<1> SUFFICES ASSUME QueueInv, [Next]_vars PROVE QueueInv'
  OBVIOUS
<1>1. TypeOK'
  BY StepType, TickType DEF QueueInv, Next, vars, jobVars, workerVars, TypeOK
<1>2. ASSUME NEW w \in Workers, Execution(w) PROVE QueueInv'
  <2>1. CASE CompletionRejected(w) \/ WorkerDies(w)
    BY <1>1, <2>1, FreeInv DEF CompletionRejected, WorkerDies, jobVars
  <2> QED
    BY <1>1, <1>2, <2>1, ClaimInv, RenewInv, HandlerInv, MarkCompletedInv, MarkFailedInv
    DEF Execution
<1>3. ASSUME NEW j \in Jobs, Dispatch(j) PROVE QueueInv'
  <2>1. CASE Enqueue(j) \/ EnqueueFails(j)
    BY <1>1, <2>1, QuietInv DEF Enqueue, EnqueueFails, jobVars
  <2>2. CASE LoseExecution(j) \/ NotClaimed(j)
    BY <1>1, <2>2, QuietInv DEF LoseExecution, NotClaimed, jobVars
  <2>3. CASE Redispatch(j) \/ RedispatchFails(j)
    BY <1>1, <2>3, QuietInv DEF Redispatch, RedispatchFails, jobVars
  <2> QED
    BY <1>1, <1>3, <2>1, <2>2, <2>3, SubmitInv DEF Dispatch
<1>4. CASE ReconcilerDies \/ UNCHANGED vars
  BY <1>1, <1>4, QuietInv DEF ReconcilerDies, vars, jobVars
<1> QED
  BY <1>1, <1>2, <1>3, <1>4, SweepInv, ApiDiesInv, TickInv DEF Next, Step

(***************************************************************************)
(* The queue invariant holds of every behaviour.                           *)
(***************************************************************************)
THEOREM QueueInvariant == Spec => []QueueInv
BY InitInv, NextInv, PTL DEF Spec

(***************************************************************************)
(* No job is ever held by two workers or claimed a second time, under any  *)
(* number of duplicated, repeated and late dispatches.                     *)
(***************************************************************************)
THEOREM AtMostOneExecutor == Spec => []SingleExecutor
<1>1. QueueInv => SingleExecutor
  BY DEF QueueInv, SingleExecutor, UniqueHolders, HoldersRunOrFailed
<1> QED
  BY <1>1, QueueInvariant, PTL

(***************************************************************************)
(* A row carries a lease exactly while it is running.                      *)
(***************************************************************************)
THEOREM LeaseIsForRunning == Spec => []LeaseOnlyWhileRunning
<1>1. QueueInv => LeaseOnlyWhileRunning
  BY DEF QueueInv
<1> QED
  BY <1>1, QueueInvariant, PTL

-----------------------------------------------------------------------------
(* Refinement: each step of the queue is a step of JobLifecycle or leaves  *)
(* states and start counts alone.                                          *)

LEMMA InitRefines == Init => Lifecycle!LifecycleInit
BY DEF Init, Lifecycle!LifecycleInit

\* Failing rows none of which is complete gives up the unfinished ones.
LEMMA FailingGivesUp ==
    ASSUME TypeOK, NEW S \in SUBSET Jobs, FailJobs(S), UNCHANGED attempts,
           \A j \in S : status[j] \in {"queued", "running", "failed"}
    PROVE  [Lifecycle!LifecycleNext]_(Lifecycle!lifecycleVars)
<1> DEFINE T == {j \in S : status[j] # "failed"}
<1>1. status' = [j \in Jobs |-> IF j \in T THEN "failed" ELSE status[j]]
  BY DEF FailJobs, TypeOK
<1>2. Lifecycle!GiveUp(T)
  BY <1>1 DEF Lifecycle!GiveUp, Lifecycle!Unfinished
<1> QED
  BY <1>2 DEF Lifecycle!LifecycleNext

LEMMA NextRefines ==
    QueueInv /\ [Next]_vars => [Lifecycle!LifecycleNext]_(Lifecycle!lifecycleVars)
<1> SUFFICES ASSUME QueueInv, [Next]_vars
             PROVE  [Lifecycle!LifecycleNext]_(Lifecycle!lifecycleVars)
  OBVIOUS
<1> USE QueueAssumption DEF QueueInv
<1>1. ASSUME UNCHANGED <<status, attempts>>
      PROVE  UNCHANGED Lifecycle!lifecycleVars
  BY <1>1 DEF Lifecycle!lifecycleVars
<1>2. ASSUME NEW w \in Workers, NEW j \in Jobs, Claim(w, j)
      PROVE  Lifecycle!Start(j)
  BY <1>2 DEF Claim, ClaimRow, Lifecycle!Start
<1>3. ASSUME NEW w \in Workers, MarkCompleted(w)
      PROVE  holds[w] \in Jobs /\ Lifecycle!Complete(holds[w])
  BY <1>3 DEF TypeOK, IdleHoldsNothing, MarkCompleted, CompleteRow, Lifecycle!Complete
<1>4. ASSUME NEW w \in Workers, MarkFailed(w)
      PROVE  [Lifecycle!LifecycleNext]_(Lifecycle!lifecycleVars)
  <2>1. holds[w] \in Jobs
    BY <1>4 DEF TypeOK, IdleHoldsNothing, MarkFailed
  <2>2. status[holds[w]] \in {"running", "failed"}
    BY <2>1 DEF HoldersRunOrFailed
  <2> QED
    BY <1>4, <2>1, <2>2, FailingGivesUp DEF MarkFailed
<1>5. ASSUME NEW w \in Workers, Execution(w)
      PROVE  [Lifecycle!LifecycleNext]_(Lifecycle!lifecycleVars)
  <2>1. CASE \/ Update(w) \/ UpdateRejected(w) \/ Heartbeat(w)
             \/ CompletionRejected(w) \/ WorkerDies(w)
             \/ \E how \in {"returned", "raised"} : HandlerEnds(w, how)
    BY <1>1, <2>1
    DEF Update, UpdateRejected, Heartbeat, HeartbeatRow, CompletionRejected, WorkerDies,
        HandlerEnds, jobVars
  <2> QED
    BY <1>2, <1>3, <1>4, <1>5, <2>1 DEF Execution, Lifecycle!LifecycleNext
<1>6. ASSUME NEW j \in Jobs, Dispatch(j)
      PROVE  [Lifecycle!LifecycleNext]_(Lifecycle!lifecycleVars)
  <2>1. CASE Submit(j)
    BY <2>1 DEF Submit, Lifecycle!LifecycleNext, Lifecycle!Request
  <2>2. CASE ~Submit(j)
    BY <1>1, <1>6, <2>2
    DEF Dispatch, Enqueue, EnqueueFails, LoseExecution, NotClaimed, Redispatch,
        RedispatchFails, jobVars
  <2> QED
    BY <2>1, <2>2
<1>7. CASE Reconcile
  BY <1>7, FailingGivesUp DEF Reconcile, ExpiredJobs
<1>8. CASE ApiStarts
  BY <1>8, FailingGivesUp DEF ApiStarts, Interrupted
<1>9. CASE ReconcilerDies \/ ApiDies \/ Tick \/ UNCHANGED vars
  BY <1>1, <1>9 DEF ReconcilerDies, ApiDies, Tick, vars, jobVars
<1> QED
  BY <1>5, <1>6, <1>7, <1>8, <1>9 DEF Next, Step

(***************************************************************************)
(* The queue keeps the promise of JobLifecycle: one start, final outcomes. *)
(***************************************************************************)
THEOREM QueueImplementsLifecycle == Spec => ImplementsLifecycle
<1>1. Spec => Lifecycle!LifecycleInit /\ [][Lifecycle!LifecycleNext]_(Lifecycle!lifecycleVars)
  BY InitRefines, NextRefines, QueueInvariant, PTL DEF Spec
<1> QED
  BY <1>1 DEF ImplementsLifecycle, Lifecycle!LifecycleSpec

-----------------------------------------------------------------------------
(* Live workers and the clock.  While heartbeats keep time, the lease of a *)
(* live handler's job outlasts the time to its next heartbeat, because the *)
(* interval is shorter than the lease; so the reconciler never expires it. *)

NothingAliveWhileDown ==
    /\ Local => todo = {}
    /\ ~up => /\ Local
              /\ submitting = {}
              /\ \A j \in Jobs : deliveries[j] = 0
              /\ \A w \in Workers : pc[w] = "idle"

LeaseOutlastsBeat ==
    \A w \in Workers :
        pc[w] = "handler" => lease[holds[w]] >= LeaseDuration - HeartbeatInterval + due[w]

LEMMA InitAlive == Init => NothingAliveWhileDown
BY QueueAssumption DEF Init, NothingAliveWhileDown

LEMMA NextAlive == TypeOK /\ NothingAliveWhileDown /\ [Next]_vars => NothingAliveWhileDown'
<1> SUFFICES ASSUME TypeOK, NothingAliveWhileDown, [Next]_vars
             PROVE  NothingAliveWhileDown'
  OBVIOUS
<1> USE QueueAssumption DEF TypeOK, NothingAliveWhileDown, Local, Cloud
<1>1. ASSUME NEW w \in Workers, Execution(w) PROVE NothingAliveWhileDown'
  <2>1. up
    BY <1>1
    DEF Execution, Claim, ClaimRow, Begin, Update, UpdateRejected, Heartbeat, HandlerEnds,
        MarkCompleted, CompletionRejected, MarkFailed, WorkerDies
  <2>2. UNCHANGED <<todo, up>>
    BY <1>1
    DEF Execution, Claim, ClaimRow, Update, UpdateRejected, Heartbeat, HeartbeatRow,
        HandlerEnds, MarkCompleted, CompleteRow, CompletionRejected, MarkFailed, WorkerDies
  <2> QED
    BY <2>1, <2>2
<1>2. ASSUME NEW j \in Jobs, Dispatch(j) PROVE NothingAliveWhileDown'
  <2>1. up
    BY <1>2
    DEF Dispatch, Submit, Enqueue, EnqueueFails, LoseExecution, NotClaimed, Begin,
        Redispatch, RedispatchFails
  <2>2. UNCHANGED up /\ (todo = {} => todo' = {})
    BY <1>2
    DEF Dispatch, Submit, Enqueue, EnqueueFails, LoseExecution, NotClaimed, Redispatch,
        RedispatchFails
  <2> QED
    BY <2>1, <2>2
<1>3. CASE Reconcile \/ ReconcilerDies
  BY <1>3 DEF Reconcile, ReconcilerDies, jobVars, workerVars
<1>4. CASE ApiDies
  BY <1>4 DEF ApiDies
<1>5. CASE ApiStarts
  BY <1>5 DEF ApiStarts
<1>6. CASE Tick \/ UNCHANGED vars
  BY <1>6 DEF Tick, vars, workerVars
<1> QED
  BY <1>1, <1>2, <1>3, <1>4, <1>5, <1>6 DEF Next, Step

\* A worker's own steps never take the running row from another handler.
LEMMA ExecutionKeepsHandlers ==
    ASSUME QueueInv, NoZombie, NEW w \in Workers, Execution(w)
    PROVE  NoZombie'
<1> USE QueueAssumption DEF QueueInv, TypeOK, NoZombie, IdleHoldsNothing
<1>1. ASSUME NEW j \in Jobs, Claim(w, j) PROVE NoZombie'
  BY <1>1 DEF Claim, ClaimRow
<1>2. CASE Update(w) \/ Heartbeat(w)
  BY <1>2 DEF Update, Heartbeat, HeartbeatRow, workerVars
<1>3. CASE UpdateRejected(w) \/ \E how \in {"returned", "raised"} : HandlerEnds(w, how)
  BY <1>3 DEF UpdateRejected, HandlerEnds, jobVars
<1>4. CASE CompletionRejected(w) \/ WorkerDies(w)
  BY <1>4 DEF CompletionRejected, WorkerDies, Free, jobVars
<1>5. CASE MarkCompleted(w) \/ MarkFailed(w)
  <2>1. \A v \in Workers : pc[v] = "handler" => holds[v] \in Jobs /\ holds[v] # holds[w]
    BY <1>5 DEF MarkCompleted, MarkFailed, UniqueHolders
  <2>2. \A v \in Workers :
           pc'[v] = "handler" => v # w /\ pc[v] = "handler" /\ holds'[v] = holds[v]
    BY <1>5 DEF MarkCompleted, CompleteRow, MarkFailed, Free
  <2>3. \A j \in Jobs \ {holds[w]} : status'[j] = status[j]
    BY <1>5 DEF MarkCompleted, CompleteRow, MarkFailed, FailJobs
  <2> QED
    BY <2>1, <2>2, <2>3
<1> QED
  BY <1>1, <1>2, <1>3, <1>4, <1>5 DEF Execution

LEMMA OthersKeepHandlers ==
    ASSUME QueueInv, NoZombie, NothingAliveWhileDown,
           \/ \E j \in Jobs : Dispatch(j)
           \/ ReconcilerDies \/ ApiDies \/ ApiStarts \/ Tick \/ UNCHANGED vars
    PROVE  NoZombie'
<1> USE DEF QueueInv, TypeOK, NoZombie
<1>1. ASSUME NEW j \in Jobs, Submit(j) PROVE NoZombie'
  BY <1>1, QueueAssumption DEF Submit, workerVars, IdleHoldsNothing
<1>2. ASSUME NEW j \in Jobs, Dispatch(j), ~Submit(j) PROVE NoZombie'
  BY <1>2
  DEF Dispatch, Enqueue, EnqueueFails, LoseExecution, NotClaimed, Redispatch,
      RedispatchFails, jobVars, workerVars
<1>3. CASE ReconcilerDies \/ Tick \/ UNCHANGED vars
  BY <1>3 DEF ReconcilerDies, Tick, vars, jobVars, workerVars
<1>4. CASE ApiDies
  BY <1>4 DEF ApiDies
<1>5. CASE ApiStarts
  BY <1>5 DEF ApiStarts, NothingAliveWhileDown, workerVars
<1> QED
  BY <1>1, <1>2, <1>3, <1>4, <1>5

(***************************************************************************)
(* On the local backend a restart takes the threads with it, so no handler *)
(* ever runs on for a job that recover_interrupted_jobs has failed.        *)
(***************************************************************************)
THEOREM LocalHasNoZombies == Local => (Spec => []NoZombie)
<1> SUFFICES ASSUME Local PROVE Spec => []NoZombie
  OBVIOUS
<1> DEFINE I == QueueInv /\ NothingAliveWhileDown /\ NoZombie
<1>1. Init => I
  BY InitInv, InitAlive DEF Init, NoZombie
<1>2. I /\ [Next]_vars => I'
  <2> SUFFICES ASSUME I, [Next]_vars PROVE NoZombie'
    BY NextInv, NextAlive DEF QueueInv
  <2>1. ~Reconcile
    BY QueueAssumption DEF Reconcile, Local, Cloud
  <2> QED
    BY <2>1, ExecutionKeepsHandlers, OthersKeepHandlers DEF Next, Step
<1> QED
  BY <1>1, <1>2, PTL DEF Spec

LEMMA TimelyStep ==
    QueueInv /\ NothingAliveWhileDown /\ NoZombie /\ LeaseOutlastsBeat /\ [TimelyNext]_vars
        => NoZombie' /\ LeaseOutlastsBeat'
<1> SUFFICES ASSUME QueueInv, NothingAliveWhileDown, NoZombie, LeaseOutlastsBeat,
                    [TimelyNext]_vars
             PROVE  NoZombie' /\ LeaseOutlastsBeat'
  OBVIOUS
<1> USE QueueAssumption, DurationAssumption DEF QueueInv, TypeOK
<1>1. \A w \in Workers : pc[w] = "handler" => holds[w] \in Jobs
  BY DEF IdleHoldsNothing
<1>2. ASSUME NEW w \in Workers, Execution(w) PROVE LeaseOutlastsBeat'
  <2>1. ASSUME NEW j \in Jobs, Claim(w, j) PROVE LeaseOutlastsBeat'
    <3>1. \A v \in Workers : holds[v] # j
      BY <2>1 DEF Claim, HoldersRunOrFailed
    <3>2. \A v \in Workers \ {w} :
             pc'[v] = "handler" =>
                /\ pc[v] = "handler" /\ holds'[v] = holds[v] /\ due'[v] = due[v]
                /\ lease'[holds[v]] = lease[holds[v]]
      BY <1>1, <2>1, <3>1 DEF Claim, ClaimRow
    <3>3. holds'[w] = j /\ lease'[j] = LeaseDuration /\ due'[w] = HeartbeatInterval
      BY <2>1 DEF Claim, ClaimRow
    <3> QED
      BY <3>2, <3>3 DEF LeaseOutlastsBeat
  <2>2. CASE Update(w) \/ Heartbeat(w)
    <3>1. lease' = [lease EXCEPT ![holds[w]] = LeaseDuration] /\ UNCHANGED <<pc, holds>>
      BY <2>2 DEF Update, Heartbeat, HeartbeatRow, RenewLease, workerVars
    <3>2. \A v \in Workers : due'[v] = due[v] \/ (v = w /\ due'[v] = HeartbeatInterval)
      BY <2>2 DEF Update, Heartbeat, HeartbeatRow, workerVars
    <3>3. \A v \in Workers : pc[v] = "handler" /\ v # w => holds[v] # holds[w]
      BY <1>1 DEF UniqueHolders
    <3>4. pc[w] = "handler"
      BY <2>2 DEF Update, Heartbeat
    <3> QED
      BY <1>1, <3>1, <3>2, <3>3, <3>4 DEF LeaseOutlastsBeat
  <2>3. CASE UpdateRejected(w) \/ \E how \in {"returned", "raised"} : HandlerEnds(w, how)
    BY <2>3 DEF LeaseOutlastsBeat, UpdateRejected, HandlerEnds, jobVars
  <2>4. CASE CompletionRejected(w) \/ WorkerDies(w)
    BY <2>4 DEF LeaseOutlastsBeat, CompletionRejected, WorkerDies, Free, jobVars
  <2>5. CASE MarkCompleted(w) \/ MarkFailed(w)
    <3>1. \A v \in Workers :
             pc'[v] = "handler" =>
                /\ v # w /\ pc[v] = "handler"
                /\ holds'[v] = holds[v] /\ due'[v] = due[v]
      BY <2>5 DEF MarkCompleted, CompleteRow, MarkFailed, Free
    <3>2. \A v \in Workers \ {w} : pc[v] = "handler" => holds[v] # holds[w]
      BY <1>1 DEF UniqueHolders
    <3>3. \A j \in Jobs \ {holds[w]} : lease'[j] = lease[j]
      BY <2>5 DEF MarkCompleted, CompleteRow, MarkFailed, FailJobs
    <3> QED
      BY <1>1, <3>1, <3>2, <3>3 DEF LeaseOutlastsBeat
  <2> QED
    BY <1>2, <2>1, <2>2, <2>3, <2>4, <2>5 DEF Execution
<1>3. ASSUME \/ \E j \in Jobs : Dispatch(j)
             \/ ReconcilerDies \/ UNCHANGED vars
      PROVE  LeaseOutlastsBeat'
  <2>1. UNCHANGED <<lease, workerVars>>
    BY <1>3
    DEF Dispatch, Submit, Enqueue, EnqueueFails, LoseExecution, NotClaimed, Redispatch,
        RedispatchFails, ReconcilerDies, vars, jobVars
  <2> QED
    BY <2>1 DEF LeaseOutlastsBeat, workerVars
<1>4. CASE Reconcile
  <2>1. \A w \in Workers : pc[w] = "handler" => holds[w] \notin ExpiredJobs
    BY <1>1 DEF LeaseOutlastsBeat, ExpiredJobs
  <2>2. \A j \in Jobs \ ExpiredJobs : lease'[j] = lease[j] /\ status'[j] = status[j]
    BY <1>4 DEF Reconcile, FailJobs
  <2>3. UNCHANGED workerVars
    BY <1>4 DEF Reconcile
  <2> QED
    BY <1>1, <2>1, <2>2, <2>3 DEF LeaseOutlastsBeat, NoZombie, workerVars
<1>5. CASE ApiDies \/ ApiStarts
  <2>1. \A w \in Workers : pc'[w] = "idle"
    BY <1>5 DEF ApiDies, ApiStarts, NothingAliveWhileDown, workerVars
  <2> QED
    BY <2>1 DEF LeaseOutlastsBeat, NoZombie
<1>6. CASE TimelyTick
  <2>1. NoZombie'
    BY <1>6, OthersKeepHandlers DEF TimelyTick
  <2>2. SUFFICES ASSUME NEW w \in Workers, pc'[w] = "handler"
                 PROVE  (lease[holds[w]])' >= LeaseDuration - HeartbeatInterval + due'[w]
    BY <2>1 DEF LeaseOutlastsBeat
  <2>3. pc[w] = "handler" /\ holds'[w] = holds[w] /\ holds[w] \in Jobs
    BY <1>1, <1>6, <2>2 DEF TimelyTick, Tick
  <2>4. due[w] > 0 /\ due'[w] = due[w] - 1
    BY <1>6, <2>3 DEF TimelyTick, Tick, Down, NoZombie
  <2>5. lease[holds[w]] >= LeaseDuration - HeartbeatInterval + due[w]
    BY <2>3 DEF LeaseOutlastsBeat
  <2>6. lease[holds[w]] \in Int /\ due[w] \in Int
    BY <2>3 DEF NoLease
  <2>7. lease[holds[w]] > 0
    BY <2>4, <2>5, <2>6
  <2>8. lease'[holds[w]] = lease[holds[w]] - 1
    BY <1>6, <2>3, <2>6, <2>7 DEF TimelyTick, Tick, Down
  <2> QED
    BY <2>3, <2>4, <2>5, <2>6, <2>8
<1> QED
  BY <1>2, <1>3, <1>4, <1>5, <1>6, ExecutionKeepsHandlers, OthersKeepHandlers
  DEF TimelyNext, Step

(***************************************************************************)
(* In either deployment, while heartbeats keep time, no live handler loses *)
(* its job to the reconciler, whatever the durations, provided the         *)
(* interval is shorter than the lease as JobExecutor.__init__ demands.     *)
(***************************************************************************)
THEOREM TimelyHasNoZombies == TimelySpec => []NoZombie
<1> DEFINE I == QueueInv /\ NothingAliveWhileDown /\ NoZombie /\ LeaseOutlastsBeat
<1>1. Init => I
  BY InitInv, InitAlive DEF Init, NoZombie, LeaseOutlastsBeat
<1>2. [TimelyNext]_vars => [Next]_vars
  BY DEF TimelyNext, TimelyTick, Next
<1>3. I /\ [TimelyNext]_vars => I'
  BY <1>2, NextInv, NextAlive, TimelyStep DEF QueueInv
<1> QED
  BY <1>1, <1>3, PTL DEF TimelySpec

-----------------------------------------------------------------------------
(* Without any assumption on the punctuality of heartbeats: a lease only   *)
(* runs out on a worker whose heartbeat is due.                            *)

LeaseOutlastsWait ==
    \A w \in Workers :
        pc[w] = "handler" /\ status[holds[w]] = "running" => lease[holds[w]] >= due[w]

ExpiryInv == QueueInv /\ NothingAliveWhileDown /\ LeaseOutlastsWait

LEMMA ExecutionKeepsWait ==
    ASSUME ExpiryInv, NEW w \in Workers, Execution(w)
    PROVE  LeaseOutlastsWait'
<1> USE QueueAssumption, DurationAssumption DEF ExpiryInv, QueueInv, TypeOK
<1>1. \A v \in Workers : pc[v] = "handler" => holds[v] \in Jobs
  BY DEF IdleHoldsNothing
<1>2. ASSUME NEW j \in Jobs, Claim(w, j) PROVE LeaseOutlastsWait'
  <2>1. \A v \in Workers : holds[v] # j
    BY <1>2 DEF Claim, HoldersRunOrFailed
  <2>2. \A v \in Workers \ {w} :
           pc'[v] = "handler" =>
              /\ pc[v] = "handler" /\ holds'[v] = holds[v] /\ due'[v] = due[v]
              /\ lease'[holds[v]] = lease[holds[v]]
              /\ status'[holds[v]] = status[holds[v]]
    BY <1>1, <1>2, <2>1 DEF Claim, ClaimRow
  <2>3. holds'[w] = j /\ lease'[j] = LeaseDuration /\ due'[w] = HeartbeatInterval
    BY <1>2 DEF Claim, ClaimRow
  <2> QED
    BY <2>2, <2>3 DEF LeaseOutlastsWait
<1>3. CASE Update(w) \/ Heartbeat(w)
  <2>1. lease' = [lease EXCEPT ![holds[w]] = LeaseDuration] /\ UNCHANGED <<status, pc, holds>>
    BY <1>3 DEF Update, Heartbeat, HeartbeatRow, RenewLease, workerVars
  <2>2. \A v \in Workers : due'[v] = due[v] \/ (v = w /\ due'[v] = HeartbeatInterval)
    BY <1>3 DEF Update, Heartbeat, HeartbeatRow, workerVars
  <2>3. \A v \in Workers : pc[v] = "handler" /\ v # w => holds[v] # holds[w]
    BY <1>1 DEF UniqueHolders
  <2>4. pc[w] = "handler"
    BY <1>3 DEF Update, Heartbeat
  <2> QED
    BY <1>1, <2>1, <2>2, <2>3, <2>4 DEF LeaseOutlastsWait
<1>4. CASE UpdateRejected(w) \/ \E how \in {"returned", "raised"} : HandlerEnds(w, how)
  BY <1>4 DEF LeaseOutlastsWait, UpdateRejected, HandlerEnds, jobVars
<1>5. CASE CompletionRejected(w) \/ WorkerDies(w)
  BY <1>5 DEF LeaseOutlastsWait, CompletionRejected, WorkerDies, Free, jobVars
<1>6. CASE MarkCompleted(w) \/ MarkFailed(w)
  <2>1. \A v \in Workers :
           pc'[v] = "handler" =>
              v # w /\ pc[v] = "handler" /\ holds'[v] = holds[v] /\ due'[v] = due[v]
    BY <1>6 DEF MarkCompleted, CompleteRow, MarkFailed, Free
  <2>2. \A v \in Workers \ {w} : pc[v] = "handler" => holds[v] # holds[w]
    BY <1>1 DEF UniqueHolders
  <2>3. \A j \in Jobs \ {holds[w]} : lease'[j] = lease[j] /\ status'[j] = status[j]
    BY <1>6 DEF MarkCompleted, CompleteRow, MarkFailed, FailJobs
  <2> QED
    BY <1>1, <2>1, <2>2, <2>3 DEF LeaseOutlastsWait
<1> QED
  BY <1>2, <1>3, <1>4, <1>5, <1>6 DEF Execution

LEMMA OthersKeepWait ==
    ASSUME ExpiryInv,
           \/ \E j \in Jobs : Dispatch(j)
           \/ Reconcile \/ ReconcilerDies \/ ApiDies \/ ApiStarts \/ Tick \/ UNCHANGED vars
    PROVE  LeaseOutlastsWait'
<1> USE QueueAssumption, DurationAssumption DEF ExpiryInv, QueueInv, TypeOK
<1>1. \A w \in Workers : pc[w] = "handler" => holds[w] \in Jobs
  BY DEF IdleHoldsNothing
<1>2. ASSUME NEW j \in Jobs, Dispatch(j) PROVE LeaseOutlastsWait'
  <2>1. UNCHANGED <<lease, workerVars>> /\ \A k \in Jobs : status'[k] = "running" => status[k] = "running"
    BY <1>2
    DEF Dispatch, Submit, Enqueue, EnqueueFails, LoseExecution, NotClaimed, Redispatch,
        RedispatchFails, jobVars
  <2> QED
    BY <1>1, <2>1 DEF LeaseOutlastsWait, workerVars
<1>3. CASE Reconcile
  <2>1. \A j \in Jobs : status'[j] = "running" => status[j] = "running" /\ lease'[j] = lease[j]
    BY <1>3 DEF Reconcile, FailJobs
  <2>2. UNCHANGED workerVars
    BY <1>3 DEF Reconcile
  <2> QED
    BY <1>1, <2>1, <2>2 DEF LeaseOutlastsWait, workerVars
<1>4. CASE ReconcilerDies \/ UNCHANGED vars
  BY <1>4 DEF LeaseOutlastsWait, ReconcilerDies, vars, jobVars, workerVars
<1>5. CASE ApiDies \/ ApiStarts
  <2>1. \A w \in Workers : pc'[w] = "idle"
    BY <1>5 DEF ApiDies, ApiStarts, NothingAliveWhileDown, workerVars
  <2> QED
    BY <2>1 DEF LeaseOutlastsWait
<1>6. CASE Tick
  <2> SUFFICES ASSUME NEW w \in Workers, pc[w] = "handler", status[holds[w]] = "running"
               PROVE  lease'[holds[w]] >= due'[w]
    BY <1>6 DEF LeaseOutlastsWait, Tick
  <2>1. lease[holds[w]] >= due[w] /\ holds[w] \in Jobs
    BY <1>1 DEF LeaseOutlastsWait
  <2>2. lease[holds[w]] \in Int /\ due[w] \in Nat
    BY <2>1 DEF NoLease
  <2>3. lease'[holds[w]] = Down(lease[holds[w]]) /\ due'[w] = Down(due[w])
    BY <1>6, <2>1 DEF Tick
  <2> QED
    BY <2>1, <2>2, <2>3 DEF Down
<1> QED
  BY <1>2, <1>3, <1>4, <1>5, <1>6

(***************************************************************************)
(* However late heartbeats are, nobody fails the job of a worker that is   *)
(* not due to renew its lease: OnlyOverdueWorkersExpire.                   *)
(***************************************************************************)
THEOREM OnlySilentWorkersExpire == Spec => OnlyOverdueWorkersExpire
<1> DEFINE Kept == \A w \in Workers :
                      pc[w] = "handler" /\ due[w] > 0 /\ status[holds[w]] = "running"
                      => status'[holds[w]] # "failed"
<1>1. Init => ExpiryInv
  BY InitInv, InitAlive DEF Init, ExpiryInv, LeaseOutlastsWait
<1>2. ExpiryInv /\ [Next]_vars => ExpiryInv'
  <2> SUFFICES ASSUME ExpiryInv, [Next]_vars PROVE ExpiryInv'
    OBVIOUS
  <2>1. QueueInv' /\ NothingAliveWhileDown'
    BY NextInv, NextAlive DEF ExpiryInv, QueueInv
  <2>2. LeaseOutlastsWait'
    BY ExecutionKeepsWait, OthersKeepWait DEF Next, Step
  <2> QED
    BY <2>1, <2>2 DEF ExpiryInv
<1>3. ExpiryInv /\ [Next]_vars => [Kept]_vars
  <2> SUFFICES ASSUME ExpiryInv, Next, NEW w \in Workers,
                      pc[w] = "handler", due[w] > 0, status[holds[w]] = "running",
                      status'[holds[w]] = "failed"
               PROVE  FALSE
    OBVIOUS
  <2> USE QueueAssumption DEF ExpiryInv, QueueInv, TypeOK
  <2>1. holds[w] \in Jobs
    BY DEF IdleHoldsNothing
  <2>2. ASSUME NEW v \in Workers, Execution(v) PROVE FALSE
    <3>1. CASE MarkFailed(v)
      <4>1. v # w /\ status'[holds[w]] = IF holds[w] = holds[v] THEN "failed" ELSE "running"
        BY <2>1, <3>1 DEF MarkFailed, FailJobs
      <4> QED
        BY <2>1, <4>1 DEF UniqueHolders
    <3>2. CASE ~MarkFailed(v)
      BY <2>1, <2>2, <3>2
      DEF Execution, Claim, ClaimRow, Update, UpdateRejected, Heartbeat, HeartbeatRow, HandlerEnds,
          MarkCompleted, CompleteRow, CompletionRejected, WorkerDies, jobVars
    <3> QED
      BY <3>1, <3>2
  <2>3. ASSUME NEW j \in Jobs, Dispatch(j) PROVE FALSE
    BY <2>1, <2>3
    DEF Dispatch, Submit, Enqueue, EnqueueFails, LoseExecution, NotClaimed, Redispatch,
        RedispatchFails, jobVars
  <2>4. CASE Reconcile
    <3>1. holds[w] \in ExpiredJobs
      BY <2>1, <2>4 DEF Reconcile, FailJobs
    <3>2. lease[holds[w]] = 0 /\ lease[holds[w]] >= due[w]
      BY <3>1 DEF ExpiredJobs, LeaseOutlastsWait
    <3> QED
      BY <3>2, DurationAssumption
  <2>5. CASE ReconcilerDies \/ ApiDies \/ Tick
    BY <2>1, <2>5 DEF ReconcilerDies, ApiDies, Tick, jobVars
  <2>6. CASE ApiStarts
    BY <2>6 DEF ApiStarts, NothingAliveWhileDown
  <2> QED
    BY <2>2, <2>3, <2>4, <2>5, <2>6 DEF Next, Step
<1> QED
  BY <1>1, <1>2, <1>3, PTL DEF Spec, OnlyOverdueWorkersExpire

=============================================================================
