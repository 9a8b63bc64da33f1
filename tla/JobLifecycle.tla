---------------------------- MODULE JobLifecycle ----------------------------
(***************************************************************************)
(* What the job queue promises to the services that submit work and to the *)
(* reviewer who watches it: a job is started at most once, and an outcome, *)
(* once recorded, is final.  Who runs a job, over which channel it is      *)
(* dispatched, and how a dead worker is noticed are left to module Jobs.   *)
(***************************************************************************)
EXTENDS Naturals

CONSTANT Jobs

VARIABLES
    state,   \* state[j]: the status column of the job's row, or "absent"
    starts   \* starts[j]: how many executions of the handler were started

lifecycleVars == <<state, starts>>

States   == {"absent", "queued", "running", "completed", "failed"}
Outcomes == {"completed", "failed"}
Unfinished == {"queued", "running"}

LifecycleInit ==
    /\ state  = [j \in Jobs |-> "absent"]
    /\ starts = [j \in Jobs |-> 0]

Request(j) ==
    /\ state[j] = "absent"
    /\ state' = [state EXCEPT ![j] = "queued"]
    /\ UNCHANGED starts

Start(j) ==
    /\ state[j] = "queued"
    /\ state'  = [state EXCEPT ![j] = "running"]
    /\ starts' = [starts EXCEPT ![j] = @ + 1]

Complete(j) ==
    /\ state[j] = "running"
    /\ state' = [state EXCEPT ![j] = "completed"]
    /\ UNCHANGED starts

\* Several jobs can be given up in one transaction.
GiveUp(S) ==
    /\ \A j \in S : state[j] \in Unfinished
    /\ state' = [j \in Jobs |-> IF j \in S THEN "failed" ELSE state[j]]
    /\ UNCHANGED starts

LifecycleNext ==
    \/ \E j \in Jobs : Request(j) \/ Start(j) \/ Complete(j)
    \/ \E S \in SUBSET Jobs : GiveUp(S)

LifecycleSpec == LifecycleInit /\ [][LifecycleNext]_lifecycleVars

(***************************************************************************)
(* A consequence of the promise: no job is ever started twice.             *)
(***************************************************************************)
StartedAtMostOnce == \A j \in Jobs : starts[j] <= 1
=============================================================================
