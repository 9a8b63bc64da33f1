------------------------------- MODULE MCJobs -------------------------------
(* Instances of Jobs for TLC: two jobs, one of them of an unregistered     *)
(* type in the runs that say so, and two workers that race for them.       *)
EXTENDS Jobs, TLC

WorkerSymmetry == Permutations(Workers)
=============================================================================
