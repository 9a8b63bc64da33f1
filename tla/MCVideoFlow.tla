----------------------------- MODULE MCVideoFlow -----------------------------
(* One video with its ingest job and a few detections and exports.         *)
EXTENDS VideoFlow, TLC

\* One edit of a reviewer where a lease is not cut short.
EditBound == [d \in Deployments |-> IF d = "cloud" THEN 0 ELSE 1]

JobSymmetry == Permutations(Exports) \cup Permutations(Detects)

\* Bound: at most one worker at a time goes on after its job was given up.
OneLateWorker ==
    Cardinality({j \in Jobs : stage[j] \notin {"none", "requesting"} /\ ~Alive(j)}) <= 1

=============================================================================
