SPECIFICATION Spec
CONSTANTS
    Ingest = ingest
    Detects = {d1, d2}
    Exports = {e1}
    NoRun = NoRun
    Deployments = {"local", "timely", "cloud"}
    MaxRevision <- EditBound
CONSTRAINT OneLateWorker
SYMMETRY JobSymmetry
INVARIANTS StatusHasWork OutcomesAgree OneDetector
CHECK_DEADLOCK FALSE
