SPECIFICATION Spec
CONSTANTS
    Ingest = ingest
    Detects = {d1}
    Exports = {e1}
    NoRun = NoRun
    Deployments = {"timely"}
    MaxRevision <- EditBound
SYMMETRY JobSymmetry
INVARIANT FrozenTracksAreRendered
CHECK_DEADLOCK FALSE
