SPECIFICATION CloudSpec
CONSTANTS
    Ingest = ingest
    Detects = {d1}
    Exports = {e1}
    NoRun = NoRun
    Deployments = {"cloud"}
    MaxRevision <- EditBound
PROPERTY ActivityEnds
CHECK_DEADLOCK FALSE
