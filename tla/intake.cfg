SPECIFICATION Spec
CONSTANTS
    Size = 3
    ChunkSize = 2
    MaxRetries = 2
    Direct = Direct
    Others = {v1}
    v1 = v1
    Contents = {"a"}
    Uploaded = "a"
    c1 = c1
    c2 = c2
    Callers = {c1, c2}
INVARIANTS IntakeIsConsistent NoByteIsSkipped AcceptedIsWhole CompletionIsIdempotent ContentStoredOnce
PROPERTY UploadEnds
CHECK_DEADLOCK FALSE
