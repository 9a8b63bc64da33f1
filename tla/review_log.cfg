SPECIFICATION Spec
CONSTANTS
    plate = plate
    manual = manual
    v1 = v1
    v2 = v2
    s1 = s1
    s2 = s2
    Tracks = {plate, manual}
    Values = {v1, v2}
    NoValue = NoValue
    Detected <- DetectedTracks
    Sessions = {s1, s2}
    MaxRevision = 3
SYMMETRY SessionSymmetry
INVARIANTS LogIsGapFree BeforeStatesAreTrue InversesAreExact NoEditIsLost
PROPERTY ImplementsDocument
CHECK_DEADLOCK FALSE
