SPECIFICATION Spec
CONSTANTS
    j1 = j1
    j2 = j2
    s1 = s1
    s2 = s2
    Jobs = {j1, j2}
    Sessions = {s1, s2}
    face = face
    plate = plate
    Classes = {face, plate}
    Corrected = {1}
    Spans <- GivenSpans
    Boxes = {"b1"}
    LastFrame = 2
    MaxEdits = 2
    MaxRevision = 3
    FrameRate = 2
    WindowSeconds = 1
    SamplesPerSecond = 2
    MaxFrames = 1
SYMMETRY Symmetry
INVARIANTS AcceptedNeverOverwrites AcceptedOnce SuggestionsFitSeed
PROPERTY ResolutionIsFinal
CHECK_DEADLOCK FALSE
