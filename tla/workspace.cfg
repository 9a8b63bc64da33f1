SPECIFICATION WorkspaceSpec
CONSTANTS
    left = left
    right = right
    drawn = drawn
    page = page
    script = script
    Tracks = {left, right}
    Values = {drawn}
    NoValue = NoValue
    Detected <- NothingDetected
    Sessions = {page, script}
    Workspaces = {page}
    MaxRevision = 4
SYMMETRY TrackSymmetry
INVARIANTS DeskTypeOK StacksAreRebuilt OfferedRedoIsAccepted OfferedUndoIsAccepted
CHECK_DEADLOCK FALSE
