SPECIFICATION WorkspaceSpec
CONSTANTS
    left = left
    right = right
    drawn = drawn
    page = page
    script = script
    Tracks = {left, right}
    Values = {drawn}
    NoValue = NoValue
    Detected <- NothingDetected
    Sessions = {page, script}
    Workspaces = {page}
    MaxRevision = 3
INVARIANT RefreshedRedoIsAccepted
CHECK_DEADLOCK FALSE
