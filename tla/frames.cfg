SPECIFICATION Spec
CONSTANTS
    Concurrency <- Widths
    SampleEvery = 2
    LastFrame = 4
    Clips <- MCClips
    MaxGap = 1
    Duplicate = 1440
    Near = 1440
    Reach = 2160
    Leftmost = 1440
    Rightmost = 7200
    Encoders <- MCEncoders
    Tolerance = 1
    Sightings <- MCSightings
    Places <- MCPlaces
    MaxEdits = 1
INVARIANTS FlowIsConsistent TheTailIsAnalysed TracksOweToDetections DetectedIsRedacted ShownAsReviewed
PROPERTIES SpanEditsMoveNothing FlowEnds
CHECK_DEADLOCK FALSE
