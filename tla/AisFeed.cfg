SPECIFICATION FairSpec
CONSTANTS
    v1 = v1
    v2 = v2
    Vessels = {v1, v2}
    Calls <- Shuttles
    MaxDwell = 1
    MaxBatch = 7
    FlushTicks = 3
    MaxRetries = 1
    MaxIterations = 4
CHECK_DEADLOCK FALSE
INVARIANTS CopiesBounded NothingForgotten ArrivalsExplain
PROPERTY StopEnds
