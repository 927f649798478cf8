CONSTANTS
    Callers = {c1}
    Ops = {"start", "cancel"}
    MaxRuns = 1
    MaxGens = 3
    MaxEdits = 0
    MaxCrashes = 0
    GraceExpires = FALSE
SPECIFICATION Spec
PROPERTIES QueuedIsPausedOnlyByPause
CHECK_DEADLOCK FALSE
